------------------------ MODULE AccountPurgesProofs ------------------------
(***************************************************************************)
(* Proofs about the purge log of AccountSync: an erased notebook's purge   *)
(* stays, above the cursor, until the devices that were never revoked have *)
(* dropped the notebook; only the others can bring its id back.            *)
(***************************************************************************)
EXTENDS AccountSyncProofs

----------------------------------------------------------------------------
(* What a device has yet to be told.                                       *)

Owed(d)    == (held[d] \cap erased) \ Stored
Carried(d) == (Delivered(pull[d]) \cap erased) \ Stored

(* Its copy of an erased notebook lies below the purge, and so does every  *)
(* cursor it can come to acknowledge before it drops the copy.  The page   *)
(* it is being sent either ends below the purge too, or has it among those *)
(* that were read; a notebook that is itself on the page was erased after  *)
(* the page's end was fixed.                                               *)
Told(d) ==
  /\ Active(d)
  /\ \A n \in Owed(d) :
       /\ purges[n] > cursor[d]
       /\ purges[n] > devices[d].pulled
       /\ purges[n] > pull[d].since
       /\ pull[d].phase \in {"purges", "acked"} => purges[n] > pull[d].end \/ n \in pull[d].gone
  /\ \A n \in Carried(d) :
       /\ purges[n] > pull[d].end
       /\ purges[n] > devices[d].pulled
       /\ purges[n] > pull[d].since

IdsKnown ==
  /\ Stored \subseteq created
  /\ erased \subseteq created
  /\ \A n \in erased : KindOf[n] = "notebook"
Acknowledged == \A d \in Device : devices[d].pulled <= changeSeq /\ pull[d].since <= changeSeq

(* The inductive invariant.  That a push brings no copy of an erased       *)
(* notebook to a device needs the ids to be known; that an erasure's purge *)
(* lies above every cursor, in flight or acknowledged, needs the bounds of *)
(* DeliveryInv; that no other row's erasure takes a notebook, TreeInv.     *)
PurgeInv == /\ DeliveryInv /\ TreeInv /\ IdsKnown /\ Acknowledged
            /\ \A d \in Device \ wasRevoked : Told(d)

(* Nobody has been told anything of an account nobody has written to.      *)
LEMMA PurgeInit == Init => PurgeInv
<1> SUFFICES ASSUME Init PROVE PurgeInv
  OBVIOUS
<1>1. IdsKnown
  BY DEF Init, IdsKnown, Stored, NoRow
<1>2. Acknowledged
  BY DEF Init, Acknowledged, NoPull
<1>3. \A d \in Device : Told(d)
  BY DEF Init, Told, Active, Owed, Carried
<1> QED
  BY <1>1, <1>2, <1>3, DeliveryInit, TreeInit DEF PurgeInv

(* A device is told as before when nothing of its own changes, no row goes *)
(* and no copy of an erased notebook comes to it.                          *)
LEMMA ToldKept ==
  ASSUME NEW d \in Device, Told(d), UNCHANGED <<purges, erased>>, Stored \subseteq Stored',
         devices'[d] = devices[d], pull'[d] = pull[d], cursor'[d] = cursor[d],
         held'[d] \cap erased \subseteq held[d]
  PROVE  Told(d)'
BY DEF Told, Active, Owed, Carried, Delivered

(* An erasure takes one notebook, with a purge above every sequence; a     *)
(* purge an active device has not acknowledged stays.                      *)
LEMMA ErasureEffect ==
  ASSUME TypeOK, TreeTyped, NEW n \in Entity, DeleteArchivedNotebook(n)
  PROVE  /\ n \in Stored /\ n \notin Stored' /\ Stored' \subseteq Stored
         /\ KindOf[n] = "notebook"
         /\ \A e \in Stored \ {n} : KindOf[e] = "notebook" => e \in Stored'
         /\ purges'[n] = changeSeq + 1
         /\ \A d \in Device, e \in Entity \ {n} :
              Active(d) /\ devices[d].pulled < purges[e] => purges'[e] = purges[e]
<1> DEFINE parentOf == [e \in Stored |-> rows[e].parent]
           tree     == Subtree(parentOf, n)
<1>1. n \in Stored /\ KindOf[n] = "notebook"
  BY DEF DeleteArchivedNotebook
<1>2. \A e \in Entity : rows'[e] = IF e \in tree THEN NoRow ELSE rows[e]
  BY DEF DeleteArchivedNotebook
<1>3. Stored' = Stored \ tree
  <2>1. \A e \in Entity : rows'[e].ver > 0 <=> rows[e].ver > 0 /\ e \notin tree
    BY <1>2 DEF NoRow
  <2> HIDE DEF tree
  <2> QED
    BY <2>1 DEF Stored
<1>4. n \in tree
  BY DEF Subtree
<1>5. ASSUME NEW e \in Stored \ {n}, KindOf[e] = "notebook", e \in tree
      PROVE  FALSE
  <2>1. rows[e].parent \in Entity
    BY <1>1, <1>5 DEF Subtree, Under, Stored
  <2>2. rows[e].parent = NoEntity
    BY <1>5 DEF TreeTyped, Parents, IsRoot, ParentKind, Kinds
  <2> QED
    BY <2>1, <2>2, KindsAssumption
<1>6. purges' = [Pruned(purges) EXCEPT ![n] = changeSeq + 1]
  BY DEF DeleteArchivedNotebook
<1>7. \A d \in Device, e \in Entity \ {n} :
        Active(d) /\ devices[d].pulled < purges[e] => purges'[e] = purges[e]
  BY <1>6 DEF Pruned
<1>8. purges'[n] = changeSeq + 1
  BY <1>6 DEF Pruned
<1> QED
  BY <1>1, <1>3, <1>4, <1>5, <1>7, <1>8

(* The writers of the log: a push gives nobody a copy of an erased         *)
(* notebook, for it sends what its client holds or an id that is new; an   *)
(* erasure's own purge lies above every cursor, and prunes no purge that a *)
(* device is still owed.                                                   *)
LEMMA WritersTell ==
  ASSUME PurgeInv, NEW d \in Device \ wasRevoked,
         \/ \E p \in Pusher, b \in Batch : Push(p, b)
         \/ \E n \in Entity : DeleteArchivedNotebook(n)
         \/ \E n \in Entity : StopHostingCloudNotebook(n)
  PROVE  Told(d)'
<1>1. TypeOK /\ TreeTyped /\ IdsKnown /\ Acknowledged /\ Told(d) /\ PageInv(d)
  BY DEF PurgeInv, DeliveryInv, TreeInv
<1>2. ASSUME NEW p \in Pusher, NEW b \in Batch, Push(p, b)
      PROVE  Told(d)'
  <2>1. p \in Device
    BY SyncAssumption
  <2>2. /\ UNCHANGED <<purges, erased, devices, pull, cursor>>
        /\ \A e \in DOMAIN b : e \in held[p] \/ e \notin created
        /\ held'[d] \subseteq held[d] \cup (IF d = p THEN DOMAIN b ELSE {})
    <3>1. /\ UNCHANGED <<purges, erased, devices, pull, cursor>>
          /\ \A e \in DOMAIN b : e \in held[p] \/ e \notin created
      BY <1>2 DEF Push, Sendable
    <3>2. PICK gone : \/ held' = [held EXCEPT ![p] = (held[p] \cup DOMAIN b) \ gone]
                      \/ held' = [held EXCEPT ![p] = held[p] \cup DOMAIN b]
      BY <1>2 DEF Push
    <3>3. held \in [Device -> SUBSET Entity]
      BY <1>1 DEF TypeOK
    <3> QED
      BY <2>1, <3>1, <3>2, <3>3
  <2>3. held'[d] \cap erased \subseteq held[d]
    BY <1>1, <2>2 DEF IdsKnown
  <2>4. Stored \subseteq Stored'
    BY <1>1, <1>2, PushStores
  <2> QED
    BY <1>1, <2>2, <2>3, <2>4, ToldKept
<1>3. ASSUME NEW n \in Entity, DeleteArchivedNotebook(n)
      PROVE  Told(d)'
  <2>1. /\ UNCHANGED <<devices, pull, held, cursor>> /\ erased' = erased \cup {n}
    BY <1>3 DEF DeleteArchivedNotebook, client
  <2>2. /\ n \notin Stored' /\ purges'[n] = changeSeq + 1
        /\ \A e \in Stored \ {n} : KindOf[e] = "notebook" => e \in Stored'
        /\ \A e \in Entity \ {n} :
             Active(d) /\ devices[d].pulled < purges[e] => purges'[e] = purges[e]
    BY <1>1, <1>3, ErasureEffect
  <2>3. Owed(d)' \subseteq Owed(d) \cup {n} /\ Carried(d)' \subseteq Carried(d) \cup {n}
    BY <1>1, <2>1, <2>2 DEF Owed, Carried, Delivered, IdsKnown
  <2>4. /\ purges'[n] > cursor[d] /\ purges'[n] > devices[d].pulled
        /\ purges'[n] > pull[d].since /\ purges'[n] > pull[d].end
    <3>1. /\ changeSeq \in Nat /\ cursor[d] \in Nat /\ devices[d].pulled \in Nat
          /\ pull[d].since \in Nat /\ pull[d].end \in Nat /\ pull[d].upper \in Nat
      BY <1>1 DEF TypeOK, Pull
    <3>2. /\ cursor[d] <= changeSeq /\ devices[d].pulled <= changeSeq
          /\ pull[d].since <= changeSeq /\ pull[d].end <= changeSeq
      BY <1>1, <3>1 DEF PageInv, Acknowledged
    <3> QED
      BY <2>2, <3>1, <3>2
  <2>5. ASSUME NEW e \in (Owed(d) \cup Carried(d)) \ {n}
        PROVE  purges'[e] = purges[e]
    <3>1. e \in Entity /\ purges[e] \in Nat /\ devices[d].pulled \in Nat
      BY <1>1 DEF Owed, Carried, Delivered, TypeOK
    <3>2. Active(d) /\ purges[e] > devices[d].pulled
      BY <1>1 DEF Told
    <3> QED
      BY <2>2, <3>1, <3>2
  <2> QED
    BY <1>1, <2>1, <2>3, <2>4, <2>5 DEF Told, Active
<1>4. ASSUME NEW n \in Entity, StopHostingCloudNotebook(n)
      PROVE  Told(d)'
  <2>1. UNCHANGED <<purges, erased, devices, pull, cursor, held>>
    BY <1>4 DEF StopHostingCloudNotebook, client, history
  <2>2. Stored \subseteq Stored'
    BY <1>1, <1>4, StopStores
  <2> QED
    BY <1>1, <2>1, <2>2, ToldKept
<1> QED
  BY <1>2, <1>3, <1>4

(* A pull of the device itself.  It reads every purge between the cursor   *)
(* it was sent and the one it will return, so what the client keeps after  *)
(* it applied the page is erased above its new cursor; and what it         *)
(* acknowledges is the cursor it was sent.                                 *)
LEMMA PullTells ==
  ASSUME PurgeInv, TypeOK', NEW d \in Puller, d \in Device \ wasRevoked,
         PullStep(d) \/ PullLost(d)
  PROVE  Told(d)'
<1>1. TypeOK /\ Acknowledged /\ Told(d) /\ PageInv(d)
  BY DEF PurgeInv, DeliveryInv
<1>2. /\ UNCHANGED <<changeSeq, purges, rows, erased>> /\ Stored' = Stored
      /\ devices'[d].status = devices[d].status
  BY <1>1 DEF PullStep, PullLost, PullBound, PullCutoff, PullDelta, PullPurges, PullAcknowledge,
     PullApply, server, history, Stored, TypeOK
<1>3. /\ \A e \in Entity : purges[e] \in Nat
      /\ cursor[d] \in Nat /\ devices[d].pulled \in Nat /\ changeSeq \in Nat
      /\ pull[d] \in Pull /\ pull[d].since \in Nat /\ pull[d].end \in Nat
  BY <1>1 DEF TypeOK, Pull
<1>4. \A n \in Owed(d) \cup Carried(d) : n \in Entity
  BY <1>1 DEF Owed, Carried, Delivered, TypeOK
<1>5. Delivered(NoPull) = {} /\ NoPull.since = 0 /\ NoPull.phase = "idle" /\ NoPull.end = 0
  BY DEF Delivered, NoPull, NoCopy
<1>6. CASE PullBound(d)
  <2>1. /\ UNCHANGED <<devices, held, cursor>>
        /\ pull'[d].since = cursor[d] /\ pull'[d].phase \in {"delta", "bounded"}
        /\ pull'[d].page = NoPull.page
    BY <1>1, <1>6 DEF PullBound, client, TypeOK, NoPull
  <2>2. Owed(d)' = Owed(d) /\ Carried(d)' = {}
    BY <1>2, <1>5, <2>1 DEF Owed, Carried, Delivered
  <2> QED
    BY <1>1, <1>2, <2>1, <2>2 DEF Told, Active
<1>7. CASE PullCutoff(d)
  <2>1. /\ UNCHANGED <<devices, held, cursor>>
        /\ pull'[d].since = pull[d].since /\ pull'[d].phase \in {"delta", "cut"}
        /\ pull'[d].page = pull[d].page /\ pull[d].phase = "bounded"
    BY <1>1, <1>7 DEF PullCutoff, client, TypeOK
  <2>2. Owed(d)' = Owed(d) /\ Carried(d)' = {}
    BY <1>1, <1>2, <2>1 DEF Owed, Carried, Delivered, PageInv, Rendered
  <2> QED
    BY <1>1, <1>2, <2>1, <2>2 DEF Told, Active
<1>8. CASE PullDelta(d)
  <2>1. /\ UNCHANGED <<devices, held, cursor>>
        /\ pull'[d].since = pull[d].since /\ pull'[d].phase = "delta"
        /\ \A e \in Entity : pull'[d].page[e].seq > 0 => e \in Stored
    <3>1. UNCHANGED <<devices, held, cursor>> /\ pull'[d].since = pull[d].since
          /\ pull'[d].phase = "delta"
      BY <1>1, <1>8 DEF PullDelta, client, TypeOK
    <3>2. \A e \in Entity : e \notin RowsBetween(pull[d].since, pull[d].end) =>
            pull'[d].page[e] = NoCopy
      BY <1>1, <1>8 DEF PullDelta, TypeOK
    <3> QED
      BY <3>1, <3>2 DEF RowsBetween, NoCopy
  <2>2. Owed(d)' = Owed(d) /\ Carried(d)' = {}
    BY <1>2, <2>1 DEF Owed, Carried, Delivered
  <2> QED
    BY <1>1, <1>2, <2>1, <2>2 DEF Told, Active
<1>9. CASE PullPurges(d)
  <2>1. /\ UNCHANGED <<devices, held, cursor>>
        /\ pull'[d].since = pull[d].since /\ pull'[d].end = pull[d].end
        /\ pull'[d].page = pull[d].page
        /\ pull'[d].gone = {e \in Entity : pull[d].since < purges[e] /\ purges[e] <= pull[d].end}
    BY <1>1, <1>9 DEF PullPurges, client, TypeOK
  <2>2. Owed(d)' = Owed(d) /\ Carried(d)' = Carried(d)
    BY <1>2, <2>1 DEF Owed, Carried, Delivered
  <2>3. \A n \in Owed(d) : purges[n] > pull[d].end \/ n \in pull'[d].gone
    BY <1>1, <1>3, <1>4, <2>1 DEF Told
  <2> QED
    BY <1>1, <1>2, <2>1, <2>2, <2>3 DEF Told, Active
<1>10. CASE PullAcknowledge(d)
  <2>1. /\ UNCHANGED <<held, cursor>> /\ pull[d].phase = "purges"
        /\ pull'[d].since = pull[d].since /\ pull'[d].end = pull[d].end
        /\ pull'[d].page = pull[d].page /\ pull'[d].gone = pull[d].gone
        /\ devices'[d].pulled \in {devices[d].pulled, pull[d].since}
    BY <1>1, <1>10 DEF PullAcknowledge, client, TypeOK
  <2>2. Owed(d)' = Owed(d) /\ Carried(d)' = Carried(d)
    BY <1>2, <2>1 DEF Owed, Carried, Delivered
  <2> QED
    BY <1>1, <1>2, <2>1, <2>2 DEF Told, Active
<1>11. CASE PullApply(d)
  <2>1. /\ pull[d].phase = "acked" /\ devices' = devices
        /\ pull'[d] = NoPull /\ cursor'[d] = pull[d].end
    BY <1>1, <1>11 DEF PullApply, TypeOK
  <2>2. held'[d] \subseteq (held[d] \cup Delivered(pull[d])) \ pull[d].gone
    <3>1. ASSUME NEW present, NEW copies
          PROVE  pull[d].gone \subseteq Dropped(present, copies, pull[d].gone)
      BY DEF Dropped, Subtree
    <3>2. PICK now : held'[d] = (held[d] \cup Delivered(pull[d]))
                                  \ Dropped(held[d] \cup Delivered(pull[d]), now, pull[d].gone)
      BY <1>1, <1>11 DEF PullApply, TypeOK
    <3> QED
      BY <3>1, <3>2
  <2>3. Carried(d)' = {}
    BY <1>5, <2>1 DEF Carried
  <2>4. ASSUME NEW n \in Owed(d)'
        PROVE  /\ purges[n] > pull[d].end /\ purges[n] > devices[d].pulled /\ purges[n] > 0
    <3>1. n \in Owed(d) \cup Carried(d) /\ n \notin pull[d].gone
      BY <1>2, <2>2 DEF Owed, Carried
    <3>2. purges[n] > pull[d].end /\ purges[n] > devices[d].pulled
      BY <1>1, <2>1, <3>1 DEF Told
    <3> QED
      BY <1>3, <1>4, <3>1, <3>2
  <2> QED
    BY <1>1, <1>2, <1>5, <2>1, <2>3, <2>4 DEF Told, Active
<1>12. CASE PullLost(d)
  <2>1. UNCHANGED <<devices, held, cursor>> /\ pull'[d] = NoPull
    BY <1>1, <1>12 DEF PullLost, client, TypeOK
  <2>2. Owed(d)' = Owed(d) /\ Carried(d)' = {}
    BY <1>2, <1>5, <2>1 DEF Owed, Carried
  <2>3. \A n \in Owed(d) : purges[n] > 0
    BY <1>1, <1>3, <1>4 DEF Told
  <2> QED
    BY <1>1, <1>2, <1>5, <2>1, <2>2, <2>3 DEF Told, Active
<1> QED
  BY <1>6, <1>7, <1>8, <1>9, <1>10, <1>11, <1>12 DEF PullStep

(* Every step keeps the ids known and the cursors below the account's.     *)
LEMMA BoundsStep ==
  ASSUME PurgeInv, DeliveryInv', [Next]_vars
  PROVE  IdsKnown' /\ Acknowledged'
<1>1. TypeOK /\ TypeOK' /\ TreeTyped /\ IdsKnown /\ Acknowledged /\ \A d \in Device : PageInv(d)
  BY DEF PurgeInv, DeliveryInv, TreeInv
<1>2. /\ changeSeq \in Nat /\ changeSeq' \in Nat
      /\ \A d \in Device : /\ devices[d].pulled \in Nat /\ pull[d].since \in Nat
                           /\ cursor[d] \in Nat /\ cursor[d] <= changeSeq
  BY <1>1 DEF TypeOK, Pull, PageInv
<1>3. ASSUME UNCHANGED <<devices, pull>>, changeSeq <= changeSeq'
      PROVE  Acknowledged'
  BY <1>1, <1>2, <1>3 DEF Acknowledged
<1>4. ASSUME UNCHANGED <<rows, created, erased>>
      PROVE  IdsKnown'
  BY <1>1, <1>4 DEF IdsKnown, Stored
<1>5. ASSUME NEW p \in Pusher, NEW b \in Batch, Push(p, b)
      PROVE  IdsKnown' /\ Acknowledged'
  <2>1. /\ UNCHANGED <<devices, pull, erased>> /\ created' = created \cup DOMAIN b
        /\ changeSeq <= changeSeq'
    BY <1>2, <1>5 DEF Push
  <2>2. Stored' = Stored \cup Accepted(b) /\ Accepted(b) \subseteq DOMAIN b
    BY <1>1, <1>5, PushStores, AcceptedInBatch
  <2> QED
    BY <1>1, <1>3, <2>1, <2>2 DEF IdsKnown
<1>6. ASSUME NEW n \in Entity, DeleteArchivedNotebook(n)
      PROVE  IdsKnown' /\ Acknowledged'
  <2>1. /\ UNCHANGED <<devices, pull, created>> /\ erased' = erased \cup {n}
        /\ changeSeq <= changeSeq'
    BY <1>2, <1>6 DEF DeleteArchivedNotebook
  <2>2. n \in Stored /\ Stored' \subseteq Stored /\ KindOf[n] = "notebook"
    BY <1>1, <1>6, ErasureEffect
  <2> QED
    BY <1>1, <1>3, <2>1, <2>2 DEF IdsKnown
<1>7. ASSUME NEW n \in Entity, StopHostingCloudNotebook(n)
      PROVE  IdsKnown' /\ Acknowledged'
  <2>1. UNCHANGED <<devices, pull, created, erased>> /\ changeSeq <= changeSeq'
    BY <1>2, <1>7 DEF StopHostingCloudNotebook, history
  <2>2. Stored' \subseteq Stored
    BY <1>1, <1>7, StopStores
  <2> QED
    BY <1>1, <1>3, <2>1, <2>2 DEF IdsKnown
<1>8. ASSUME NEW d \in Device, RegisterDevice(d)
      PROVE  IdsKnown' /\ Acknowledged'
  <2>1. /\ UNCHANGED <<changeSeq, rows, created, erased>>
        /\ devices' = [devices EXCEPT ![d] = [status |-> "active", pulled |-> 0]]
    BY <1>8 DEF RegisterDevice, server, history
  <2>2. \A c \in Device : pull'[c].since = pull[c].since \/ pull'[c].since = 0
    BY <1>1, <1>8 DEF RegisterDevice, TypeOK, NoPull
  <2>3. \A c \in Device : devices'[c].pulled = devices[c].pulled \/ devices'[c].pulled = 0
    BY <1>1, <2>1 DEF TypeOK
  <2> QED
    BY <1>1, <1>2, <1>4, <2>1, <2>2, <2>3 DEF Acknowledged
<1>9. ASSUME NEW d \in Device, RevokeDevice(d)
      PROVE  IdsKnown' /\ Acknowledged'
  BY <1>1, <1>4, <1>9 DEF RevokeDevice, server, Acknowledged, TypeOK
<1>10. ASSUME NEW gone \in SUBSET Device, DeleteRevokedDevices(gone)
       PROVE  IdsKnown' /\ Acknowledged'
  <2>1. UNCHANGED <<changeSeq, rows, created, erased, pull>>
    BY <1>10 DEF DeleteRevokedDevices, server, history
  <2>2. \A c \in Device : devices'[c].pulled = devices[c].pulled \/ devices'[c].pulled = 0
    BY <1>10 DEF DeleteRevokedDevices
  <2> QED
    BY <1>1, <1>2, <1>4, <2>1, <2>2 DEF Acknowledged
<1>11. ASSUME NEW d \in Puller, PullStep(d) \/ PullLost(d)
       PROVE  IdsKnown' /\ Acknowledged'
  <2>1. d \in Device
    BY SyncAssumption
  <2>2. UNCHANGED <<changeSeq, rows, created, erased>>
    BY <1>11 DEF PullStep, PullLost, PullBound, PullCutoff, PullDelta, PullPurges,
       PullAcknowledge, PullApply, server, history
  <2>3. /\ \A c \in Device \ {d} : pull'[c] = pull[c] /\ devices'[c] = devices[c]
        /\ pull'[d].since \in {pull[d].since, cursor[d], 0}
        /\ devices'[d].pulled \in {devices[d].pulled, pull[d].since}
    <3>1. CASE PullBound(d)
      BY <1>1, <2>1, <3>1 DEF PullBound, TypeOK
    <3>2. CASE PullCutoff(d)
      BY <1>1, <2>1, <3>2 DEF PullCutoff, TypeOK
    <3>3. CASE PullDelta(d)
      BY <1>1, <2>1, <3>3 DEF PullDelta, TypeOK
    <3>4. CASE PullPurges(d)
      BY <1>1, <2>1, <3>4 DEF PullPurges, TypeOK
    <3>5. CASE PullAcknowledge(d)
      BY <1>1, <2>1, <3>5 DEF PullAcknowledge, TypeOK
    <3>6. CASE PullApply(d) \/ PullLost(d)
      BY <1>1, <2>1, <3>6 DEF PullApply, PullLost, TypeOK, NoPull
    <3> QED
      BY <1>11, <3>1, <3>2, <3>3, <3>4, <3>5, <3>6 DEF PullStep
  <2> QED
    BY <1>1, <1>2, <1>4, <2>2, <2>3 DEF Acknowledged
<1>12. CASE UNCHANGED vars
  BY <1>3, <1>4, <1>2, <1>12 DEF vars, server, history
<1> QED
  BY <1>5, <1>6, <1>7, <1>8, <1>9, <1>10, <1>11, <1>12 DEF Next

(* Every step keeps what the devices are told: one case per action.        *)
LEMMA PurgeStep == PurgeInv /\ [Next]_vars => PurgeInv'
<1> SUFFICES ASSUME PurgeInv, [Next]_vars PROVE PurgeInv'
  OBVIOUS
<1>1. DeliveryInv' /\ TreeInv'
  BY DeliveryStep, TreeStep DEF PurgeInv
<1>2. TypeOK /\ TypeOK'
  BY <1>1 DEF PurgeInv, DeliveryInv
<1>3. IdsKnown' /\ Acknowledged'
  BY <1>1, BoundsStep
<1>4. ASSUME NEW d \in Device \ wasRevoked'
      PROVE  Told(d)'
  <2>1. wasRevoked \subseteq wasRevoked'
    BY DEF Next, vars, Push, DeleteArchivedNotebook, StopHostingCloudNotebook, RegisterDevice,
       RevokeDevice, DeleteRevokedDevices, PullStep, PullLost, PullBound, PullCutoff, PullDelta,
       PullPurges, PullAcknowledge, PullApply, history
  <2>2. d \in Device \ wasRevoked /\ Told(d)
    BY <2>1 DEF PurgeInv
  <2>3. CASE \/ \E p \in Pusher, b \in Batch : Push(p, b)
             \/ \E n \in Entity : DeleteArchivedNotebook(n)
             \/ \E n \in Entity : StopHostingCloudNotebook(n)
    BY <2>2, <2>3, WritersTell
  <2>4. ASSUME NEW c \in Device, RegisterDevice(c)
        PROVE  Told(d)'
    <3>1. UNCHANGED <<purges, erased>> /\ Stored' = Stored
      BY <2>4 DEF RegisterDevice, server, history, Stored
    <3>2. CASE c # d
      BY <1>2, <2>2, <2>4, <3>1, <3>2, ToldKept DEF RegisterDevice, client, TypeOK
    <3>3. CASE c = d
      <4>1. /\ devices'[d] = [status |-> "active", pulled |-> 0]
            /\ pull'[d] = [pull[d] EXCEPT !.awaited = FALSE]
        BY <1>2, <2>2, <2>4, <3>3 DEF RegisterDevice, Told, Active, TypeOK
      <4>2. /\ pull'[d].phase = pull[d].phase /\ pull'[d].since = pull[d].since
            /\ pull'[d].end = pull[d].end /\ pull'[d].gone = pull[d].gone
            /\ pull'[d].page = pull[d].page
        BY <1>2, <4>1 DEF TypeOK, Pull
      <4>3. Carried(d)' = Carried(d)
        BY <3>1, <4>2 DEF Carried, Delivered
      <4>4. Owed(d)' \subseteq Owed(d) /\ (Owed(d)' # {} => cursor'[d] = cursor[d])
        BY <1>2, <2>4, <3>1, <3>3 DEF RegisterDevice, client, Owed, TypeOK
      <4>5. \A n \in Owed(d) \cup Carried(d) : purges[n] > 0
        <5>1. \A n \in Owed(d) \cup Carried(d) : purges[n] > devices[d].pulled /\ n \in Entity
          BY <1>2, <2>2 DEF Told, Owed, Carried, Delivered, TypeOK
        <5>2. devices[d].pulled \in Nat /\ \A n \in Entity : purges[n] \in Nat
          BY <1>2 DEF TypeOK
        <5> QED
          BY <5>1, <5>2
      <4> QED
        BY <2>2, <3>1, <4>1, <4>2, <4>3, <4>4, <4>5 DEF Told, Active
    <3> QED
      BY <3>2, <3>3
  <2>5. ASSUME NEW c \in Device, RevokeDevice(c)
        PROVE  Told(d)'
    <3>1. c # d
      BY <2>5 DEF RevokeDevice
    <3>2. UNCHANGED <<purges, erased, pull, cursor, held>> /\ Stored' = Stored
      BY <2>5 DEF RevokeDevice, server, client, Stored
    <3>3. devices'[d] = devices[d]
      BY <1>2, <2>5, <3>1 DEF RevokeDevice, TypeOK
    <3> QED
      BY <2>2, <3>2, <3>3, ToldKept
  <2>6. ASSUME NEW gone \in SUBSET Device, DeleteRevokedDevices(gone)
        PROVE  Told(d)'
    <3>1. UNCHANGED <<purges, erased, pull, cursor, held>> /\ Stored' = Stored
      BY <2>6 DEF DeleteRevokedDevices, server, client, history, Stored
    <3>2. devices'[d] = devices[d]
      BY <2>2, <2>6 DEF DeleteRevokedDevices, Told, Active
    <3> QED
      BY <2>2, <3>1, <3>2, ToldKept
  <2>7. ASSUME NEW c \in Puller, PullStep(c) \/ PullLost(c)
        PROVE  Told(d)'
    <3>1. CASE c = d
      BY <1>2, <2>2, <2>7, <3>1, PullTells
    <3>2. CASE c # d
      <4>1. c \in Device
        BY SyncAssumption
      <4>2. UNCHANGED <<purges, erased>> /\ Stored' = Stored
        BY <2>7 DEF PullStep, PullLost, PullBound, PullCutoff, PullDelta, PullPurges,
           PullAcknowledge, PullApply, server, history, Stored
      <4>3. /\ devices'[d] = devices[d] /\ pull'[d] = pull[d]
            /\ cursor'[d] = cursor[d] /\ held'[d] = held[d]
        BY <1>2, <2>7, <3>2, <4>1 DEF PullStep, PullLost, PullBound, PullCutoff, PullDelta,
           PullPurges, PullAcknowledge, PullApply, client, TypeOK
      <4> QED
        BY <2>2, <4>2, <4>3, ToldKept
    <3> QED
      BY <3>1, <3>2
  <2>8. CASE UNCHANGED vars
    <3>1. UNCHANGED <<purges, erased, devices, pull, cursor, held>> /\ Stored' = Stored
      BY <2>8 DEF vars, server, client, history, Stored
    <3> QED
      BY <2>2, <3>1, ToldKept
  <2> QED
    BY <2>3, <2>4, <2>5, <2>6, <2>7, <2>8 DEF Next
<1> QED
  BY <1>1, <1>3, <1>4 DEF PurgeInv

(* A purge stays in the log, above its client's cursor, for every active   *)
(* device that was never revoked and has a copy of the erased notebook:    *)
(* whatever acknowledgement (RecordAcknowledgedSeq) races the pruning of   *)
(* the log (PrunePurges), and however pulls are cut, lost or repeated.     *)
THEOREM PurgesReachEveryHolder == Spec => []PurgesReachHolders
<1>1. PurgeInv => PurgesReachHolders
  BY SyncAssumption DEF PurgeInv, PurgesReachHolders, Told, Owed
<1> QED
  BY <1>1, PurgeInit, PurgeStep, PTL DEF Spec

----------------------------------------------------------------------------
(* What comes back.                                                        *)

(* An erased id that a step stores again was sent by a device that had     *)
(* been revoked.                                                           *)
RestoreStep ==
  \A n \in (erased \cap Stored') \ Stored : \E d \in wasRevoked : n \in held[d]

(* Only a device that was revoked once can bring an erased id back: every  *)
(* other device that could send it is still owed the purge, and the purge  *)
(* refuses its push (ErrPurged).  RetiredForever, which denies even that,  *)
(* is violated.                                                            *)
THEOREM OnlyRevokedRestore == Spec => [][RestoreStep]_vars
<1>1. ASSUME PurgeInv, Next
      PROVE  RestoreStep
  <2> SUFFICES ASSUME NEW n \in erased, n \in Stored', n \notin Stored
               PROVE  \E d \in wasRevoked : n \in held[d]
    BY DEF RestoreStep
  <2>1. /\ TypeOK /\ TreeTyped /\ IdsKnown /\ n \in Entity
        /\ \A d \in Device \ wasRevoked : Told(d)
    BY <1>1 DEF PurgeInv, DeliveryInv, TreeInv, TypeOK
  <2>2. PICK d \in Pusher, b \in Batch : Push(d, b)
    <3>1. ASSUME NEW e \in Entity, DeleteArchivedNotebook(e) \/ StopHostingCloudNotebook(e)
          PROVE  FALSE
      BY <2>1, <3>1, ErasureEffect, StopStores
    <3>2. ASSUME UNCHANGED server
          PROVE  FALSE
      BY <3>2 DEF server, Stored
    <3> QED
      BY <1>1, <3>1, <3>2 DEF Next, RegisterDevice, RevokeDevice, DeleteRevokedDevices, PullStep,
         PullLost, PullBound, PullCutoff, PullDelta, PullPurges, PullAcknowledge, PullApply
  <2>3. n \in Accepted(b) /\ n \in DOMAIN b
    BY <2>1, <2>2, PushStores, AcceptedInBatch
  <2>4. ~(purges[n] > 0)
    BY <2>1, <2>3, AcceptedIsAllowed
  <2>5. n \in held[d]
    BY <2>1, <2>2, <2>3 DEF Push, Sendable, IdsKnown
  <2>6. d \in wasRevoked
    <3> SUFFICES ASSUME d \notin wasRevoked PROVE FALSE
      OBVIOUS
    <3>1. d \in Device
      BY SyncAssumption
    <3>2. purges[n] > cursor[d]
      BY <2>1, <2>5, <3>1 DEF Told, Owed
    <3>3. purges[n] \in Nat /\ cursor[d] \in Nat
      BY <2>1, <3>1 DEF TypeOK
    <3> QED
      BY <2>4, <3>2, <3>3
  <2> QED
    BY <2>5, <2>6
<1> QED
  BY <1>1, PurgeInit, PurgeStep, PTL DEF Spec
=============================================================================
