------------------------- MODULE AccountSyncProofs -------------------------
(***************************************************************************)
(* Theorems about AccountSync, for every set of entities, devices and      *)
(* pushes, every page limit and every bound on the sequence.               *)
(***************************************************************************)
EXTENDS AccountSync, FiniteSetTheorems, TLAPS

----------------------------------------------------------------------------
(* Where a page ends.                                                      *)

(* A set of naturals has a least element: the sequence an oversized first  *)
(* push falls back to exists.                                              *)
LEMMA LeastExists ==
  ASSUME NEW S \in SUBSET Nat, S # {}
  PROVE  \E s \in S : \A t \in S : s <= t
<1> DEFINE Below == {0 .. s : s \in S}
<1>1. Below \subseteq FiniteSubsetsOf(Nat) /\ Below # {}
  <2>1. \A s \in S : 0 .. s \in SUBSET Nat /\ IsFiniteSet(0 .. s)
    BY FS_Interval
  <2>2. PICK s \in S : TRUE
    OBVIOUS
  <2> QED
    BY <2>1, <2>2 DEF FiniteSubsetsOf
<1>2. PICK least \in Below : \A other \in Below : <<other, least>> \notin StrictSubsetOrdering(Nat)
  BY <1>1, FS_StrictSubsetOrderingWellFounded, WFMin
<1>3. PICK s \in S : least = 0 .. s
  OBVIOUS
<1>4. ASSUME NEW t \in S  PROVE s <= t
  <2> SUFFICES ASSUME t < s  PROVE FALSE
    OBVIOUS
  <2>1. 0 .. t \in SUBSET Nat /\ 0 .. s \in SUBSET Nat /\ 0 .. t \subseteq 0 .. s
    OBVIOUS
  <2>2. s \in 0 .. s /\ s \notin 0 .. t
    OBVIOUS
  <2>3. <<0 .. t, 0 .. s>> \in StrictSubsetOrdering(Nat)
    BY <2>1, <2>2 DEF StrictSubsetOrdering
  <2> QED
    BY <1>2, <1>3, <2>3
<1> QED
  BY <1>4

(* A bounded one has a greatest: the last sequence that fits exists.       *)
LEMMA GreatestExists ==
  ASSUME NEW S \in SUBSET Nat, NEW bound \in Nat, S # {}, \A s \in S : s <= bound
  PROVE  \E s \in S : \A t \in S : t <= s
<1> DEFINE Gap == {bound - s : s \in S}
<1>1. Gap \in SUBSET Nat /\ Gap # {}
  <2>1. PICK s \in S : TRUE
    OBVIOUS
  <2>2. bound - s \in Gap
    OBVIOUS
  <2>3. \A t \in S : bound - t \in Nat
    OBVIOUS
  <2> QED
    BY <2>2, <2>3
<1>2. PICK g \in Gap : \A h \in Gap : g <= h
  BY <1>1, LeastExists
<1>3. PICK s \in S : g = bound - s
  BY <1>2
<1>4. \A t \in S : bound - s <= bound - t
  BY <1>2, <1>3
<1> QED
  BY <1>4

(* SelectDeltaCutoff ends the page inside the range it was asked about.    *)
LEMMA CutoffInRange ==
  ASSUME NEW low \in Nat, NEW high \in Nat, TypeOK
  PROVE  CutoffOf(low, high) \in Nat /\ CutoffOf(low, high) <= high
<1> DEFINE all == Sequences(low, high)
           fit == Fitting(low, high)
<1>1. /\ all \in SUBSET Nat
      /\ fit \subseteq all
      /\ \A s \in all : s <= high
  BY DEF TypeOK, Row, Sequences, Fitting, RowsBetween, Stored
<1>2. CASE fit = all
  BY <1>2 DEF CutoffOf
<1>3. CASE fit # all /\ fit # {}
  <2>1. \E s \in fit : \A t \in fit : t <= s
    BY <1>1, <1>3, GreatestExists
  <2> QED
    BY <1>1, <1>3, <2>1 DEF CutoffOf
<1>4. CASE fit # all /\ fit = {}
  <2>1. \E s \in all : \A t \in all : s <= t
    BY <1>1, <1>4, LeastExists
  <2> QED
    BY <1>1, <1>4, <2>1 DEF CutoffOf
<1> QED
  BY <1>2, <1>3, <1>4

----------------------------------------------------------------------------
(* Types.                                                                  *)

(* What SyncAssumption says of one change of a push.                       *)
LEMMA ChangeType ==
  ASSUME NEW b \in Batch, NEW e \in DOMAIN b
  PROVE  /\ e \in Entity
         /\ b[e].base \in Nat
         /\ b[e].del \in BOOLEAN /\ b[e].closed \in BOOLEAN /\ b[e].cloud \in BOOLEAN
         /\ b[e].parent \in Parents(e)
         /\ b[e].parent \in Entity \cup {NoEntity}
<1>1. e \in Entity /\ b[e] \in Change(e)
  BY SyncAssumption
<1> QED
  BY <1>1 DEF Change, Parents

(* The engine accepts only changes of the batch, which are of entities.    *)
LEMMA AcceptedInBatch ==
  ASSUME NEW b \in Batch
  PROVE  /\ Accepted(b) \subseteq DOMAIN b
         /\ Accepted(b) \subseteq Entity
BY ChangeType DEF Accepted, AcceptedOfKind

(* A push stamps what it accepts with the next sequence and leaves every   *)
(* other row as it is.                                                     *)
LEMMA PushedRows ==
  ASSUME NEW b \in Batch, TypeOK
  PROVE  /\ RowsAfterPush(b) \in [Entity -> Row]
         /\ \A e \in Accepted(b) : /\ RowsAfterPush(b)[e].seq = changeSeq + 1
                                   /\ RowsAfterPush(b)[e].ver > 0
                                   /\ RowsAfterPush(b)[e].parent = b[e].parent
         /\ \A e \in Entity \ Accepted(b) : RowsAfterPush(b)[e] = rows[e]
<1>1. ASSUME NEW e \in Accepted(b)
      PROVE  /\ Written(e, b[e], rows[e], changeSeq + 1) \in Row
             /\ Written(e, b[e], rows[e], changeSeq + 1).seq = changeSeq + 1
             /\ Written(e, b[e], rows[e], changeSeq + 1).ver > 0
             /\ Written(e, b[e], rows[e], changeSeq + 1).parent = b[e].parent
  <2>1. e \in DOMAIN b
    BY AcceptedInBatch
  <2> HIDE DEF RetainOnDelete
  <2>2. RetainOnDelete(e, b[e], rows[e]) \in BOOLEAN
    BY DEF RetainOnDelete
  <2> QED
    BY <2>1, <2>2, ChangeType DEF Written, Row, TypeOK
<1>2. \A e \in Entity : rows[e] \in Row
  BY DEF TypeOK
<1> QED
  BY <1>1, <1>2, AcceptedInBatch DEF RowsAfterPush

(* A push stores and never unstores.                                       *)
LEMMA PushStores ==
  ASSUME TypeOK, NEW d \in Pusher, NEW b \in Batch, Push(d, b)
  PROVE  Stored' = Stored \cup Accepted(b)
BY AcceptedInBatch, PushedRows DEF Push, Stored

(* An operator's deletion is a tombstone: the row stays stored.            *)
LEMMA StopStores ==
  ASSUME TypeOK, NEW n \in Entity, StopHostingCloudNotebook(n)
  PROVE  Stored' = Stored
<1>1. ASSUME NEW e \in Entity
      PROVE  rows'[e].ver > 0 <=> rows[e].ver > 0
  <2>1. n \in Stored /\ rows[n] \in Row
    BY DEF StopHostingCloudNotebook, TypeOK
  <2>2. CASE e = n
    BY <2>1, <2>2 DEF StopHostingCloudNotebook, Row, TypeOK, Stored
  <2>3. CASE e # n
    BY <2>3 DEF StopHostingCloudNotebook, TypeOK
  <2> QED
    BY <2>2, <2>3
<1> QED
  BY <1>1 DEF Stored

(* The absence of a row is a row value.                                    *)
LEMMA NoRowType == NoRow \in Row
BY DEF NoRow, Row

(* The absence of a request is a request value.                            *)
LEMMA NoPullType == NoPull \in Pull
BY DEF NoPull, Pull, Phase, Copy, NoCopy

(* A pull request that moves on is still a pull request.                   *)
LEMMA PullUpdates ==
  ASSUME NEW p \in Pull
  PROVE  /\ [p EXCEPT !.awaited = FALSE] \in Pull
         /\ \A phase \in Phase : [p EXCEPT !.phase = phase] \in Pull
         /\ \A phase \in Phase, end \in Nat : [p EXCEPT !.phase = phase, !.end = end] \in Pull
         /\ \A phase \in Phase, page \in [Entity -> Copy] :
              [p EXCEPT !.phase = phase, !.page = page] \in Pull
         /\ \A phase \in Phase, gone \in SUBSET Entity :
              [p EXCEPT !.phase = phase, !.gone = gone] \in Pull
         /\ \A phase \in Phase, n \in Nat, m \in Nat :
              [p EXCEPT !.phase = phase, !.since = n, !.upper = m, !.end = m,
                        !.awaited = TRUE] \in Pull
BY DEF Pull

(* A new account is well typed.                                            *)
LEMMA InitType == Init => TypeOK
BY NoRowType, NoPullType DEF Init, TypeOK, Copy, NoCopy

(* Every step keeps the types: one case per action.                        *)
LEMMA TypeStep == TypeOK /\ [Next]_vars => TypeOK'
<1> SUFFICES ASSUME TypeOK, [Next]_vars  PROVE TypeOK'
  OBVIOUS
<1> USE DEF TypeOK, server, client, history
<1>1. ASSUME NEW d \in Pusher, NEW b \in Batch, Push(d, b)  PROVE TypeOK'
  <2>1. rows' \in [Entity -> Row]
    BY <1>1, PushedRows DEF Push
  <2>2. copy' \in [Device -> [Entity -> Copy]]
    <3>1. \A e \in Entity : copy[d][e] \in Copy
      BY SyncAssumption
    <3>2. \A e \in DOMAIN b : [copy[d][e] EXCEPT !.parent = b[e].parent] \in Copy
      BY <3>1, ChangeType DEF Copy
    <3> QED
      BY <1>1, <3>1, <3>2 DEF Push
  <2>3. held' \in [Device -> SUBSET Entity] /\ created' \subseteq Entity
    <3>1. DOMAIN b \subseteq Entity
      BY SyncAssumption
    <3>2. created' = created \cup DOMAIN b
      BY <1>1 DEF Push
    <3>3. PICK gone : \/ held' = [held EXCEPT ![d] = (held[d] \cup DOMAIN b) \ gone]
                      \/ held' = [held EXCEPT ![d] = held[d] \cup DOMAIN b]
      BY <1>1 DEF Push
    <3>4. held \in [Device -> SUBSET Entity] /\ created \subseteq Entity
      OBVIOUS
    <3> QED
      BY <3>1, <3>2, <3>3, <3>4
  <2>4. changeSeq' \in Nat
    BY <1>1 DEF Push
  <2> QED
    BY <1>1, <2>1, <2>2, <2>3, <2>4 DEF Push
<1>2. ASSUME NEW n \in Entity, DeleteArchivedNotebook(n)  PROVE TypeOK'
  <2>1. rows' \in [Entity -> Row]
    BY <1>2, NoRowType DEF DeleteArchivedNotebook
  <2>2. Pruned(purges) \in [Entity -> Nat]
    BY DEF Pruned
  <2> QED
    BY <1>2, <2>1, <2>2 DEF DeleteArchivedNotebook
<1>3. ASSUME NEW n \in Entity, StopHostingCloudNotebook(n)  PROVE TypeOK'
  <2>1. rows' \in [Entity -> Row]
    BY <1>3 DEF StopHostingCloudNotebook, Row
  <2> QED
    BY <1>3, <2>1 DEF StopHostingCloudNotebook
<1>4. ASSUME NEW d \in Device, RegisterDevice(d)  PROVE TypeOK'
  <2>1. pull' \in [Device -> Pull]
    <3>1. pull[d] \in Pull /\ [pull[d] EXCEPT !.awaited = FALSE] \in Pull
      BY PullUpdates
    <3> QED
      BY <1>4, <3>1, NoPullType DEF RegisterDevice
  <2>2. [e \in Entity |-> NoCopy] \in [Entity -> Copy]
    BY DEF NoCopy, Copy
  <2>3. /\ cursor' \in [Device -> Nat]
        /\ held' \in [Device -> SUBSET Entity]
        /\ copy' \in [Device -> [Entity -> Copy]]
    <3>1. CASE UNCHANGED client
      BY <3>1
    <3>2. CASE /\ cursor' = [cursor EXCEPT ![d] = 0]
               /\ held' = [held EXCEPT ![d] = {}]
               /\ copy' = [copy EXCEPT ![d] = [e \in Entity |-> NoCopy]]
      BY <2>2, <3>2
    <3> QED
      BY <1>4, <3>1, <3>2 DEF RegisterDevice
  <2>4. devices' \in [Device -> [status : {"absent", "active", "revoked"}, pulled : Nat]]
    BY <1>4 DEF RegisterDevice
  <2> QED
    BY <1>4, <2>1, <2>3, <2>4 DEF RegisterDevice
<1>5. ASSUME NEW d \in Device, RevokeDevice(d)  PROVE TypeOK'
  BY <1>5 DEF RevokeDevice
<1>6. ASSUME NEW gone \in SUBSET Device, DeleteRevokedDevices(gone)  PROVE TypeOK'
  BY <1>6 DEF DeleteRevokedDevices
<1>7. ASSUME NEW d \in Puller, PullStep(d)  PROVE TypeOK'
  <2> d \in Device
    BY SyncAssumption
  <2>1. CASE PullBound(d)
    BY <2>1, NoPullType, PullUpdates DEF PullBound, Phase
  <2>2. CASE PullCutoff(d)
    <3>1. CutoffOf(pull[d].since, pull[d].upper) \in Nat
      BY CutoffInRange DEF Pull
    <3> QED
      BY <2>2, <3>1, PullUpdates DEF PullCutoff, Phase
  <2>3. CASE PullDelta(d)
    <3>1. \A e \in Entity : [seq |-> rows[e].seq, parent |-> rows[e].parent] \in Copy
      BY DEF Copy, Row
    <3>2. NoCopy \in Copy
      BY DEF NoCopy, Copy
    <3> QED
      BY <2>3, <3>1, <3>2, PullUpdates DEF PullDelta, Phase
  <2>4. CASE PullPurges(d)
    BY <2>4, PullUpdates DEF PullPurges, Phase
  <2>5. CASE PullAcknowledge(d)
    <3>1. pull' \in [Device -> Pull]
      BY <2>5, PullUpdates DEF PullAcknowledge, Phase
    <3>2. devices' \in [Device -> [status : {"absent", "active", "revoked"}, pulled : Nat]]
      BY <2>5 DEF PullAcknowledge, Pull
    <3> QED
      BY <2>5, <3>1, <3>2 DEF PullAcknowledge
  <2>6. CASE PullApply(d)
    <3>1. pull[d].end \in Nat /\ \A e \in Entity : pull[d].page[e] \in Copy
      BY DEF Pull
    <3>2. copy' \in [Device -> [Entity -> Copy]]
      BY <2>6, <3>1 DEF PullApply
    <3>3. held' \in [Device -> SUBSET Entity]
      BY <2>6 DEF PullApply, Delivered
    <3> QED
      BY <2>6, <3>1, <3>2, <3>3, NoPullType DEF PullApply
  <2> QED
    BY <1>7, <2>1, <2>2, <2>3, <2>4, <2>5, <2>6 DEF PullStep
<1>8. ASSUME NEW d \in Puller, PullLost(d)  PROVE TypeOK'
  BY <1>8, NoPullType DEF PullLost
<1>9. CASE UNCHANGED vars
  BY <1>9 DEF vars
<1> QED
  BY <1>1, <1>2, <1>3, <1>4, <1>5, <1>6, <1>7, <1>8, <1>9 DEF Next

(* Type correctness.                                                       *)
THEOREM TypeCorrect == Spec => []TypeOK
<1> QED
  BY InitType, TypeStep, PTL DEF Spec

----------------------------------------------------------------------------
(* No lost update.  DeliveredUpTo is not inductive: whether the cursor a   *)
(* pull returns may be committed depends on the page in flight.  What the  *)
(* page is worth: nothing at or below its end is missing or newer than     *)
(* what it holds, and the client is still at the cursor it started from.   *)

LogBounded == \A e \in Entity : rows[e].seq <= changeSeq

Rendered(p) == p.phase \in {"delta", "purges", "acked"}
PageInv(d) ==
  /\ pull[d].end <= pull[d].upper
  /\ pull[d].upper <= changeSeq
  /\ cursor[d] <= changeSeq
  /\ pull[d].awaited => cursor[d] = pull[d].since
  /\ \A e \in Delivered(pull[d]) :
       Rendered(pull[d]) /\ pull[d].since < pull[d].page[e].seq /\ pull[d].page[e].seq <= pull[d].end
  /\ \A e \in Delivered(pull[d]) \cap Stored : pull[d].page[e].seq <= rows[e].seq
  /\ Rendered(pull[d]) =>
       \A e \in Stored : pull[d].since < rows[e].seq /\ rows[e].seq <= pull[d].end
                           => pull[d].page[e].seq = rows[e].seq

DeliveryInv == TypeOK /\ LogBounded /\ DeliveredUpTo /\ \A d \in Device : PageInv(d)

(* The delivery invariant holds of an account nobody has written to.       *)
LEMMA DeliveryInit == Init => DeliveryInv
<1> SUFFICES ASSUME Init  PROVE DeliveryInv
  OBVIOUS
<1>1. TypeOK
  BY InitType
<1>2. LogBounded /\ DeliveredUpTo
  BY DEF Init, LogBounded, DeliveredUpTo, NoRow, Stored
<1>3. ASSUME NEW d \in Device  PROVE PageInv(d)
  BY DEF Init, PageInv, NoPull, NoCopy, NoRow, Delivered, Rendered, Stored
<1> QED
  BY <1>1, <1>2, <1>3 DEF DeliveryInv

(* What the writers of the log have in common: a row they touch is gone or *)
(* gets the next sequence, and no page or cursor moves.                    *)
Writes ==
  /\ changeSeq' \in Nat /\ changeSeq <= changeSeq'
  /\ UNCHANGED <<pull, cursor>>
  /\ \A e \in Entity : \/ rows'[e] = rows[e]
                       \/ rows'[e] = NoRow
                       \/ rows'[e].seq = changeSeq + 1 /\ changeSeq' = changeSeq + 1
  /\ \A d \in Device, e \in Entity : copy'[d][e].seq = copy[d][e].seq

(* A writer keeps the delivery invariant: what it writes lies above every  *)
(* sequence a request or a cursor has reached.                             *)
LEMMA WritesKeepDelivery ==
  ASSUME DeliveryInv, TypeOK', Writes
  PROVE  DeliveryInv'
<1> USE DEF DeliveryInv
<1>1. ASSUME NEW e \in Entity
      PROVE  /\ rows[e].seq \in Nat /\ rows[e].seq <= changeSeq
             /\ rows[e].ver > 0 <=> rows[e].seq > 0
             /\ \/ rows'[e] = rows[e]
                \/ rows'[e].seq = 0 /\ ~(rows'[e].ver > 0)
                \/ rows'[e].seq = changeSeq + 1 /\ changeSeq' = changeSeq + 1
  BY DEF TypeOK, Row, NoRow, LogBounded, Writes
<1>2. changeSeq \in Nat /\ changeSeq' \in Nat /\ changeSeq <= changeSeq'
  BY DEF TypeOK, Writes
<1>3. LogBounded'
  BY <1>1, <1>2 DEF LogBounded
<1>4. ASSUME NEW d \in Device  PROVE PageInv(d)'
  <2>1. /\ pull'[d] = pull[d] /\ cursor'[d] = cursor[d]
        /\ pull[d].end \in Nat /\ pull[d].upper \in Nat /\ pull[d].since \in Nat
        /\ cursor[d] \in Nat
        /\ \A e \in Entity : pull[d].page[e].seq \in Nat
    BY DEF Writes, TypeOK, Pull, Copy
  <2>2. PageInv(d)
    OBVIOUS
  <2>3. /\ pull[d].end <= pull[d].upper
        /\ pull[d].upper <= changeSeq'
        /\ cursor[d] <= changeSeq'
    BY <1>2, <2>1, <2>2 DEF PageInv
  <2>4. ASSUME NEW e \in Delivered(pull[d]), rows'[e].ver > 0
        PROVE  pull[d].page[e].seq <= rows'[e].seq
    <3>1. e \in Entity /\ pull[d].page[e].seq <= pull[d].end
      BY <2>2 DEF PageInv, Delivered
    <3>2. CASE rows'[e] = rows[e]
      BY <2>2, <2>4, <3>1, <3>2 DEF PageInv, Stored
    <3>3. CASE rows'[e].seq = changeSeq + 1
      <4>1. pull[d].page[e].seq <= changeSeq
        BY <1>2, <2>1, <2>2, <3>1 DEF PageInv
      <4> QED
        BY <1>2, <2>1, <3>1, <3>3, <4>1
    <3> QED
      BY <1>1, <2>4, <3>1, <3>2, <3>3
  <2>5. ASSUME Rendered(pull[d]), NEW e \in Entity, rows'[e].ver > 0,
               pull[d].since < rows'[e].seq, rows'[e].seq <= pull[d].end
        PROVE  pull[d].page[e].seq = rows'[e].seq
    <3>1. rows'[e].seq <= changeSeq
      BY <1>1, <1>2, <2>1, <2>2, <2>5 DEF PageInv
    <3>2. rows'[e] = rows[e]
      BY <1>1, <1>2, <2>5, <3>1
    <3> QED
      BY <2>2, <2>5, <3>2 DEF PageInv, Stored
  <2> QED
    BY <2>1, <2>2, <2>3, <2>4, <2>5 DEF PageInv, Delivered, Rendered, Stored
<1>5. DeliveredUpTo'
  <2> SUFFICES ASSUME NEW d \in Device, NEW e \in Entity, rows'[e].ver > 0,
                      rows'[e].seq <= cursor'[d]
               PROVE  copy'[d][e].seq = rows'[e].seq
    BY DEF DeliveredUpTo, Stored
  <2>1. cursor'[d] = cursor[d] /\ cursor[d] \in Nat /\ cursor[d] <= changeSeq
    BY DEF Writes, TypeOK, PageInv
  <2>2. rows'[e] = rows[e]
    BY <1>1, <1>2, <2>1
  <2> QED
    BY <2>1, <2>2 DEF Writes, DeliveredUpTo, Stored
<1> QED
  BY <1>3, <1>4, <1>5

(* A push is such a writer.                                                *)
LEMMA PushWrites ==
  ASSUME TypeOK, NEW d \in Device, NEW b \in Batch, Push(d, b)
  PROVE  Writes
<1>1. changeSeq \in Nat
  BY DEF TypeOK
<1>2. changeSeq' \in Nat /\ changeSeq <= changeSeq' /\ UNCHANGED <<pull, cursor>>
  BY <1>1 DEF Push
<1>3. ASSUME NEW e \in Entity
      PROVE  \/ rows'[e] = rows[e]
             \/ rows'[e].seq = changeSeq + 1 /\ changeSeq' = changeSeq + 1
  <2>1. CASE e \in Accepted(b)
    <3>1. rows' = RowsAfterPush(b) /\ changeSeq' = IF Accepted(b) = {} THEN changeSeq
                                                                   ELSE changeSeq + 1
      BY DEF Push
    <3>2. Accepted(b) # {}
      BY <2>1
    <3>3. RowsAfterPush(b)[e].seq = changeSeq + 1
      BY <2>1, PushedRows
    <3> QED
      BY <3>1, <3>2, <3>3
  <2>2. CASE e \notin Accepted(b)
    <3>1. rows' = RowsAfterPush(b)
      BY DEF Push
    <3>2. RowsAfterPush(b)[e] = rows[e]
      BY <2>2 DEF RowsAfterPush
    <3> QED
      BY <3>1, <3>2
  <2> QED
    BY <2>1, <2>2
<1>4. ASSUME NEW c \in Device, NEW e \in Entity  PROVE copy'[c][e].seq = copy[c][e].seq
  <2>1. copy[d][e] \in Copy
    BY DEF TypeOK
  <2>2. [copy[d][e] EXCEPT !.parent = b[e].parent].seq = copy[d][e].seq
    BY <2>1 DEF Copy
  <2>3. copy' = [copy EXCEPT ![d] = [f \in Entity |->
                   IF f \in DOMAIN b THEN [copy[d][f] EXCEPT !.parent = b[f].parent]
                                     ELSE copy[d][f]]]
    BY DEF Push
  <2>4. copy \in [Device -> [Entity -> Copy]]
    BY DEF TypeOK
  <2>5. CASE c = d
    BY <2>2, <2>3, <2>4, <2>5
  <2>6. CASE c # d
    BY <2>3, <2>4, <2>6
  <2> QED
    BY <2>5, <2>6
<1> QED
  BY <1>2, <1>3, <1>4 DEF Writes

(* So is an erasure, which only removes rows.                              *)
LEMMA DeleteArchivedNotebookWrites ==
  ASSUME TypeOK, NEW n \in Entity, DeleteArchivedNotebook(n)
  PROVE  Writes
<1>1. changeSeq \in Nat /\ changeSeq' = changeSeq + 1
  BY DEF TypeOK, DeleteArchivedNotebook
<1>2. \A e \in Entity : rows'[e] = rows[e] \/ rows'[e] = NoRow
  BY DEF DeleteArchivedNotebook
<1>3. pull' = pull /\ cursor' = cursor /\ copy' = copy
  BY DEF DeleteArchivedNotebook, client
<1> QED
  BY <1>1, <1>2, <1>3 DEF Writes

(* And so is the tombstone of an operator's deletion.                      *)
LEMMA StopHostingCloudNotebookWrites ==
  ASSUME TypeOK, NEW n \in Entity, StopHostingCloudNotebook(n)
  PROVE  Writes
<1>1. changeSeq \in Nat /\ changeSeq' = changeSeq + 1
  BY DEF TypeOK, StopHostingCloudNotebook
<1>2. ASSUME NEW e \in Entity  PROVE rows'[e] = rows[e] \/ rows'[e].seq = changeSeq + 1
  <2>1. rows[e] \in Row
    BY DEF TypeOK
  <2> QED
    BY <2>1 DEF StopHostingCloudNotebook, Row, TypeOK
<1>3. pull' = pull /\ cursor' = cursor /\ copy' = copy
  BY DEF StopHostingCloudNotebook, client
<1> QED
  BY <1>1, <1>2, <1>3 DEF Writes

(* The steps that leave the log alone.  Only the client's state or one     *)
(* device's pull changes, so only PageInv of that device is at stake.      *)
LEMMA RegisterKeepsDelivery ==
  ASSUME DeliveryInv, TypeOK', NEW d \in Device, RegisterDevice(d)
  PROVE  DeliveryInv'
<1> USE DEF DeliveryInv
<1>1. LogBounded' /\ changeSeq' = changeSeq /\ rows' = rows /\ Stored' = Stored
  BY DEF RegisterDevice, server, LogBounded, Stored
<1>2. ASSUME NEW c \in Device  PROVE PageInv(c)'
  <2>1. pull[c] \in Pull /\ PageInv(c) /\ changeSeq \in Nat
    BY DEF TypeOK
  <2>2. /\ \/ pull'[c] = pull[c] /\ cursor'[c] = cursor[c]
           \/ /\ pull'[c] = NoPull \/ pull'[c] = [pull[c] EXCEPT !.awaited = FALSE]
              /\ cursor'[c] = cursor[c] \/ cursor'[c] = 0
    <3>1. CASE c # d
      BY <3>1 DEF RegisterDevice, client, TypeOK
    <3>2. CASE c = d
      BY <3>2 DEF RegisterDevice, client, TypeOK
    <3> QED
      BY <3>1, <3>2
  <2>3. CASE pull'[c] = pull[c] /\ cursor'[c] = cursor[c]
    BY <1>1, <2>1, <2>3 DEF PageInv, Delivered, Rendered, Stored
  <2>4. CASE pull'[c] = NoPull /\ (cursor'[c] = cursor[c] \/ cursor'[c] = 0)
    BY <1>1, <2>1, <2>4 DEF PageInv, Delivered, Rendered, Stored, NoPull, NoCopy
  <2>5. CASE /\ pull'[c] = [pull[c] EXCEPT !.awaited = FALSE]
             /\ cursor'[c] = cursor[c] \/ cursor'[c] = 0
    <3>1. /\ pull'[c].phase = pull[c].phase /\ pull'[c].since = pull[c].since
          /\ pull'[c].upper = pull[c].upper /\ pull'[c].end = pull[c].end
          /\ pull'[c].page = pull[c].page /\ pull'[c].awaited = FALSE
      BY <2>1, <2>5 DEF Pull
    <3> QED
      BY <1>1, <2>1, <2>5, <3>1 DEF PageInv, Delivered, Rendered, Stored
  <2> QED
    BY <2>2, <2>3, <2>4, <2>5
<1>3. DeliveredUpTo'
  <2> SUFFICES ASSUME NEW c \in Device, NEW e \in Stored, rows[e].seq <= cursor'[c]
               PROVE  copy'[c][e].seq = rows[e].seq
    BY <1>1 DEF DeliveredUpTo, Stored
  <2>1. rows[e].seq > 0 /\ rows[e].seq \in Nat
    BY DEF Stored, TypeOK, Row
  <2>2. \/ cursor'[c] = 0
        \/ cursor'[c] = cursor[c] /\ copy'[c] = copy[c]
    BY DEF RegisterDevice, client, TypeOK
  <2> QED
    BY <2>1, <2>2 DEF DeliveredUpTo
<1> QED
  BY <1>1, <1>2, <1>3

(* The queries of a pull, its answer and its loss.                         *)
LEMMA PullKeepsDelivery ==
  ASSUME DeliveryInv, TypeOK', NEW d \in Puller, PullStep(d) \/ PullLost(d)
  PROVE  DeliveryInv'
<1> USE DEF DeliveryInv
<1>1. /\ changeSeq' = changeSeq /\ rows' = rows
      /\ \A c \in Device \ {d} : /\ pull'[c] = pull[c]
                                 /\ cursor'[c] = cursor[c] /\ copy'[c] = copy[c]
  BY DEF PullStep, PullLost, PullBound, PullCutoff, PullDelta, PullPurges, PullAcknowledge,
         PullApply, server, client, TypeOK
<1>2. LogBounded' /\ Stored' = Stored
  BY <1>1 DEF Stored, LogBounded
<1>3. /\ d \in Device /\ pull[d] \in Pull /\ PageInv(d) /\ changeSeq \in Nat /\ cursor[d] \in Nat
      /\ pull[d].since \in Nat /\ pull[d].upper \in Nat /\ pull[d].end \in Nat
      /\ \A e \in Entity : pull[d].page[e].seq \in Nat
      /\ \A e \in Stored : rows[e].seq \in Nat /\ rows[e].seq > 0 /\ e \in Entity
  BY SyncAssumption DEF TypeOK, Pull, Copy, Row, Stored
<1> DEFINE Kept == \A e \in Stored : rows[e].seq <= cursor'[d] => copy'[d][e].seq = rows[e].seq
<1>4. SUFFICES PageInv(d)' /\ Kept
  <2>1. \A c \in Device \ {d} : PageInv(c)'
    BY <1>1, <1>2 DEF PageInv, Delivered, Rendered, Stored
  <2>2. \A c \in Device \ {d} : \A e \in Stored :
          rows[e].seq <= cursor'[c] => copy'[c][e].seq = rows[e].seq
    BY <1>1 DEF DeliveredUpTo
  <2> QED
    BY <1>1, <1>2, <1>3, <2>1, <2>2 DEF DeliveredUpTo
<1>5. ASSUME UNCHANGED <<cursor, copy>>  PROVE Kept
  BY <1>3, <1>5 DEF DeliveredUpTo
<1>6. CASE PullBound(d)
  <2>1. /\ pull'[d].since = cursor[d] /\ pull'[d].upper = changeSeq /\ pull'[d].end = changeSeq
        /\ pull'[d].page = NoPull.page
        /\ pull'[d].phase = IF cursor[d] >= changeSeq THEN "delta" ELSE "bounded"
        /\ cursor' = cursor /\ copy' = copy
    BY <1>3, <1>6 DEF PullBound, client, NoPull, TypeOK
  <2>2. Delivered(pull'[d]) = {}
    BY <2>1 DEF Delivered, NoPull, NoCopy
  <2>3. \A e \in Stored : rows[e].seq <= changeSeq
    BY <1>3 DEF LogBounded
  <2> QED
    BY <1>1, <1>2, <1>3, <1>5, <2>1, <2>2, <2>3 DEF PageInv, Rendered
<1>7. CASE PullCutoff(d)
  <2> DEFINE low == pull[d].since   high == pull[d].upper
  <2>1. /\ pull'[d].since = low /\ pull'[d].upper = high /\ pull'[d].end = CutoffOf(low, high)
        /\ pull'[d].page = pull[d].page /\ pull'[d].awaited = pull[d].awaited
        /\ pull'[d].phase = IF Sequences(low, high) = {} THEN "delta" ELSE "cut"
        /\ pull[d].phase = "bounded"
        /\ cursor' = cursor /\ copy' = copy
    BY <1>3, <1>7 DEF PullCutoff, client, Pull, TypeOK
  <2>2. CutoffOf(low, high) \in Nat /\ CutoffOf(low, high) <= high
    BY <1>3, CutoffInRange
  <2>3. Delivered(pull'[d]) = {}
    BY <1>3, <2>1 DEF PageInv, Rendered, Delivered
  <2>4. ASSUME Rendered(pull'[d]), NEW e \in Stored, low < rows[e].seq,
               rows[e].seq <= CutoffOf(low, high)
        PROVE  FALSE
    <3>1. Sequences(low, high) = {}
      BY <2>1, <2>4 DEF Rendered
    <3>2. rows[e].seq <= high
      BY <1>3, <2>2, <2>4
    <3>3. rows[e].seq \in Sequences(low, high)
      BY <2>4, <3>2 DEF Sequences, RowsBetween
    <3> QED
      BY <3>1, <3>3
  <2> QED
    BY <1>1, <1>2, <1>3, <1>5, <2>1, <2>2, <2>3, <2>4 DEF PageInv
<1>8. CASE PullDelta(d)
  <2>1. /\ pull'[d].since = pull[d].since /\ pull'[d].upper = pull[d].upper
        /\ pull'[d].end = pull[d].end /\ pull'[d].awaited = pull[d].awaited
        /\ pull'[d].phase = "delta"
        /\ pull'[d].page = [e \in Entity |-> IF e \in RowsBetween(pull[d].since, pull[d].end)
                                            THEN [seq |-> rows[e].seq, parent |-> rows[e].parent]
                                            ELSE NoCopy]
        /\ cursor' = cursor /\ copy' = copy
    BY <1>3, <1>8 DEF PullDelta, client, Pull, TypeOK
  <2>2. \A e \in Entity : pull'[d].page[e].seq =
          IF e \in RowsBetween(pull[d].since, pull[d].end) THEN rows[e].seq ELSE 0
    <3>1. NoCopy.seq = 0
      BY DEF NoCopy
    <3> SUFFICES ASSUME NEW e \in Entity
                 PROVE  pull'[d].page[e].seq =
                          IF e \in RowsBetween(pull[d].since, pull[d].end) THEN rows[e].seq ELSE 0
      OBVIOUS
    <3>2. CASE e \notin RowsBetween(pull[d].since, pull[d].end)
      <4>1. pull'[d].page[e] = NoCopy
        BY <2>1, <3>2
      <4> QED
        BY <3>1, <3>2, <4>1
    <3>3. CASE e \in RowsBetween(pull[d].since, pull[d].end)
      <4>1. pull'[d].page[e] = [seq |-> rows[e].seq, parent |-> rows[e].parent]
        BY <2>1, <3>3
      <4> QED
        BY <3>3, <4>1
    <3> QED
      BY <3>2, <3>3
  <2>3. \A e \in RowsBetween(pull[d].since, pull[d].end) : pull'[d].page[e].seq = rows[e].seq
    BY <1>3, <2>2 DEF RowsBetween
  <2>4. \A e \in Delivered(pull'[d]) : e \in RowsBetween(pull[d].since, pull[d].end)
    BY <2>2 DEF Delivered
  <2>5. \A e \in Delivered(pull'[d]) :
          /\ Rendered(pull'[d])
          /\ pull'[d].since < pull'[d].page[e].seq /\ pull'[d].page[e].seq <= pull'[d].end
          /\ pull'[d].page[e].seq <= rows'[e].seq
    <3>1. Rendered(pull'[d])
      BY <2>1 DEF Rendered
    <3> SUFFICES ASSUME NEW e \in Delivered(pull'[d])
                 PROVE  /\ pull[d].since < pull'[d].page[e].seq
                        /\ pull'[d].page[e].seq <= pull[d].end
                        /\ pull'[d].page[e].seq <= rows[e].seq
      BY <1>1, <2>1, <3>1
    <3>2. e \in RowsBetween(pull[d].since, pull[d].end)
      BY <2>4
    <3>3. pull'[d].page[e].seq = rows[e].seq /\ rows[e].seq \in Nat
      BY <1>3, <2>3, <3>2 DEF RowsBetween
    <3> QED
      BY <3>2, <3>3 DEF RowsBetween
  <2>6. \A e \in Stored : pull'[d].since < rows[e].seq /\ rows[e].seq <= pull'[d].end
                            => pull'[d].page[e].seq = rows[e].seq
    BY <2>1, <2>3 DEF RowsBetween
  <2>7. /\ pull'[d].end <= pull'[d].upper /\ pull'[d].upper <= changeSeq'
        /\ cursor'[d] <= changeSeq' /\ (pull'[d].awaited => cursor'[d] = pull'[d].since)
    BY <1>1, <1>3, <2>1 DEF PageInv
  <2>8. PageInv(d)'
    BY <1>1, <1>2, <2>5, <2>6, <2>7 DEF PageInv
  <2> QED
    BY <1>5, <2>1, <2>8
<1>9. CASE PullPurges(d) \/ PullAcknowledge(d)
  <2>1. /\ pull'[d].since = pull[d].since /\ pull'[d].upper = pull[d].upper
        /\ pull'[d].end = pull[d].end /\ pull'[d].awaited = pull[d].awaited
        /\ pull'[d].page = pull[d].page
        /\ Rendered(pull[d])
        /\ cursor' = cursor /\ copy' = copy
    BY <1>3, <1>9 DEF PullPurges, PullAcknowledge, client, Pull, TypeOK, Rendered
  <2>2. Rendered(pull'[d])
    BY <1>3, <1>9 DEF PullPurges, PullAcknowledge, Pull, TypeOK, Rendered
  <2> QED
    BY <1>1, <1>2, <1>3, <1>5, <2>1, <2>2 DEF PageInv, Delivered
<1>10. CASE PullApply(d)
  <2>1. /\ pull'[d] = NoPull /\ cursor'[d] = pull[d].end /\ cursor[d] = pull[d].since
        /\ Rendered(pull[d])
    BY <1>3, <1>10 DEF PullApply, PageInv, TypeOK, Rendered
  <2>2. \A e \in Entity : copy'[d][e] = IF e \in Delivered(pull[d]) THEN pull[d].page[e]
                                                                    ELSE copy[d][e]
    BY <1>3, <1>10 DEF PullApply, TypeOK
  <2>3. PageInv(d)'
    BY <1>1, <1>3, <2>1 DEF PageInv, NoPull, NoCopy, Delivered, Rendered
  <2>4. ASSUME NEW e \in Stored, rows[e].seq <= pull[d].end
        PROVE  copy'[d][e].seq = rows[e].seq
    <3>1. CASE rows[e].seq <= pull[d].since
      <4>1. copy[d][e].seq = rows[e].seq
        BY <1>3, <2>1, <3>1 DEF DeliveredUpTo
      <4>2. e \notin Delivered(pull[d])
        BY <1>3, <3>1 DEF PageInv
      <4> QED
        BY <1>3, <2>2, <4>1, <4>2
    <3>2. CASE pull[d].since < rows[e].seq
      <4>1. pull[d].page[e].seq = rows[e].seq
        BY <1>3, <2>1, <2>4, <3>2 DEF PageInv
      <4>2. e \in Delivered(pull[d])
        BY <1>3, <4>1 DEF Delivered
      <4> QED
        BY <1>3, <2>2, <4>1, <4>2
    <3> QED
      BY <1>3, <3>1, <3>2
  <2> QED
    BY <2>1, <2>3, <2>4
<1>11. CASE PullLost(d)
  <2>1. pull'[d] = NoPull /\ cursor' = cursor /\ copy' = copy
    BY <1>3, <1>11 DEF PullLost, client, TypeOK
  <2> QED
    BY <1>1, <1>3, <1>5, <2>1 DEF PageInv, NoPull, NoCopy, Delivered, Rendered
<1> QED
  BY <1>6, <1>7, <1>8, <1>9, <1>10, <1>11 DEF PullStep

(* Every step keeps the delivery invariant: writers by the lemmas above,   *)
(* and each query of a pull by what it adds to the request.                *)
LEMMA DeliveryStep == DeliveryInv /\ [Next]_vars => DeliveryInv'
<1> SUFFICES ASSUME DeliveryInv, [Next]_vars  PROVE DeliveryInv'
  OBVIOUS
<1>1. TypeOK /\ TypeOK'
  BY TypeStep DEF DeliveryInv
<1>2. ASSUME NEW d \in Pusher, NEW b \in Batch, Push(d, b)  PROVE DeliveryInv'
  <2>1. d \in Device
    BY SyncAssumption
  <2> QED
    BY <1>1, <1>2, <2>1, PushWrites, WritesKeepDelivery
<1>3. ASSUME NEW n \in Entity, DeleteArchivedNotebook(n)  PROVE DeliveryInv'
  BY <1>1, <1>3, DeleteArchivedNotebookWrites, WritesKeepDelivery
<1>4. ASSUME NEW n \in Entity, StopHostingCloudNotebook(n)  PROVE DeliveryInv'
  BY <1>1, <1>4, StopHostingCloudNotebookWrites, WritesKeepDelivery
<1>5. ASSUME NEW d \in Device, RegisterDevice(d)  PROVE DeliveryInv'
  BY <1>1, <1>5, RegisterKeepsDelivery
<1>6. ASSUME UNCHANGED <<server, pull, client>>  PROVE DeliveryInv'
  BY <1>1, <1>6 DEF DeliveryInv, server, client, LogBounded, DeliveredUpTo, PageInv,
                    Delivered, Rendered, Stored
<1>7. ASSUME NEW d \in Puller, PullStep(d) \/ PullLost(d)  PROVE DeliveryInv'
  BY <1>1, <1>7, PullKeepsDelivery
<1>8. CASE UNCHANGED vars
  BY <1>6, <1>8 DEF vars
<1>9. ASSUME NEW d \in Device, RevokeDevice(d)  PROVE DeliveryInv'
  BY <1>6, <1>9 DEF RevokeDevice
<1>10. ASSUME NEW gone \in SUBSET Device, DeleteRevokedDevices(gone)  PROVE DeliveryInv'
  BY <1>6, <1>10 DEF DeleteRevokedDevices
<1> QED
  BY <1>2, <1>3, <1>4, <1>5, <1>7, <1>8, <1>9, <1>10 DEF Next

(* No client loses an update: SD2 for every account, whatever its devices  *)
(* push, erase and pull, in whatever order the queries interleave.         *)
THEOREM NoLostUpdate == Spec => []DeliveredUpTo
<1>1. Spec => []DeliveryInv
  BY DeliveryInit, DeliveryStep, PTL DEF Spec
<1>2. DeliveryInv => DeliveredUpTo
  BY DEF DeliveryInv
<1> QED
  BY <1>1, <1>2, PTL

(* A response never splits a push.                                         *)
THEOREM PushesArriveWhole == Spec => []SequenceAtomic
<1>1. Spec => []DeliveryInv
  BY DeliveryInit, DeliveryStep, PTL DEF Spec
<1>2. DeliveryInv => SequenceAtomic
  <2> SUFFICES ASSUME DeliveryInv, NEW d \in Device, NEW e \in Delivered(pull[d]), NEW f \in Stored,
                      rows[f].seq = pull[d].page[e].seq
               PROVE  f \in Delivered(pull[d])
    BY DEF SequenceAtomic
  <2>1. pull[d].page[f].seq = rows[f].seq
    BY DEF DeliveryInv, PageInv
  <2> QED
    BY <2>1 DEF Delivered, Stored
<1> QED
  BY <1>1, <1>2, PTL

----------------------------------------------------------------------------
(* Erased ids and orphans: both follow from what a push is allowed to      *)
(* store and from what an erasure takes away.                              *)

TreeTyped == \A e \in Stored : rows[e].parent \in Parents(e)
TreeInv == TypeOK /\ RetiredIdsNotStored /\ TreeTyped /\ NoOrphan

(* A change is accepted only with its parent stored or accepted before it, *)
(* and never under an id in the purge log.                                 *)
LEMMA AcceptedIsAllowed ==
  ASSUME NEW b \in Batch, TypeOK, NEW e \in Accepted(b)
  PROVE  /\ ~(purges[e] > 0)
         /\ IsRoot(e) \/ b[e].parent \in Stored \cup Accepted(b)
<1> DEFINE notebooks == AcceptedOfKind(b, {"notebook"}, {})
           sections  == AcceptedOfKind(b, {"section"}, notebooks)
           pages     == AcceptedOfKind(b, {"page"}, sections)
           leaves    == AcceptedOfKind(b, Kinds \ {"notebook", "section", "page"}, pages)
<1>1. ASSUME NEW set, NEW kinds, e \in AcceptedOfKind(b, kinds, set)
      PROVE  ~(purges[e] > 0) /\ (IsRoot(e) \/ b[e].parent \in Stored \cup set)
  BY <1>1 DEF AcceptedOfKind, Verdict, MissingParent
<1>2. /\ e \in notebooks \/ e \in sections \/ e \in pages \/ e \in leaves
      /\ notebooks \subseteq Accepted(b) /\ sections \subseteq Accepted(b)
      /\ pages \subseteq Accepted(b) /\ {} \subseteq Accepted(b)
  BY DEF Accepted
<1> QED
  BY <1>1, <1>2

(* What an erasure leaves stored does not hang from what it took: an id of *)
(* the erased tree has its children in the tree.                           *)
LEMMA ErasureTakesTrees ==
  ASSUME TypeOK, TreeTyped, NEW n \in Stored, KindOf[n] = "notebook",
         NEW e \in Stored,
         rows[e].parent \in Subtree([f \in Stored |-> rows[f].parent], n)
  PROVE  e \in Subtree([f \in Stored |-> rows[f].parent], n)
<1> DEFINE parentOf == [f \in Stored |-> rows[f].parent]
           p        == rows[e].parent
           sections == Under(parentOf, {n})
           pages    == Under(parentOf, sections)
           leaves   == Under(parentOf, pages)
<1>1. ASSUME NEW f \in Stored  PROVE f \in Entity /\ KindOf[f] \in Kinds /\ rows[f].parent \in Parents(f)
  BY KindsAssumption DEF TreeTyped, Stored
<1>2. /\ \A f : f \in sections <=> f \in Stored /\ rows[f].parent = n
      /\ \A f : f \in pages <=> f \in Stored /\ rows[f].parent \in sections
      /\ \A f : f \in leaves <=> f \in Stored /\ rows[f].parent \in pages
  BY DEF Under
<1>3. ASSUME NEW f \in Stored, rows[f].parent \in Stored
      PROVE  KindOf[rows[f].parent] = ParentKind[KindOf[f]]
  BY <1>1, <1>3, KindsAssumption DEF Parents
<1>4. p \in {n} \cup sections \cup pages \cup leaves
  BY DEF Subtree
<1>5. CASE p = n
  BY <1>2, <1>5 DEF Subtree
<1>6. CASE p \in sections
  BY <1>2, <1>6 DEF Subtree
<1>7. CASE p \in pages
  BY <1>2, <1>7 DEF Subtree
<1>8. CASE p \in leaves
  <2> DEFINE page == rows[p].parent   section == rows[page].parent
  <2>1. page \in pages /\ section \in sections /\ rows[section].parent = n
    BY <1>2, <1>8
  <2>2. p \in Stored /\ page \in Stored /\ section \in Stored
    BY <1>2, <1>8, <2>1
  <2>3. /\ KindOf[p] = ParentKind[KindOf[e]]
        /\ KindOf[page] = ParentKind[KindOf[p]]
        /\ KindOf[section] = ParentKind[KindOf[page]]
        /\ KindOf[n] = ParentKind[KindOf[section]]
    BY <1>3, <2>1, <2>2
  <2> QED
    BY <1>1, <2>2, <2>3 DEF Kinds, ParentKind
<1> QED
  BY <1>4, <1>5, <1>6, <1>7, <1>8

(* An empty account has no orphan and no purge.                            *)
LEMMA TreeInit == Init => TreeInv
BY InitType DEF Init, TreeInv, RetiredIdsNotStored, TreeTyped, NoOrphan, Stored, NoRow

(* Every step keeps the tree: a push adds below what is stored, an erasure *)
(* takes whole subtrees and leaves a purge.                                *)
LEMMA TreeStep == TreeInv /\ [Next]_vars => TreeInv'
<1> SUFFICES ASSUME TreeInv, [Next]_vars  PROVE TreeInv'
  OBVIOUS
<1>1. TypeOK /\ TypeOK'
  BY TypeStep DEF TreeInv
<1> USE DEF TreeInv
<1>2. \A e \in Stored : e \in Entity
  BY DEF Stored
<1>3. ASSUME NEW d \in Pusher, NEW b \in Batch, Push(d, b)  PROVE TreeInv'
  <2>1. rows' = RowsAfterPush(b) /\ purges' = purges
    BY <1>3 DEF Push
  <2>2. Accepted(b) \subseteq DOMAIN b /\ Accepted(b) \subseteq Entity
    BY AcceptedInBatch
  <2>3. Stored' = Stored \cup Accepted(b)
    BY <1>1, <2>1, <2>2, PushedRows DEF Stored
  <2>4. ASSUME NEW e \in Accepted(b)
        PROVE  /\ purges'[e] > 0 => FALSE
               /\ rows'[e].parent \in Parents(e)
               /\ IsRoot(e) \/ rows'[e].parent \in Stored'
    <3>1. rows'[e].parent = b[e].parent
      BY <1>1, <2>1, PushedRows
    <3>2. b[e].parent \in Parents(e)
      BY <2>2, ChangeType
    <3> QED
      BY <1>1, <2>1, <2>3, <3>1, <3>2, AcceptedIsAllowed
  <2>5. ASSUME NEW e \in Stored \ Accepted(b)  PROVE rows'[e] = rows[e]
    BY <1>2, <2>1 DEF RowsAfterPush
  <2>6. RetiredIdsNotStored'
    BY <2>1, <2>3, <2>4 DEF RetiredIdsNotStored
  <2>7. TreeTyped' /\ NoOrphan'
    BY <2>3, <2>4, <2>5 DEF TreeTyped, NoOrphan
  <2> QED
    BY <1>1, <2>6, <2>7
<1>4. ASSUME NEW n \in Entity, DeleteArchivedNotebook(n)  PROVE TreeInv'
  <2> DEFINE tree == Subtree([e \in Stored |-> rows[e].parent], n)
  <2>1. /\ n \in Stored /\ KindOf[n] = "notebook"
        /\ \A e \in Entity : rows'[e] = IF e \in tree THEN NoRow ELSE rows[e]
        /\ \A e \in Entity : purges'[e] > 0 => purges[e] > 0 \/ e = n
    <3>1. n \in Stored /\ KindOf[n] = "notebook"
      BY <1>4 DEF DeleteArchivedNotebook
    <3>2. \A e \in Entity : rows'[e] = IF e \in tree THEN NoRow ELSE rows[e]
      BY <1>4 DEF DeleteArchivedNotebook
    <3>3. purges' = [Pruned(purges) EXCEPT ![n] = changeSeq + 1]
      BY <1>4 DEF DeleteArchivedNotebook
    <3>4. \A e \in Entity : purges'[e] > 0 => purges[e] > 0 \/ e = n
      <4>1. \A e \in Entity : purges[e] \in Nat
        BY DEF TreeInv, TypeOK
      <4>2. \A e \in Entity : Pruned(purges)[e] \in {purges[e], 0}
        BY DEF Pruned
      <4>3. \A e \in Entity \ {n} : purges'[e] = Pruned(purges)[e]
        BY <3>3 DEF Pruned
      <4> QED
        BY <4>1, <4>2, <4>3
    <3> QED
      BY <3>1, <3>2, <3>4
  <2>2. n \in tree
    BY DEF Subtree
  <2>3. Stored' = Stored \ tree
    BY <2>1 DEF Stored, NoRow
  <2>4. \A e \in Stored' : e \in Stored /\ rows'[e] = rows[e]
    BY <1>2, <2>1, <2>3
  <2>5. RetiredIdsNotStored'
    BY <2>1, <2>2, <2>3 DEF RetiredIdsNotStored
  <2>6. TreeTyped'
    BY <2>4 DEF TreeTyped
  <2>7. NoOrphan'
    <3> SUFFICES ASSUME NEW e \in Stored', ~IsRoot(e)  PROVE rows'[e].parent \in Stored'
      BY DEF NoOrphan
    <3>1. rows[e].parent \in Stored
      BY <2>4 DEF NoOrphan
    <3>2. rows[e].parent \notin tree
      BY <1>1, <2>1, <2>3, <2>4, ErasureTakesTrees
    <3> QED
      BY <2>3, <2>4, <3>1, <3>2
  <2> QED
    BY <1>1, <2>5, <2>6, <2>7
<1>5. ASSUME NEW n \in Entity, StopHostingCloudNotebook(n)  PROVE TreeInv'
  <2>1. n \in Stored /\ purges' = purges
    BY <1>5 DEF StopHostingCloudNotebook
  <2>2. ASSUME NEW e \in Entity
        PROVE  rows'[e].parent = rows[e].parent /\ (rows'[e].ver > 0 <=> rows[e].ver > 0)
    <3>1. rows[e] \in Row
      BY <1>1 DEF TypeOK
    <3>2. CASE e = n
      BY <1>1, <1>5, <3>1, <3>2 DEF StopHostingCloudNotebook, Row, TypeOK, Stored
    <3>3. CASE e # n
      BY <1>1, <1>5, <3>3 DEF StopHostingCloudNotebook, TypeOK
    <3> QED
      BY <3>2, <3>3
  <2>3. Stored' = Stored
    BY <2>2 DEF Stored
  <2> QED
    BY <1>1, <1>2, <2>1, <2>2, <2>3 DEF RetiredIdsNotStored, TreeTyped, NoOrphan
<1>6. ASSUME UNCHANGED server  PROVE TreeInv'
  BY <1>1, <1>6 DEF server, RetiredIdsNotStored, TreeTyped, NoOrphan, Stored
<1>7. ASSUME NEW d \in Device, RegisterDevice(d) \/ RevokeDevice(d)  PROVE TreeInv'
  BY <1>6, <1>7 DEF RegisterDevice, RevokeDevice
<1>8. ASSUME NEW gone \in SUBSET Device, DeleteRevokedDevices(gone)  PROVE TreeInv'
  BY <1>6, <1>8 DEF DeleteRevokedDevices
<1>9. ASSUME NEW d \in Puller, PullStep(d) \/ PullLost(d)  PROVE TreeInv'
  BY <1>6, <1>9 DEF PullStep, PullLost, PullBound, PullCutoff, PullDelta, PullPurges,
                    PullAcknowledge, PullApply
<1>10. CASE UNCHANGED vars
  BY <1>6, <1>10 DEF vars
<1> QED
  BY <1>3, <1>4, <1>5, <1>7, <1>8, <1>9, <1>10 DEF Next

(* No push and no erasure ever leaves a row without its parent.            *)
THEOREM NoOrphanEver == Spec => []NoOrphan
<1>1. Spec => []TreeInv
  BY TreeInit, TreeStep, PTL DEF Spec
<1>2. TreeInv => NoOrphan
  BY DEF TreeInv
<1> QED
  BY <1>1, <1>2, PTL

(* An id in the purge log is never stored.                                 *)
THEOREM PurgedIdsStayErased == Spec => []RetiredIdsNotStored
<1>1. Spec => []TreeInv
  BY TreeInit, TreeStep, PTL DEF Spec
<1>2. TreeInv => RetiredIdsNotStored
  BY DEF TreeInv
<1> QED
  BY <1>1, <1>2, PTL

----------------------------------------------------------------------------
(* The shelf keeps the last copy: RetainOnDelete answers a device's delete *)
(* of a closed notebook, and only the operator's deletion goes through.    *)

ShelfStep ==
  \A n \in Stored :
    /\ KindOf[n] = "notebook" /\ rows[n].closed /\ ~rows[n].del
    /\ n \in Stored'
    /\ rows'[n].del
    => rows[n].cloud /\ rows'[n].closed /\ rows'[n].cloud

(* One step from a well typed state keeps a closed notebook's last copy.   *)
LEMMA ShelfKept == TypeOK /\ [Next]_vars => ShelfStep
<1> SUFFICES ASSUME TypeOK, [Next]_vars, NEW n \in Stored, KindOf[n] = "notebook",
                    rows[n].closed, ~rows[n].del, n \in Stored', rows'[n].del
             PROVE  rows[n].cloud /\ rows'[n].closed /\ rows'[n].cloud
  BY DEF ShelfStep
<1>1. n \in Entity /\ rows[n] \in Row /\ rows[n].ver > 0
  BY DEF Stored, TypeOK
<1>2. ASSUME rows'[n] = rows[n]  PROVE FALSE
  BY <1>2
<1>3. ASSUME NEW d \in Pusher, NEW b \in Batch, Push(d, b)  PROVE FALSE
  <2>1. rows'[n] = IF n \in Accepted(b) THEN Written(n, b[n], rows[n], changeSeq + 1) ELSE rows[n]
    BY <1>1, <1>3 DEF Push, RowsAfterPush
  <2>2. Written(n, b[n], rows[n], changeSeq + 1).del =
          (b[n].del /\ ~RetainOnDelete(n, b[n], rows[n]))
    BY DEF Written
  <2>3. ASSUME b[n].del  PROVE RetainOnDelete(n, b[n], rows[n])
    BY <1>1, <2>3 DEF RetainOnDelete
  <2> QED
    BY <1>2, <2>1, <2>2, <2>3
<1>4. ASSUME NEW m \in Entity, DeleteArchivedNotebook(m)  PROVE FALSE
  BY <1>1, <1>2, <1>4 DEF DeleteArchivedNotebook, Stored, NoRow
<1>5. ASSUME NEW m \in Entity, StopHostingCloudNotebook(m)
      PROVE  rows[n].cloud /\ rows'[n].closed /\ rows'[n].cloud
  <2>1. CASE m = n
    BY <1>1, <1>5, <2>1 DEF StopHostingCloudNotebook, TypeOK, Row
  <2>2. CASE m # n
    BY <1>1, <1>2, <1>5, <2>2 DEF StopHostingCloudNotebook, TypeOK
  <2> QED
    BY <2>1, <2>2
<1>6. ASSUME UNCHANGED server  PROVE FALSE
  BY <1>2, <1>6 DEF server
<1> QED
  BY <1>3, <1>4, <1>5, <1>6 DEF Next, vars, RegisterDevice, RevokeDevice, DeleteRevokedDevices,
     PullStep, PullLost, PullBound, PullCutoff, PullDelta, PullPurges, PullAcknowledge, PullApply

(* A device's delete never turns the last copy of a closed notebook into a *)
(* tombstone.                                                              *)
THEOREM ShelfKeeps == Spec => ShelfKeepsOnlyCopy
<1>1. TypeOK /\ [Next]_vars => ShelfStep
  BY ShelfKept
<1>2. ShelfKeepsOnlyCopy <=> [][ShelfStep]_vars
  BY DEF ShelfKeepsOnlyCopy, ShelfStep
<1> QED
  BY <1>1, <1>2, TypeCorrect, PTL DEF Spec

=============================================================================
