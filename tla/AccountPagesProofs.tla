------------------------ MODULE AccountPagesProofs ------------------------
(***************************************************************************)
(* Proofs about the pages of AccountSync: how many rows one holds, and     *)
(* that it takes its client forward.  Both come from the query that fixes  *)
(* where a page ends, which runs in a snapshot of its own.                 *)
(***************************************************************************)
EXTENDS AccountSyncProofs, FiniteSetTheorems

----------------------------------------------------------------------------
(* Where a page ends.                                                      *)

(* The page ends above where it starts, or where it was to end at most.    *)
LEMMA CutoffAdvances ==
  ASSUME NEW low \in Nat, NEW high \in Nat, TypeOK
  PROVE  CutoffOf(low, high) = high \/ low < CutoffOf(low, high)
<1> DEFINE all == Sequences(low, high)
           fit == Fitting(low, high)
<1>1. /\ all \in SUBSET Nat
      /\ fit \subseteq all
      /\ \A s \in all : low < s /\ s <= high
  BY DEF TypeOK, Row, Sequences, Fitting, RowsBetween, Stored
<1>2. CASE fit = all
  BY <1>2 DEF CutoffOf
<1>3. CASE fit # all /\ fit # {}
  <2>1. \E s \in fit : \A t \in fit : t <= s
    BY <1>1, <1>3, GreatestExists
  <2> QED
    BY <1>1, <1>3, <2>1 DEF CutoffOf
<1>4. CASE fit # all /\ fit = {}
  <2>1. \E s \in all : \A t \in all : s <= t
    BY <1>1, <1>4, LeastExists
  <2> QED
    BY <1>1, <1>4, <2>1 DEF CutoffOf
<1> QED
  BY <1>2, <1>3, <1>4

OnePush(S) == \A e, f \in S : rows[e].seq = rows[f].seq

(* Up to there the rows fit the limit, or they are one push.               *)
LEMMA CutoffFits ==
  ASSUME NEW low \in Nat, NEW high \in Nat, TypeOK
  PROVE  \/ Cardinality(RowsBetween(low, CutoffOf(low, high))) <= PageLimit
         \/ OnePush(RowsBetween(low, CutoffOf(low, high)))
<1> DEFINE all == Sequences(low, high)
           fit == Fitting(low, high)
<1>1. /\ all \in SUBSET Nat
      /\ fit \subseteq all
      /\ \A s \in all : s <= high
      /\ \A s \in fit : Cardinality(RowsBetween(low, s)) <= PageLimit
  BY DEF TypeOK, Row, Sequences, Fitting, RowsBetween, Stored
<1>2. CASE all = {}
  <2>1. CutoffOf(low, high) = high
    BY <1>1, <1>2 DEF CutoffOf
  <2>2. RowsBetween(low, high) = {}
    BY <1>2 DEF Sequences
  <2> QED
    BY <2>1, <2>2 DEF OnePush
<1>3. CASE fit = all /\ all # {}
  <2>1. PICK s \in all : \A t \in all : t <= s
    BY <1>1, <1>3, GreatestExists
  <2>2. RowsBetween(low, high) = RowsBetween(low, s)
    <3>1. s \in Nat /\ s <= high
      BY <1>1
    <3>2. \A e \in Stored : rows[e].seq \in Nat
      BY DEF TypeOK, Row, Stored
    <3>3. RowsBetween(low, s) \subseteq RowsBetween(low, high)
      BY <3>1, <3>2 DEF RowsBetween
    <3>4. \A e \in RowsBetween(low, high) : rows[e].seq <= s
      BY <2>1 DEF Sequences
    <3>5. RowsBetween(low, high) \subseteq RowsBetween(low, s)
      BY <3>4 DEF RowsBetween
    <3> QED
      BY <3>3, <3>5
  <2>3. CutoffOf(low, high) = high
    BY <1>3 DEF CutoffOf
  <2> QED
    BY <1>1, <1>3, <2>1, <2>2, <2>3
<1>4. CASE fit # all /\ fit # {}
  <2>1. \E s \in fit : \A t \in fit : t <= s
    BY <1>1, <1>4, GreatestExists
  <2>2. CutoffOf(low, high) \in fit
    BY <1>4, <2>1 DEF CutoffOf
  <2> QED
    BY <1>1, <2>2
<1>5. CASE fit # all /\ fit = {}
  <2>1. \E s \in all : \A t \in all : s <= t
    BY <1>1, <1>5, LeastExists
  <2> DEFINE first == CutoffOf(low, high)
  <2>2. first \in all /\ \A t \in all : first <= t
    BY <1>5, <2>1 DEF CutoffOf
  <2> HIDE DEF first
  <2>3. ASSUME NEW e \in RowsBetween(low, first)
        PROVE  rows[e].seq = first
    <3>1. rows[e].seq \in Nat /\ first \in Nat /\ first <= high /\ rows[e].seq <= first
      BY <1>1, <2>2 DEF TypeOK, Row, Stored, RowsBetween
    <3>2. rows[e].seq \in all
      BY <3>1 DEF Sequences, RowsBetween
    <3> QED
      BY <2>2, <3>1, <3>2
  <2> QED
    BY <2>3 DEF OnePush, first
<1> QED
  BY <1>2, <1>3, <1>4, <1>5

----------------------------------------------------------------------------
(* What it holds.                                                          *)

PageFits(d) ==
  \/ Cardinality(Delivered(pull[d])) <= PageLimit
  \/ \A e, f \in Delivered(pull[d]) : pull[d].page[e].seq = pull[d].page[f].seq
RangeFits(d) ==
  \/ Cardinality(RowsBetween(pull[d].since, pull[d].end)) <= PageLimit
  \/ OnePush(RowsBetween(pull[d].since, pull[d].end))

(* The inductive invariant: from the query that fixes where a page ends to *)
(* the one that reads its rows, what there is to read fits.  A writer in   *)
(* between can only take rows from that range, for what it writes lies     *)
(* above the bound.                                                        *)
PagingInv ==
  /\ DeliveryInv /\ IsFiniteSet(Stored)
  /\ \A d \in Device : /\ PageFits(d)
                       /\ pull[d].phase = "cut" => RangeFits(d)
                       /\ pull[d].end < pull[d].upper => pull[d].since < pull[d].end

(* Nothing has been asked of an account nobody has written to.             *)
LEMMA PagingInit == Init => PagingInv
<1> SUFFICES ASSUME Init PROVE PagingInv
  OBVIOUS
<1>1. IsFiniteSet(Stored)
  <2>1. Stored = {}
    BY DEF Init, Stored, NoRow
  <2> QED
    BY <2>1, FS_EmptySet
<1>2. ASSUME NEW d \in Device
      PROVE  /\ PageFits(d) /\ pull[d].phase # "cut" /\ ~(pull[d].end < pull[d].upper)
  BY DEF Init, PageFits, Delivered, NoPull, NoCopy
<1> QED
  BY <1>1, <1>2, DeliveryInit DEF PagingInv

(* A writer leaves less to read below the bound of a request, and what it  *)
(* leaves is as it was.                                                    *)
LEMMA WritesShrinkRange ==
  ASSUME DeliveryInv, IsFiniteSet(Stored), TypeOK', Writes, NEW d \in Device, RangeFits(d)
  PROVE  RangeFits(d)'
<1> DEFINE low == pull[d].since   high == pull[d].end
<1>1. /\ low \in Nat /\ high \in Nat /\ high <= changeSeq /\ changeSeq \in Nat
      /\ pull'[d] = pull[d]
  BY DEF DeliveryInv, PageInv, TypeOK, Pull, Writes
<1>2. ASSUME NEW e \in Stored', low < rows'[e].seq, rows'[e].seq <= high
      PROVE  rows'[e] = rows[e]
  <2>1. e \in Entity /\ rows'[e] # NoRow
    BY DEF Stored, NoRow
  <2> QED
    BY <1>1, <1>2, <2>1 DEF Writes
<1>3. RowsBetween(low, high)' \subseteq RowsBetween(low, high)
  BY <1>1, <1>2 DEF RowsBetween, Stored
<1>4. \A e \in RowsBetween(low, high)' : rows'[e] = rows[e]
  BY <1>1, <1>2 DEF RowsBetween
<1>5. IsFiniteSet(RowsBetween(low, high))
  <2>1. RowsBetween(low, high) \in SUBSET Stored
    BY DEF RowsBetween
  <2> QED
    BY <2>1, FS_Subset
<1>6. CASE Cardinality(RowsBetween(low, high)) <= PageLimit
  <2> DEFINE R == RowsBetween(low, high)
             T == RowsBetween(low, high)'
  <2>1. T \in SUBSET R /\ IsFiniteSet(R) /\ Cardinality(R) <= PageLimit
    BY <1>3, <1>5, <1>6
  <2> HIDE DEF R, T
  <2>2. /\ Cardinality(T) <= Cardinality(R) /\ IsFiniteSet(T)
    BY <2>1, FS_Subset
  <2>3. Cardinality(T) \in Nat /\ Cardinality(R) \in Nat
    BY <2>1, <2>2, FS_CardinalityType
  <2>4. Cardinality(T) <= PageLimit
    BY <2>1, <2>2, <2>3, SyncAssumption
  <2> QED
    BY <2>4 DEF RangeFits, T
<1>7. CASE OnePush(RowsBetween(low, high))
  <2>1. OnePush(RowsBetween(low, high))'
    BY <1>3, <1>4, <1>7 DEF OnePush
  <2> QED
    BY <2>1 DEF RangeFits
<1> QED
  BY <1>6, <1>7 DEF RangeFits

(* A writer stores finitely many rows, for a push is a finite batch.       *)
LEMMA StoredStaysFinite ==
  ASSUME DeliveryInv, IsFiniteSet(Stored), [Next]_vars
  PROVE  IsFiniteSet(Stored)'
<1>1. TypeOK
  BY DEF DeliveryInv
<1>2. ASSUME NEW d \in Pusher, NEW b \in Batch, Push(d, b)
      PROVE  IsFiniteSet(Stored)'
  <2>1. Stored' = Stored \cup Accepted(b)
    BY <1>1, <1>2, PushStores
  <2>2. IsFiniteSet(Accepted(b))
    BY AcceptedInBatch, SyncAssumption, FS_Subset
  <2> QED
    BY <2>1, <2>2, FS_Union
<1>3. ASSUME Stored' \subseteq Stored
      PROVE  IsFiniteSet(Stored)'
  BY <1>3, FS_Subset
<1>4. ASSUME NEW n \in Entity, DeleteArchivedNotebook(n)
      PROVE  Stored' \subseteq Stored
  <2>1. \A e \in Entity : rows'[e] = rows[e] \/ rows'[e] = NoRow
    BY <1>4 DEF DeleteArchivedNotebook
  <2> QED
    BY <2>1 DEF Stored, NoRow
<1>5. ASSUME NEW n \in Entity, StopHostingCloudNotebook(n)
      PROVE  Stored' \subseteq Stored
  BY <1>1, <1>5, StopStores
<1>6. ASSUME UNCHANGED server
      PROVE  Stored' \subseteq Stored
  BY <1>6 DEF server, Stored
<1> QED
  BY <1>2, <1>3, <1>4, <1>5, <1>6 DEF Next, vars, RegisterDevice, RevokeDevice,
     DeleteRevokedDevices, PullStep, PullLost, PullBound, PullCutoff, PullDelta, PullPurges,
     PullAcknowledge, PullApply

(* The queries of a pull: the cutoff fixes a range that fits, and the rows *)
(* that are read are those of the range.                                   *)
LEMMA PullPages ==
  ASSUME PagingInv, NEW d \in Puller, PullStep(d) \/ PullLost(d), NEW c \in Device
  PROVE  /\ PageFits(c)'
         /\ pull'[c].phase = "cut" => RangeFits(c)'
         /\ pull'[c].end < pull'[c].upper => pull'[c].since < pull'[c].end
<1>1. /\ TypeOK /\ d \in Device /\ PageFits(c)
      /\ pull[c].phase = "cut" => RangeFits(c)
      /\ pull[c].end < pull[c].upper => pull[c].since < pull[c].end
  BY SyncAssumption DEF PagingInv, DeliveryInv
<1>2. UNCHANGED rows
  BY DEF PullStep, PullLost, PullBound, PullCutoff, PullDelta, PullPurges, PullAcknowledge,
     PullApply, server
<1>3. \A low, high : RowsBetween(low, high)' = RowsBetween(low, high)
  BY <1>2 DEF RowsBetween, Stored
<1>4. ASSUME /\ pull'[c].since = pull[c].since /\ pull'[c].end = pull[c].end
             /\ pull'[c].upper = pull[c].upper /\ pull'[c].page = pull[c].page
             /\ pull'[c].phase = "cut" => pull[c].phase = "cut"
      PROVE  /\ PageFits(c)'
             /\ pull'[c].phase = "cut" => RangeFits(c)'
             /\ pull'[c].end < pull'[c].upper => pull'[c].since < pull'[c].end
  BY <1>1, <1>2, <1>4 DEF PageFits, Delivered, RangeFits, OnePush, RowsBetween, Stored
<1>5. CASE c # d
  BY <1>1, <1>4, <1>5 DEF PullStep, PullLost, PullBound, PullCutoff, PullDelta, PullPurges,
     PullAcknowledge, PullApply, TypeOK
<1>6. CASE c = d /\ (PullBound(d) \/ PullApply(d) \/ PullLost(d))
  <2>1. /\ pull'[c].page = NoPull.page /\ pull'[c].end = pull'[c].upper
        /\ pull'[c].phase # "cut" /\ pull'[c].end \in Nat
    <3>1. CASE PullBound(d)
      BY <1>1, <1>6, <3>1 DEF PullBound, TypeOK, NoPull
    <3>2. CASE pull' = [pull EXCEPT ![d] = NoPull]
      BY <1>1, <1>6, <3>2 DEF TypeOK, NoPull
    <3> QED
      BY <1>6, <3>1, <3>2 DEF PullApply, PullLost
  <2>2. PageFits(c)'
    BY <2>1 DEF PageFits, Delivered, NoPull, NoCopy
  <2> QED
    BY <2>1, <2>2
<1>7. CASE c = d /\ PullCutoff(d)
  <2> DEFINE low == pull[d].since   high == pull[d].upper
  <2>1. low \in Nat /\ high \in Nat
    BY <1>1 DEF TypeOK, Pull
  <2>2. /\ pull'[c].since = low /\ pull'[c].end = CutoffOf(low, high)
        /\ pull'[c].upper = high /\ pull'[c].page = pull[c].page
    BY <1>1, <1>7 DEF PullCutoff, TypeOK
  <2>3. CutoffOf(low, high) \in Nat
    BY <1>1, <2>1, CutoffInRange
  <2>4. CutoffOf(low, high) < high => low < CutoffOf(low, high)
    BY <1>1, <2>1, <2>3, CutoffAdvances
  <2>5. RangeFits(c)'
    BY <1>1, <1>2, <2>1, <2>2, CutoffFits DEF RangeFits, OnePush, RowsBetween, Stored
  <2>6. PageFits(c)'
    BY <1>1, <2>2 DEF PageFits, Delivered
  <2> QED
    BY <2>2, <2>4, <2>5, <2>6
<1>8. CASE c = d /\ PullDelta(d)
  <2> DEFINE R == RowsBetween(pull[d].since, pull[d].end)
  <2>1. /\ pull'[c].since = pull[c].since /\ pull'[c].end = pull[c].end
        /\ pull'[c].upper = pull[c].upper /\ pull'[c].phase = "delta" /\ RangeFits(c)
        /\ pull'[c].page = [e \in Entity |->
                              IF e \in R THEN [seq |-> rows[e].seq, parent |-> rows[e].parent]
                                         ELSE NoCopy]
    BY <1>1, <1>8 DEF PullDelta, TypeOK
  <2>2. Delivered(pull'[c]) = R
    <3>1. \A e \in R : rows[e].seq > 0 /\ e \in Entity
      BY <1>1 DEF RowsBetween, Stored, TypeOK, Row
    <3> HIDE DEF R
    <3> QED
      BY <2>1, <3>1 DEF Delivered, NoCopy
  <2>3. \A e \in R : pull'[c].page[e].seq = rows[e].seq
    BY <2>1 DEF RowsBetween, Stored
  <2>4. PageFits(c)'
    BY <1>8, <2>1, <2>2, <2>3 DEF PageFits, RangeFits, OnePush
  <2> QED
    BY <1>1, <2>1, <2>4
<1>9. CASE c = d /\ (PullPurges(d) \/ PullAcknowledge(d))
  <2>1. /\ pull'[c].since = pull[c].since /\ pull'[c].end = pull[c].end
        /\ pull'[c].upper = pull[c].upper /\ pull'[c].page = pull[c].page
        /\ pull'[c].phase # "cut"
    <3>1. CASE PullPurges(d)
      BY <1>1, <1>9, <3>1 DEF PullPurges, TypeOK
    <3>2. CASE PullAcknowledge(d)
      BY <1>1, <1>9, <3>2 DEF PullAcknowledge, TypeOK
    <3> QED
      BY <1>9, <3>1, <3>2
  <2> QED
    BY <1>4, <2>1
<1> QED
  BY <1>5, <1>6, <1>7, <1>8, <1>9 DEF PullStep

(* Every step keeps the pages within their limit.                          *)
LEMMA PagingStep == PagingInv /\ [Next]_vars => PagingInv'
<1> SUFFICES ASSUME PagingInv, [Next]_vars PROVE PagingInv'
  OBVIOUS
<1>1. /\ DeliveryInv' /\ IsFiniteSet(Stored)' /\ TypeOK /\ TypeOK'
  BY DeliveryStep, StoredStaysFinite, TypeStep DEF PagingInv, DeliveryInv
<1>2. ASSUME Writes
      PROVE  PagingInv'
  <2> SUFFICES ASSUME NEW d \in Device
               PROVE  /\ PageFits(d)'
                      /\ pull'[d].phase = "cut" => RangeFits(d)'
                      /\ pull'[d].end < pull'[d].upper => pull'[d].since < pull'[d].end
    BY <1>1 DEF PagingInv
  <2>1. pull' = pull
    BY <1>2 DEF Writes
  <2>2. RangeFits(d) => RangeFits(d)'
    BY <1>1, <1>2, WritesShrinkRange DEF PagingInv
  <2> QED
    BY <2>1, <2>2 DEF PagingInv, PageFits, Delivered
<1>3. ASSUME NEW d \in Pusher, NEW b \in Batch, Push(d, b)
      PROVE  PagingInv'
  BY <1>1, <1>2, <1>3, PushWrites, SyncAssumption
<1>4. ASSUME NEW n \in Entity, DeleteArchivedNotebook(n) \/ StopHostingCloudNotebook(n)
      PROVE  PagingInv'
  BY <1>1, <1>2, <1>4, DeleteArchivedNotebookWrites, StopHostingCloudNotebookWrites
<1>5. ASSUME UNCHANGED server,
             \A d \in Device : \/ pull'[d] = pull[d]
                               \/ pull'[d] = NoPull
                               \/ pull'[d] = [pull[d] EXCEPT !.awaited = FALSE]
      PROVE  PagingInv'
  <2> SUFFICES ASSUME NEW d \in Device
               PROVE  /\ PageFits(d)'
                      /\ pull'[d].phase = "cut" => RangeFits(d)'
                      /\ pull'[d].end < pull'[d].upper => pull'[d].since < pull'[d].end
    BY <1>1 DEF PagingInv
  <2>1. CASE pull'[d] = NoPull
    BY <2>1 DEF PageFits, Delivered, NoPull, NoCopy
  <2>2. CASE pull'[d] # NoPull
    <3>1. /\ pull'[d].phase = pull[d].phase /\ pull'[d].since = pull[d].since
          /\ pull'[d].end = pull[d].end /\ pull'[d].upper = pull[d].upper
          /\ pull'[d].page = pull[d].page
      <4>1. pull[d] \in Pull
        BY <1>1 DEF TypeOK
      <4>2. CASE pull'[d] = pull[d]
        BY <4>2
      <4>3. CASE pull'[d] = [pull[d] EXCEPT !.awaited = FALSE]
        BY <4>1, <4>3 DEF Pull
      <4> QED
        BY <1>5, <2>2, <4>2, <4>3
    <3> QED
      BY <1>5, <3>1 DEF PagingInv, server, PageFits, Delivered, RangeFits, OnePush,
         RowsBetween, Stored
  <2> QED
    BY <2>1, <2>2
<1>6. ASSUME NEW d \in Device, RegisterDevice(d)
      PROVE  PagingInv'
  BY <1>1, <1>5, <1>6 DEF RegisterDevice, TypeOK
<1>7. ASSUME \/ \E d \in Device : RevokeDevice(d)
             \/ \E gone \in SUBSET Device : DeleteRevokedDevices(gone)
             \/ UNCHANGED vars
      PROVE  PagingInv'
  BY <1>5, <1>7 DEF RevokeDevice, DeleteRevokedDevices, vars
<1>8. ASSUME NEW d \in Puller, PullStep(d) \/ PullLost(d)
      PROVE  PagingInv'
  BY <1>1, <1>8, PullPages DEF PagingInv
<1> QED
  BY <1>3, <1>4, <1>6, <1>7, <1>8 DEF Next

(* A response holds no more rows than were asked for or one push, although *)
(* its size was fixed in an earlier snapshot than the one it is read in    *)
(* (SelectDeltaCutoff, SelectDelta).                                       *)
THEOREM PagesStayWithinLimit == Spec => []PageWithinLimit
<1>1. PagingInv => PageWithinLimit
  BY DEF PagingInv, PageWithinLimit, PageFits
<1> QED
  BY <1>1, PagingInit, PagingStep, PTL DEF Spec

(* No answer tells its client to ask again from where it already was.      *)
THEOREM AnswersTakeForward == Spec => []HasMoreAdvances
<1>1. PagingInv => HasMoreAdvances
  BY DEF PagingInv, HasMoreAdvances
<1> QED
  BY <1>1, PagingInit, PagingStep, PTL DEF Spec
=============================================================================
