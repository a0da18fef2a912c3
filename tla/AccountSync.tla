---------------------------- MODULE AccountSync ----------------------------
(***************************************************************************)
(* The change log of one account: what a push, the two notebook operations *)
(* of the administration panel and the device operations do to it, and     *)
(* what a device can conclude from the pages a pull returns.               *)
(*                                                                         *)
(* Every writer of the log runs in one transaction under the account's     *)
(* advisory lock (store.BeginAccountWrite), so each is one action here.  A *)
(* pull holds no lock and no transaction: each of its queries is an        *)
(* action, and everything else may happen between two of them.  The client *)
(* is not part of the repository: it does what docs/openapi.yaml asks.     *)
(***************************************************************************)
EXTENDS Integers, FiniteSets, SyncKinds

CONSTANTS
  Device,     \* installations that may sign in to the account
  Pusher,     \* those of them whose pushes are modelled (a bound)
  Puller,     \* those of them whose pulls are modelled (a bound)
  Batch,      \* the pushes a client may send: partial functions Entity -> Change
  PageLimit,  \* the rows a pull asks for (`limit`)
  MaxSeq      \* bound on change_seq: no writer commits beyond it

ASSUME SyncAssumption ==
  /\ Pusher \subseteq Device
  /\ Puller \subseteq Device
  /\ \A b \in Batch : /\ DOMAIN b \subseteq Entity /\ IsFiniteSet(DOMAIN b)
                      /\ \A e \in DOMAIN b : b[e] \in Change(e)
  /\ PageLimit \in Nat \ {0}
  /\ MaxSeq \in Nat

VARIABLES
  changeSeq,  \* accounts.change_seq
  rows,       \* the eight synced tables: entity -> stored row, NoRow when there is none
  purges,     \* the purge log: entity -> change_seq of its purge, 0 when there is none
  devices,    \* the devices table: device -> [status, pulled (last_pulled_seq)]
  pull,       \* device -> its pull request in flight
  cursor,     \* client: the cursor it has committed
  held,       \* client: the entities it has a local copy of
  copy,       \* client: what its last received copy of an entity was
  created,    \* history: ids some client has ever pushed
  erased,     \* history: notebooks that were permanently deleted
  wasRevoked  \* history: devices that were revoked at some time

server  == <<changeSeq, rows, purges>>
client  == <<cursor, held, copy>>
history == <<created, erased, wasRevoked>>
vars    == <<server, devices, pull, client, history>>

----------------------------------------------------------------------------
(* A pull request: `since` is the cursor it presented, `upper` the account's *)
(* change_seq it read first, `end` the sequence its page ends at, `page` the *)
(* rows it rendered, `gone` the purges it read.  `awaited` says that the     *)
(* client still waits for the answer.                                        *)
Phase    == {"idle", "bounded", "cut", "delta", "purges", "acked"}
Copy     == [seq : Nat, parent : Entity \cup {NoEntity}]
NoCopy   == [seq |-> 0, parent |-> NoEntity]
Pull     == [phase : Phase, since : Nat, upper : Nat, end : Nat,
             page : [Entity -> Copy], gone : SUBSET Entity, awaited : BOOLEAN]
NoPull   == [phase |-> "idle", since |-> 0, upper |-> 0, end |-> 0,
             page |-> [e \in Entity |-> NoCopy], gone |-> {}, awaited |-> FALSE]
Delivered(p) == {e \in Entity : p.page[e].seq > 0}

Stored    == {e \in Entity : rows[e].ver > 0}
Active(d) == devices[d].status = "active"

TypeOK ==
  /\ changeSeq \in Nat
  /\ rows \in [Entity -> Row]
  /\ purges \in [Entity -> Nat]
  /\ devices \in [Device -> [status : {"absent", "active", "revoked"}, pulled : Nat]]
  /\ pull \in [Device -> Pull]
  /\ cursor \in [Device -> Nat]
  /\ held \in [Device -> SUBSET Entity]
  /\ copy \in [Device -> [Entity -> Copy]]
  /\ created \subseteq Entity
  /\ erased \subseteq Entity
  /\ wasRevoked \subseteq Device

Init ==
  /\ changeSeq = 0
  /\ rows = [e \in Entity |-> NoRow]
  /\ purges = [e \in Entity |-> 0]
  /\ devices = [d \in Device |-> [status |-> "active", pulled |-> 0]]
  /\ pull = [d \in Device |-> NoPull]
  /\ cursor = [d \in Device |-> 0]
  /\ held = [d \in Device |-> {}]
  /\ copy = [d \in Device |-> [e \in Entity |-> NoCopy]]
  /\ created = {}
  /\ erased = {}
  /\ wasRevoked = {}

----------------------------------------------------------------------------
(* Push: syncengine.ApplyChangeBatch.                                      *)

(* Faulty: a parent the batch only names would do.                         *)
FaultyMissingParent(b, e, accepted) == ~IsRoot(e) /\ b[e].parent \notin Stored \cup DOMAIN b

MissingParent(b, e, accepted) == ~IsRoot(e) /\ b[e].parent \notin Stored \cup accepted

(* Faulty: the purge log is not consulted.                                 *)
FaultyVerdict(b, e, accepted) ==
  IF MissingParent(b, e, accepted) THEN "missing_parent"
  ELSE IF rows[e].ver # b[e].base THEN "version_conflict"
  ELSE "applied"

(* What the engine answers for one change, given what the batch has        *)
(* accepted so far.  A row that does not exist has version 0 here, so one  *)
(* comparison covers both version conflicts of the code.                   *)
Verdict(b, e, accepted) ==
  IF MissingParent(b, e, accepted) THEN "missing_parent"
  ELSE IF purges[e] > 0 THEN "purged"
  ELSE IF rows[e].ver # b[e].base THEN "version_conflict"
  ELSE "applied"

AcceptedOfKind(b, kinds, accepted) ==
  {e \in DOMAIN b : KindOf[e] \in kinds /\ Verdict(b, e, accepted) = "applied"}

(* The engine goes kind by kind in rank order, so that a parent accepted   *)
(* in this batch is seen by its children.                                  *)
Accepted(b) ==
  LET notebooks == AcceptedOfKind(b, {"notebook"}, {})
      sections  == AcceptedOfKind(b, {"section"}, notebooks)
      pages     == AcceptedOfKind(b, {"page"}, sections)
      leaves    == AcceptedOfKind(b, Kinds \ {"notebook", "section", "page"}, pages)
  IN  notebooks \cup sections \cup pages \cup leaves

RowsAfterPush(b) ==
  [e \in Entity |-> IF e \in Accepted(b) THEN Written(e, b[e], rows[e], changeSeq + 1)
                                         ELSE rows[e]]

(* UNIQUE (account_id, page_id) of page_content: an accepted body whose    *)
(* page already has another body fails the statement and with it the batch.*)
Aborts(b) ==
  \E e \in Accepted(b) : \E f \in Entity \ {e} :
    /\ KindOf[e] = "pageContent" /\ KindOf[f] = "pageContent"
    /\ RowsAfterPush(b)[f].ver > 0
    /\ RowsAfterPush(b)[f].parent = b[e].parent

(* The client's local tree, and what dropping `roots` takes with it.       *)
Dropped(present, copies, roots) ==
  UNION {Subtree([e \in present |-> copies[e].parent], n) : n \in roots}

(* A client pushes what it holds, or an id no client has used before.      *)
Sendable(d, b) == \A e \in DOMAIN b : e \in held[d] \/ e \notin created

(* `heard` says whether the answer reaches the client.  If it does, the    *)
(* ids it calls purged are dropped with everything beneath them.           *)
Push(d, b) ==
  /\ Active(d)
  /\ Sendable(d, b)
  /\ ~Aborts(b)
  /\ Accepted(b) # {} => changeSeq < MaxSeq
  /\ changeSeq' = IF Accepted(b) = {} THEN changeSeq ELSE changeSeq + 1
  /\ rows' = RowsAfterPush(b)
  /\ created' = created \cup DOMAIN b
  /\ LET sent   == [e \in Entity |-> IF e \in DOMAIN b
                                     THEN [copy[d][e] EXCEPT !.parent = b[e].parent]
                                     ELSE copy[d][e]]
         mine   == held[d] \cup DOMAIN b
         purged == {e \in DOMAIN b : Verdict(b, e, Accepted(b)) = "purged"}
     IN  /\ copy' = [copy EXCEPT ![d] = sent]
         /\ \E heard \in BOOLEAN :
              held' = [held EXCEPT ![d] =
                         IF heard THEN mine \ Dropped(mine, sent, purged) ELSE mine]
  /\ UNCHANGED <<purges, devices, pull, cursor, erased, wasRevoked>>

----------------------------------------------------------------------------
(* The administration panel.                                               *)

(* store.PrunePurges: a purge stays while an active device has not         *)
(* acknowledged a cursor at or above it.                                   *)
Pruned(log) ==
  [e \in Entity |-> IF \E d \in Device : Active(d) /\ devices[d].pulled < log[e]
                    THEN log[e] ELSE 0]

(* store.DeleteArchivedNotebook: only a tombstone is erased, its subtree   *)
(* goes with it, and the purge takes a sequence value of its own.          *)
DeleteArchivedNotebook(n) ==
  /\ KindOf[n] = "notebook" /\ n \in Stored /\ rows[n].del
  /\ changeSeq < MaxSeq
  /\ changeSeq' = changeSeq + 1
  /\ LET tree == Subtree([e \in Stored |-> rows[e].parent], n)
     IN  rows' = [e \in Entity |-> IF e \in tree THEN NoRow ELSE rows[e]]
  /\ purges' = [Pruned(purges) EXCEPT ![n] = changeSeq + 1]
  /\ erased' = erased \cup {n}
  /\ UNCHANGED <<devices, pull, client, created, wasRevoked>>

(* store.StopHostingCloudNotebook: an ordinary tombstone, written for the  *)
(* operator and only for a notebook this server holds the last copy of.    *)
StopHostingCloudNotebook(n) ==
  /\ KindOf[n] = "notebook" /\ n \in Stored /\ ~rows[n].del /\ rows[n].cloud
  /\ changeSeq < MaxSeq
  /\ changeSeq' = changeSeq + 1
  /\ rows' = [rows EXCEPT ![n].del = TRUE, ![n].ver = @ + 1, ![n].seq = changeSeq + 1]
  /\ UNCHANGED <<purges, devices, pull, client, history>>

----------------------------------------------------------------------------
(* Devices.                                                                *)

(* store.RegisterDevice: a sign-in, again or for the first time.  The      *)
(* client gives up a request sent with the replaced token; one sent by a   *)
(* removed row can no longer touch a row.  It keeps its copy of the        *)
(* account or starts over.                                                 *)
RegisterDevice(d) ==
  /\ devices' = [devices EXCEPT ![d] = [status |-> "active", pulled |-> 0]]
  /\ pull' = [pull EXCEPT ![d] = IF devices[d].status = "absent" THEN NoPull
                                 ELSE [@ EXCEPT !.awaited = FALSE]]
  /\ \/ UNCHANGED client
     \/ /\ cursor' = [cursor EXCEPT ![d] = 0]
        /\ held' = [held EXCEPT ![d] = {}]
        /\ copy' = [copy EXCEPT ![d] = [e \in Entity |-> NoCopy]]
  /\ UNCHANGED <<server, history>>

(* store.RevokeDevice.  A request that was already authenticated runs on.  *)
RevokeDevice(d) ==
  /\ Active(d)
  /\ devices' = [devices EXCEPT ![d].status = "revoked"]
  /\ wasRevoked' = wasRevoked \cup {d}
  /\ UNCHANGED <<server, pull, client, created, erased>>

(* store.DeleteRevokedDevice and DeleteRevokedDevices.                     *)
DeleteRevokedDevices(gone) ==
  /\ gone # {}
  /\ \A d \in gone : devices[d].status = "revoked"
  /\ devices' = [d \in Device |-> IF d \in gone THEN [status |-> "absent", pulled |-> 0]
                                                ELSE devices[d]]
  /\ UNCHANGED <<server, pull, client, history>>

----------------------------------------------------------------------------
(* Pull: syncengine.PullChanges, one action per query.                     *)

(* The device is authenticated and the account's cursor is read; a client  *)
(* that is not behind it gets an empty page.                               *)
PullBound(d) ==
  /\ Active(d)
  /\ pull[d].phase = "idle"
  /\ pull' = [pull EXCEPT ![d] =
       [NoPull EXCEPT !.phase = IF cursor[d] >= changeSeq THEN "delta" ELSE "bounded",
                      !.since = cursor[d], !.upper = changeSeq, !.end = changeSeq,
                      !.awaited = TRUE]]
  /\ UNCHANGED <<server, devices, client, history>>

RowsBetween(low, high) == {e \in Stored : low < rows[e].seq /\ rows[e].seq <= high}

(* store.SelectDeltaCutoff: the sequences in range, those up to which the  *)
(* rows fit the page, and the sequence the page ends at.  The byte budget  *)
(* works like the row limit and is one budget with it here.                *)
Sequences(low, high) == {rows[e].seq : e \in RowsBetween(low, high)}

(* Faulty: a sequence fits when the ones before it do.                     *)
FaultyFitting(low, high) ==
  {s \in Sequences(low, high) : Cardinality(RowsBetween(low, s - 1)) <= PageLimit}

Fitting(low, high) ==
  {s \in Sequences(low, high) : Cardinality(RowsBetween(low, s)) <= PageLimit}

(* Faulty: no fallback to the first sequence.                              *)
FaultyCutoffOf(low, high) ==
  LET fit == Fitting(low, high)
  IN  IF fit = Sequences(low, high) THEN high
      ELSE IF fit # {} THEN CHOOSE s \in fit : \A t \in fit : t <= s
      ELSE low

CutoffOf(low, high) ==
  LET all == Sequences(low, high)
      fit == Fitting(low, high)
  IN  IF fit = all THEN high
      ELSE IF fit # {} THEN CHOOSE s \in fit : \A t \in fit : t <= s
      ELSE CHOOSE s \in all : \A t \in all : s <= t

PullCutoff(d) ==
  /\ pull[d].phase = "bounded"
  /\ LET low == pull[d].since   high == pull[d].upper
     IN  pull' = [pull EXCEPT
           ![d].phase = IF Sequences(low, high) = {} THEN "delta" ELSE "cut",
           ![d].end = CutoffOf(low, high)]
  /\ UNCHANGED <<server, devices, client, history>>

(* Faulty: the cursor to return is read with the rows.                     *)
FaultyPullDeltaCursor(d) ==
  /\ pull[d].phase = "cut"
  /\ LET rendered == RowsBetween(pull[d].since, pull[d].end)
     IN  pull' = [pull EXCEPT
           ![d].phase = "delta", ![d].end = changeSeq,
           ![d].page = [e \in Entity |->
                          IF e \in rendered
                          THEN [seq |-> rows[e].seq, parent |-> rows[e].parent]
                          ELSE NoCopy]]
  /\ UNCHANGED <<server, devices, client, history>>

(* Faulty: the limit cuts inside a sequence.                               *)
FaultyPullDeltaLimit(d) ==
  /\ pull[d].phase = "cut"
  /\ LET all == RowsBetween(pull[d].since, pull[d].end)
     IN  \E rendered \in SUBSET all :
           /\ Cardinality(rendered) = IF Cardinality(all) <= PageLimit
                                      THEN Cardinality(all) ELSE PageLimit
           /\ pull' = [pull EXCEPT
                ![d].phase = "delta",
                ![d].page = [e \in Entity |->
                               IF e \in rendered
                               THEN [seq |-> rows[e].seq, parent |-> rows[e].parent]
                               ELSE NoCopy]]
  /\ UNCHANGED <<server, devices, client, history>>

(* store.SelectDelta: a later snapshot than the cutoff's.                  *)
PullDelta(d) ==
  /\ pull[d].phase = "cut"
  /\ LET rendered == RowsBetween(pull[d].since, pull[d].end)
     IN  pull' = [pull EXCEPT
           ![d].phase = "delta",
           ![d].page = [e \in Entity |->
                          IF e \in rendered
                          THEN [seq |-> rows[e].seq, parent |-> rows[e].parent]
                          ELSE NoCopy]]
  /\ UNCHANGED <<server, devices, client, history>>

(* store.SelectPurges: bounded by the cursor the page will return.         *)
PullPurges(d) ==
  /\ pull[d].phase = "delta"
  /\ pull' = [pull EXCEPT
       ![d].phase = "purges",
       ![d].gone = {e \in Entity : pull[d].since < purges[e] /\ purges[e] <= pull[d].end}]
  /\ UNCHANGED <<server, devices, client, history>>

(* Faulty: the cursor the answer returns counts as acknowledged.           *)
FaultyPullAcknowledge(d) ==
  /\ pull[d].phase = "purges"
  /\ pull' = [pull EXCEPT ![d].phase = "acked"]
  /\ devices' = IF devices[d].status # "absent" /\ devices[d].pulled < pull[d].end
                THEN [devices EXCEPT ![d].pulled = pull[d].end] ELSE devices
  /\ UNCHANGED <<server, client, history>>

(* store.RecordAcknowledgedSeq: the cursor the client presented, never     *)
(* backwards, for a row that still exists.                                 *)
PullAcknowledge(d) ==
  /\ pull[d].phase = "purges"
  /\ pull' = [pull EXCEPT ![d].phase = "acked"]
  /\ devices' = IF devices[d].status # "absent" /\ devices[d].pulled < pull[d].since
                THEN [devices EXCEPT ![d].pulled = pull[d].since] ELSE devices
  /\ UNCHANGED <<server, client, history>>

(* The answer arrives: the client applies the changes, then the purges,    *)
(* and commits the cursor.                                                 *)
PullApply(d) ==
  /\ pull[d].phase = "acked" /\ pull[d].awaited
  /\ LET page == pull[d].page
         now  == [e \in Entity |-> IF e \in Delivered(pull[d]) THEN page[e] ELSE copy[d][e]]
         mine == held[d] \cup Delivered(pull[d])
     IN  /\ copy' = [copy EXCEPT ![d] = now]
         /\ held' = [held EXCEPT ![d] = mine \ Dropped(mine, now, pull[d].gone)]
  /\ cursor' = [cursor EXCEPT ![d] = pull[d].end]
  /\ pull' = [pull EXCEPT ![d] = NoPull]
  /\ UNCHANGED <<server, devices, history>>

(* The request or its answer is lost at any point, or the server restarts. *)
PullLost(d) ==
  /\ pull[d].phase # "idle"
  /\ pull' = [pull EXCEPT ![d] = NoPull]
  /\ UNCHANGED <<server, devices, client, history>>

PullStep(d) == PullBound(d) \/ PullCutoff(d) \/ PullDelta(d) \/ PullPurges(d)
                 \/ PullAcknowledge(d) \/ PullApply(d)

----------------------------------------------------------------------------
Next ==
  \/ \E d \in Pusher, b \in Batch : Push(d, b)
  \/ \E n \in Entity : DeleteArchivedNotebook(n)
  \/ \E n \in Entity : StopHostingCloudNotebook(n)
  \/ \E d \in Device : RegisterDevice(d)
  \/ \E d \in Device : RevokeDevice(d)
  \/ \E gone \in SUBSET Device : DeleteRevokedDevices(gone)
  \/ \E d \in Puller : PullStep(d)
  \/ \E d \in Puller : PullLost(d)

Spec == Init /\ [][Next]_vars

(* A client retries a pull until it is answered, and an answer is not lost  *)
(* at the same point forever: strong fairness of every query of a pull,     *)
(* because PullLost keeps disabling them.  A request nobody waits for ends  *)
(* (its context is cancelled).  Nobody has to write anything.               *)
Fairness ==
  \A d \in Puller :
    /\ WF_vars(PullBound(d)) /\ WF_vars(PullLost(d) /\ ~pull[d].awaited)
    /\ SF_vars(PullCutoff(d)) /\ SF_vars(PullDelta(d)) /\ SF_vars(PullPurges(d))
    /\ SF_vars(PullAcknowledge(d)) /\ SF_vars(PullApply(d))
FairSpec == Spec /\ Fairness

----------------------------------------------------------------------------
(* What the code promises and keeps.                                       *)

(* No orphan: every stored section, page or leaf has its parent stored, so *)
(* the engine's own parent check (missing_parent, against the rows and     *)
(* what this batch accepted) is enough for the foreign keys never to fail  *)
(* a statement, whatever an erasure cascades away between two pushes.      *)
NoOrphan == \A e \in Stored : ~IsRoot(e) => rows[e].parent \in Stored

(* An id with a purge in the log has no row: no push, not even one at base *)
(* version 0 by a device that was offline, brings an erased notebook back  *)
(* while some device may still have to hear of the purge (PurgedIDs).      *)
RetiredIdsNotStored == \A e \in Entity : purges[e] > 0 => e \notin Stored

(* No lost update (SD2): a row whose sequence the client's cursor has      *)
(* reached is the row the client last received, for any interleaving of    *)
(* pushes, erasures and moves with the three snapshots of its pulls, for   *)
(* lost answers and for repeated sign-ins.                                 *)
DeliveredUpTo ==
  \A d \in Device : \A e \in Stored :
    rows[e].seq <= cursor[d] => copy[d][e].seq = rows[e].seq

(* A purge stays in the log, above the client's cursor, until every active *)
(* device that was never revoked has dropped the erased notebook, however  *)
(* its acknowledgements race the pruning of the log.  (A notebook whose id *)
(* has come back is stored again; RetiredForever is about that.)           *)
PurgesReachHolders ==
  \A d \in Puller \ wasRevoked : \A n \in (held[d] \cap erased) \ Stored :
    Active(d) => purges[n] > cursor[d]

(* A response never splits a push: with one row of a sequence in a page,   *)
(* every row that still has that sequence is in it, whatever the limit.    *)
SequenceAtomic ==
  \A d \in Device : \A e \in Delivered(pull[d]) : \A f \in Stored :
    rows[f].seq = pull[d].page[e].seq => f \in Delivered(pull[d])

(* A response holds no more rows than were asked for, or else one push and *)
(* nothing else: what the boundary query chose still describes what is     *)
(* rendered later, or the engine's own check (checkDeltaWithinBudget)      *)
(* would fail the pull, and every retry of it.                             *)
PageWithinLimit ==
  \A d \in Device :
    \/ Cardinality(Delivered(pull[d])) <= PageLimit
    \/ \A e, f \in Delivered(pull[d]) : pull[d].page[e].seq = pull[d].page[f].seq

(* An answer that says there is more (HasMore: its page ends below the     *)
(* account's cursor) takes the client forward, so asking again until there *)
(* is no more comes to an end.                                             *)
HasMoreAdvances ==
  \A d \in Device : pull[d].end < pull[d].upper => pull[d].since < pull[d].end

(* The server keeps the last copy of a closed notebook: a step turns its   *)
(* row into a tombstone only if it was offered from this server alone, and *)
(* then only as the operator's own deletion, which leaves the shelf's      *)
(* flags set.  A device's delete never does (RetainOnDelete).              *)
ShelfKeepsOnlyCopy ==
  [][\A n \in Stored :
       /\ KindOf[n] = "notebook" /\ rows[n].closed /\ ~rows[n].del
       /\ n \in Stored'
       /\ rows'[n].del
       => rows[n].cloud /\ rows'[n].closed /\ rows'[n].cloud]_vars

(* A device that stays signed in reaches the account's cursor, however     *)
(* large a single push is and whatever sequences erasures left empty.      *)
EventuallyCaughtUp ==
  \A d \in Puller :
    <>[]Active(d) /\ <>[][~RegisterDevice(d)]_vars => <>[](cursor[d] = changeSeq)

----------------------------------------------------------------------------
(* What the documents promise and the code does not keep.                  *)

(* "The id is retired: nothing may be stored under it again."              *)
RetiredForever == erased \cap Stored = {}
=============================================================================
