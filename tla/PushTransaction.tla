--------------------------- MODULE PushTransaction ---------------------------
(***************************************************************************)
(* Pushes as transactions: POST /v1/changes with syncengine.ApplyChange-   *)
(* Batch step by step.  A request takes the advisory lock of its account,  *)
(* looks for the answer of an earlier try, decides, writes, records its    *)
(* answer and commits; it may fail at every step, and a commit may take    *)
(* effect although its request hears of a failure.  Clients send a batch   *)
(* again whenever they like, several tries of it at once included.         *)
(*                                                                         *)
(* What a decision looks at beyond versions and retired ids is the subject *)
(* of AccountSync, where a push is one step; that it may be one there is   *)
(* what Implements says here.                                              *)
(***************************************************************************)
EXTENDS PushBatch

CONSTANTS
  Request,    \* handlers of pushes
  LockKey,    \* the 32-bit keys of advisory locks
  LockKeyOf,  \* account -> its lock's key (accountLockKey), not injective
  Free,       \* no request holds the lock
  SentUntil,  \* bounds on the time up to which each batch is sent
  MaxRevoked, \* bounds on how often each device is revoked
  Cursors,    \* cursors that pulls present (a bound)
  MaxSeq,     \* bounds on change_seq: beyond, the operator does not write
  MaxLog,     \* bound on the pushes that commit
  MaxClock    \* bound on the clock

ASSUME TransactionAssumption ==
  /\ LockKeyOf \in [Account -> LockKey]
  /\ Free \notin Request
  /\ SentUntil \in [Key -> Nat]
  /\ MaxRevoked \in [Device -> Nat]
  /\ Cursors \subseteq Nat
  /\ MaxSeq \in [Account -> Nat]
  /\ MaxLog \in Nat
  /\ MaxClock \in Nat

VARIABLES
  rows,       \* the notebooks table: account -> id -> version, 0 for no row
  purges,     \* the purge log: account -> id -> its sequence, 0 for none
  changeSeq,  \* accounts.change_seq
  stored,     \* applied_batches: device and batch id -> [at (created_at), answer]
  devices,    \* the devices table: installation -> [status, pulled]
  locks,      \* advisory lock key -> the request whose transaction holds it
  request,    \* the requests in flight
  clock,      \* the database's clock
  log,        \* history: the pushes that committed
  removed,    \* history: devices whose row was removed at some time
  revoked,    \* history: how often each device was revoked
  informed    \* history: <<device, id>>: a cursor the device acknowledged
              \* says that it knows of the id's purge

database == <<rows, purges, changeSeq, stored>>
history  == <<log, removed, revoked, informed>>
vars     == <<database, devices, locks, request, clock, history>>

----------------------------------------------------------------------------
(* A request: the batch it pushes, when its transaction began (now()), the *)
(* changes it accepted and the answer it is going to give.                 *)
HoldsLock == {"locked", "decided", "written", "recorded"}
Phases    == {"idle", "waiting", "answering"} \cup HoldsLock
NoRequest == [phase |-> "idle"]
InFlight  == [phase : Phases \ {"idle"}, key : Key, now : Nat,
              pending : SUBSET Nat, answer : Answer]
NoAnswer  == [applied |-> {}, cursor |-> 0]

Started(k, now)    == [phase |-> "waiting", key |-> k, now |-> now,
                       pending |-> {}, answer |-> NoAnswer]
Answering(k, told) == [phase |-> "answering", key |-> k, now |-> 0,
                       pending |-> {}, answer |-> told]

(* A row of devices: whether its token is good (revoked_at), and the last  *)
(* cursor it presented (last_pulled_seq).                                  *)
DeviceRow == [status : {"active", "revoked", "absent"}, pulled : Nat]
SignedIn  == [status |-> "active", pulled |-> 0]
NoRow     == [status |-> "absent", pulled |-> 0]
Active(d) == devices[d].status = "active"
HasRow(d) == devices[d].status # "absent"

(* The ids an account has erased and not yet forgotten.                    *)
Retired(a) == {e \in Entity : purges[a][e] > 0}

KeyOf(r)   == request[r].key
AccOf(r)   == Owner(KeyOf(r))
Batch(r)   == Content[KeyOf(r)]
Lock(r)    == LockKeyOf[AccOf(r)]
Phase(r)   == request[r].phase

TypeOK ==
  /\ rows \in [Account -> Rows]
  /\ purges \in [Account -> Rows]
  /\ changeSeq \in [Account -> Nat]
  /\ stored \in [Key -> Memory]
  /\ devices \in [Device -> DeviceRow]
  /\ locks \in [LockKey -> Request \cup {Free}]
  /\ request \in [Request -> InFlight \cup {NoRequest}]
  /\ clock \in Nat
  /\ log \in Seq(Effect)
  /\ removed \subseteq Device
  /\ revoked \in [Device -> Nat]
  /\ informed \subseteq Device \X Entity

Init ==
  /\ rows = [a \in Account |-> [e \in Entity |-> 0]]
  /\ purges = [a \in Account |-> [e \in Entity |-> 0]]
  /\ changeSeq = [a \in Account |-> 0]
  /\ stored = [k \in Key |-> Nothing]
  /\ devices = [d \in Device |-> SignedIn]
  /\ locks = [l \in LockKey |-> Free]
  /\ request = [r \in Request |-> NoRequest]
  /\ clock = 0
  /\ log = <<>>
  /\ removed = {}
  /\ revoked = [d \in Device |-> 0]
  /\ informed = {}

----------------------------------------------------------------------------
(* A client sends a batch, or sends it again; its device is authenticated, *)
(* the transaction begins and asks for the lock.                           *)
BeginAccountWrite(r, k) ==
  /\ Phase(r) = "idle"
  /\ Active(k[1]) /\ clock <= SentUntil[k]
  /\ request' = [request EXCEPT ![r] = Started(k, clock)]
  /\ UNCHANGED <<database, devices, locks, clock, history>>

(* Faulty: every request has a lock of its own.                            *)
FaultyLockAccount(r) ==
  /\ Phase(r) = "waiting"
  /\ request' = [request EXCEPT ![r].phase = "locked"]
  /\ UNCHANGED <<database, devices, locks, clock, history>>

LockAccount(r) ==
  /\ Phase(r) = "waiting"
  /\ locks[Lock(r)] = Free
  /\ locks' = [locks EXCEPT ![Lock(r)] = r]
  /\ request' = [request EXCEPT ![r].phase = "locked"]
  /\ UNCHANGED <<database, devices, clock, history>>

(* The transaction ends: its lock is free again.                           *)
Released(r) == [l \in LockKey |-> IF locks[l] = r THEN Free ELSE locks[l]]

(* Faulty: an answer is looked up by the batch id alone.                   *)
FaultyReplay(r) ==
  /\ Phase(r) = "locked"
  /\ \E k \in Key : /\ k[2] = KeyOf(r)[2]
                    /\ Fresh(stored[k], request[r].now)
                    /\ request' = [request EXCEPT
                         ![r] = Answering(KeyOf(r), stored[k].answer)]
  /\ locks' = Released(r)
  /\ UNCHANGED <<database, devices, clock, history>>

(* FindAppliedBatchResponse finds an answer: it is given again, and the    *)
(* transaction is rolled back.                                             *)
Replay(r) ==
  /\ Phase(r) = "locked"
  /\ Fresh(stored[KeyOf(r)], request[r].now)
  /\ request' = [request EXCEPT
       ![r] = Answering(KeyOf(r), stored[KeyOf(r)].answer)]
  /\ locks' = Released(r)
  /\ UNCHANGED <<database, devices, clock, history>>

(* It finds none: the changes are decoded and decided.                     *)
Decide(r) ==
  /\ Phase(r) = "locked"
  /\ ~Fresh(stored[KeyOf(r)], request[r].now)
  /\ request' = [request EXCEPT
       ![r].phase = "decided",
       ![r].pending = Pending(Batch(r), rows[AccOf(r)], Retired(AccOf(r)))]
  /\ UNCHANGED <<database, devices, locks, clock, history>>

(* AllocateChangeSeq and WriteChanges, or ReadChangeSeq when there is      *)
(* nothing to write.  A written row names its writer, which must exist.    *)
WriteChanges(r) ==
  /\ Phase(r) = "decided"
  /\ ~GuardFails(Batch(r), request[r].pending, rows[AccOf(r)])
  /\ request[r].pending # {} => HasRow(KeyOf(r)[1])
  /\ request' = [request EXCEPT
       ![r].phase = "written",
       ![r].answer = Outcome(Batch(r), request[r].pending, changeSeq[AccOf(r)])]
  /\ UNCHANGED <<database, devices, locks, clock, history>>

(* The answer is stored, which names the device it is for.                 *)
RecordAppliedBatchResponse(r) ==
  /\ Phase(r) = "written"
  /\ HasRow(KeyOf(r)[1])
  /\ request' = [request EXCEPT ![r].phase = "recorded"]
  /\ UNCHANGED <<database, devices, locks, clock, history>>

(* What the answers are then; one push in 32 also prunes its device's      *)
(* expired ones.                                                           *)
StoredAfter(r, prunes) ==
  [k \in Key |->
     IF k = KeyOf(r)
       THEN [at |-> request[r].now, answer |-> request[r].answer]
     ELSE IF /\ prunes /\ k[1] = KeyOf(r)[1]
             /\ stored[k].at < request[r].now - Window
       THEN Nothing
     ELSE stored[k]]

(* The commit.  `heard` says whether the request learns of it: if not it   *)
(* ends with an error, though everything it did is stored.                 *)
Commit(r) ==
  /\ Phase(r) = "recorded"
  /\ Len(log) < MaxLog
  /\ rows' = [rows EXCEPT ![AccOf(r)] = RowsAfter(Batch(r), request[r].pending, @)]
  /\ changeSeq' = [changeSeq EXCEPT ![AccOf(r)] = request[r].answer.cursor]
  /\ \E prunes \in BOOLEAN : stored' = StoredAfter(r, prunes)
  /\ log' = Append(log, [key |-> KeyOf(r), at |-> request[r].now,
                         answer |-> request[r].answer])
  /\ locks' = Released(r)
  /\ \E heard \in BOOLEAN :
       request' = [request EXCEPT ![r] =
         IF heard THEN Answering(KeyOf(r), request[r].answer) ELSE NoRequest]
  /\ UNCHANGED <<purges, devices, clock, removed, revoked, informed>>

(* The request fails before its commit: a cancelled context, a statement's *)
(* error (ErrConcurrentWrite, a writer that is gone), a crash of server or *)
(* database.  Its transaction is rolled back.                              *)
Fail(r) ==
  /\ Phase(r) \in {"waiting"} \cup HoldsLock
  /\ request' = [request EXCEPT ![r] = NoRequest]
  /\ locks' = Released(r)
  /\ UNCHANGED <<database, devices, clock, history>>

(* The answer has reached the client, or never will.                       *)
AnswerPush(r) ==
  /\ Phase(r) = "answering"
  /\ request' = [request EXCEPT ![r] = NoRequest]
  /\ UNCHANGED <<database, devices, locks, clock, history>>

----------------------------------------------------------------------------
(* Faulty: a purge is pruned whatever the devices have acknowledged.       *)
FaultyPruned(a) == [e \in Entity |-> 0]

(* PrunePurges: a purge stays while an active device of the account has    *)
(* not acknowledged it.                                                    *)
Pruned(a) ==
  [e \in Entity |->
     IF \E d \in Device : /\ AccountOf[d] = a /\ Active(d)
                          /\ devices[d].pulled < purges[a][e]
       THEN purges[a][e] ELSE 0]

(* The operator's two writers take the account's lock for one short        *)
(* transaction, so each is one step.  That a notebook has to be archived,  *)
(* or hosted here only, is in its contents and left to AccountSync.        *)
DeleteArchivedNotebook(a, e) ==
  /\ locks[LockKeyOf[a]] = Free
  /\ rows[a][e] > 0 /\ changeSeq[a] < MaxSeq[a]
  /\ rows' = [rows EXCEPT ![a][e] = 0]
  /\ purges' = [purges EXCEPT ![a] = [Pruned(a) EXCEPT ![e] = changeSeq[a] + 1]]
  /\ changeSeq' = [changeSeq EXCEPT ![a] = @ + 1]
  /\ UNCHANGED <<stored, devices, locks, request, clock, history>>

StopHostingCloudNotebook(a, e) ==
  /\ locks[LockKeyOf[a]] = Free
  /\ rows[a][e] > 0 /\ changeSeq[a] < MaxSeq[a]
  /\ rows' = [rows EXCEPT ![a][e] = @ + 1]
  /\ changeSeq' = [changeSeq EXCEPT ![a] = @ + 1]
  /\ UNCHANGED <<purges, stored, devices, locks, request, clock, history>>

----------------------------------------------------------------------------
(* Devices.                                                                *)

(* A row that names its writer keeps the writer's row from being deleted,  *)
(* and its token from being changed, until the transaction ends.           *)
Pinned(d) ==
  \E r \in Request : /\ Phase(r) \in {"written", "recorded"} /\ KeyOf(r)[1] = d
                     /\ Phase(r) = "recorded" \/ request[r].pending # {}

(* Requests a device sent before it was revoked run on.                    *)
RevokeDevice(d) ==
  /\ Active(d) /\ revoked[d] < MaxRevoked[d]
  /\ devices' = [devices EXCEPT ![d].status = "revoked"]
  /\ revoked' = [revoked EXCEPT ![d] = @ + 1]
  /\ UNCHANGED <<database, locks, request, clock, log, removed, informed>>

(* A revoked device is removed and its answers cascade away.  Requests it  *)
(* sent before run on.                                                     *)
DeleteRevokedDevice(d) ==
  /\ devices[d].status = "revoked" /\ ~Pinned(d)
  /\ devices' = [devices EXCEPT ![d] = NoRow]
  /\ stored' = [k \in Key |-> IF k[1] = d THEN Nothing ELSE stored[k]]
  /\ removed' = removed \cup {d}
  /\ UNCHANGED <<rows, purges, changeSeq, locks, request, clock, log, revoked, informed>>

(* The installation signs in again: its row is reset, or it gets a new     *)
(* one.  What it sent under a row that is gone can only fail now (Fail),   *)
(* and is taken to have failed.                                            *)
RegisterDevice(d) ==
  /\ ~Pinned(d)
  /\ ~HasRow(d) =>
       \A r \in Request : Phase(r) \in {"waiting"} \cup HoldsLock => KeyOf(r)[1] # d
  /\ devices' = [devices EXCEPT ![d] = SignedIn]
  /\ UNCHANGED <<database, locks, request, clock, history>>

(* A pull presents the cursor up to which its device has applied what the  *)
(* account had, purges included.  It may be a late one, or the device      *)
(* revoked since; the highest cursor stays.                                *)
RecordAcknowledgedSeq(d, since) ==
  /\ HasRow(d) /\ devices[d].pulled < since
  /\ devices' = [devices EXCEPT ![d].pulled = since]
  /\ informed' = informed \cup
       {<<d, e>> : e \in {f \in Retired(AccountOf[d]) : purges[AccountOf[d]][f] <= since}}
  /\ UNCHANGED <<database, locks, request, clock, log, removed, revoked>>

Tick ==
  /\ clock < MaxClock
  /\ clock' = clock + 1
  /\ UNCHANGED <<database, devices, locks, request, history>>

----------------------------------------------------------------------------
PushStep(r) == LockAccount(r) \/ Replay(r) \/ Decide(r) \/ WriteChanges(r)
                 \/ RecordAppliedBatchResponse(r) \/ Commit(r) \/ AnswerPush(r)

Next ==
  \/ \E r \in Request, k \in Key : BeginAccountWrite(r, k)
  \/ \E r \in Request : PushStep(r)
  \/ \E r \in Request : Fail(r)
  \/ \E a \in Account, e \in Entity : DeleteArchivedNotebook(a, e)
  \/ \E a \in Account, e \in Entity : StopHostingCloudNotebook(a, e)
  \/ \E d \in Device : RevokeDevice(d)
  \/ \E d \in Device : DeleteRevokedDevice(d)
  \/ \E d \in Device : RegisterDevice(d)
  \/ \E d \in Device : \E since \in Cursors \cap (1..changeSeq[AccountOf[d]]) :
       RecordAcknowledgedSeq(d, since)
  \/ Tick

Spec == Init /\ [][Next]_vars

----------------------------------------------------------------------------
(* What the code promises and keeps.                                       *)

(* Every step of a push, its retries, failures and lost answers included,  *)
(* is a step of AppliedOnce or invisible there: batches take effect whole, *)
(* one after the other, and not while they are remembered.                 *)
Given      == {[key |-> KeyOf(r), answer |-> request[r].answer] :
                 r \in {q \in Request : Phase(q) = "answering"}}
Purged     == [a \in Account |-> Retired(a)]
Abstract   == INSTANCE AppliedOnce WITH purged <- Purged, memory <- stored, given <- Given
Implements == Abstract!Spec

(* "Inside BeginAccountWrite's lock that cannot happen": no push fails on  *)
(* ErrConcurrentWrite, and up to its commit every one would still accept   *)
(* just what it accepted, whatever else is in flight: no row has moved and *)
(* no id was retired under it.                                             *)
NoConcurrentWrite ==
  \A r \in Request : Phase(r) \in {"decided", "written", "recorded"} =>
    /\ request[r].pending = Pending(Batch(r), rows[AccOf(r)], Retired(AccOf(r)))
    /\ ~GuardFails(Batch(r), request[r].pending, rows[AccOf(r)])

(* A batch of a device that was not removed takes effect a second time     *)
(* only when a whole replay window has passed since the transaction of the *)
(* first began, however its retries, prunings and lock waits interleave.   *)
AgainAfterWindow ==
  \A i \in DOMAIN log :
    /\ log' # log /\ log'[Len(log')].key = log[i].key
    /\ log[i].key[1] \notin removed
    => clock >= log[i].at + Window
OncePerWindow == [][AgainAfterWindow]_vars

(* A late retry writes no notebook a second time, though its answer was    *)
(* forgotten, or the notebook erased in between and purges pruned: as long *)
(* as its device was never revoked and has not acknowledged the notebook's *)
(* purge.  One that was, or has, no longer keeps the purge, and its old    *)
(* batch brings the notebook back (RetiredForever of AccountSync).         *)
WritesOnce ==
  \A i, j \in DOMAIN log :
    i < j /\ log[i].key = log[j].key =>
      \A e \in log[i].answer.applied \cap log[j].answer.applied :
        revoked[log[i].key[1]] > 0 \/ <<log[i].key[1], e>> \in informed

(* A client is told what its own batch did, and only when that has         *)
(* committed.                                                              *)
AnswersAreTrue ==
  \A t \in Given : \E i \in DOMAIN log : log[i].key = t.key /\ log[i].answer = t.answer
=============================================================================
