------------------------ MODULE PushTransactionProofs ------------------------
(***************************************************************************)
(* Proofs about PushTransaction: its types, that nothing a push decided on *)
(* moves under it, that answers are true, that the transactions implement  *)
(* AppliedOnce, that a late retry writes no notebook a second time while   *)
(* its device holds the notebook's purge back, and that a batch takes      *)
(* effect once in a replay window; for any number of accounts              *)
(* (however their ids hash), devices, batches and requests in flight.      *)
(***************************************************************************)
EXTENDS PushTransaction, TLAPS

----------------------------------------------------------------------------
(* What a batch does, in types.                                            *)

(* What a batch accepts is a set of its own changes.                       *)
LEMMA PendingTypes ==
  ASSUME NEW k \in Key, NEW rs \in Rows, NEW gone \in SUBSET Entity
  PROVE  LET p == Pending(Content[k], rs, gone)
         IN  /\ p \in SUBSET Nat
             /\ p \subseteq DOMAIN Content[k]
             /\ Touched(Content[k], p) \in SUBSET Entity
<1> USE BatchAssumption
<1>1. Content[k] \in Seq(Change)
  OBVIOUS
<1>2. \A i \in DOMAIN Content[k] : i \in Nat /\ Content[k][i] \in Change
  BY <1>1
<1>3. Pending(Content[k], rs, gone) \subseteq DOMAIN Content[k]
  BY DEF Pending, Decoded
<1> QED
  BY <1>2, <1>3 DEF Touched, Change

(* What it leaves are versions.                                            *)
LEMMA AfterTypes ==
  ASSUME NEW k \in Key, NEW rs \in Rows, NEW p, p \subseteq DOMAIN Content[k]
  PROVE  RowsAfter(Content[k], p, rs) \in Rows
<1> USE BatchAssumption
<1>1. Content[k] \in Seq(Change)
  OBVIOUS
<1>2. \A i \in DOMAIN Content[k] : Content[k][i] \in Change
  BY <1>1
<1>3. ASSUME NEW e \in Touched(Content[k], p)
      PROVE  NewVersion(Content[k][CHOOSE i \in p : Content[k][i].entity = e]) \in Nat
  <2>1. PICK i \in p : Content[k][i].entity = e
    BY <1>3 DEF Touched
  <2>2. (CHOOSE j \in p : Content[k][j].entity = e) \in p
    BY <2>1
  <2> QED
    BY <1>2, <2>2 DEF NewVersion, Change
<1> QED
  BY <1>3 DEF RowsAfter, Rows

(* What it answers is an answer.                                           *)
LEMMA OutcomeTypes ==
  ASSUME NEW k \in Key, NEW p, Touched(Content[k], p) \in SUBSET Entity, NEW seq \in Nat
  PROVE  Outcome(Content[k], p, seq) \in Answer
BY DEF Outcome, Cursor, Answer

----------------------------------------------------------------------------
(* The invariant.                                                          *)

(* A push that has its lock has the lock of its account.                   *)
LockInv ==
  \A r \in Request : Phase(r) \in HoldsLock => locks[Lock(r)] = r

(* What a push decided on is what is stored, until it ends; the answer it  *)
(* prepared is the answer of its effect.                                   *)
Decisive == {"decided", "written", "recorded"}
DecisionHolds(r) ==
  /\ request[r].pending = Pending(Batch(r), rows[AccOf(r)], Retired(AccOf(r)))
  /\ ~Fresh(stored[KeyOf(r)], request[r].now)
AnswerHolds(r) ==
  request[r].answer = Outcome(Batch(r), request[r].pending, changeSeq[AccOf(r)])

WorkHolds(r) ==
  /\ Phase(r) # "idle" => request[r].now <= clock
  /\ Phase(r) \in Decisive => DecisionHolds(r)
  /\ Phase(r) \in {"written", "recorded"} => AnswerHolds(r)
WorkInv == \A r \in Request : WorkHolds(r)

(* Every answer stored or being given is the answer of a logged effect.    *)
Logged(list, k, answer) == \E i \in DOMAIN list : list[i].key = k /\ list[i].answer = answer
MemoryInv ==
  /\ \A k \in Key : stored[k] # Nothing => Logged(log, k, stored[k].answer)
  /\ \A r \in Request : Phase(r) = "answering" => Logged(log, KeyOf(r), request[r].answer)

IInv == TypeOK /\ LockInv /\ WorkInv /\ MemoryInv

----------------------------------------------------------------------------
(* What a request in flight is.                                            *)

(* A request that is not idle has a batch, and its account has its rows.   *)
LEMMA InFlightTypes ==
  ASSUME TypeOK, NEW r \in Request, Phase(r) # "idle"
  PROVE  /\ request[r] \in InFlight
         /\ KeyOf(r) \in Key /\ AccOf(r) \in Account /\ Lock(r) \in LockKey
         /\ Content[KeyOf(r)] = Batch(r)
         /\ rows[AccOf(r)] \in Rows /\ Retired(AccOf(r)) \in SUBSET Entity
         /\ changeSeq[AccOf(r)] \in Nat /\ stored[KeyOf(r)] \in Memory
<1> USE BatchAssumption, TransactionAssumption
<1>1. request[r] \in InFlight
  BY DEF TypeOK, Phase, NoRequest
<1>2. KeyOf(r) \in Key
  BY <1>1 DEF InFlight, KeyOf
<1>3. AccOf(r) \in Account
  BY <1>2 DEF AccOf, Owner
<1>4. Lock(r) \in LockKey
  BY <1>3 DEF Lock
<1> QED
  BY <1>1, <1>2, <1>3, <1>4 DEF TypeOK, Batch, Retired

(* Two pushes of one account cannot both be deciding.                      *)
LEMMA OnePerAccount ==
  ASSUME LockInv, NEW r \in Request, NEW q \in Request, r # q,
         Phase(r) \in HoldsLock, Phase(q) \in HoldsLock
  PROVE  AccOf(r) # AccOf(q)
BY DEF LockInv, Lock

(* Nor can the operator write to their account.                            *)
LEMMA NotTheOperator ==
  ASSUME LockInv, NEW r \in Request, NEW a \in Account,
         Phase(r) \in HoldsLock, locks[LockKeyOf[a]] = Free
  PROVE  AccOf(r) # a
BY TransactionAssumption DEF LockInv, Lock

(* Releasing a lock takes it from nobody else.                             *)
LEMMA ReleasedLocks ==
  ASSUME TypeOK, NEW r \in Request
  PROVE  /\ Released(r) \in [LockKey -> Request \cup {Free}]
         /\ \A q \in Request \ {r} : \A l \in LockKey : locks[l] = q => Released(r)[l] = q
BY DEF TypeOK, Released
----------------------------------------------------------------------------
(* Types.                                                                  *)

(* Requests, one step after the other.                                     *)
LEMMA StartTypes ==
  /\ \A k \in Key, n \in Nat : Started(k, n) \in InFlight
  /\ \A k \in Key, x \in Answer : Answering(k, x) \in InFlight
  /\ Nothing \in Memory
BY DEF Started, Answering, InFlight, NoAnswer, Answer, Phases, HoldsLock, Memory

(* The steps of a request leave it a request.                              *)
LEMMA StepTypes ==
  ASSUME NEW q \in InFlight
  PROVE  /\ [q EXCEPT !.phase = "locked"] \in InFlight
         /\ \A x \in Answer : [q EXCEPT !.phase = "written", !.answer = x] \in InFlight
         /\ \A p \in SUBSET Nat : [q EXCEPT !.phase = "decided", !.pending = p] \in InFlight
         /\ [q EXCEPT !.phase = "recorded"] \in InFlight
<1> USE DEF InFlight, Phases, HoldsLock
<1>1. [q EXCEPT !.phase = "locked"] \in InFlight
  OBVIOUS
<1>2. \A x \in Answer : [q EXCEPT !.phase = "written", !.answer = x] \in InFlight
  OBVIOUS
<1>3. \A p \in SUBSET Nat : [q EXCEPT !.phase = "decided", !.pending = p] \in InFlight
  OBVIOUS
<1>4. [q EXCEPT !.phase = "recorded"] \in InFlight
  OBVIOUS
<1> QED
  BY <1>1, <1>2, <1>3, <1>4

(* An entry that is fresh is an answer.                                    *)
LEMMA FreshTypes ==
  ASSUME NEW m \in Memory, NEW now, Fresh(m, now)
  PROVE  m.answer \in Answer
BY DEF Fresh, Memory, Remembered

(* What the commit stores is well typed.                                   *)
LEMMA CommitTypes ==
  ASSUME TypeOK, WorkInv, NEW r \in Request, Commit(r)
  PROVE  /\ rows' \in [Account -> Rows] /\ changeSeq' \in [Account -> Nat]
         /\ stored' \in [Key -> Memory] /\ log' \in Seq(Effect)
<1>1. /\ request[r] \in InFlight /\ KeyOf(r) \in Key /\ AccOf(r) \in Account
      /\ rows[AccOf(r)] \in Rows /\ Retired(AccOf(r)) \in SUBSET Entity
      /\ Content[KeyOf(r)] = Batch(r)
  BY InFlightTypes DEF Commit
<1>2. request[r].pending \subseteq DOMAIN Content[KeyOf(r)]
  <2>1. request[r].pending = Pending(Content[KeyOf(r)], rows[AccOf(r)], Retired(AccOf(r)))
    BY <1>1 DEF WorkInv, WorkHolds, Commit, Decisive, DecisionHolds
  <2> QED
    BY <1>1, <2>1, PendingTypes
<1>3. RowsAfter(Batch(r), request[r].pending, rows[AccOf(r)]) \in Rows
  BY <1>1, <1>2, AfterTypes
<1>4. /\ request[r].answer \in Answer /\ request[r].now \in Nat
      /\ request[r].answer.cursor \in Nat
  BY <1>1 DEF InFlight, Answer
<1>5. rows' \in [Account -> Rows]
  BY <1>1, <1>3 DEF Commit, TypeOK
<1>6. changeSeq' \in [Account -> Nat]
  BY <1>4 DEF Commit, TypeOK
<1>7. stored' \in [Key -> Memory]
  <2>1. [at |-> request[r].now, answer |-> request[r].answer] \in Memory
    BY <1>4 DEF Memory, Remembered
  <2>2. PICK prunes \in BOOLEAN : stored' = StoredAfter(r, prunes)
    BY DEF Commit
  <2> QED
    BY <2>1, <2>2, StartTypes DEF StoredAfter, TypeOK
<1>8. log' \in Seq(Effect)
  <2>1. [key |-> KeyOf(r), at |-> request[r].now, answer |-> request[r].answer] \in Effect
    BY <1>1, <1>4 DEF Effect
  <2> QED
    BY <2>1 DEF Commit, TypeOK
<1> QED
  BY <1>5, <1>6, <1>7, <1>8

(* The steps that change only the request and its lock.                    *)
LEMMA RequestTypes ==
  ASSUME TypeOK, NEW r \in Request, NEW q \in InFlight \cup {NoRequest},
         request' = [request EXCEPT ![r] = q],
         \/ UNCHANGED locks
         \/ locks' = Released(r)
         \/ Phase(r) # "idle" /\ locks' = [locks EXCEPT ![Lock(r)] = r]
  PROVE  /\ request' \in [Request -> InFlight \cup {NoRequest}]
         /\ locks' \in [LockKey -> Request \cup {Free}]
<1>1. request' \in [Request -> InFlight \cup {NoRequest}]
  BY DEF TypeOK
<1>2. locks' \in [LockKey -> Request \cup {Free}]
  BY ReleasedLocks DEF TypeOK
<1> QED
  BY <1>1, <1>2

(* At the start.                                                           *)
LEMMA TypeInit == Init => TypeOK
BY StartTypes DEF Init, TypeOK, Rows, DeviceRow, SignedIn

(* Every step keeps the types: one case per action.                        *)
LEMMA TypeStep == TypeOK /\ WorkInv /\ [Next]_vars => TypeOK'
<1> SUFFICES ASSUME TypeOK, WorkInv, [Next]_vars  PROVE TypeOK'
  OBVIOUS
<1>1. ASSUME NEW r \in Request, NEW k \in Key, BeginAccountWrite(r, k)  PROVE TypeOK'
  <2>1. clock \in Nat
    BY DEF TypeOK
  <2> QED
    BY <1>1, <2>1, StartTypes, RequestTypes
      DEF BeginAccountWrite, TypeOK, database, history
<1>2. ASSUME NEW r \in Request, LockAccount(r)  PROVE TypeOK'
  <2>1. request' = [request EXCEPT ![r] = [request[r] EXCEPT !.phase = "locked"]]
    BY <1>2 DEF LockAccount, TypeOK
  <2>2. [request[r] EXCEPT !.phase = "locked"] \in InFlight /\ Phase(r) # "idle"
    BY <1>2, InFlightTypes, StepTypes DEF LockAccount
  <2>3. /\ request' \in [Request -> InFlight \cup {NoRequest}]
        /\ locks' \in [LockKey -> Request \cup {Free}]
    BY <1>2, <2>1, <2>2, RequestTypes DEF LockAccount
  <2> QED
    BY <1>2, <2>3 DEF LockAccount, TypeOK, database, history
<1>3. ASSUME NEW r \in Request, Replay(r)  PROVE TypeOK'
  <2> DEFINE q == Answering(KeyOf(r), stored[KeyOf(r)].answer)
  <2>1. request' = [request EXCEPT ![r] = q]
    BY <1>3 DEF Replay
  <2>2. q \in InFlight
    BY <1>3, InFlightTypes, StartTypes, FreshTypes DEF Replay
  <2> HIDE DEF q
  <2>3. /\ request' \in [Request -> InFlight \cup {NoRequest}]
        /\ locks' \in [LockKey -> Request \cup {Free}]
    BY <1>3, <2>1, <2>2, RequestTypes DEF Replay
  <2> QED
    BY <1>3, <2>3 DEF Replay, TypeOK, database, history
<1>4. ASSUME NEW r \in Request, Decide(r)  PROVE TypeOK'
  <2> DEFINE p == Pending(Batch(r), rows[AccOf(r)], Retired(AccOf(r)))
             q == [request[r] EXCEPT !.phase = "decided", !.pending = p]
  <2>1. request' = [request EXCEPT ![r] = q]
    BY <1>4 DEF Decide, TypeOK
  <2>2. p \in SUBSET Nat
    BY <1>4, InFlightTypes, PendingTypes DEF Decide
  <2>3. q \in InFlight
    BY <1>4, <2>2, InFlightTypes, StepTypes DEF Decide
  <2> HIDE DEF q
  <2>4. /\ request' \in [Request -> InFlight \cup {NoRequest}]
        /\ locks' \in [LockKey -> Request \cup {Free}]
    BY <1>4, <2>1, <2>3, RequestTypes DEF Decide
  <2> QED
    BY <1>4, <2>4 DEF Decide, TypeOK, database, history
<1>5. ASSUME NEW r \in Request, WriteChanges(r)  PROVE TypeOK'
  <2> DEFINE a == Outcome(Batch(r), request[r].pending, changeSeq[AccOf(r)])
             q == [request[r] EXCEPT !.phase = "written", !.answer = a]
  <2>1. request' = [request EXCEPT ![r] = q]
    BY <1>5 DEF WriteChanges, TypeOK
  <2>2. /\ request[r] \in InFlight /\ KeyOf(r) \in Key /\ AccOf(r) \in Account
        /\ rows[AccOf(r)] \in Rows /\ Retired(AccOf(r)) \in SUBSET Entity
        /\ Content[KeyOf(r)] = Batch(r) /\ changeSeq[AccOf(r)] \in Nat
    BY <1>5, InFlightTypes DEF WriteChanges
  <2>3. request[r].pending = Pending(Batch(r), rows[AccOf(r)], Retired(AccOf(r)))
    BY <1>5 DEF WorkInv, WorkHolds, WriteChanges, Decisive, DecisionHolds
  <2>4. a \in Answer
    BY <2>2, <2>3, PendingTypes, OutcomeTypes
  <2>5. q \in InFlight
    BY <2>2, <2>4, StepTypes
  <2> HIDE DEF q
  <2>6. /\ request' \in [Request -> InFlight \cup {NoRequest}]
        /\ locks' \in [LockKey -> Request \cup {Free}]
    BY <1>5, <2>1, <2>5, RequestTypes DEF WriteChanges
  <2> QED
    BY <1>5, <2>6 DEF WriteChanges, TypeOK, database, history
<1>6. ASSUME NEW r \in Request, RecordAppliedBatchResponse(r)  PROVE TypeOK'
  <2> DEFINE q == [request[r] EXCEPT !.phase = "recorded"]
  <2>1. request' = [request EXCEPT ![r] = q]
    BY <1>6 DEF RecordAppliedBatchResponse, TypeOK
  <2>2. q \in InFlight
    BY <1>6, InFlightTypes, StepTypes DEF RecordAppliedBatchResponse
  <2> HIDE DEF q
  <2>3. /\ request' \in [Request -> InFlight \cup {NoRequest}]
        /\ locks' \in [LockKey -> Request \cup {Free}]
    BY <1>6, <2>1, <2>2, RequestTypes DEF RecordAppliedBatchResponse
  <2> QED
    BY <1>6, <2>3 DEF RecordAppliedBatchResponse, TypeOK, database, history
<1>7. ASSUME NEW r \in Request, Commit(r)  PROVE TypeOK'
  <2>1. \E q \in InFlight \cup {NoRequest} : request' = [request EXCEPT ![r] = q]
    <3>1. Answering(KeyOf(r), request[r].answer) \in InFlight
      BY <1>7, InFlightTypes, StartTypes DEF Commit, InFlight
    <3> QED
      BY <1>7, <3>1 DEF Commit
  <2>2. /\ request' \in [Request -> InFlight \cup {NoRequest}]
        /\ locks' \in [LockKey -> Request \cup {Free}]
    BY <1>7, <2>1, RequestTypes DEF Commit
  <2> QED
    BY <1>7, <2>2, CommitTypes DEF Commit, TypeOK
<1>8. ASSUME NEW r \in Request, Fail(r)  PROVE TypeOK'
  <2>1. /\ request' \in [Request -> InFlight \cup {NoRequest}]
        /\ locks' \in [LockKey -> Request \cup {Free}]
    BY <1>8, RequestTypes DEF Fail
  <2> QED
    BY <1>8, <2>1 DEF Fail, TypeOK, database, history
<1>9. ASSUME NEW r \in Request, AnswerPush(r)  PROVE TypeOK'
  <2>1. request' \in [Request -> InFlight \cup {NoRequest}]
    BY <1>9 DEF AnswerPush, TypeOK
  <2> QED
    BY <1>9, <2>1 DEF AnswerPush, TypeOK, database, history
<1>10. ASSUME NEW a \in Account, NEW e \in Entity, DeleteArchivedNotebook(a, e)
       PROVE  TypeOK'
  <2>1. purges[a] \in Rows /\ changeSeq[a] \in Nat
    BY DEF TypeOK
  <2>2. [Pruned(a) EXCEPT ![e] = changeSeq[a] + 1] \in Rows
    BY <2>1 DEF Pruned, Rows
  <2>3. purges' \in [Account -> Rows]
    BY <1>10, <2>2 DEF DeleteArchivedNotebook, TypeOK
  <2>4. rows' \in [Account -> Rows] /\ changeSeq' \in [Account -> Nat]
    BY <1>10 DEF DeleteArchivedNotebook, TypeOK, Rows
  <2> QED
    BY <1>10, <2>3, <2>4 DEF DeleteArchivedNotebook, TypeOK, history
<1>11. ASSUME NEW a \in Account, NEW e \in Entity, StopHostingCloudNotebook(a, e)
       PROVE  TypeOK'
  BY <1>11 DEF StopHostingCloudNotebook, TypeOK, history, Rows
<1>12. ASSUME NEW d \in Device, RevokeDevice(d)  PROVE TypeOK'
  <2>1. devices' \in [Device -> DeviceRow]
    BY <1>12 DEF RevokeDevice, TypeOK, DeviceRow
  <2>2. revoked' \in [Device -> Nat]
    BY <1>12 DEF RevokeDevice, TypeOK
  <2> QED
    BY <1>12, <2>1, <2>2 DEF RevokeDevice, TypeOK, database
<1>13. ASSUME NEW d \in Device, DeleteRevokedDevice(d)  PROVE TypeOK'
  BY <1>13, StartTypes DEF DeleteRevokedDevice, TypeOK, DeviceRow, NoRow
<1>14. ASSUME NEW d \in Device, RegisterDevice(d)  PROVE TypeOK'
  BY <1>14 DEF RegisterDevice, TypeOK, database, history, DeviceRow, SignedIn
<1>15. ASSUME NEW d \in Device, NEW s \in Nat, RecordAcknowledgedSeq(d, s)  PROVE TypeOK'
  <2>1. \A e \in Retired(AccountOf[d]) : <<d, e>> \in Device \X Entity
    BY DEF Retired
  <2>2. informed' \subseteq Device \X Entity
    BY <1>15, <2>1 DEF RecordAcknowledgedSeq, TypeOK
  <2>3. devices' \in [Device -> DeviceRow]
    BY <1>15 DEF RecordAcknowledgedSeq, TypeOK, DeviceRow
  <2> QED
    BY <1>15, <2>2, <2>3 DEF RecordAcknowledgedSeq, TypeOK, database
<1>16. ASSUME Tick  PROVE TypeOK'
  BY <1>16 DEF Tick, TypeOK, database, history
<1>17. ASSUME UNCHANGED vars  PROVE TypeOK'
  BY <1>17 DEF vars, TypeOK, database, history
<1> QED
  BY <1>1, <1>2, <1>3, <1>4, <1>5, <1>6, <1>7, <1>8, <1>9, <1>10, <1>11, <1>12, <1>13,
     <1>14, <1>15, <1>16, <1>17 DEF Next, PushStep
----------------------------------------------------------------------------
(* Locks.                                                                  *)

(* At the start nobody deliberates.                                        *)
LEMMA LockInit == Init => LockInv
BY DEF Init, LockInv, Phase, NoRequest, HoldsLock

(* A step of one request leaves every other its lock.                      *)
LEMMA LockFrame ==
  ASSUME TypeOK, LockInv, NEW r \in Request,
         \A q \in Request \ {r} : request'[q] = request[q],
         \/ UNCHANGED locks
         \/ locks' = Released(r)
         \/ locks[Lock(r)] = Free /\ locks' = [locks EXCEPT ![Lock(r)] = r]
  PROVE  \A q \in Request \ {r} :
           Phase(q)' \in HoldsLock => locks'[Lock(q)'] = q
<1> SUFFICES ASSUME NEW q \in Request \ {r}, Phase(q)' \in HoldsLock
             PROVE  locks'[Lock(q)'] = q
  OBVIOUS
<1>1. Phase(q)' = Phase(q) /\ Lock(q)' = Lock(q)
  BY DEF Phase, Lock, AccOf, KeyOf
<1>2. locks[Lock(q)] = q /\ Lock(q) \in LockKey
  BY <1>1, InFlightTypes DEF LockInv, HoldsLock
<1>3. q # Free
  BY TransactionAssumption
<1> QED
  BY <1>1, <1>2, <1>3, ReleasedLocks DEF TypeOK

(* Whoever takes a lock finds it free.                                     *)
LEMMA LockStep == TypeOK /\ LockInv /\ [Next]_vars => LockInv'
<1> SUFFICES ASSUME TypeOK, LockInv, [Next]_vars  PROVE LockInv'
  OBVIOUS
<1> USE DEF HoldsLock
<1>1. ASSUME NEW r \in Request, NEW k \in Key, BeginAccountWrite(r, k)  PROVE LockInv'
  <2>1. Phase(r)' = "waiting"
    BY <1>1 DEF BeginAccountWrite, Phase, TypeOK, Started
  <2>2. \A q \in Request \ {r} : request'[q] = request[q]
    BY <1>1 DEF BeginAccountWrite, TypeOK
  <2> QED
    BY <1>1, <2>1, <2>2, LockFrame DEF BeginAccountWrite, LockInv
<1>2. ASSUME NEW r \in Request, LockAccount(r)  PROVE LockInv'
  <2>1. Lock(r)' = Lock(r) /\ Lock(r) \in LockKey
    BY <1>2, InFlightTypes DEF LockAccount, Lock, AccOf, KeyOf, TypeOK, InFlight, NoRequest
  <2>2. \A q \in Request \ {r} : request'[q] = request[q]
    BY <1>2 DEF LockAccount, TypeOK
  <2>3. locks'[Lock(r)'] = r
    BY <1>2, <2>1 DEF LockAccount, TypeOK
  <2>4. \A q \in Request \ {r} : Phase(q)' \in HoldsLock => locks'[Lock(q)'] = q
    BY <1>2, <2>2, LockFrame DEF LockAccount
  <2> QED
    BY <2>3, <2>4 DEF LockInv
<1>3. ASSUME NEW r \in Request,
             Replay(r) \/ Commit(r) \/ Fail(r) \/ AnswerPush(r)
      PROVE  LockInv'
  <2>0. request[r] \in InFlight
    BY <1>3, InFlightTypes DEF Replay, Commit, Fail, AnswerPush
  <2>1. request'[r].phase \in {"idle", "answering"}
    <3>1. CASE Replay(r)
      BY <3>1 DEF Replay, TypeOK, Answering
    <3>2. CASE Commit(r)
      <4>1. request'[r] \in {NoRequest, Answering(KeyOf(r), request[r].answer)}
        BY <3>2 DEF Commit, TypeOK
      <4> QED
        BY <4>1 DEF Answering, NoRequest
    <3>3. CASE Fail(r) \/ AnswerPush(r)
      BY <3>3 DEF Fail, AnswerPush, TypeOK, NoRequest
    <3> QED
      BY <1>3, <3>1, <3>2, <3>3
  <2>2. \A q \in Request \ {r} : request'[q] = request[q]
    BY <1>3 DEF Replay, Commit, Fail, AnswerPush, TypeOK
  <2>3. UNCHANGED locks \/ locks' = Released(r)
    BY <1>3 DEF Replay, Commit, Fail, AnswerPush
  <2> QED
    BY <2>1, <2>2, <2>3, LockFrame DEF LockInv, Phase
<1>4. ASSUME NEW r \in Request,
             Decide(r) \/ WriteChanges(r) \/ RecordAppliedBatchResponse(r)
      PROVE  LockInv'
  <2>1. Phase(r) \in HoldsLock
    BY <1>4 DEF Decide, WriteChanges, RecordAppliedBatchResponse
  <2>2. request[r] \in InFlight
    BY <2>1, InFlightTypes
  <2>3. KeyOf(r)' = KeyOf(r)
    <3>1. CASE Decide(r)
      BY <2>2, <3>1 DEF Decide, KeyOf, TypeOK, InFlight
    <3>2. CASE WriteChanges(r)
      BY <2>2, <3>2 DEF WriteChanges, KeyOf, TypeOK, InFlight
    <3>3. CASE RecordAppliedBatchResponse(r)
      BY <2>2, <3>3 DEF RecordAppliedBatchResponse, KeyOf, TypeOK, InFlight
    <3> QED
      BY <1>4, <3>1, <3>2, <3>3
  <2>4. \A q \in Request \ {r} : request'[q] = request[q]
    BY <1>4 DEF Decide, WriteChanges, RecordAppliedBatchResponse, TypeOK
  <2>5. UNCHANGED locks
    BY <1>4 DEF Decide, WriteChanges, RecordAppliedBatchResponse
  <2> QED
    BY <2>1, <2>3, <2>4, <2>5, LockFrame DEF LockInv, Lock, AccOf
<1>5. ASSUME UNCHANGED <<locks, request>>  PROVE LockInv'
  BY <1>5 DEF LockInv, Phase, Lock, AccOf, KeyOf
<1> QED
  BY <1>1, <1>2, <1>3, <1>4, <1>5 DEF Next, PushStep, DeleteArchivedNotebook,
     StopHostingCloudNotebook, RevokeDevice, DeleteRevokedDevice, RegisterDevice,
     RecordAcknowledgedSeq, Tick, vars

----------------------------------------------------------------------------
(* Decisions.                                                              *)

(* At the start nothing is decided.                                        *)
LEMMA WorkInit == Init => WorkInv
BY DEF Init, WorkInv, WorkHolds, Phase, NoRequest, Decisive

(* A request stays right when it does not move, and nothing of its account *)
(* does while it has its lock; its remembered answer may go.               *)
LEMMA WorkFrame ==
  ASSUME TypeOK, WorkInv, NEW q \in Request, request'[q] = request[q],
         clock' \in Nat, clock <= clock',
         Phase(q) \in HoldsLock =>
           /\ rows'[AccOf(q)] = rows[AccOf(q)]
           /\ purges'[AccOf(q)] = purges[AccOf(q)]
           /\ changeSeq'[AccOf(q)] = changeSeq[AccOf(q)]
           /\ stored'[KeyOf(q)] \in {stored[KeyOf(q)], Nothing}
  PROVE  WorkHolds(q)'
<1>1. /\ Phase(q)' = Phase(q) /\ KeyOf(q)' = KeyOf(q) /\ AccOf(q)' = AccOf(q)
      /\ Batch(q)' = Batch(q)
  BY DEF Phase, KeyOf, AccOf, Batch
<1>2. Phase(q) # "idle" => request'[q].now <= clock'
  <2> SUFFICES ASSUME Phase(q) # "idle"  PROVE request'[q].now <= clock'
    OBVIOUS
  <2>1. request[q].now \in Nat /\ clock \in Nat
    BY InFlightTypes DEF InFlight, TypeOK
  <2>2. request[q].now <= clock
    BY DEF WorkInv, WorkHolds
  <2> QED
    BY <2>1, <2>2
<1>3. Phase(q) \in Decisive => DecisionHolds(q)'
  BY <1>1 DEF WorkInv, WorkHolds, Decisive, HoldsLock, DecisionHolds, Fresh, Retired
<1>4. Phase(q) \in {"written", "recorded"} => AnswerHolds(q)'
  BY <1>1 DEF WorkInv, WorkHolds, HoldsLock, AnswerHolds
<1> QED
  BY <1>1, <1>2, <1>3, <1>4 DEF WorkHolds

(* A commit touches no other push that has its lock.                       *)
LEMMA CommitFrame ==
  ASSUME IInv, NEW r \in Request, Commit(r), NEW q \in Request \ {r}
  PROVE  WorkHolds(q)'
<1>1. request'[q] = request[q] /\ UNCHANGED <<clock, purges>> /\ clock \in Nat
  BY DEF Commit, IInv, TypeOK
<1>2. ASSUME Phase(q) \in HoldsLock
      PROVE  /\ rows'[AccOf(q)] = rows[AccOf(q)]
             /\ changeSeq'[AccOf(q)] = changeSeq[AccOf(q)]
             /\ stored'[KeyOf(q)] = stored[KeyOf(q)]
  <2>1. AccOf(q) # AccOf(r)
    BY <1>2, OnePerAccount DEF Commit, HoldsLock, IInv
  <2>2. AccOf(q) \in Account /\ KeyOf(q) \in Key
    BY <1>2, InFlightTypes DEF HoldsLock, IInv
  <2>3. KeyOf(q)[1] # KeyOf(r)[1]
    BY <2>1 DEF AccOf, Owner
  <2>4. stored'[KeyOf(q)] = stored[KeyOf(q)]
    BY <2>2, <2>3 DEF Commit, StoredAfter
  <2> QED
    BY <2>1, <2>2, <2>4 DEF Commit, IInv, TypeOK
<1> QED
  BY <1>1, <1>2, WorkFrame DEF IInv

(* Nor does the operator.                                                  *)
LEMMA OperatorFrame ==
  ASSUME IInv, NEW a \in Account, NEW e \in Entity,
         DeleteArchivedNotebook(a, e) \/ StopHostingCloudNotebook(a, e)
  PROVE  WorkInv'
<1> SUFFICES ASSUME NEW q \in Request  PROVE WorkHolds(q)'
  BY DEF WorkInv
<1>1. UNCHANGED <<request, clock, stored>> /\ clock \in Nat
  BY DEF DeleteArchivedNotebook, StopHostingCloudNotebook, IInv, TypeOK
<1>2. ASSUME Phase(q) \in HoldsLock
      PROVE  /\ rows'[AccOf(q)] = rows[AccOf(q)]
             /\ purges'[AccOf(q)] = purges[AccOf(q)]
             /\ changeSeq'[AccOf(q)] = changeSeq[AccOf(q)]
  <2>1. AccOf(q) # a
    BY <1>2, NotTheOperator DEF DeleteArchivedNotebook, StopHostingCloudNotebook, IInv
  <2>2. AccOf(q) \in Account
    BY <1>2, InFlightTypes DEF HoldsLock, IInv
  <2> QED
    BY <2>1, <2>2 DEF DeleteArchivedNotebook, StopHostingCloudNotebook, IInv, TypeOK
<1> QED
  BY <1>1, <1>2, WorkFrame DEF IInv

(* Nothing moves under a push that has decided.                            *)
LEMMA WorkStep == IInv /\ [Next]_vars => WorkInv'
<1> SUFFICES ASSUME IInv, [Next]_vars  PROVE WorkInv'
  OBVIOUS
<1> USE DEF HoldsLock, Decisive
<1>0. TypeOK /\ WorkInv /\ clock \in Nat
  BY DEF IInv, TypeOK
<1>1. ASSUME NEW r \in Request, UNCHANGED <<database, clock>>, WorkHolds(r)',
             \A q \in Request \ {r} : request'[q] = request[q]
      PROVE  WorkInv'
  <2> SUFFICES ASSUME NEW q \in Request \ {r}  PROVE WorkHolds(q)'
    BY <1>1 DEF WorkInv
  <2> QED
    BY <1>0, <1>1, WorkFrame DEF database
<1>2. ASSUME NEW r \in Request, NEW k \in Key, BeginAccountWrite(r, k)  PROVE WorkInv'
  <2>1. request'[r].phase = "waiting" /\ request'[r].now = clock
    BY <1>0, <1>2 DEF BeginAccountWrite, TypeOK, Started
  <2>2. WorkHolds(r)'
    BY <1>0, <1>2, <2>1 DEF WorkHolds, Phase, BeginAccountWrite
  <2> QED
    BY <1>0, <1>1, <1>2, <2>2 DEF BeginAccountWrite, TypeOK
<1>3. ASSUME NEW r \in Request, LockAccount(r) \/ Replay(r)  PROVE WorkInv'
  <2>1. request[r] \in InFlight /\ request[r].now <= clock
    BY <1>0, <1>3, InFlightTypes DEF LockAccount, Replay, WorkInv, WorkHolds
  <2>2. request'[r].phase \in {"locked", "answering"} /\ request'[r].now <= clock
    <3>1. CASE LockAccount(r)
      BY <1>0, <2>1, <3>1 DEF LockAccount, TypeOK, InFlight
    <3>2. CASE Replay(r)
      BY <1>0, <3>2 DEF Replay, TypeOK, Answering
    <3> QED
      BY <1>3, <3>1, <3>2
  <2>3. WorkHolds(r)'
    BY <1>3, <2>1, <2>2 DEF WorkHolds, Phase, LockAccount, Replay
  <2> QED
    BY <1>0, <1>1, <1>3, <2>3 DEF LockAccount, Replay, TypeOK
<1>4. ASSUME NEW r \in Request, Decide(r)  PROVE WorkInv'
  <2>1. request[r] \in InFlight /\ request[r].now <= clock
    BY <1>0, <1>4, InFlightTypes DEF Decide, WorkInv, WorkHolds
  <2>2. /\ request'[r].phase = "decided" /\ request'[r].now = request[r].now
        /\ request'[r].key = request[r].key
        /\ request'[r].pending = Pending(Batch(r), rows[AccOf(r)], Retired(AccOf(r)))
    BY <1>0, <1>4, <2>1 DEF Decide, TypeOK, InFlight
  <2>3. DecisionHolds(r)'
    BY <1>4, <2>2 DEF DecisionHolds, Decide, Batch, KeyOf, AccOf, Retired, database
  <2>4. WorkHolds(r)'
    BY <1>4, <2>1, <2>2, <2>3 DEF WorkHolds, Phase, Decide
  <2> QED
    BY <1>0, <1>1, <1>4, <2>4 DEF Decide, TypeOK
<1>5. ASSUME NEW r \in Request, WriteChanges(r)  PROVE WorkInv'
  <2>1. request[r] \in InFlight /\ request[r].now <= clock /\ DecisionHolds(r)
    BY <1>0, <1>5, InFlightTypes DEF WriteChanges, WorkInv, WorkHolds
  <2>2. /\ request'[r].phase = "written" /\ request'[r].now = request[r].now
        /\ request'[r].key = request[r].key /\ request'[r].pending = request[r].pending
        /\ request'[r].answer
             = Outcome(Batch(r), request[r].pending, changeSeq[AccOf(r)])
    BY <1>0, <1>5, <2>1 DEF WriteChanges, TypeOK, InFlight
  <2>3. DecisionHolds(r)' /\ AnswerHolds(r)'
    BY <1>5, <2>1, <2>2
      DEF DecisionHolds, AnswerHolds, WriteChanges, Batch, KeyOf, AccOf, Retired,
          database
  <2>4. WorkHolds(r)'
    BY <1>5, <2>1, <2>2, <2>3 DEF WorkHolds, Phase, WriteChanges
  <2> QED
    BY <1>0, <1>1, <1>5, <2>4 DEF WriteChanges, TypeOK
<1>6. ASSUME NEW r \in Request, RecordAppliedBatchResponse(r)  PROVE WorkInv'
  <2>1. request[r] \in InFlight /\ request[r].now <= clock
        /\ DecisionHolds(r) /\ AnswerHolds(r)
    BY <1>0, <1>6, InFlightTypes DEF RecordAppliedBatchResponse, WorkInv, WorkHolds
  <2>2. /\ request'[r].phase = "recorded" /\ request'[r].now = request[r].now
        /\ request'[r].key = request[r].key /\ request'[r].pending = request[r].pending
        /\ request'[r].answer = request[r].answer
    BY <1>0, <1>6, <2>1 DEF RecordAppliedBatchResponse, TypeOK, InFlight
  <2>3. DecisionHolds(r)' /\ AnswerHolds(r)'
    BY <1>6, <2>1, <2>2 DEF DecisionHolds, AnswerHolds, RecordAppliedBatchResponse,
                            Batch, KeyOf, AccOf, Retired, database
  <2>4. WorkHolds(r)'
    BY <1>6, <2>1, <2>2, <2>3 DEF WorkHolds, Phase, RecordAppliedBatchResponse
  <2> QED
    BY <1>0, <1>1, <1>6, <2>4 DEF RecordAppliedBatchResponse, TypeOK
<1>7. ASSUME NEW r \in Request, Commit(r)  PROVE WorkInv'
  <2>1. request'[r] \in {NoRequest, Answering(KeyOf(r), request[r].answer)}
    BY <1>0, <1>7 DEF Commit, TypeOK
  <2>2. \/ request'[r].phase = "idle"
        \/ request'[r].phase = "answering" /\ request'[r].now <= clock
    BY <1>0, <2>1 DEF Answering, NoRequest
  <2>3. WorkHolds(r)'
    BY <1>7, <2>2 DEF WorkHolds, Phase, Commit
  <2> QED
    BY <1>7, <2>3, CommitFrame DEF WorkInv
<1>8. ASSUME NEW r \in Request, Fail(r) \/ AnswerPush(r)  PROVE WorkInv'
  <2>1. request'[r].phase = "idle"
    BY <1>0, <1>8 DEF Fail, AnswerPush, TypeOK, NoRequest
  <2>2. WorkHolds(r)'
    BY <2>1 DEF WorkHolds, Phase
  <2> QED
    BY <1>0, <1>1, <1>8, <2>2 DEF Fail, AnswerPush, TypeOK
<1>9. ASSUME NEW a \in Account, NEW e \in Entity,
             DeleteArchivedNotebook(a, e) \/ StopHostingCloudNotebook(a, e)
      PROVE  WorkInv'
  BY <1>9, OperatorFrame
<1>10. ASSUME NEW d \in Device, DeleteRevokedDevice(d)  PROVE WorkInv'
  <2> SUFFICES ASSUME NEW q \in Request  PROVE WorkHolds(q)'
    BY DEF WorkInv
  <2>1. Phase(q) \in HoldsLock => stored'[KeyOf(q)] \in {stored[KeyOf(q)], Nothing}
    BY <1>0, <1>10, InFlightTypes DEF DeleteRevokedDevice, TypeOK
  <2> QED
    BY <1>0, <1>10, <2>1, WorkFrame DEF DeleteRevokedDevice
<1>11. ASSUME UNCHANGED <<database, request>>, clock' \in {clock, clock + 1}
       PROVE  WorkInv'
  <2> SUFFICES ASSUME NEW q \in Request  PROVE WorkHolds(q)'
    BY DEF WorkInv
  <2> QED
    BY <1>0, <1>11, WorkFrame DEF database
<1> QED
  BY <1>2, <1>3, <1>4, <1>5, <1>6, <1>7, <1>8, <1>9, <1>10, <1>11
     DEF Next, PushStep, RevokeDevice, RegisterDevice, RecordAcknowledgedSeq, Tick, vars

----------------------------------------------------------------------------
(* Answers.                                                                *)

(* At the start nothing is remembered.                                     *)
LEMMA MemoryInit == Init => MemoryInv
BY DEF Init, MemoryInv, Phase, NoRequest

(* What is logged stays logged.                                            *)
LEMMA LogGrows ==
  ASSUME log \in Seq(Effect), NEW effect \in Effect, log' = Append(log, effect)
  PROVE  /\ \A k, x : Logged(log, k, x) => Logged(log', k, x)
         /\ Logged(log', effect.key, effect.answer)
<1>1. /\ DOMAIN log' = 1..(Len(log) + 1) /\ Len(log) \in Nat
      /\ \A i \in DOMAIN log : i \in DOMAIN log' /\ log'[i] = log[i]
      /\ log'[Len(log) + 1] = effect
  OBVIOUS
<1>2. Len(log) + 1 \in DOMAIN log'
  BY <1>1
<1> QED
  BY <1>1, <1>2 DEF Logged

(* What is remembered or told has been logged first.                       *)
LEMMA MemoryStep == IInv /\ [Next]_vars => MemoryInv'
<1> SUFFICES ASSUME IInv, [Next]_vars  PROVE MemoryInv'
  OBVIOUS
<1>0. TypeOK /\ MemoryInv /\ stored \in [Key -> Memory]
  BY DEF IInv, TypeOK
<1>1. ASSUME NEW r \in Request, UNCHANGED <<stored, log>>,
             \A q \in Request \ {r} : request'[q] = request[q],
             Phase(r)' = "answering" => Logged(log, KeyOf(r)', request'[r].answer)
      PROVE  MemoryInv'
  <2>1. \A q \in Request \ {r} :
          Phase(q)' = "answering" => Logged(log', KeyOf(q)', request'[q].answer)
    BY <1>0, <1>1 DEF MemoryInv, Phase, KeyOf
  <2> QED
    BY <1>0, <1>1, <2>1 DEF MemoryInv
<1>2. ASSUME NEW r \in Request, request'[r].phase # "answering",
             UNCHANGED <<stored, log>>, \A q \in Request \ {r} : request'[q] = request[q]
      PROVE  MemoryInv'
  BY <1>1, <1>2 DEF Phase
<1>3. ASSUME NEW r \in Request, NEW k \in Key, BeginAccountWrite(r, k)  PROVE MemoryInv'
  BY <1>0, <1>2, <1>3 DEF BeginAccountWrite, TypeOK, Started, database, history
<1>4. ASSUME NEW r \in Request, Replay(r)  PROVE MemoryInv'
  <2>1. request[r] \in InFlight /\ KeyOf(r) \in Key
    BY <1>0, <1>4, InFlightTypes DEF Replay
  <2>2. /\ request'[r].key = KeyOf(r)
        /\ request'[r].answer = stored[KeyOf(r)].answer
        /\ \A q \in Request \ {r} : request'[q] = request[q]
    BY <1>0, <1>4 DEF Replay, TypeOK, Answering
  <2>3. Logged(log, KeyOf(r), stored[KeyOf(r)].answer)
    BY <1>0, <1>4, <2>1 DEF Replay, Fresh, MemoryInv
  <2>4. Logged(log, KeyOf(r)', request'[r].answer)
    BY <2>2, <2>3 DEF KeyOf
  <2> QED
    BY <1>1, <1>4, <2>2, <2>4 DEF Replay, database, history
<1>5. ASSUME NEW r \in Request,
             LockAccount(r) \/ Decide(r) \/ WriteChanges(r) \/ RecordAppliedBatchResponse(r)
      PROVE  MemoryInv'
  <2>1. request[r] \in InFlight
    BY <1>0, <1>5, InFlightTypes
      DEF LockAccount, Decide, WriteChanges, RecordAppliedBatchResponse
  <2>2. request'[r].phase # "answering"
    <3>1. CASE LockAccount(r)
      BY <1>0, <2>1, <3>1 DEF LockAccount, TypeOK, InFlight
    <3>2. CASE Decide(r)
      BY <1>0, <2>1, <3>2 DEF Decide, TypeOK, InFlight
    <3>3. CASE WriteChanges(r)
      BY <1>0, <2>1, <3>3 DEF WriteChanges, TypeOK, InFlight
    <3>4. CASE RecordAppliedBatchResponse(r)
      BY <1>0, <2>1, <3>4 DEF RecordAppliedBatchResponse, TypeOK, InFlight
    <3> QED
      BY <1>5, <3>1, <3>2, <3>3, <3>4
  <2>3. UNCHANGED <<stored, log>> /\ \A q \in Request \ {r} : request'[q] = request[q]
    BY <1>0, <1>5 DEF LockAccount, Decide, WriteChanges, RecordAppliedBatchResponse,
                      TypeOK, database, history
  <2> QED
    BY <1>2, <2>2, <2>3
<1>6. ASSUME NEW r \in Request, Commit(r)  PROVE MemoryInv'
  <2> DEFINE effect == [key |-> KeyOf(r), at |-> request[r].now,
                        answer |-> request[r].answer]
  <2>1. request[r] \in InFlight /\ KeyOf(r) \in Key
    BY <1>0, <1>6, InFlightTypes DEF Commit
  <2>2. effect \in Effect /\ log \in Seq(Effect) /\ log' = Append(log, effect)
    BY <1>0, <1>6, <2>1 DEF Effect, InFlight, TypeOK, Commit
  <2>3. /\ \A k, x : Logged(log, k, x) => Logged(log', k, x)
        /\ Logged(log', KeyOf(r), request[r].answer)
    <3>1. effect.key = KeyOf(r) /\ effect.answer = request[r].answer
      OBVIOUS
    <3> HIDE DEF effect
    <3> QED
      BY <2>2, <3>1, LogGrows
  <2> HIDE DEF effect
  <2>4. /\ \A q \in Request \ {r} : request'[q] = request[q]
        /\ request'[r] \in {NoRequest, Answering(KeyOf(r), request[r].answer)}
    BY <1>0, <1>6 DEF Commit, TypeOK
  <2>5. /\ request'[r].phase = "answering" =>
             request'[r].key = KeyOf(r) /\ request'[r].answer = request[r].answer
    BY <2>4 DEF Answering, NoRequest
  <2>6. ASSUME NEW q \in Request, Phase(q)' = "answering"
        PROVE  Logged(log', KeyOf(q)', request'[q].answer)
    <3>1. CASE q = r
      BY <2>3, <2>5, <2>6, <3>1 DEF Phase, KeyOf
    <3>2. CASE q # r
      BY <1>0, <2>3, <2>4, <2>6, <3>2 DEF Phase, KeyOf, MemoryInv
    <3> QED
      BY <3>1, <3>2
  <2>7. PICK prunes \in BOOLEAN : stored' = StoredAfter(r, prunes)
    BY <1>6 DEF Commit
  <2>8. ASSUME NEW k \in Key, stored'[k] # Nothing  PROVE Logged(log', k, stored'[k].answer)
    <3>1. CASE k = KeyOf(r)
      <4>1. stored'[k].answer = request[r].answer
        BY <2>7, <3>1 DEF StoredAfter
      <4> QED
        BY <2>3, <3>1, <4>1
    <3>2. CASE k # KeyOf(r)
      <4>1. stored'[k] = stored[k]
        BY <2>8, <2>7, <3>2 DEF StoredAfter
      <4> QED
        BY <1>0, <2>3, <2>8, <4>1 DEF MemoryInv
    <3> QED
      BY <3>1, <3>2
  <2> QED
    BY <2>6, <2>8 DEF MemoryInv
<1>7. ASSUME NEW r \in Request, Fail(r) \/ AnswerPush(r)  PROVE MemoryInv'
  <2>1. /\ request'[r].phase = "idle" /\ UNCHANGED <<stored, log>>
        /\ \A q \in Request \ {r} : request'[q] = request[q]
    BY <1>0, <1>7 DEF Fail, AnswerPush, TypeOK, NoRequest, database, history
  <2> QED
    BY <1>2, <2>1
<1>8. ASSUME NEW d \in Device, DeleteRevokedDevice(d)  PROVE MemoryInv'
  <2>1. \A k \in Key : stored'[k] \in {stored[k], Nothing}
    BY <1>8 DEF DeleteRevokedDevice
  <2> QED
    BY <1>0, <1>8, <2>1 DEF DeleteRevokedDevice, MemoryInv, Phase, KeyOf
<1>9. ASSUME UNCHANGED <<stored, request, log>>  PROVE MemoryInv'
  BY <1>0, <1>9 DEF MemoryInv, Phase, KeyOf
<1> QED
  BY <1>3, <1>4, <1>5, <1>6, <1>7, <1>8, <1>9
     DEF Next, PushStep, DeleteArchivedNotebook, StopHostingCloudNotebook, RevokeDevice,
         RegisterDevice, RecordAcknowledgedSeq, Tick, vars, database, history

----------------------------------------------------------------------------
(* The theorems about states.                                              *)

(* The invariant holds.                                                    *)
LEMMA Invariance == Spec => []IInv
<1>1. Init => IInv
  BY TypeInit, LockInit, WorkInit, MemoryInit DEF IInv
<1>2. IInv /\ [Next]_vars => IInv'
  BY TypeStep, LockStep, WorkStep, MemoryStep DEF IInv
<1> QED
  BY <1>1, <1>2, PTL DEF Spec

(* Every reachable state has the types of TypeOK.                          *)
THEOREM PushTypeCorrect == Spec => []TypeOK
<1>1. IInv => TypeOK
  BY DEF IInv
<1> QED
  BY <1>1, Invariance, PTL

(* What was accepted on the strength of a row passes the row's guard.      *)
LEMMA AcceptedPasses ==
  ASSUME NEW k \in Key, NEW rs, NEW gone
  PROVE  ~GuardFails(Content[k], Pending(Content[k], rs, gone), rs)
<1> DEFINE p == Pending(Content[k], rs, gone)
<1>1. \A i \in p : rs[Content[k][i].entity] = Content[k][i].base
  BY DEF Pending
<1>2. DOMAIN Content[k] \subseteq Nat \ {0}
  BY BatchAssumption
<1>3. \A i \in p : \A j \in p : j < i => Content[k][j].entity # Content[k][i].entity
  <2> SUFFICES ASSUME NEW i \in p, NEW j \in p, j < i
               PROVE  Content[k][j].entity # Content[k][i].entity
    OBVIOUS
  <2>1. i \in Decoded(Content[k]) /\ j \in Decoded(Content[k])
    BY DEF Pending
  <2>2. i \in Nat \ {0} /\ j \in Nat \ {0}
    BY <1>2, <2>1 DEF Decoded
  <2>3. j \in 1..(i - 1)
    BY <2>2
  <2> QED
    BY <2>1, <2>3 DEF Decoded
<1> QED
  BY <1>1, <1>3 DEF GuardFails

(* Nothing a push decided on moves before it commits, and it never fails   *)
(* on ErrConcurrentWrite, whatever else is in flight.                      *)
THEOREM GuardsNeverFail == Spec => []NoConcurrentWrite
<1>1. IInv => NoConcurrentWrite
  <2> SUFFICES ASSUME IInv, NEW r \in Request,
                      Phase(r) \in {"decided", "written", "recorded"}
               PROVE  /\ request[r].pending
                           = Pending(Batch(r), rows[AccOf(r)], Retired(AccOf(r)))
                      /\ ~GuardFails(Batch(r), request[r].pending, rows[AccOf(r)])
    BY DEF NoConcurrentWrite
  <2>1. request[r].pending = Pending(Batch(r), rows[AccOf(r)], Retired(AccOf(r)))
    BY DEF IInv, WorkInv, WorkHolds, Decisive, DecisionHolds
  <2>2. KeyOf(r) \in Key /\ Content[KeyOf(r)] = Batch(r)
    BY InFlightTypes DEF IInv
  <2> QED
    BY <2>1, <2>2, AcceptedPasses
<1> QED
  BY <1>1, Invariance, PTL

(* An answer given to a client is the answer of its batch's own effect,    *)
(* and that effect has committed.                                          *)
THEOREM AnswersNeverLie == Spec => []AnswersAreTrue
<1>1. IInv => AnswersAreTrue
  BY DEF IInv, MemoryInv, AnswersAreTrue, Given, Logged
<1> QED
  BY <1>1, Invariance, PTL

----------------------------------------------------------------------------
(* The refinement.  Only four kinds of step are seen by AppliedOnce: a     *)
(* commit, an operator's write, the removal of a device and the clock; and *)
(* a replay, as an answer being given.                                     *)

(* AppliedOnce is about the same batches, and reads them the same way.    *)
LEMMA SameBatches ==
  /\ Abstract!Key = Key /\ Abstract!Nothing = Nothing /\ Abstract!Memory = Memory
  /\ \A k : Abstract!Owner(k) = Owner(k)
  /\ \A entry, now : Abstract!Fresh(entry, now) = Fresh(entry, now)
<1>1. Abstract!Key = Key /\ Abstract!Nothing = Nothing
  BY DEF Key, Nothing, Abstract!Key, Abstract!Nothing
<1>2. Abstract!Memory = Memory
  BY DEF Memory, Remembered, Answer, Nothing, Abstract!Memory, Abstract!Remembered,
         Abstract!Answer, Abstract!Nothing
<1>3. \A k : Abstract!Owner(k) = Owner(k)
  BY DEF Owner, Abstract!Owner
<1>4. \A entry, now : Abstract!Fresh(entry, now) = Fresh(entry, now)
  BY <1>1 DEF Fresh, Abstract!Fresh
<1> QED
  BY <1>1, <1>2, <1>3, <1>4

(* And they do the same there.                                            *)
LEMMA SameOutcomes ==
  /\ \A b, rs, ps : Abstract!Pending(b, rs, ps) = Pending(b, rs, ps)
  /\ \A b, ps, seq : Abstract!Outcome(b, ps, seq) = Outcome(b, ps, seq)
  /\ \A b, ps, rs : Abstract!RowsAfter(b, ps, rs) = RowsAfter(b, ps, rs)
<1>1. \A b : Abstract!Decoded(b) = Decoded(b)
  BY DEF Decoded, Abstract!Decoded
<1>2. \A b, ps : Abstract!Touched(b, ps) = Touched(b, ps)
  BY DEF Touched, Abstract!Touched
<1>3. \A ps, seq : Abstract!Cursor(ps, seq) = Cursor(ps, seq)
  BY DEF Cursor, Abstract!Cursor
<1>4. \A change : Abstract!NewVersion(change) = NewVersion(change)
  BY DEF NewVersion, Abstract!NewVersion
<1>5. \A b, rs, ps : Abstract!Pending(b, rs, ps) = Pending(b, rs, ps)
  BY <1>1 DEF Pending, Abstract!Pending
<1>6. \A b, ps, seq : Abstract!Outcome(b, ps, seq) = Outcome(b, ps, seq)
  BY <1>2, <1>3 DEF Outcome, Abstract!Outcome
<1>7. \A b, ps, rs : Abstract!RowsAfter(b, ps, rs) = RowsAfter(b, ps, rs)
  BY <1>2, <1>4 DEF RowsAfter, Abstract!RowsAfter
<1> QED
  BY <1>5, <1>6, <1>7

(* Before anything is pushed.                                              *)
LEMMA AbstractInit == Init => Abstract!Init
<1> SUFFICES ASSUME Init  PROVE Abstract!Init
  OBVIOUS
<1>1. Given = {}
  BY DEF Given, Init, Phase, NoRequest
<1>2. Purged = [a \in Account |-> {}]
  BY DEF Purged, Retired, Init
<1> QED
  BY <1>1, <1>2, SameBatches DEF Init, Abstract!Init

(* Requests that are not giving an answer are not seen.                    *)
LEMMA GivenFrame ==
  ASSUME NEW r \in Request, Phase(r) # "answering", request'[r].phase # "answering",
         \A q \in Request \ {r} : request'[q] = request[q]
  PROVE  UNCHANGED Given
BY DEF Given, Phase, KeyOf

(* A request that begins to give its answer adds it to those given.        *)
LEMMA GivenGrows ==
  ASSUME NEW r \in Request, Phase(r) # "answering", request'[r].phase = "answering",
         \A q \in Request \ {r} : request'[q] = request[q]
  PROVE  Given' = Given \cup {[key |-> request'[r].key, answer |-> request'[r].answer]}
BY DEF Given, Phase, KeyOf

(* A request that ends takes its answer away, unless another gives it too. *)
LEMMA GivenShrinks ==
  ASSUME NEW r \in Request, Phase(r) = "answering", request'[r].phase # "answering",
         \A q \in Request \ {r} : request'[q] = request[q]
  PROVE  LET one == [key |-> KeyOf(r), answer |-> request[r].answer]
         IN  one \in Given /\ Given' \in {Given, Given \ {one}}
<1> DEFINE one  == [key |-> KeyOf(r), answer |-> request[r].answer]
           rest == {[key |-> KeyOf(q), answer |-> request[q].answer] :
                      q \in {p \in Request \ {r} : Phase(p) = "answering"}}
<1>1. Given' = rest
  BY DEF Given, Phase, KeyOf
<1>2. Given = rest \cup {one}
  BY DEF Given, Phase, KeyOf
<1> HIDE DEF one, rest
<1>3. one \in Given /\ Given' \in {Given, Given \ {one}}
  BY <1>1, <1>2
<1> QED
  BY <1>3 DEF one

(* A commit applies its batch.                                             *)
LEMMA CommitApplies ==
  ASSUME IInv, IInv', NEW r \in Request, Commit(r)
  PROVE  Abstract!Apply(KeyOf(r), request[r].now) /\ request[r].now \in 0..clock
<1> DEFINE k  == KeyOf(r)
           a  == Owner(k)
           p  == Pending(Content[k], rows[a], Retired(a))
           x  == Outcome(Content[k], p, changeSeq[a])
<1>0. TypeOK /\ clock \in Nat /\ log \in Seq(Effect)
  BY DEF IInv, TypeOK
<1>1. /\ request[r] \in InFlight /\ KeyOf(r) \in Key /\ AccOf(r) \in Account
      /\ Content[KeyOf(r)] = Batch(r) /\ AccOf(r) = a
  BY <1>0, InFlightTypes DEF Commit, AccOf
<1>2. /\ request[r].now \in Nat /\ request[r].now <= clock
      /\ request[r].pending = p /\ request[r].answer = x
      /\ ~Fresh(stored[k], request[r].now)
  BY <1>1 DEF IInv, WorkInv, WorkHolds, DecisionHolds, AnswerHolds, Decisive, Commit, InFlight
<1>3. stored[k] \in Memory /\ stored' \in [Key -> Memory]
  BY <1>1 DEF IInv, TypeOK
<1>4. \A j \in Key : stored[j] # Nothing => stored[j].at \in Nat
  BY <1>0 DEF TypeOK, Memory, Remembered
<1>5. ~Fresh(stored[k], clock)
  BY <1>0, <1>1, <1>2, <1>4, BatchAssumption DEF Fresh
<1>6. log' # log
  <2>1. [key |-> KeyOf(r), at |-> request[r].now, answer |-> request[r].answer] \in Effect
    BY <1>0, <1>1 DEF Effect, InFlight
  <2>2. Len(log') = Len(log) + 1 /\ Len(log) \in Nat
    BY <1>0, <2>1 DEF Commit
  <2> QED
    BY <2>2
<1>7. log' = Append(log, [key |-> k, at |-> request[r].now, answer |-> x])
  BY <1>2 DEF Commit
<1>8. /\ rows' = [rows EXCEPT ![a] = RowsAfter(Content[k], p, @)]
      /\ changeSeq' = [changeSeq EXCEPT ![a] = x.cursor]
  BY <1>1, <1>2 DEF Commit
<1>9. /\ stored'[k] = [at |-> request[r].now, answer |-> x]
      /\ \A j \in Key \ {k} : \/ stored'[j] = stored[j]
                              \/ stored'[j] = Nothing /\ ~Fresh(stored[j], clock)
  <2>0. PICK prunes \in BOOLEAN : stored' = StoredAfter(r, prunes)
    BY DEF Commit
  <2>1. stored'[k] = [at |-> request[r].now, answer |-> x]
    BY <1>1, <1>2, <2>0 DEF StoredAfter
  <2>2. ASSUME NEW j \in Key \ {k}, stored'[j] # stored[j]
        PROVE  stored'[j] = Nothing /\ ~Fresh(stored[j], clock)
    <3>1. stored'[j] = Nothing /\ stored[j].at < request[r].now - Window
      BY <2>0, <2>2 DEF StoredAfter
    <3>2. stored[j].at \in Nat
      BY <1>4, <2>2, <3>1
    <3>3. ~Fresh(stored[j], clock)
      BY <1>0, <1>2, <3>1, <3>2, BatchAssumption DEF Fresh
    <3> QED
      BY <3>1, <3>3
  <2> QED
    BY <2>1, <2>2
<1>10. Given' \in {Given, Given \cup {[key |-> k, answer |-> x]}}
  <2>1. /\ \A q \in Request \ {r} : request'[q] = request[q]
        /\ request'[r] \in {NoRequest, Answering(k, request[r].answer)}
    BY <1>0 DEF Commit, TypeOK
  <2>2. Phase(r) # "answering"
    BY DEF Commit
  <2>3. CASE request'[r] = NoRequest
    BY <2>1, <2>2, <2>3, GivenFrame DEF NoRequest
  <2>4. CASE request'[r] = Answering(k, request[r].answer)
    <3>1. /\ request'[r].phase = "answering" /\ request'[r].key = k
          /\ request'[r].answer = x
      BY <1>2, <2>4 DEF Answering
    <3> QED
      BY <2>1, <2>2, <3>1, GivenGrows
  <2> QED
    BY <2>1, <2>3, <2>4
<1>11. UNCHANGED <<Purged, clock>> /\ Purged[a] = Retired(a)
  BY <1>1 DEF Commit, Purged, Retired
<1> HIDE DEF p, x
<1>12. Abstract!Apply(k, request[r].now)
  <2>1. Abstract!Owner(k) = a
    BY SameBatches
  <2>2. /\ Abstract!Pending(Content[k], rows[a], Purged[a]) = p
        /\ Abstract!Outcome(Content[k], p, changeSeq[a]) = x
        /\ Abstract!RowsAfter(Content[k], p, rows[a]) = RowsAfter(Content[k], p, rows[a])
    BY <1>11, SameOutcomes DEF p, x
  <2>3. /\ ~Abstract!Fresh(stored[k], clock)
        /\ stored' \in [Abstract!Key -> Abstract!Memory]
    BY <1>3, <1>5, SameBatches
  <2>4. \A j \in Abstract!Key \ {k} : stored'[j] = stored[j] \/ Abstract!Lapses(j)
    BY <1>9, SameBatches DEF Abstract!Lapses
  <2> QED
    BY <1>6, <1>7, <1>8, <1>9, <1>10, <1>11, <2>1, <2>2, <2>3, <2>4 DEF Abstract!Apply
<1> QED
  BY <1>0, <1>2, <1>12

(* Every step of a push is one of AppliedOnce or invisible there.          *)
LEMMA AbstractStep == IInv /\ IInv' /\ [Next]_vars => [Abstract!Next]_(Abstract!vars)
<1> SUFFICES ASSUME IInv, IInv', [Next]_vars
             PROVE  Abstract!Next \/ UNCHANGED Abstract!vars
  OBVIOUS
<1>0. TypeOK
  BY DEF IInv
<1> USE DEF Abstract!vars, database, history
<1>1. ASSUME UNCHANGED <<database, clock, log>>, UNCHANGED Given
      PROVE  UNCHANGED Abstract!vars
  BY <1>1 DEF Purged, Retired
<1>2. ASSUME UNCHANGED purges  PROVE UNCHANGED Purged
  BY <1>2 DEF Purged, Retired
<1>3. ASSUME NEW r \in Request, NEW k \in Key, BeginAccountWrite(r, k)
      PROVE  UNCHANGED Abstract!vars
  <2>1. /\ request'[r].phase = "waiting" /\ Phase(r) # "answering"
        /\ \A q \in Request \ {r} : request'[q] = request[q]
    BY <1>0, <1>3 DEF BeginAccountWrite, TypeOK, Started
  <2> QED
    BY <1>1, <1>3, <2>1, GivenFrame DEF BeginAccountWrite
<1>4. ASSUME NEW r \in Request,
             LockAccount(r) \/ Decide(r) \/ WriteChanges(r) \/ RecordAppliedBatchResponse(r)
      PROVE  UNCHANGED Abstract!vars
  <2>1. request[r] \in InFlight /\ Phase(r) # "answering"
    BY <1>0, <1>4, InFlightTypes
      DEF LockAccount, Decide, WriteChanges, RecordAppliedBatchResponse
  <2>2. request'[r].phase # "answering"
    <3>1. CASE LockAccount(r)
      BY <1>0, <2>1, <3>1 DEF LockAccount, TypeOK, InFlight
    <3>2. CASE Decide(r)
      BY <1>0, <2>1, <3>2 DEF Decide, TypeOK, InFlight
    <3>3. CASE WriteChanges(r)
      BY <1>0, <2>1, <3>3 DEF WriteChanges, TypeOK, InFlight
    <3>4. CASE RecordAppliedBatchResponse(r)
      BY <1>0, <2>1, <3>4 DEF RecordAppliedBatchResponse, TypeOK, InFlight
    <3> QED
      BY <1>4, <3>1, <3>2, <3>3, <3>4
  <2>3. \A q \in Request \ {r} : request'[q] = request[q]
    BY <1>0, <1>4 DEF LockAccount, Decide, WriteChanges, RecordAppliedBatchResponse, TypeOK
  <2>4. UNCHANGED <<database, clock, log>>
    BY <1>4 DEF LockAccount, Decide, WriteChanges, RecordAppliedBatchResponse
  <2> QED
    BY <1>1, <2>1, <2>2, <2>3, <2>4, GivenFrame
<1>5. ASSUME NEW r \in Request, Replay(r)  PROVE Abstract!Next
  <2>1. request[r] \in InFlight /\ KeyOf(r) \in Key /\ Phase(r) # "answering"
    BY <1>0, <1>5, InFlightTypes DEF Replay
  <2>2. /\ request'[r].phase = "answering" /\ request'[r].key = KeyOf(r)
        /\ request'[r].answer = stored[KeyOf(r)].answer
        /\ \A q \in Request \ {r} : request'[q] = request[q]
    BY <1>0, <1>5 DEF Replay, TypeOK, Answering
  <2>3. PICK i \in DOMAIN log :
          log[i].key = KeyOf(r) /\ log[i].answer = stored[KeyOf(r)].answer
    BY <1>5, <2>1 DEF IInv, MemoryInv, Logged, Replay, Fresh
  <2>4. Given' = Given \cup {[key |-> log[i].key, answer |-> log[i].answer]}
    BY <2>1, <2>2, <2>3, GivenGrows
  <2>5. Abstract!Tell(i)
    BY <1>5, <1>2, <2>4 DEF Abstract!Tell, Replay
  <2> QED
    BY <2>5 DEF Abstract!Next
<1>6. ASSUME NEW r \in Request, Commit(r)  PROVE Abstract!Next
  <2>1. KeyOf(r) \in Key
    BY <1>0, <1>6, InFlightTypes DEF Commit
  <2> QED
    BY <1>6, <2>1, CommitApplies, SameBatches DEF Abstract!Next
<1>7. ASSUME NEW r \in Request, Fail(r)  PROVE UNCHANGED Abstract!vars
  <2>1. /\ request'[r].phase # "answering" /\ Phase(r) # "answering"
        /\ \A q \in Request \ {r} : request'[q] = request[q]
    BY <1>0, <1>7 DEF Fail, TypeOK, NoRequest, HoldsLock
  <2> QED
    BY <1>1, <1>7, <2>1, GivenFrame DEF Fail
<1>8. ASSUME NEW r \in Request, AnswerPush(r)
      PROVE  Abstract!Next \/ UNCHANGED Abstract!vars
  <2> DEFINE one == [key |-> KeyOf(r), answer |-> request[r].answer]
  <2>1. /\ request'[r].phase # "answering" /\ Phase(r) = "answering"
        /\ \A q \in Request \ {r} : request'[q] = request[q]
    BY <1>0, <1>8 DEF AnswerPush, TypeOK, NoRequest
  <2>2. one \in Given /\ Given' \in {Given, Given \ {one}}
    BY <2>1, GivenShrinks
  <2> HIDE DEF one
  <2>3. CASE Given' = Given
    BY <1>1, <1>8, <2>3 DEF AnswerPush
  <2>4. CASE Given' = Given \ {one}
    <3>1. Abstract!Told(one)
      BY <1>8, <1>2, <2>4 DEF Abstract!Told, AnswerPush
    <3> QED
      BY <2>2, <3>1 DEF Abstract!Next
  <2> QED
    BY <2>2, <2>3, <2>4
<1>9. ASSUME UNCHANGED request  PROVE UNCHANGED Given
  BY <1>9 DEF Given, Phase, KeyOf
<1>10. ASSUME NEW a \in Account, NEW e \in Entity, DeleteArchivedNotebook(a, e)
       PROVE  Abstract!Next
  <2> DEFINE kept == {f \in Entity \ {e} : Pruned(a)[f] > 0}
  <2>1. kept \in SUBSET Purged[a]
    BY <1>0 DEF Purged, Retired, Pruned, TypeOK, Rows
  <2>2. /\ purges' = [purges EXCEPT ![a] = [Pruned(a) EXCEPT ![e] = changeSeq[a] + 1]]
        /\ changeSeq[a] + 1 > 0 /\ Pruned(a) \in [Entity -> Nat]
    BY <1>0, <1>10 DEF DeleteArchivedNotebook, Pruned, TypeOK, Rows
  <2>3. Retired(a)' = kept \cup {e}
    <3>1. \A f \in Entity : purges'[a][f] > 0 <=> f = e \/ Pruned(a)[f] > 0
      BY <1>0, <2>2 DEF TypeOK
    <3> QED
      BY <3>1 DEF Retired
  <2>4. \A b \in Account \ {a} : Retired(b)' = Retired(b)
    BY <1>0, <2>2 DEF Retired, TypeOK
  <2>5. Purged' = [Purged EXCEPT ![a] = kept \cup {e}]
    BY <2>3, <2>4 DEF Purged
  <2> HIDE DEF kept
  <2>6. Abstract!Operator(a, e)
    BY <1>9, <1>10, <2>1, <2>5 DEF DeleteArchivedNotebook, Abstract!Operator
  <2> QED
    BY <2>6 DEF Abstract!Next
<1>11. ASSUME NEW a \in Account, NEW e \in Entity, StopHostingCloudNotebook(a, e)
       PROVE  Abstract!Next
  <2>1. Abstract!Operator(a, e)
    BY <1>2, <1>9, <1>11 DEF StopHostingCloudNotebook, Abstract!Operator
  <2> QED
    BY <2>1 DEF Abstract!Next
<1>12. ASSUME NEW d \in Device, DeleteRevokedDevice(d)  PROVE Abstract!Next
  <2>1. Abstract!Forget(d)
    BY <1>2, <1>9, <1>12, SameBatches DEF DeleteRevokedDevice, Abstract!Forget
  <2> QED
    BY <2>1 DEF Abstract!Next
<1>13. ASSUME NEW d \in Device, NEW s \in Nat,
              RevokeDevice(d) \/ RegisterDevice(d) \/ RecordAcknowledgedSeq(d, s)
       PROVE  UNCHANGED Abstract!vars
  BY <1>1, <1>9, <1>13 DEF RevokeDevice, RegisterDevice, RecordAcknowledgedSeq
<1>14. ASSUME Tick  PROVE Abstract!Next
  BY <1>2, <1>9, <1>14 DEF Tick, Abstract!Tick, Abstract!Next
<1>15. ASSUME UNCHANGED vars  PROVE UNCHANGED Abstract!vars
  BY <1>1, <1>9, <1>15 DEF vars
<1> QED
  BY <1>3, <1>4, <1>5, <1>6, <1>7, <1>8, <1>10, <1>11, <1>12, <1>13, <1>14, <1>15
     DEF Next, PushStep

(* The transactions implement the promise: for any interleaving of pushes, *)
(* retries, failures and lost answers, a batch takes effect in one step,   *)
(* on the account as it is then, and not again while it is remembered.     *)
THEOREM TransactionsImplement == Spec => Implements
BY AbstractInit, AbstractStep, Invariance, PTL DEF Spec, Implements, Abstract!Spec

----------------------------------------------------------------------------
(* A late retry writes no notebook a second time.                          *)

(* What is known of devices: only a revocation ends a sign-in, and no      *)
(* cursor is acknowledged that the account has not reached.                *)
DeviceInv ==
  \A d \in Device : /\ revoked[d] = 0 => Active(d)
                    /\ devices[d].pulled <= changeSeq[AccountOf[d]]

(* A notebook a batch wrote is past the version the batch started from, or *)
(* erased with a purge its device has not acknowledged, which is therefore *)
(* not pruned; or the device is one WritesOnce says nothing of.            *)
Excused(k, e) == revoked[k[1]] > 0 \/ <<k[1], e>> \in informed
Past(k, i) ==
  LET e == Content[k][i].entity
  IN  \/ rows[Owner(k)][e] > Content[k][i].base
      \/ purges[Owner(k)][e] > devices[k[1]].pulled
      \/ Excused(k, e)
PastInv ==
  \A n \in DOMAIN log : \A i \in Decoded(Content[log[n].key]) :
    Content[log[n].key][i].entity \in log[n].answer.applied => Past(log[n].key, i)

(* A batch changes an entity in one place.                                 *)
LEMMA DecodedOnce ==
  ASSUME NEW k \in Key, NEW i \in Decoded(Content[k]), NEW j \in Decoded(Content[k]),
         Content[k][i].entity = Content[k][j].entity
  PROVE  i = j /\ i \in Nat /\ Content[k][i] \in Change
<1>1. Content[k] \in Seq(Change) /\ i \in DOMAIN Content[k] /\ j \in DOMAIN Content[k]
  BY BatchAssumption DEF Decoded
<1>2. i \in Nat /\ j \in Nat /\ i >= 1 /\ j >= 1 /\ Content[k][i] \in Change
  BY <1>1
<1>3. ~(i < j) /\ ~(j < i)
  <2>1. i < j => i \in 1..(j - 1)
    BY <1>2
  <2>2. j < i => j \in 1..(i - 1)
    BY <1>2
  <2> QED
    BY <2>1, <2>2 DEF Decoded
<1> QED
  BY <1>2, <1>3

(* What a batch starts from.                                               *)
LEMMA BatchTypes ==
  ASSUME TypeOK, NEW k \in Key, NEW i \in Decoded(Content[k])
  PROVE  LET e == Content[k][i].entity
             a == Owner(k)
         IN  /\ k[1] \in Device /\ a \in Account /\ a = AccountOf[k[1]]
             /\ e \in Entity /\ Content[k][i].base \in Nat
             /\ rows[a] \in Rows /\ rows[a][e] \in Nat
             /\ purges[a] \in Rows /\ purges[a][e] \in Nat
             /\ Retired(a) \in SUBSET Entity
             /\ devices[k[1]] \in DeviceRow /\ devices[k[1]].pulled \in Nat
             /\ revoked[k[1]] \in Nat /\ changeSeq[a] \in Nat
<1>1. k[1] \in Device /\ Owner(k) = AccountOf[k[1]] /\ Owner(k) \in Account
  BY BatchAssumption DEF Owner
<1>2. Content[k][i].entity \in Entity /\ Content[k][i].base \in Nat
  BY DecodedOnce DEF Change
<1>3. devices[k[1]] \in DeviceRow /\ devices[k[1]].pulled \in Nat
  BY <1>1 DEF TypeOK, DeviceRow
<1> QED
  BY <1>1, <1>2, <1>3 DEF TypeOK, Rows, Retired

(* Past its batch, a notebook is not accepted again, unless the device is  *)
(* excused.                                                                *)
LEMMA PastIsRefused ==
  ASSUME TypeOK, NEW k \in Key, NEW i \in Decoded(Content[k]), Past(k, i),
         ~Excused(k, Content[k][i].entity)
  PROVE  Content[k][i].entity
           \notin Touched(Content[k], Pending(Content[k], rows[Owner(k)], Retired(Owner(k))))
<1> DEFINE a == Owner(k)
           p == Pending(Content[k], rows[a], Retired(a))
<1> SUFFICES ASSUME NEW j \in p, Content[k][i].entity = Content[k][j].entity
             PROVE  FALSE
  BY DEF Touched
<1>1. /\ j \in Decoded(Content[k]) /\ Content[k][j].entity \notin Retired(a)
      /\ rows[a][Content[k][j].entity] = Content[k][j].base
  BY DEF Pending
<1>2. i = j
  BY <1>1, DecodedOnce
<1>3. /\ Content[k][i].entity \in Entity /\ Content[k][i].base \in Nat
      /\ purges[a][Content[k][i].entity] \in Nat /\ devices[k[1]].pulled \in Nat
  BY BatchTypes
<1>4. purges[a][Content[k][i].entity] = 0
  BY <1>1, <1>2, <1>3 DEF Retired
<1> QED
  BY <1>1, <1>2, <1>3, <1>4 DEF Past

(* What a batch accepts is past it then.                                   *)
LEMMA AcceptedIsPast ==
  ASSUME NEW k \in Key, NEW rs \in Rows, NEW gone \in SUBSET Entity,
         NEW i \in Decoded(Content[k]),
         Content[k][i].entity \in Touched(Content[k], Pending(Content[k], rs, gone))
  PROVE  RowsAfter(Content[k], Pending(Content[k], rs, gone), rs)[Content[k][i].entity]
           > Content[k][i].base
<1> DEFINE p == Pending(Content[k], rs, gone)
           e == Content[k][i].entity
           c == CHOOSE j \in p : Content[k][j].entity = e
<1>1. PICK j \in p : Content[k][j].entity = e
  BY DEF Touched
<1>2. c \in p /\ Content[k][c].entity = e
  BY <1>1
<1>3. c \in Decoded(Content[k])
  BY <1>2 DEF Pending
<1>4. c = i /\ Content[k][i] \in Change
  BY <1>2, <1>3, DecodedOnce
<1>5. e \in Entity /\ Content[k][i].base \in Nat
  BY <1>4 DEF Change
<1>6. RowsAfter(Content[k], p, rs)[e] = NewVersion(Content[k][c])
  BY <1>5 DEF RowsAfter
<1>7. RowsAfter(Content[k], p, rs)[e] = Content[k][i].base + 1
  BY <1>4, <1>6 DEF NewVersion
<1> QED
  BY <1>5, <1>7

(* A batch takes no notebook back to an earlier version.                   *)
LEMMA RowsAfterGrow ==
  ASSUME NEW k \in Key, NEW rs \in Rows, NEW gone \in SUBSET Entity, NEW e \in Entity
  PROVE  RowsAfter(Content[k], Pending(Content[k], rs, gone), rs)[e] >= rs[e]
<1> DEFINE p == Pending(Content[k], rs, gone)
           c == CHOOSE j \in p : Content[k][j].entity = e
<1>1. CASE e \in Touched(Content[k], p)
  <2>1. PICK j \in p : Content[k][j].entity = e
    BY <1>1 DEF Touched
  <2>2. c \in p /\ Content[k][c].entity = e
    BY <2>1
  <2>3. c \in Decoded(Content[k]) /\ rs[e] = Content[k][c].base
    BY <2>2 DEF Pending
  <2>4. Content[k][c] \in Change
    BY <2>3, DecodedOnce
  <2>5. RowsAfter(Content[k], p, rs)[e] = Content[k][c].base + 1
    BY <1>1 DEF RowsAfter, NewVersion
  <2> QED
    BY <2>3, <2>4, <2>5 DEF Change
<1>2. CASE e \notin Touched(Content[k], p)
  BY <1>2 DEF RowsAfter, Rows
<1> QED
  BY <1>1, <1>2

(* A commit takes no notebook back to an earlier version, and the account  *)
(* to no earlier sequence.                                                 *)
LEMMA CommitGrows ==
  ASSUME IInv, NEW r \in Request, Commit(r), NEW a \in Account
  PROVE  /\ \A e \in Entity : rows'[a][e] >= rows[a][e]
         /\ changeSeq'[a] >= changeSeq[a]
<1>0. /\ TypeOK /\ rows[a] \in Rows /\ \A e \in Entity : rows[a][e] \in Nat
      /\ Retired(a) \in SUBSET Entity /\ changeSeq[a] \in Nat
  BY DEF IInv, TypeOK, Rows, Retired
<1>1. /\ KeyOf(r) \in Key /\ Content[KeyOf(r)] = Batch(r) /\ AccOf(r) \in Account
  BY <1>0, InFlightTypes DEF Commit
<1>2. /\ request[r].pending = Pending(Batch(r), rows[AccOf(r)], Retired(AccOf(r)))
      /\ request[r].answer = Outcome(Batch(r), request[r].pending, changeSeq[AccOf(r)])
  BY DEF IInv, WorkInv, WorkHolds, Decisive, DecisionHolds, AnswerHolds, Commit
<1>3. CASE AccOf(r) = a
  <2>1. rows'[a] = RowsAfter(Content[KeyOf(r)],
                     Pending(Content[KeyOf(r)], rows[a], Retired(a)), rows[a])
    BY <1>0, <1>1, <1>2, <1>3 DEF Commit, TypeOK
  <2>2. \A e \in Entity : rows'[a][e] >= rows[a][e]
    BY <1>0, <1>1, <2>1, RowsAfterGrow
  <2>3. changeSeq'[a] = Cursor(request[r].pending, changeSeq[a])
    BY <1>0, <1>2, <1>3 DEF Commit, TypeOK, Outcome
  <2> QED
    BY <1>0, <2>2, <2>3 DEF Cursor
<1>4. CASE AccOf(r) # a
  BY <1>0, <1>4 DEF Commit, TypeOK
<1> QED
  BY <1>3, <1>4

(* Devices stay what is known of them.                                     *)
LEMMA DeviceStep == IInv /\ IInv' /\ DeviceInv /\ [Next]_vars => DeviceInv'
<1> SUFFICES ASSUME IInv, IInv', DeviceInv, [Next]_vars, NEW d \in Device
             PROVE  /\ revoked'[d] = 0 => Active(d)'
                    /\ devices'[d].pulled <= changeSeq'[AccountOf[d]]
  BY DEF DeviceInv
<1> DEFINE a == AccountOf[d]
<1>0. /\ TypeOK /\ a \in Account /\ changeSeq[a] \in Nat /\ changeSeq'[a] \in Nat
      /\ revoked[d] \in Nat /\ devices[d].pulled \in Nat /\ devices'[d].pulled \in Nat
      /\ revoked[d] = 0 => Active(d)
      /\ devices[d].pulled <= changeSeq[a]
  BY BatchAssumption DEF IInv, TypeOK, DeviceInv, DeviceRow
<1>1. ASSUME UNCHANGED <<devices, revoked>>, changeSeq'[a] >= changeSeq[a]
      PROVE  (revoked'[d] = 0 => Active(d)') /\ devices'[d].pulled <= changeSeq'[a]
  BY <1>0, <1>1 DEF Active
<1>2. ASSUME NEW r \in Request, Commit(r)
      PROVE  (revoked'[d] = 0 => Active(d)') /\ devices'[d].pulled <= changeSeq'[a]
  BY <1>0, <1>1, <1>2, CommitGrows DEF Commit
<1>3. ASSUME NEW b \in Account, NEW f \in Entity,
             DeleteArchivedNotebook(b, f) \/ StopHostingCloudNotebook(b, f)
      PROVE  (revoked'[d] = 0 => Active(d)') /\ devices'[d].pulled <= changeSeq'[a]
  <2>1. changeSeq' = [changeSeq EXCEPT ![b] = @ + 1]
    BY <1>3 DEF DeleteArchivedNotebook, StopHostingCloudNotebook
  <2>2. changeSeq'[a] = IF a = b THEN changeSeq[a] + 1 ELSE changeSeq[a]
    BY <1>0, <2>1 DEF TypeOK
  <2> QED
    BY <1>0, <1>1, <1>3, <2>2 DEF DeleteArchivedNotebook, StopHostingCloudNotebook, history
<1>4. ASSUME NEW c \in Device, RevokeDevice(c)
      PROVE  (revoked'[d] = 0 => Active(d)') /\ devices'[d].pulled <= changeSeq'[a]
  <2>1. CASE c = d
    <3>1. revoked'[d] = revoked[d] + 1 /\ devices'[d].pulled = devices[d].pulled
      BY <1>0, <1>4, <2>1 DEF RevokeDevice, TypeOK, DeviceRow
    <3> QED
      BY <1>0, <1>4, <3>1 DEF RevokeDevice, database
  <2>2. CASE c # d
    BY <1>0, <1>4, <2>2 DEF RevokeDevice, TypeOK, Active, database
  <2> QED
    BY <2>1, <2>2
<1>5. ASSUME NEW c \in Device, DeleteRevokedDevice(c)
      PROVE  (revoked'[d] = 0 => Active(d)') /\ devices'[d].pulled <= changeSeq'[a]
  <2>1. CASE c = d
    BY <1>0, <1>5, <2>1 DEF DeleteRevokedDevice, TypeOK, Active, NoRow
  <2>2. CASE c # d
    BY <1>0, <1>5, <2>2 DEF DeleteRevokedDevice, TypeOK, Active
  <2> QED
    BY <2>1, <2>2
<1>6. ASSUME NEW c \in Device, RegisterDevice(c)
      PROVE  (revoked'[d] = 0 => Active(d)') /\ devices'[d].pulled <= changeSeq'[a]
  <2>1. CASE c = d
    BY <1>0, <1>6, <2>1 DEF RegisterDevice, TypeOK, Active, SignedIn, database
  <2>2. CASE c # d
    BY <1>0, <1>6, <2>2 DEF RegisterDevice, TypeOK, Active, database, history
  <2> QED
    BY <2>1, <2>2
<1>7. ASSUME NEW c \in Device, NEW s \in 1..changeSeq[AccountOf[c]],
             RecordAcknowledgedSeq(c, s)
      PROVE  (revoked'[d] = 0 => Active(d)') /\ devices'[d].pulled <= changeSeq'[a]
  <2>1. CASE c = d
    <3>1. devices'[d].pulled = s /\ devices'[d].status = devices[d].status
      BY <1>0, <1>7, <2>1 DEF RecordAcknowledgedSeq, TypeOK, DeviceRow
    <3> QED
      BY <1>0, <1>7, <2>1, <3>1 DEF RecordAcknowledgedSeq, Active, database
  <2>2. CASE c # d
    BY <1>0, <1>7, <2>2 DEF RecordAcknowledgedSeq, TypeOK, Active, database
  <2> QED
    BY <2>1, <2>2
<1>8. CASE UNCHANGED <<devices, revoked, changeSeq>>
  BY <1>0, <1>1, <1>8
<1> QED
  BY <1>2, <1>3, <1>4, <1>5, <1>6, <1>7, <1>8 DEF Next, PushStep, BeginAccountWrite,
     LockAccount, Replay, Decide, WriteChanges, RecordAppliedBatchResponse, Fail, AnswerPush,
     Tick, vars, database, history

(* What the log holds.                                                     *)
LEMMA EffectTypes ==
  ASSUME NEW list \in Seq(Effect), NEW n \in DOMAIN list
  PROVE  list[n].key \in Key /\ list[n].at \in Nat
<1>1. list[n] \in Effect
  OBVIOUS
<1> QED
  BY <1>1 DEF Effect

(* What a commit adds to the log.                                          *)
LEMMA LogStep ==
  ASSUME IInv, [Next]_vars, log' # log
  PROVE  \E r \in Request :
           LET k == KeyOf(r)
               a == Owner(k)
               p == Pending(Content[k], rows[a], Retired(a))
               n == Len(log) + 1
           IN  /\ Commit(r) /\ k \in Key /\ a \in Account
               /\ n \in Nat /\ log' \in Seq(Effect) /\ DOMAIN log' = 1..n
               /\ \A i \in DOMAIN log : i < n /\ log'[i] = log[i]
               /\ \A i \in DOMAIN log' : i # n => i \in DOMAIN log
               /\ log'[n].key = k
               /\ log'[n].at = request[r].now /\ request[r].now \in Nat
               /\ log'[n].answer.applied = Touched(Content[k], p)
               /\ ~Fresh(stored[k], clock) /\ stored[k] \in Memory
               /\ rows'[a] = RowsAfter(Content[k], p, rows[a])
<1>0. TypeOK /\ log \in Seq(Effect) /\ Len(log) \in Nat /\ clock \in Nat
  BY DEF IInv, TypeOK
<1>1. PICK r \in Request : Commit(r)
  BY DEF Next, PushStep, BeginAccountWrite, LockAccount, Replay, Decide, WriteChanges,
         RecordAppliedBatchResponse, Fail, AnswerPush, DeleteArchivedNotebook,
         StopHostingCloudNotebook, RevokeDevice, DeleteRevokedDevice, RegisterDevice,
         RecordAcknowledgedSeq, Tick, vars, history
<1> DEFINE k == KeyOf(r)
           a == Owner(k)
           p == Pending(Content[k], rows[a], Retired(a))
           n == Len(log) + 1
           effect == [key |-> k, at |-> request[r].now, answer |-> request[r].answer]
<1>2. /\ request[r] \in InFlight /\ k \in Key /\ AccOf(r) = a /\ a \in Account
      /\ Content[k] = Batch(r) /\ stored[k] \in Memory
  BY <1>0, <1>1, InFlightTypes DEF Commit, AccOf
<1>3. /\ request[r].now \in Nat /\ request[r].now <= clock
      /\ request[r].pending = p /\ request[r].answer = Outcome(Content[k], p, changeSeq[a])
      /\ ~Fresh(stored[k], request[r].now)
  BY <1>1, <1>2 DEF IInv, WorkInv, WorkHolds, DecisionHolds, AnswerHolds, Decisive, Commit,
                    InFlight
<1>4. effect \in Effect /\ log' = Append(log, effect)
  BY <1>0, <1>1, <1>2 DEF Effect, InFlight, Commit
<1> HIDE DEF effect
<1>5. /\ n \in Nat /\ log' \in Seq(Effect) /\ DOMAIN log' = 1..n /\ log'[n] = effect
      /\ \A i \in DOMAIN log : i < n /\ log'[i] = log[i]
      /\ \A i \in DOMAIN log' : i # n => i \in DOMAIN log
  BY <1>0, <1>4
<1>6. /\ log'[n].key = k /\ log'[n].at = request[r].now
      /\ log'[n].answer.applied = Touched(Content[k], p)
  BY <1>3, <1>5 DEF effect, Outcome
<1>7. ~Fresh(stored[k], clock)
  <2>1. stored[k] # Nothing => stored[k].at \in Nat
    BY <1>2 DEF Memory, Remembered
  <2> QED
    BY <1>0, <1>3, <2>1, BatchAssumption DEF Fresh
<1>8. rows'[a] = RowsAfter(Content[k], p, rows[a])
  BY <1>0, <1>1, <1>2, <1>3 DEF Commit, TypeOK
<1> QED
  BY <1>1, <1>2, <1>3, <1>5, <1>6, <1>7, <1>8

(* What a batch is past it stays past: a purge its device has not          *)
(* acknowledged outlives every pruning while the device is signed in.      *)
LEMMA PastStays ==
  ASSUME IInv, IInv', DeviceInv, [Next]_vars,
         NEW k \in Key, NEW i \in Decoded(Content[k]), Past(k, i)
  PROVE  Past(k, i)'
<1> DEFINE a == Owner(k)
           d == k[1]
           e == Content[k][i].entity
           base == Content[k][i].base
<1>0. TypeOK /\ TypeOK'
  BY DEF IInv
<1>1. /\ d \in Device /\ a \in Account /\ a = AccountOf[d] /\ e \in Entity /\ base \in Nat
      /\ rows[a][e] \in Nat /\ purges[a][e] \in Nat /\ changeSeq[a] \in Nat
      /\ devices[d].pulled \in Nat /\ revoked[d] \in Nat
  <2>1. TypeOK
    BY <1>0
  <2> QED
    BY <2>1, BatchTypes
<1>2. Past(k, i) <=> rows[a][e] > base \/ purges[a][e] > devices[d].pulled
                       \/ revoked[d] > 0 \/ <<d, e>> \in informed
  BY DEF Past, Excused
<1>3. Past(k, i)' <=> rows'[a][e] > base \/ purges'[a][e] > devices'[d].pulled
                        \/ revoked'[d] > 0 \/ <<d, e>> \in informed'
  BY DEF Past, Excused
<1> HIDE DEF a, d, e, base
<1>4. rows'[a][e] \in Nat /\ purges'[a][e] \in Nat /\ devices'[d].pulled \in Nat
  <2>1. rows'[a] \in Rows /\ purges'[a] \in Rows /\ devices'[d] \in DeviceRow
    BY <1>0, <1>1 DEF TypeOK
  <2> QED
    BY <1>1, <2>1 DEF Rows, DeviceRow
<1>5. /\ revoked[d] = 0 => Active(d)
      /\ devices[d].pulled <= changeSeq[a]
  BY <1>1 DEF DeviceInv
<1>6. ASSUME NEW r \in Request, Commit(r)  PROVE Past(k, i)'
  <2>1. rows'[a][e] >= rows[a][e]
    BY <1>1, <1>6, CommitGrows
  <2>2. UNCHANGED <<purges, devices, revoked, informed>>
    BY <1>6 DEF Commit
  <2> QED
    BY <1>1, <1>4, <1>2, <1>3, <2>1, <2>2
<1>7. ASSUME NEW b \in Account, NEW f \in Entity, DeleteArchivedNotebook(b, f)
      PROVE  Past(k, i)'
  <2>1. UNCHANGED <<devices, revoked, informed>>
    BY <1>7 DEF DeleteArchivedNotebook, history
  <2>2. CASE b # a
    <3>1. rows'[a] = rows[a] /\ purges'[a] = purges[a]
      BY <1>0, <1>1, <1>7, <2>2 DEF DeleteArchivedNotebook, TypeOK
    <3> QED
      BY <1>2, <1>3, <2>1, <3>1
  <2>3. CASE b = a /\ f = e
    <3>1. Pruned(a) \in [Entity -> Nat]
      <4>1. purges[a] \in [Entity -> Nat]
        BY <1>0, <1>1 DEF TypeOK, Rows
      <4> QED
        BY <4>1 DEF Pruned
    <3>2. purges'[a][e] = changeSeq[a] + 1
      BY <1>0, <1>1, <1>7, <2>3, <3>1 DEF DeleteArchivedNotebook, TypeOK
    <3>3. purges'[a][e] > devices'[d].pulled
      BY <1>1, <1>5, <2>1, <3>2
    <3> QED
      BY <1>3, <3>3
  <2>4. CASE b = a /\ f # e
    <3>1. rows'[a][e] = rows[a][e] /\ purges'[a][e] = Pruned(a)[e]
      BY <1>0, <1>1, <1>7, <2>4 DEF DeleteArchivedNotebook, TypeOK, Rows, Pruned
    <3>2. CASE revoked[d] > 0 \/ <<d, e>> \in informed \/ rows[a][e] > base
      BY <1>3, <2>1, <3>1, <3>2
    <3>3. CASE revoked[d] = 0 /\ purges[a][e] > devices[d].pulled
      <4>1. Pruned(a)[e] = purges[a][e]
        BY <1>1, <1>5, <3>3 DEF Pruned
      <4> QED
        BY <1>3, <2>1, <3>1, <3>3, <4>1
    <3> QED
      BY <1>1, <1>2, <3>2, <3>3
  <2> QED
    BY <2>2, <2>3, <2>4
<1>8. ASSUME NEW b \in Account, NEW f \in Entity, StopHostingCloudNotebook(b, f)
      PROVE  Past(k, i)'
  <2>1. rows'[a][e] >= rows[a][e]
    BY <1>0, <1>1, <1>8 DEF StopHostingCloudNotebook, TypeOK, Rows
  <2>2. UNCHANGED <<purges, devices, revoked, informed>>
    BY <1>8 DEF StopHostingCloudNotebook, history
  <2> QED
    BY <1>1, <1>4, <1>2, <1>3, <2>1, <2>2
<1>9. ASSUME NEW c \in Device, RevokeDevice(c)  PROVE Past(k, i)'
  <2>1. UNCHANGED <<rows, purges, informed>> /\ revoked'[d] >= revoked[d]
        /\ (c = d => revoked'[d] > 0)
    BY <1>0, <1>1, <1>9 DEF RevokeDevice, TypeOK, database
  <2>2. c # d => devices'[d] = devices[d]
    BY <1>0, <1>1, <1>9 DEF RevokeDevice, TypeOK
  <2>3. revoked'[d] \in Nat
    BY <1>0, <1>1 DEF TypeOK
  <2> QED
    BY <1>1, <1>2, <1>3, <2>1, <2>2, <2>3
<1>10. ASSUME NEW c \in Device, DeleteRevokedDevice(c)  PROVE Past(k, i)'
  <2>1. UNCHANGED <<rows, purges, revoked, informed>>
    BY <1>10 DEF DeleteRevokedDevice
  <2>2. CASE c = d
    <3>1. revoked[d] > 0
      BY <1>1, <1>5, <1>10, <2>2 DEF DeleteRevokedDevice, Active
    <3> QED
      BY <1>3, <2>1, <3>1
  <2>3. CASE c # d
    <3>1. devices'[d] = devices[d]
      BY <1>0, <1>1, <1>10, <2>3 DEF DeleteRevokedDevice, TypeOK
    <3> QED
      BY <1>2, <1>3, <2>1, <3>1
  <2> QED
    BY <2>2, <2>3
<1>11. ASSUME NEW c \in Device, RegisterDevice(c)  PROVE Past(k, i)'
  <2>1. UNCHANGED <<rows, purges, revoked, informed>>
    BY <1>11 DEF RegisterDevice, database, history
  <2>2. devices'[d].pulled <= devices[d].pulled
    BY <1>0, <1>1, <1>11 DEF RegisterDevice, TypeOK, SignedIn
  <2> QED
    BY <1>1, <1>4, <1>2, <1>3, <2>1, <2>2
<1>12. ASSUME NEW c \in Device, NEW s \in Nat, RecordAcknowledgedSeq(c, s)
       PROVE  Past(k, i)'
  <2>1. UNCHANGED <<rows, purges, revoked>> /\ informed \subseteq informed'
    BY <1>12 DEF RecordAcknowledgedSeq, database
  <2>2. CASE c # d
    <3>1. devices'[d] = devices[d]
      BY <1>0, <1>1, <1>12, <2>2 DEF RecordAcknowledgedSeq, TypeOK
    <3> QED
      BY <1>2, <1>3, <2>1, <3>1
  <2>3. CASE c = d
    <3>1. devices'[d].pulled = s
      BY <1>0, <1>1, <1>12, <2>3 DEF RecordAcknowledgedSeq, TypeOK, DeviceRow
    <3>2. purges[a][e] > devices[d].pulled /\ purges[a][e] <= s => <<d, e>> \in informed'
      <4> SUFFICES ASSUME purges[a][e] > devices[d].pulled, purges[a][e] <= s
                   PROVE  <<d, e>> \in informed'
        OBVIOUS
      <4>1. e \in Retired(AccountOf[d]) /\ purges[AccountOf[d]][e] <= s
        BY <1>1 DEF Retired
      <4> QED
        BY <1>12, <2>3, <4>1 DEF RecordAcknowledgedSeq
    <3> QED
      BY <1>1, <1>2, <1>3, <2>1, <3>1, <3>2
  <2> QED
    BY <2>2, <2>3
<1>13. CASE UNCHANGED <<rows, purges, devices, revoked, informed>>
  BY <1>2, <1>3, <1>13
<1> QED
  BY <1>6, <1>7, <1>8, <1>9, <1>10, <1>11, <1>12, <1>13, TransactionAssumption DEF Next,
     PushStep, BeginAccountWrite, LockAccount, Replay, Decide, WriteChanges,
     RecordAppliedBatchResponse, Fail, AnswerPush, Tick, vars, database, history

(* What was applied is past its batch, and stays so.                       *)
LEMMA PastStep == IInv /\ IInv' /\ DeviceInv /\ PastInv /\ [Next]_vars => PastInv'
<1> SUFFICES ASSUME IInv, IInv', DeviceInv, PastInv, [Next]_vars,
                    NEW m \in DOMAIN log', NEW k, k = log'[m].key,
                    NEW i \in Decoded(Content[k]),
                    Content[k][i].entity \in log'[m].answer.applied
             PROVE  Past(k, i)'
  BY DEF PastInv
<1>1. CASE m \in DOMAIN log /\ log'[m] = log[m]
  <2>0. log \in Seq(Effect)
    BY DEF IInv, TypeOK
  <2>1. k \in Key
    BY <1>1, <2>0, EffectTypes
  <2>2. Past(k, i)
    BY <1>1 DEF PastInv
  <2> QED
    BY <2>1, <2>2, PastStays
<1>2. CASE log' # log
  <2>1. PICK r \in Request :
          LET key == KeyOf(r)
              a == Owner(key)
              p == Pending(Content[key], rows[a], Retired(a))
              n == Len(log) + 1
          IN  /\ key \in Key /\ a \in Account
              /\ \A j \in DOMAIN log' : j # n => j \in DOMAIN log
              /\ \A j \in DOMAIN log : log'[j] = log[j]
              /\ log'[n].key = key /\ log'[n].answer.applied = Touched(Content[key], p)
              /\ rows'[a] = RowsAfter(Content[key], p, rows[a])
    BY <1>2, LogStep
  <2>2. CASE m = Len(log) + 1
    <3> DEFINE a == Owner(k)
               p == Pending(Content[k], rows[a], Retired(a))
    <3>1. /\ k \in Key /\ a \in Account /\ log'[m].answer.applied = Touched(Content[k], p)
          /\ rows'[a] = RowsAfter(Content[k], p, rows[a])
      BY <2>1, <2>2
    <3>2. rows[a] \in Rows /\ Retired(a) \in SUBSET Entity
      BY <3>1 DEF IInv, TypeOK, Retired
    <3>3. RowsAfter(Content[k], p, rows[a])[Content[k][i].entity] > Content[k][i].base
      BY <3>1, <3>2, AcceptedIsPast
    <3>4. rows'[a][Content[k][i].entity] > Content[k][i].base
      BY <3>1, <3>3
    <3> QED
      BY <3>4 DEF Past
  <2>3. CASE m # Len(log) + 1
    BY <1>1, <2>1, <2>3
  <2> QED
    BY <2>2, <2>3
<1> QED
  BY <1>1, <1>2

(* A device once excused stays so.                                         *)
LEMMA ExcusedStays ==
  ASSUME IInv, [Next]_vars, NEW k \in Key, NEW e, Excused(k, e)
  PROVE  Excused(k, e)'
<1>0. TypeOK /\ k[1] \in Device /\ revoked[k[1]] \in Nat
  BY BatchAssumption DEF IInv, TypeOK
<1>1. ASSUME NEW d \in Device, RevokeDevice(d)  PROVE Excused(k, e)'
  BY <1>0, <1>1 DEF RevokeDevice, TypeOK, Excused
<1>2. ASSUME NEW d \in Device, NEW s, RecordAcknowledgedSeq(d, s)  PROVE Excused(k, e)'
  BY <1>2 DEF RecordAcknowledgedSeq, Excused
<1>3. CASE UNCHANGED <<revoked, informed>>
  BY <1>3 DEF Excused
<1> QED
  BY <1>1, <1>2, <1>3 DEF Next, PushStep, BeginAccountWrite, LockAccount, Replay, Decide,
     WriteChanges, RecordAppliedBatchResponse, Commit, Fail, AnswerPush,
     DeleteArchivedNotebook, StopHostingCloudNotebook, DeleteRevokedDevice, RegisterDevice,
     Tick, vars, history

(* And what is past its batch is not applied again.                        *)
LEMMA OnceStep == IInv /\ PastInv /\ WritesOnce /\ [Next]_vars => WritesOnce'
<1> SUFFICES ASSUME IInv, PastInv, WritesOnce, [Next]_vars,
                    NEW i \in DOMAIN log', NEW j \in DOMAIN log', i < j,
                    NEW k, k = log'[i].key, k = log'[j].key,
                    NEW e \in log'[i].answer.applied \cap log'[j].answer.applied
             PROVE  Excused(k, e)'
  BY DEF WritesOnce, Excused
<1>0. TypeOK /\ log \in Seq(Effect)
  BY DEF IInv, TypeOK
<1>1. ASSUME i \in DOMAIN log, j \in DOMAIN log, log'[i] = log[i], log'[j] = log[j]
      PROVE  Excused(k, e)'
  <2>1. k \in Key /\ Excused(k, e)
    BY <1>0, <1>1, EffectTypes DEF WritesOnce, Excused
  <2> QED
    BY <2>1, ExcusedStays
<1>2. CASE log' = log
  BY <1>1, <1>2
<1>3. CASE log' # log
  <2>1. PICK r \in Request :
          LET key == KeyOf(r)
              a == Owner(key)
              p == Pending(Content[key], rows[a], Retired(a))
              n == Len(log) + 1
          IN  /\ Commit(r) /\ key \in Key /\ a \in Account
              /\ n \in Nat /\ DOMAIN log' = 1..n
              /\ \A h \in DOMAIN log' : h # n => h \in DOMAIN log
              /\ \A h \in DOMAIN log : log'[h] = log[h]
              /\ log'[n].key = key /\ log'[n].answer.applied = Touched(Content[key], p)
    BY <1>3, LogStep
  <2> DEFINE n == Len(log) + 1
  <2>2. i \in Nat /\ j \in Nat /\ i <= n /\ j <= n
    BY <2>1
  <2>3. i # n /\ i \in DOMAIN log /\ log'[i] = log[i]
    BY <2>1, <2>2
  <2>4. CASE j # n
    BY <1>1, <2>1, <2>3, <2>4
  <2>5. CASE j = n
    <3> DEFINE a == Owner(k)
               p == Pending(Content[k], rows[a], Retired(a))
    <3>1. k \in Key /\ log[i].key = k /\ log'[j].answer.applied = Touched(Content[k], p)
      BY <2>1, <2>3, <2>5
    <3>2. PICK h \in p : Content[k][h].entity = e
      BY <3>1 DEF Touched
    <3>3. h \in Decoded(Content[k])
      BY <3>2 DEF Pending
    <3>4. Past(k, h)
      BY <2>3, <3>1, <3>2, <3>3 DEF PastInv
    <3>5. Excused(k, e)
      BY <1>0, <3>1, <3>2, <3>3, <3>4, PastIsRefused
    <3> QED
      BY <3>1, <3>5, ExcusedStays
  <2> QED
    BY <2>4, <2>5
<1> QED
  BY <1>2, <1>3

(* Of all the times a batch takes effect, at most one writes a given       *)
(* notebook, unless the device was revoked or knows of its purge.          *)
THEOREM LateRetriesAreHarmless == Spec => []WritesOnce
<1>1. Init => DeviceInv /\ PastInv /\ WritesOnce
  <2>1. Init => DeviceInv
    BY BatchAssumption DEF Init, DeviceInv, Active, SignedIn
  <2>2. Init => PastInv /\ WritesOnce
    BY DEF Init, PastInv, WritesOnce
  <2> QED
    BY <2>1, <2>2
<1> QED
  BY <1>1, DeviceStep, PastStep, OnceStep, Invariance, PTL DEF Spec

----------------------------------------------------------------------------
(* A batch takes effect once in a window.                                  *)

(* As long as its window lasts an effect is remembered, or its device is   *)
(* gone.                                                                   *)
Kept(k, at, memory, now, gone) ==
  \/ k[1] \in gone \/ now >= at + Window
  \/ memory[k] # Nothing /\ memory[k].at >= at
KeptInv == \A n \in DOMAIN log : Kept(log[n].key, log[n].at, stored, clock, removed)

(* What an answer remembers of time.                                       *)
LEMMA MemoryTypes ==
  ASSUME TypeOK, NEW k \in Key
  PROVE  stored[k] \in Memory /\ stored[k].at \in Nat
BY DEF TypeOK, Memory, Remembered, Nothing

(* An effect stays remembered for its window.                              *)
LEMMA KeptStays ==
  ASSUME IInv, [Next]_vars, NEW k \in Key, NEW at \in Nat, Kept(k, at, stored, clock, removed)
  PROVE  Kept(k, at, stored', clock', removed')
<1>0. TypeOK /\ clock \in Nat /\ Window \in Nat /\ stored[k].at \in Nat
  BY MemoryTypes, BatchAssumption DEF IInv, TypeOK
<1>1. ASSUME NEW r \in Request, Commit(r)  PROVE Kept(k, at, stored', clock', removed')
  <2>1. UNCHANGED <<clock, removed>>
    BY <1>1 DEF Commit
  <2>2. /\ request[r] \in InFlight /\ KeyOf(r) \in Key
        /\ request[r].now \in Nat /\ request[r].now <= clock
        /\ ~Fresh(stored[KeyOf(r)], request[r].now)
    BY <1>0, <1>1, InFlightTypes
      DEF IInv, WorkInv, WorkHolds, DecisionHolds, Decisive, Commit, InFlight
  <2>3. PICK prunes \in BOOLEAN : stored' = StoredAfter(r, prunes)
    BY <1>1 DEF Commit
  <2>4. CASE k = KeyOf(r)
    <3>1. stored[k] = Nothing \/ stored[k].at + Window <= clock
      BY <1>0, <2>2, <2>4 DEF Fresh
    <3>2. k[1] \in removed \/ clock >= at + Window
      BY <1>0, <3>1 DEF Kept
    <3> QED
      BY <2>1, <3>2 DEF Kept
  <2>5. CASE k # KeyOf(r) /\ stored'[k] = stored[k]
    BY <2>1, <2>5 DEF Kept
  <2>6. CASE k # KeyOf(r) /\ stored'[k] # stored[k]
    <3>1. stored[k].at < request[r].now - Window
      BY <2>3, <2>6 DEF StoredAfter
    <3>2. k[1] \in removed \/ clock >= at + Window
      BY <1>0, <2>2, <3>1 DEF Kept
    <3> QED
      BY <2>1, <3>2 DEF Kept
  <2> QED
    BY <2>4, <2>5, <2>6
<1>2. ASSUME NEW d \in Device, DeleteRevokedDevice(d)
      PROVE  Kept(k, at, stored', clock', removed')
  BY <1>0, <1>2 DEF DeleteRevokedDevice, Kept, TypeOK
<1>3. CASE Tick
  BY <1>0, <1>3 DEF Tick, Kept, database, history
<1>4. CASE UNCHANGED <<clock, stored, removed>>
  BY <1>4 DEF Kept
<1> QED
  BY <1>1, <1>2, <1>3, <1>4 DEF Next, PushStep, BeginAccountWrite,
     LockAccount, Replay, Decide, WriteChanges, RecordAppliedBatchResponse, Fail, AnswerPush,
     DeleteArchivedNotebook, StopHostingCloudNotebook, RevokeDevice, RegisterDevice,
     RecordAcknowledgedSeq, vars, database, history

(* An answer is not the absence of one.                                    *)
LEMMA NotNothing ==
  ASSUME NEW n \in Nat, NEW x \in Answer
  PROVE  [at |-> n, answer |-> x] # Nothing
<1>1. x.cursor # -1
  BY DEF Answer
<1> QED
  BY <1>1 DEF Nothing

(* Every effect is remembered for its window.                              *)
LEMMA KeptStep == IInv /\ KeptInv /\ [Next]_vars => KeptInv'
<1> SUFFICES ASSUME IInv, KeptInv, [Next]_vars, NEW m \in DOMAIN log'
             PROVE  Kept(log'[m].key, log'[m].at, stored', clock', removed')
  BY DEF KeptInv
<1>0. TypeOK /\ log \in Seq(Effect)
  BY DEF IInv, TypeOK
<1>1. CASE m \in DOMAIN log /\ log'[m] = log[m]
  <2>1. log[m].key \in Key /\ log[m].at \in Nat
    BY <1>0, <1>1, EffectTypes
  <2>2. Kept(log[m].key, log[m].at, stored, clock, removed)
    BY <1>1 DEF KeptInv
  <2> QED
    BY <1>1, <2>1, <2>2, KeptStays
<1>2. CASE log' # log
  <2>1. PICK r \in Request :
          LET k == KeyOf(r)
              n == Len(log) + 1
          IN  /\ Commit(r) /\ k \in Key
              /\ \A j \in DOMAIN log' : j # n => j \in DOMAIN log
              /\ \A j \in DOMAIN log : log'[j] = log[j]
              /\ log'[n].key = k /\ log'[n].at = request[r].now
              /\ request[r].now \in Nat
    BY <1>2, LogStep
  <2>2. CASE m = Len(log) + 1
    <3>0. PICK prunes \in BOOLEAN : stored' = StoredAfter(r, prunes)
      BY <2>1 DEF Commit
    <3>1. stored'[KeyOf(r)] = [at |-> request[r].now, answer |-> request[r].answer]
      BY <2>1, <3>0 DEF StoredAfter
    <3>2. request[r] \in InFlight
      BY <1>0, <2>1, InFlightTypes DEF Commit
    <3>3. stored'[KeyOf(r)] # Nothing
      BY <3>1, <3>2, NotNothing DEF InFlight
    <3> QED
      BY <2>1, <2>2, <3>1, <3>3 DEF Kept
  <2>3. CASE m # Len(log) + 1
    BY <1>1, <2>1, <2>3
  <2> QED
    BY <2>2, <2>3
<1> QED
  BY <1>1, <1>2

(* And a batch that is remembered is not applied.                          *)
LEMMA WindowStep == IInv /\ KeptInv /\ [Next]_vars => AgainAfterWindow
<1> SUFFICES ASSUME IInv, KeptInv, [Next]_vars, NEW i \in DOMAIN log,
                    log' # log, log'[Len(log')].key = log[i].key,
                    log[i].key[1] \notin removed
             PROVE  clock >= log[i].at + Window
  BY DEF AgainAfterWindow
<1>0. TypeOK /\ log \in Seq(Effect) /\ clock \in Nat /\ Window \in Nat
  BY BatchAssumption DEF IInv, TypeOK
<1>1. PICK r \in Request :
        LET n == Len(log) + 1
        IN  /\ KeyOf(r) \in Key /\ n \in Nat /\ log' \in Seq(Effect) /\ DOMAIN log' = 1..n
            /\ log'[n].key = KeyOf(r) /\ ~Fresh(stored[KeyOf(r)], clock)
  BY LogStep
<1> DEFINE k == KeyOf(r)
<1>2. Len(log') = Len(log) + 1
  BY <1>0, <1>1
<1>3. log[i].key = k /\ log[i].at \in Nat
  BY <1>0, <1>1, <1>2, EffectTypes
<1>4. Kept(k, log[i].at, stored, clock, removed)
  BY <1>3 DEF KeptInv
<1>5. stored[k].at \in Nat
  BY <1>0, <1>1, MemoryTypes
<1>6. stored[k] = Nothing \/ stored[k].at + Window <= clock
  BY <1>0, <1>1, <1>5 DEF Fresh
<1> QED
  BY <1>0, <1>3, <1>4, <1>5, <1>6 DEF Kept

(* A batch of a device that stays registered takes effect again only after *)
(* a whole window.                                                         *)
THEOREM OnceInAWindow == Spec => OncePerWindow
<1>1. Init => KeptInv
  BY DEF Init, KeptInv
<1> QED
  BY <1>1, KeptStep, WindowStep, Invariance, PTL DEF Spec, OncePerWindow
=============================================================================
