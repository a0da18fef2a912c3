-------------------------- MODULE AdminAccessProofs -------------------------
(***************************************************************************)
(* Proofs about AdminAccess: there is one account, a reset closes every    *)
(* session opened before it, and it sticks as long as no release raises    *)
(* the cost of a hash.  All of them need what a job in flight still knows  *)
(* to be true of the tables: JobOK.                                        *)
(***************************************************************************)
EXTENDS AdminAccess, FiniteSetTheorems, TLAPS

----------------------------------------------------------------------------
(* The invariant.                                                          *)

(* Where sign-ins come from.                                               *)
Remote == Actor \ {"command"}

(* What holds of a job in flight, whatever else happens.                   *)
JobOK(i) ==
  LET w == job[i]
  IN  w # Idle =>
        /\ w.phase \in {"queued", "deriving"} \/ w.task = "verify" => w.by \in Remote
        /\ w.phase \notin {"admitted", "stored"} => w.password \in Password
        /\ w.phase \in {"locked", "empty"} => setupLock = i
        /\ w.phase = "empty" => ~Configured
        /\ \/ w.phase \in {"admitted", "stored"}
           \/ w.task \in {"rehash", "reset"}
           \/ w.read # NoHash
           => w.account \in FoundByEmail
        /\ w.task = "reset" \/ w.phase = "stored" => w.by = "command"
        /\ w.task = "rehash" => w.cost > 0
        /\ w.cost <= cost
JobsOK == \A i \in Job : JobOK(i)

Deriving == {i \in Job : job[i].phase = "deriving"}
SlotsTaken == slots = Cardinality(Deriving)

IInv == TypeOK /\ JobsOK /\ SlotsTaken

----------------------------------------------------------------------------
(* The records of jobs.                                                    *)

(* What the steps make of a job is again the record of one.                *)
LEMMA WorkRecords ==
  /\ Idle.phase = "idle"
  /\ \A w \in Work : w.phase \in Phase
  /\ \A w \in Work, ph \in Phase : [w EXCEPT !.phase = ph] \in Work
  /\ \A w \in Work : [w EXCEPT !.phase = "queued", !.task = "rehash", !.read = NoHash] \in Work
  /\ \A ph \in Phase, by \in Actor, a \in Account :
       [Blank EXCEPT !.phase = ph, !.by = by, !.account = a] \in Work
  /\ \A ph \in Phase, by \in Actor, p \in Password, c \in Nat :
       [Blank EXCEPT !.phase = ph, !.by = by, !.password = p, !.cost = c] \in Work
  /\ \A by \in Actor, p \in Password, a \in Account \cup {None}, c \in Nat, h \in Hash \cup {NoHash} :
       [Blank EXCEPT !.task = "verify", !.by = by, !.password = p,
          !.account = a, !.cost = c, !.read = h] \in Work
  /\ \A p \in Password, a \in Account, c \in Nat :
       [Blank EXCEPT !.phase = "derived", !.task = "reset", !.by = "command",
          !.password = p, !.account = a, !.cost = c] \in Work
<1>1. NoHash \in Hash \cup {NoHash} /\ None \in Password \cup {None} /\ 0 \in Nat
  OBVIOUS
<1>2. Idle.phase = "idle" /\ \A w \in Work : w.phase \in Phase
  BY DEF Idle, Work
<1>3. \A w \in Work, ph \in Phase : [w EXCEPT !.phase = ph] \in Work
  BY DEF Work
<1>4. \A w \in Work : [w EXCEPT !.phase = "queued", !.task = "rehash", !.read = NoHash] \in Work
  BY <1>1 DEF Work, Phase, Task
<1>5. \A ph \in Phase, by \in Actor, a \in Account :
        [Blank EXCEPT !.phase = ph, !.by = by, !.account = a] \in Work
  BY <1>1 DEF Work, Blank, Task
<1>6. \A ph \in Phase, by \in Actor, p \in Password, c \in Nat :
        [Blank EXCEPT !.phase = ph, !.by = by, !.password = p, !.cost = c] \in Work
  BY <1>1 DEF Work, Blank, Task
<1>7. \A by \in Actor, p \in Password, a \in Account \cup {None}, c \in Nat, h \in Hash \cup {NoHash} :
        [Blank EXCEPT !.task = "verify", !.by = by, !.password = p,
           !.account = a, !.cost = c, !.read = h] \in Work
  BY DEF Work, Blank, Phase, Task, Actor
<1>8. \A p \in Password, a \in Account, c \in Nat :
        [Blank EXCEPT !.phase = "derived", !.task = "reset", !.by = "command",
           !.password = p, !.account = a, !.cost = c] \in Work
  BY <1>1 DEF Work, Blank, Phase, Task, Actor
<1> QED
  BY <1>2, <1>3, <1>4, <1>5, <1>6, <1>7, <1>8

(* A job in flight has a record, and its phase tells it from no job.       *)
LEMMA InFlight ==
  ASSUME TypeOK, NEW i \in Job
  PROVE  /\ job[i] = Idle <=> job[i].phase = "idle"
         /\ job[i] # Idle => job[i] \in Work
BY WorkRecords DEF TypeOK, Phase

(* A hash that a job stores is one, and is not no account.                 *)
LEMMA HashedType ==
  ASSUME TypeOK, NEW i \in Job, job[i] # Idle, job[i].password \in Password
  PROVE  Hashed(i) \in Hash /\ Hashed(i) # None
<1>1. job[i] \in Work
  BY InFlight
<1>2. Hashed(i) \in [password : Password, cost : Nat]
  BY <1>1 DEF Hashed, Work
<1> QED
  BY <1>2, AccessAssumption DEF Hash

----------------------------------------------------------------------------
(* Types.                                                                  *)

(* The initial tables are typed.                                           *)
LEMMA InitType == Init => TypeOK
BY AccessAssumption DEF Init, TypeOK, Work, Idle

(* Every job that is deriving has one of the slots.                        *)
LEMMA SlotHeld ==
  ASSUME IInv, NEW j \in Job, job[j].phase = "deriving"
  PROVE  slots > 0
<1>1. IsFiniteSet(Deriving) /\ j \in Deriving
  BY FS_Subset, AccessAssumption DEF Deriving
<1>2. Cardinality(Deriving) # 0 /\ Cardinality(Deriving) \in Nat
  BY <1>1, FS_EmptySet, FS_CardinalityType
<1> QED
  BY <1>2 DEF IInv, SlotsTaken

(* A setup takes an id that is free.                                       *)
LEMMA NewIdIsFree ==
  ASSUME Account \ FoundByEmail # {}
  PROVE  NewId \in Account /\ accounts[NewId] = None
BY DEF NewId, FoundByEmail

(* However a request or a command comes in, it is a setup, a sign-in or a  *)
(* reset.                                                                  *)
LEMMA Steps ==
  ASSUME [Next]_vars
  PROVE  \/ \E j \in Job, by \in Actor, p \in Password : BeginSetup(j, by, p)
         \/ \E j \in Job, by \in Remote, p \in Password : BeginSignIn(j, by, p)
         \/ \E j \in Job, p \in Password : BeginReset(j, p)
         \/ \E j \in Job : Derive(j) \/ LockSetup(j) \/ Step(j) \/ Fail(j)
         \/ \E s \in Session : ExpireSession(s) \/ Logout(s)
         \/ Restart
         \/ UNCHANGED vars
<1>1. {"panel", "api", "command"} = Actor
  BY DEF Actor
<1>2. ASSUME NEW j \in Job, NEW p \in Password,
             handleSetup(j, p) \/ handleCreateAccount(j, p) \/ runCreateAccount(j, p)
      PROVE  \E by \in Actor : BeginSetup(j, by, p)
  BY <1>1, <1>2 DEF handleSetup, handleCreateAccount, runCreateAccount
<1>3. ASSUME NEW j \in Job, NEW p \in Password,
             handleLogin(j, p) \/ handleRegisterDevice(j, p)
      PROVE  \E by \in Remote : BeginSignIn(j, by, p)
  BY <1>1, <1>3 DEF Remote, handleLogin, handleRegisterDevice
<1> QED
  BY <1>2, <1>3 DEF Next

(* A step changes the record of one job, or of none, or the server stops.  *)
LEMMA TypeStep == IInv /\ [Next]_vars => TypeOK'
<1> SUFFICES ASSUME IInv, [Next]_vars PROVE TypeOK'
  OBVIOUS
<1> USE DEF IInv
<1>1. ASSUME NEW j \in Job, NEW by \in Actor, NEW p \in Password, BeginSetup(j, by, p)
      PROVE  TypeOK'
  <2>1. job' = [job EXCEPT ![j] =
                  [Blank EXCEPT !.phase = IF by = "command" THEN "derived" ELSE "queued",
                    !.by = by, !.password = p, !.cost = cost]]
    BY <1>1 DEF BeginSetup, Begin
  <2>2. (IF by = "command" THEN "derived" ELSE "queued") \in Phase
    BY DEF Phase
  <2>3. [Blank EXCEPT !.phase = IF by = "command" THEN "derived" ELSE "queued",
           !.by = by, !.password = p, !.cost = cost] \in Work
    BY <2>2, WorkRecords DEF TypeOK
  <2> QED
    BY <1>1, <2>1, <2>3 DEF BeginSetup, TypeOK, tables, process, history
<1>2. ASSUME NEW j \in Job, NEW by \in Remote, NEW p \in Password, BeginSignIn(j, by, p)
      PROVE  TypeOK'
  <2>1. PICK a \in FoundByEmail \cup {None} :
          Begin(j, [Blank EXCEPT !.task = "verify", !.by = by, !.password = p,
                      !.account = a, !.cost = cost,
           !.read = IF a = None THEN NoHash ELSE accounts[a]])
    BY <1>2 DEF BeginSignIn
  <2>2. (IF a = None THEN NoHash ELSE accounts[a]) \in Hash \cup {NoHash}
    BY DEF FoundByEmail, TypeOK
  <2>3. [Blank EXCEPT !.task = "verify", !.by = by, !.password = p,
           !.account = a, !.cost = cost,
           !.read = IF a = None THEN NoHash ELSE accounts[a]] \in Work
    BY <2>2, WorkRecords DEF TypeOK, FoundByEmail, Remote
  <2> QED
    BY <1>2, <2>1, <2>3 DEF BeginSignIn, Begin, TypeOK, tables, process, history
<1>3. ASSUME NEW j \in Job, NEW p \in Password, BeginReset(j, p)
      PROVE  TypeOK'
  <2>1. PICK a \in FoundByEmail :
          Begin(j, [Blank EXCEPT !.phase = "derived", !.task = "reset", !.by = "command",
                      !.password = p, !.account = a, !.cost = cost])
    BY <1>3 DEF BeginReset
  <2>2. [Blank EXCEPT !.phase = "derived", !.task = "reset", !.by = "command",
           !.password = p, !.account = a, !.cost = cost] \in Work
    BY WorkRecords DEF TypeOK, FoundByEmail
  <2> QED
    BY <1>3, <2>1, <2>2 DEF BeginReset, Begin, TypeOK, tables, process, history
<1>4. ASSUME NEW j \in Job, Derive(j) \/ LockSetup(j)
      PROVE  TypeOK'
  <2>1. job[j] \in Work
    BY <1>4, InFlight DEF Derive, LockSetup, Is
  <2>2. [job[j] EXCEPT !.phase = "deriving"] \in Work /\ [job[j] EXCEPT !.phase = "locked"] \in Work
    BY <2>1, WorkRecords DEF Phase
  <2> QED
    BY <1>4, <2>2, AccessAssumption DEF Derive, LockSetup, TypeOK, tables, history
<1>5. ASSUME NEW j \in Job, Derived(j)
      PROVE  TypeOK'
  <2>1. job[j] \in Work
    BY <1>5, InFlight DEF Derived
  <2>2. [job[j] EXCEPT !.phase = "derived"] \in Work
    BY <2>1, WorkRecords DEF Phase
  <2>3. slots > 0
    BY <1>5, SlotHeld DEF Derived
  <2>4. slots - 1 \in 0..Slots
    BY <2>3, AccessAssumption DEF TypeOK
  <2> QED
    BY <1>5, <2>2, <2>4 DEF Derived, TypeOK, tables, history
<1>6. ASSUME NEW j \in Job, CheckSetup(j)
      PROVE  TypeOK'
  <2>1. job[j] \in Work
    BY <1>6, InFlight DEF CheckSetup
  <2>2. [job[j] EXCEPT !.phase = "empty"] \in Work
    BY <2>1, WorkRecords DEF Phase
  <2> QED
    BY <1>6, <2>2 DEF CheckSetup, Ends, Released, TypeOK, tables, history
<1>7. ASSUME NEW j \in Job, CommitSetup(j)
      PROVE  TypeOK'
  <2>1. job[j] \in Work /\ job[j] # Idle
    BY <1>7, InFlight DEF CommitSetup
  <2>2. job[j].password \in Password /\ job[j].by \in Actor
    BY <1>7, <2>1 DEF CommitSetup, JobsOK, JobOK, Work
  <2>3. NewId \in Account /\ Hashed(j) \in Hash
    BY <1>7, <2>1, <2>2, HashedType, NewIdIsFree DEF CommitSetup
  <2>4. [Blank EXCEPT !.phase = "admitted", !.by = job[j].by, !.account = NewId] \in Work
    BY <2>2, <2>3, WorkRecords DEF Phase
  <2>5. job' \in [Job -> Work \cup {Idle}]
    BY <1>7, <2>4 DEF CommitSetup, Last, Ends, TypeOK
  <2>6. accounts' \in [Account -> Hash \cup {None}]
    BY <1>7, <2>3 DEF CommitSetup, TypeOK
  <2>7. set' \in [Account -> [resets : Nat, password : Password \cup {None}]]
    BY <1>7, <2>2, <2>3 DEF CommitSetup, TypeOK
  <2> QED
    BY <1>7, <2>5, <2>6, <2>7 DEF CommitSetup, Released, TypeOK
<1>8. ASSUME NEW j \in Job, Verify(j) \/ Rehash(j)
      PROVE  TypeOK'
  <2>1. job[j] \in Work /\ job[j] # Idle
    BY <1>8, InFlight DEF Verify, Rehash, Is
  <2>2. job[j].by \in Actor /\ job[j].password \in Password
    BY <1>8, <2>1 DEF Verify, Rehash, Is, JobsOK, JobOK, Work
  <2>3. CASE Verify(j) /\ job[j].read.password # job[j].password
    BY <2>3 DEF Verify, Ends, TypeOK, tables, process, history
  <2>4. CASE Verify(j) /\ job[j].read.password = job[j].password
    <3>1. job[j].read # NoHash
      BY <2>2, <2>4, AccessAssumption DEF NoHash
    <3>2. job[j].account \in Account
      BY <2>1, <3>1 DEF JobsOK, JobOK, FoundByEmail
    <3>3. [Blank EXCEPT !.phase = "admitted", !.by = job[j].by, !.account = job[j].account] \in Work
      BY <2>2, <3>2, WorkRecords DEF Phase
    <3>4. [job[j] EXCEPT !.phase = "queued", !.task = "rehash", !.read = NoHash] \in Work
      BY <2>1, WorkRecords
    <3>5. job' \in [Job -> Work \cup {Idle}]
      BY <2>4, <3>3, <3>4 DEF Verify, Last, TypeOK
    <3> QED
      BY <2>4, <3>5 DEF Verify, TypeOK, tables, process, history
  <2>5. CASE Rehash(j)
    <3>1. job[j].account \in Account
      BY <2>1, <2>5 DEF Rehash, Is, JobsOK, JobOK, FoundByEmail
    <3>2. [Blank EXCEPT !.phase = "admitted", !.by = job[j].by, !.account = job[j].account] \in Work
      BY <2>2, <3>1, WorkRecords DEF Phase
    <3>3. job' \in [Job -> Work \cup {Idle}]
      BY <2>5, <3>2 DEF Rehash, Last, TypeOK
    <3>4. accounts' \in [Account -> Hash \cup {None}]
      BY <2>1, <2>2, <2>5, <3>1, HashedType DEF Rehash, UpdatePasswordHash, TypeOK
    <3> QED
      BY <2>5, <3>3, <3>4 DEF Rehash, TypeOK, process, history
  <2> QED
    BY <1>8, <2>3, <2>4, <2>5
<1>9. ASSUME NEW j \in Job, Admit(j)
      PROVE  TypeOK'
  <2>1. job[j].account \in Account
    BY <1>9, InFlight DEF Admit, JobsOK, JobOK, FoundByEmail
  <2>2. [account |-> job[j].account, live |-> TRUE, opened |-> set[job[j].account].resets]
          \in [account : Account, live : BOOLEAN, opened : Nat]
    BY <2>1 DEF TypeOK
  <2>3. sessions' \in [Session -> [account : Account, live : BOOLEAN, opened : Nat] \cup {None}]
    BY <1>9, <2>2 DEF Admit, TypeOK
  <2> QED
    BY <1>9, <2>3 DEF Admit, Ends, TypeOK, process, history
<1>10. ASSUME NEW j \in Job, StoreReset(j)
       PROVE  TypeOK'
  <2>1. job[j] \in Work /\ job[j] # Idle
    BY <1>10, InFlight DEF StoreReset, Is
  <2>2. job[j].by \in Actor /\ job[j].password \in Password /\ job[j].account \in Account
    BY <1>10, <2>1 DEF StoreReset, Is, JobsOK, JobOK, FoundByEmail, Work
  <2>3. [Blank EXCEPT !.phase = "stored", !.by = job[j].by, !.account = job[j].account] \in Work
    BY <2>2, WorkRecords DEF Phase
  <2>4. job' \in [Job -> Work \cup {Idle}]
    BY <1>10, <2>3 DEF StoreReset, Last, TypeOK
  <2>5. accounts' \in [Account -> Hash \cup {None}]
    BY <1>10, <2>1, <2>2, HashedType DEF StoreReset, UpdatePasswordHash, TypeOK
  <2>6. set' \in [Account -> [resets : Nat, password : Password \cup {None}]]
    BY <1>10, <2>2 DEF StoreReset, TypeOK
  <2> QED
    BY <1>10, <2>4, <2>5, <2>6 DEF StoreReset, TypeOK, process
<1>11. ASSUME NEW j \in Job, CloseSessions(j)
       PROVE  TypeOK'
  BY <1>11 DEF CloseSessions, Ends, TypeOK, process, history
<1>12. ASSUME NEW j \in Job, Fail(j)
       PROVE  TypeOK'
  <2>1. interrupted' \subseteq Account
    BY <1>12, InFlight DEF Fail, InterruptedBy, JobsOK, JobOK, FoundByEmail, TypeOK
  <2> QED
    BY <1>12, <2>1 DEF Fail, Ends, Released, TypeOK, tables
<1>13. ASSUME NEW s \in Session, ExpireSession(s) \/ Logout(s)
       PROVE  TypeOK'
  <2>1. sessions[s] \in [account : Account, live : BOOLEAN, opened : Nat]
    BY <1>13 DEF ExpireSession, Logout, TypeOK
  <2>2. [sessions[s] EXCEPT !.live = FALSE] \in [account : Account, live : BOOLEAN, opened : Nat]
    BY <2>1
  <2> DEFINE Row == [account : Account, live : BOOLEAN, opened : Nat] \cup {None}
  <2>3. sessions \in [Session -> Row]
    BY DEF TypeOK
  <2>4. ASSUME ExpireSession(s)
        PROVE  sessions' \in [Session -> Row]
    <3>1. sessions' = [sessions EXCEPT ![s] = [sessions[s] EXCEPT !.live = FALSE]]
      BY <2>4 DEF ExpireSession
    <3>2. [sessions[s] EXCEPT !.live = FALSE] \in Row
      BY <2>2
    <3> HIDE DEF Row
    <3> QED
      BY <2>3, <3>1, <3>2
  <2>5. ASSUME Logout(s)
        PROVE  sessions' \in [Session -> Row]
    <3>1. None \in Row
      OBVIOUS
    <3> HIDE DEF Row
    <3> QED
      BY <2>3, <2>5, <3>1 DEF Logout
  <2>6. sessions' \in [Session -> [account : Account, live : BOOLEAN, opened : Nat] \cup {None}]
    BY <1>13, <2>4, <2>5
  <2>7. UNCHANGED <<accounts, cost, slots, setupLock, job, set, interrupted>>
    BY <1>13 DEF ExpireSession, Logout, process, history
  <2> QED
    BY <2>6, <2>7 DEF TypeOK
<1>14. CASE Restart
  <2>1. cost' \in Nat /\ 0 \in 0..Slots
    BY <1>14, AccessAssumption DEF Restart, TypeOK
  <2> QED
    BY <1>14, <2>1 DEF Restart, TypeOK, tables, history
<1>15. CASE UNCHANGED vars
  BY <1>15 DEF vars, TypeOK, tables, process, history
<1> QED
  BY <1>1, <1>2, <1>3, <1>4, <1>5, <1>6, <1>7, <1>8, <1>9, <1>10, <1>11, <1>12, <1>13,
     <1>14, <1>15, Steps DEF Step
----------------------------------------------------------------------------
(* What a step does to a job.                                              *)

(* Accounts do not go away, and hashing gets no cheaper.                   *)
LEMMA Growth ==
  ASSUME IInv, [Next]_vars
  PROVE  FoundByEmail \subseteq FoundByEmail' /\ cost <= cost'
<1> USE DEF IInv
<1>1. ASSUME NEW j \in Job, UpdatePasswordHash(j), job[j] # Idle,
             job[j].phase \notin {"admitted", "stored"}
      PROVE  FoundByEmail \subseteq FoundByEmail'
  <2>1. Hashed(j) # None
    BY <1>1, HashedType DEF JobsOK, JobOK
  <2> QED
    BY <1>1, <2>1 DEF UpdatePasswordHash, FoundByEmail, TypeOK
<1>2. ASSUME NEW j \in Job, CommitSetup(j)
      PROVE  FoundByEmail \subseteq FoundByEmail'
  BY <1>2, NewIdIsFree DEF CommitSetup, FoundByEmail, TypeOK
<1>3. ASSUME NEW j \in Job, Rehash(j)
      PROVE  FoundByEmail \subseteq FoundByEmail'
  BY <1>1, <1>3, InFlight DEF Rehash, Is, FoundByEmail
<1>4. ASSUME NEW j \in Job, StoreReset(j)
      PROVE  FoundByEmail \subseteq FoundByEmail'
  BY <1>1, <1>4, InFlight DEF StoreReset, Is
<1>5. CASE \/ \E j \in Job, by \in Actor, p \in Password : BeginSetup(j, by, p)
           \/ \E j \in Job, by \in Remote, p \in Password : BeginSignIn(j, by, p)
           \/ \E j \in Job, p \in Password : BeginReset(j, p)
  <2>1. accounts' = accounts /\ cost' = cost
    BY <1>5 DEF BeginSetup, BeginSignIn, BeginReset, tables, process
  <2> QED
    BY <2>1 DEF FoundByEmail, TypeOK
<1>6. CASE \/ \E j \in Job : \/ Derive(j) \/ LockSetup(j) \/ Fail(j) \/ Derived(j)
                              \/ CheckSetup(j) \/ Verify(j) \/ Admit(j) \/ CloseSessions(j)
           \/ \E s \in Session : ExpireSession(s) \/ Logout(s)
           \/ UNCHANGED vars
  <2>1. accounts' = accounts /\ cost' = cost
    BY <1>6 DEF Derive, LockSetup, Fail, Derived, CheckSetup, Verify, Admit, CloseSessions,
                ExpireSession, Logout, vars, tables, process
  <2> QED
    BY <2>1 DEF FoundByEmail, TypeOK
<1>7. CASE Restart
  BY <1>7 DEF Restart, tables, FoundByEmail, TypeOK
<1>8. ASSUME NEW j \in Job, CommitSetup(j) \/ Rehash(j) \/ StoreReset(j)
      PROVE  cost <= cost'
  BY <1>8 DEF CommitSetup, Rehash, StoreReset, process, TypeOK
<1> QED
  BY <1>2, <1>3, <1>4, <1>5, <1>6, <1>7, <1>8, Steps DEF Step

(* A job that is left alone stays as it was, unless it asked for the first *)
(* account and its lock is gone or an account has come.                    *)
LEMMA Untouched ==
  ASSUME NEW i \in Job, JobOK(i), TypeOK, job'[i] = job[i],
         FoundByEmail \subseteq FoundByEmail', cost <= cost', cost' \in Nat,
         job[i].phase \in {"locked", "empty"} => setupLock' = i,
         job[i].phase = "empty" => FoundByEmail' = FoundByEmail
  PROVE  JobOK(i)'
<1>1. CASE job[i] = Idle
  BY <1>1 DEF JobOK
<1>2. CASE job[i] # Idle
  <2>1. job[i] \in Work
    BY <1>2, InFlight
  <2>2. job[i].cost <= cost'
    BY <1>2, <2>1 DEF JobOK, Work, TypeOK
  <2> QED
    BY <1>2, <2>2 DEF JobOK, Configured
<1> QED
  BY <1>1, <1>2
(* A step of one job that neither moves the lock nor makes an account      *)
(* leaves the other jobs as they were.                                     *)
LEMMA OthersUntouched ==
  ASSUME IInv, [Next]_vars, NEW j \in Job, NEW i \in Job \ {j},
         NEW w, job' = [job EXCEPT ![j] = w],
         setupLock' \in {setupLock, Released(j)},
         FoundByEmail' = FoundByEmail
  PROVE  JobOK(i)'
<1>1. job'[i] = job[i]
  BY DEF IInv, TypeOK
<1>2. JobOK(i) /\ TypeOK
  BY DEF IInv, JobsOK
<1>3. job[i].phase \in {"locked", "empty"} => setupLock' = i
  BY <1>2, InFlight, AccessAssumption DEF JobOK, Released
<1>4. cost' \in Nat
  BY TypeStep DEF TypeOK
<1> QED
  BY <1>1, <1>2, <1>3, <1>4, Growth, Untouched

(* Jobs in flight stay what they must be.                                  *)
LEMMA JobsStep == IInv /\ [Next]_vars => JobsOK'
<1> SUFFICES ASSUME IInv, [Next]_vars PROVE JobsOK'
  OBVIOUS
<1>a. TypeOK /\ JobsOK /\ TypeOK' /\ FoundByEmail \subseteq FoundByEmail' /\ cost <= cost'
  BY TypeStep, Growth DEF IInv
<1>b. ASSUME NEW j \in Job, NEW w, job' = [job EXCEPT ![j] = w],
             setupLock' \in {setupLock, Released(j)}, FoundByEmail' = FoundByEmail,
             JobOK(j)'
      PROVE  JobsOK'
  <2>1. ASSUME NEW i \in Job PROVE JobOK(i)'
    BY <1>b, OthersUntouched
  <2> QED
    BY <2>1 DEF JobsOK
<1>c. ASSUME NEW j \in Job, job'[j] = Idle
      PROVE  JobOK(j)'
  BY <1>c DEF JobOK
<1>d. accounts' = accounts => FoundByEmail' = FoundByEmail
  BY DEF FoundByEmail
<1>e. ASSUME NEW j \in Job, UpdatePasswordHash(j), job[j] # Idle,
             job[j].account \in FoundByEmail, job[j].password \in Password
      PROVE  FoundByEmail' = FoundByEmail
  BY <1>a, <1>e, HashedType DEF UpdatePasswordHash, FoundByEmail, TypeOK
<1>f. ASSUME NEW j \in Job, NEW ph \in {"admitted", "stored"}, job[j] # Idle,
             Last(j, ph, job[j].account), job[j].account \in FoundByEmail,
             ph = "stored" => job[j].by = "command"
      PROVE  JobOK(j)'
  <2>1. job'[j] = [Blank EXCEPT !.phase = ph, !.by = job[j].by, !.account = job[j].account]
    BY <1>a, <1>f DEF Last, TypeOK
  <2> QED
    BY <1>a, <1>f, <2>1 DEF JobOK, Blank, Idle, TypeOK
<1>1. ASSUME NEW j \in Job, NEW by \in Actor, NEW p \in Password, BeginSetup(j, by, p)
      PROVE  JobsOK'
  <2> DEFINE w == [Blank EXCEPT !.phase = IF by = "command" THEN "derived" ELSE "queued",
                     !.by = by, !.password = p, !.cost = cost]
  <2>1. job' = [job EXCEPT ![j] = w] /\ UNCHANGED <<accounts, setupLock, cost>>
    BY <1>1 DEF BeginSetup, Begin, tables, process
  <2>2. job'[j] = w
    BY <2>1, <1>a DEF TypeOK
  <2>3. w.account = None /\ w.read = NoHash /\ w.task = "setup" /\ w.by = by
        /\ w.password = p /\ w.cost = cost
        /\ w.phase = (IF by = "command" THEN "derived" ELSE "queued")
    BY DEF Blank
  <2>4. JobOK(j)'
    BY <1>a, <2>1, <2>2, <2>3 DEF JobOK, Remote, Actor, Idle, TypeOK
  <2> QED
    BY <1>b, <1>d, <2>1, <2>4
<1>2. ASSUME NEW j \in Job, NEW by \in Remote, NEW p \in Password, BeginSignIn(j, by, p)
      PROVE  JobsOK'
  <2>1. PICK a \in FoundByEmail \cup {None} :
          Begin(j, [Blank EXCEPT !.task = "verify", !.by = by, !.password = p,
                      !.account = a, !.cost = cost,
           !.read = IF a = None THEN NoHash ELSE accounts[a]])
    BY <1>2 DEF BeginSignIn
  <2> DEFINE w == [Blank EXCEPT !.task = "verify", !.by = by, !.password = p,
                     !.account = a, !.cost = cost,
           !.read = IF a = None THEN NoHash ELSE accounts[a]]
  <2>2. job' = [job EXCEPT ![j] = w] /\ UNCHANGED <<accounts, setupLock, cost>>
    BY <1>2, <2>1 DEF BeginSignIn, Begin, tables, process
  <2>3. job'[j] = w
    BY <2>2, <1>a DEF TypeOK
  <2>4. JobOK(j)'
    BY <1>a, <2>2, <2>3 DEF JobOK, Blank, TypeOK, FoundByEmail
  <2> QED
    BY <1>b, <1>d, <2>2, <2>4
<1>3. ASSUME NEW j \in Job, NEW p \in Password, BeginReset(j, p)
      PROVE  JobsOK'
  <2>1. PICK a \in FoundByEmail :
          Begin(j, [Blank EXCEPT !.phase = "derived", !.task = "reset", !.by = "command",
                      !.password = p, !.account = a, !.cost = cost])
    BY <1>3 DEF BeginReset
  <2> DEFINE w == [Blank EXCEPT !.phase = "derived", !.task = "reset", !.by = "command",
                     !.password = p, !.account = a, !.cost = cost]
  <2>2. job' = [job EXCEPT ![j] = w] /\ UNCHANGED <<accounts, setupLock, cost>>
    BY <1>3, <2>1 DEF BeginReset, Begin, tables, process
  <2>3. job'[j] = w
    BY <2>2, <1>a DEF TypeOK
  <2>4. JobOK(j)'
    BY <1>a, <2>2, <2>3 DEF JobOK, Blank, TypeOK, FoundByEmail
  <2> QED
    BY <1>b, <1>d, <2>2, <2>4
<1>4. ASSUME NEW j \in Job, Derive(j) \/ Derived(j)
      PROVE  JobsOK'
  <2>1. PICK ph \in {"deriving", "derived"} :
          /\ job' = [job EXCEPT ![j] = [job[j] EXCEPT !.phase = ph]]
          /\ UNCHANGED <<accounts, setupLock, cost>>
    BY <1>4 DEF Derive, Derived, tables
  <2>2. job[j] \in Work /\ job[j].phase \in {"queued", "deriving"} /\ JobOK(j)
    BY <1>4, <1>a, InFlight DEF Derive, Derived, JobsOK
  <2>3. job'[j] = [job[j] EXCEPT !.phase = ph]
    BY <2>1, <1>a DEF TypeOK
  <2>4. JobOK(j)'
    BY <1>a, <2>1, <2>2, <2>3 DEF JobOK, Work, Idle, FoundByEmail
  <2> QED
    BY <1>b, <1>d, <2>1, <2>4
<1>5. ASSUME NEW j \in Job, LockSetup(j)
      PROVE  JobsOK'
  <2>1. job' = [job EXCEPT ![j] = [job[j] EXCEPT !.phase = "locked"]]
        /\ setupLock = None /\ setupLock' = j /\ UNCHANGED <<accounts, cost>>
    BY <1>5 DEF LockSetup, tables
  <2>2. job[j] \in Work /\ Is(j, "derived", "setup") /\ JobOK(j)
    BY <1>5, <1>a, InFlight DEF LockSetup, Is, JobsOK
  <2>3. job'[j] = [job[j] EXCEPT !.phase = "locked"]
    BY <2>1, <1>a DEF TypeOK
  <2>4. JobOK(j)'
    BY <1>a, <2>1, <2>2, <2>3 DEF JobOK, Work, Idle, FoundByEmail, Is
  <2>5. ASSUME NEW i \in Job \ {j} PROVE JobOK(i)'
    <3>1. job'[i] = job[i] /\ JobOK(i)
      BY <2>1, <1>a DEF TypeOK, JobsOK
    <3>2. job[i].phase \notin {"locked", "empty"}
      BY <2>1, <3>1, <1>a, InFlight, AccessAssumption DEF JobOK
    <3>3. cost' \in Nat
      BY <1>a DEF TypeOK
    <3> QED
      BY <1>a, <3>1, <3>2, <3>3, Untouched
  <2> QED
    BY <2>4, <2>5 DEF JobsOK
<1>6. ASSUME NEW j \in Job, CheckSetup(j)
      PROVE  JobsOK'
  <2>1. UNCHANGED <<accounts, cost>> /\ setupLock' \in {setupLock, Released(j)}
    BY <1>6 DEF CheckSetup, tables
  <2>2. CASE Ends(j)
    <3>1. job' = [job EXCEPT ![j] = Idle] /\ job'[j] = Idle
      BY <2>2, <1>a DEF Ends, TypeOK
    <3> QED
      BY <1>b, <1>d, <1>c, <2>1, <3>1
  <2>3. CASE ~Ends(j)
    <3>1. job' = [job EXCEPT ![j] = [job[j] EXCEPT !.phase = "empty"]]
          /\ ~Configured /\ setupLock' = setupLock
      BY <1>6, <2>3 DEF CheckSetup
    <3>2. job[j] \in Work /\ job[j].phase = "locked" /\ JobOK(j)
      BY <1>6, <1>a, InFlight DEF CheckSetup, JobsOK
    <3>3. job'[j] = [job[j] EXCEPT !.phase = "empty"]
      BY <3>1, <1>a DEF TypeOK
    <3>4. FoundByEmail' = FoundByEmail
      BY <2>1 DEF FoundByEmail
    <3>5. JobOK(j)'
      BY <1>a, <2>1, <3>1, <3>2, <3>3, <3>4 DEF JobOK, Work, Idle, Configured
    <3> QED
      BY <1>b, <1>d, <2>1, <3>1, <3>5
  <2> QED
    BY <2>2, <2>3
<1>7. ASSUME NEW j \in Job, CommitSetup(j)
      PROVE  JobsOK'
  <2>1. job[j] \in Work /\ job[j].phase = "empty" /\ JobOK(j) /\ job[j] # Idle
    BY <1>7, <1>a, InFlight DEF CommitSetup, JobsOK
  <2>2. NewId \in FoundByEmail'
    BY <1>7, <1>a, <2>1, HashedType, NewIdIsFree DEF CommitSetup, JobOK, FoundByEmail, TypeOK
  <2>3. JobOK(j)'
    <3>1. CASE Ends(j)
      BY <3>1, <1>a, <1>c DEF Ends, TypeOK
    <3>2. CASE Last(j, "admitted", NewId)
      <4>1. job'[j] = [Blank EXCEPT !.phase = "admitted", !.by = job[j].by, !.account = NewId]
        BY <3>2, <1>a DEF Last, TypeOK
      <4> QED
        BY <4>1, <2>2, <1>a DEF JobOK, Blank, Idle, TypeOK
    <3> QED
      BY <1>7, <3>1, <3>2 DEF CommitSetup
  <2>4. ASSUME NEW i \in Job \ {j} PROVE JobOK(i)'
    <3>1. job'[i] = job[i] /\ JobOK(i)
      BY <1>7, <1>a DEF CommitSetup, Last, Ends, TypeOK, JobsOK
    <3>2. job[i].phase \notin {"locked", "empty"}
      BY <2>1, <3>1, <1>a, InFlight DEF JobOK
    <3>3. cost' \in Nat
      BY <1>a DEF TypeOK
    <3> QED
      BY <1>a, <3>1, <3>2, <3>3, Untouched
  <2> QED
    BY <2>3, <2>4 DEF JobsOK
<1>8. ASSUME NEW j \in Job, Verify(j)
      PROVE  JobsOK'
  <2>1. UNCHANGED <<accounts, cost, setupLock>>
    BY <1>8 DEF Verify, tables, process
  <2>2. job[j] \in Work /\ Is(j, "derived", "verify") /\ JobOK(j) /\ job[j] # Idle
    BY <1>8, <1>a, InFlight DEF Verify, Is, JobsOK
  <2>3. CASE Ends(j)
    <3>1. job' = [job EXCEPT ![j] = Idle] /\ job'[j] = Idle
      BY <2>3, <1>a DEF Ends, TypeOK
    <3> QED
      BY <1>b, <1>d, <1>c, <2>1, <3>1
  <2>4. CASE job[j].read.password = job[j].password
    <3>1. job[j].read # NoHash
      BY <2>2, <2>4, AccessAssumption DEF NoHash, JobOK, Is
    <3>2. job[j].account \in FoundByEmail
      BY <2>2, <3>1 DEF JobOK
    <3>3. CASE Last(j, "admitted", job[j].account)
      <4> DEFINE w == [Blank EXCEPT !.phase = "admitted", !.by = job[j].by,
                         !.account = job[j].account]
      <4>1. job' = [job EXCEPT ![j] = w] /\ job'[j] = w
        BY <3>3, <1>a DEF Last, TypeOK
      <4>2. JobOK(j)'
        BY <4>1, <3>2, <1>a DEF JobOK, Blank, Idle, TypeOK
      <4> QED
        BY <1>b, <1>d, <2>1, <4>1, <4>2
    <3>4. CASE NeedsRehash(j) /\ ~Last(j, "admitted", job[j].account)
      <4> DEFINE w == [job[j] EXCEPT !.phase = "queued", !.task = "rehash", !.read = NoHash]
      <4>1. job' = [job EXCEPT ![j] = w] /\ job'[j] = w
        BY <1>8, <2>4, <3>4, <1>a DEF Verify, TypeOK
      <4>2. job[j].cost > 0
        BY <2>2, <3>4 DEF NeedsRehash, Work, Hash, NoHash
      <4>3. job[j].by \in Remote
        BY <2>2 DEF JobOK, Is
      <4>4. JobOK(j)'
        BY <4>1, <4>2, <4>3, <3>2, <2>1, <2>2, <1>a DEF JobOK, Is, Work, Idle
      <4> QED
        BY <1>b, <1>d, <2>1, <4>1, <4>4
    <3> QED
      BY <1>8, <2>4, <3>3, <3>4 DEF Verify
  <2> QED
    BY <1>8, <2>3, <2>4 DEF Verify
<1>9. ASSUME NEW j \in Job, Rehash(j)
      PROVE  JobsOK'
  <2>1. UNCHANGED <<cost, setupLock>>
    BY <1>9 DEF Rehash, process
  <2>2. job[j] # Idle /\ job[j].account \in FoundByEmail /\ job[j].password \in Password
    BY <1>9, <1>a, InFlight DEF Rehash, Is, JobsOK, JobOK
  <2>3. FoundByEmail' = FoundByEmail
    BY <1>9, <1>d, <1>e, <2>2 DEF Rehash
  <2>4. JobOK(j)'
    BY <1>9, <1>f, <2>2 DEF Rehash
  <2> QED
    BY <1>9, <1>b, <2>1, <2>3, <2>4 DEF Rehash, Last
<1>10. ASSUME NEW j \in Job, StoreReset(j)
       PROVE  JobsOK'
  <2>1. UNCHANGED <<cost, setupLock>>
    BY <1>10 DEF StoreReset, process
  <2>2. /\ job[j] # Idle /\ job[j].account \in FoundByEmail /\ job[j].password \in Password
        /\ job[j].by = "command"
    BY <1>10, <1>a, InFlight DEF StoreReset, Is, JobsOK, JobOK
  <2>3. FoundByEmail' = FoundByEmail
    BY <1>10, <1>e, <2>2 DEF StoreReset
  <2>4. JobOK(j)'
    BY <1>10, <1>f, <2>2 DEF StoreReset
  <2> QED
    BY <1>10, <1>b, <2>1, <2>3, <2>4 DEF StoreReset, Last
<1>11. ASSUME NEW j \in Job, Admit(j) \/ CloseSessions(j) \/ Fail(j)
       PROVE  JobsOK'
  <2>1. Ends(j) /\ setupLock' \in {setupLock, Released(j)} /\ accounts' = accounts
    BY <1>11 DEF Admit, CloseSessions, Fail, tables, process
  <2>2. job' = [job EXCEPT ![j] = Idle] /\ job'[j] = Idle
    BY <1>a, <2>1 DEF Ends, TypeOK
  <2> QED
    BY <1>b, <1>c, <1>d, <2>1, <2>2
<1>12. CASE Restart
  <2>1. FoundByEmail' = FoundByEmail /\ cost' \in Nat
    BY <1>12, <1>a, <1>d DEF Restart, tables, TypeOK
  <2>2. ASSUME NEW i \in Job PROVE JobOK(i)'
    <3>1. CASE OfServer(i)
      BY <1>12, <1>c, <3>1 DEF Restart
    <3>2. CASE ~OfServer(i)
      <4>1. job'[i] = job[i] /\ JobOK(i)
        BY <1>12, <1>a, <3>2 DEF Restart, JobsOK
      <4>2. job[i].phase \in {"locked", "empty"} => setupLock' = i
        BY <1>12, <1>a, <3>2, <4>1, InFlight DEF Restart, JobOK
      <4> QED
        BY <1>a, <2>1, <4>1, <4>2, Untouched
    <3> QED
      BY <3>1, <3>2
  <2> QED
    BY <2>2 DEF JobsOK
<1>13. CASE UNCHANGED vars \/ \E s \in Session : ExpireSession(s) \/ Logout(s)
  <2>1. UNCHANGED <<accounts, job, cost, setupLock>>
    BY <1>13 DEF vars, tables, process, ExpireSession, Logout
  <2>2. ASSUME NEW i \in Job PROVE JobOK(i)'
    <3>1. JobOK(i) /\ cost' \in Nat
      BY <1>a DEF JobsOK, TypeOK
    <3>2. job[i].phase \in {"locked", "empty"} => setupLock' = i
      BY <1>a, <2>1, <3>1, InFlight DEF JobOK
    <3> QED
      BY <1>a, <1>d, <2>1, <3>1, <3>2, Untouched
  <2> QED
    BY <2>2 DEF JobsOK
<1> QED
  BY <1>1, <1>2, <1>3, <1>4, <1>5, <1>6, <1>7, <1>8, <1>9, <1>10, <1>11, <1>12, <1>13,
     Steps DEF Step
(* The slots taken are those of the jobs that derive.                      *)
LEMMA SlotsStep == IInv /\ [Next]_vars => SlotsTaken'
<1> SUFFICES ASSUME IInv, [Next]_vars PROVE SlotsTaken'
  OBVIOUS
<1>a. TypeOK /\ JobsOK /\ IsFiniteSet(Deriving) /\ slots = Cardinality(Deriving)
  BY FS_Subset, AccessAssumption DEF IInv, SlotsTaken, Deriving
<1>b. ASSUME Deriving' = Deriving, slots' = slots
      PROVE  SlotsTaken'
  BY <1>a, <1>b DEF SlotsTaken
<1>c. ASSUME NEW j \in Job, job[j].phase # "deriving", job'[j].phase # "deriving",
             \A i \in Job \ {j} : job'[i] = job[i], slots' = slots
      PROVE  SlotsTaken'
  <2>1. Deriving' = Deriving
    BY <1>c DEF Deriving
  <2> QED
    BY <1>b, <1>c, <2>1
<1>d. Idle.phase # "deriving"
  BY DEF Idle
<1>1. ASSUME NEW j \in Job, Derive(j)
      PROVE  SlotsTaken'
  <2>1. job[j] # Idle /\ job[j].phase = "queued" /\ job[j] \in Work
    BY <1>1, <1>a, InFlight DEF Derive
  <2>2. Deriving' = Deriving \cup {j} /\ j \notin Deriving
    BY <1>1, <1>a, <2>1 DEF Derive, Deriving, TypeOK, Work
  <2> QED
    BY <1>1, <1>a, <2>2, FS_AddElement DEF Derive, SlotsTaken
<1>2. ASSUME NEW j \in Job, Derived(j)
      PROVE  SlotsTaken'
  <2>1. job[j] # Idle /\ job[j].phase = "deriving" /\ job[j] \in Work
    BY <1>2, <1>a, InFlight DEF Derived
  <2>2. Deriving' = Deriving \ {j} /\ j \in Deriving
    BY <1>2, <1>a, <2>1 DEF Derived, Deriving, TypeOK, Work
  <2> QED
    BY <1>2, <1>a, <2>2, FS_RemoveElement DEF Derived, SlotsTaken
<1>3. ASSUME NEW j \in Job, NEW p \in Password,
             \/ BeginReset(j, p)
             \/ \E by \in Remote : BeginSignIn(j, by, p)
             \/ \E by \in Actor : BeginSetup(j, by, p)
      PROVE  SlotsTaken'
  <2>1. job[j] = Idle /\ slots' = slots /\ \A i \in Job \ {j} : job'[i] = job[i]
    BY <1>3, <1>a DEF BeginSignIn, BeginReset, BeginSetup, Begin, process, TypeOK
  <2>2. job'[j].phase # "deriving"
    <3>1. ASSUME NEW w, Begin(j, w), w.phase # "deriving"
          PROVE  job'[j].phase # "deriving"
      BY <1>a, <3>1 DEF Begin, TypeOK
    <3>2. CASE \E by \in Remote : BeginSignIn(j, by, p)
      BY <3>1, <3>2 DEF BeginSignIn, Blank
    <3>3. CASE BeginReset(j, p)
      BY <3>1, <3>3 DEF BeginReset, Blank
    <3>4. CASE \E by \in Actor : BeginSetup(j, by, p)
      BY <3>1, <3>4 DEF BeginSetup, Blank
    <3> QED
      BY <1>3, <3>2, <3>3, <3>4
  <2> QED
    BY <1>c, <1>d, <2>1, <2>2
<1>4. ASSUME NEW j \in Job,
             \/ LockSetup(j) \/ CheckSetup(j) \/ CommitSetup(j) \/ Verify(j) \/ Rehash(j)
             \/ Admit(j) \/ StoreReset(j) \/ CloseSessions(j) \/ Fail(j)
      PROVE  SlotsTaken'
  <2>1. slots' = slots /\ job[j].phase # "deriving" /\ job[j] \in Work
    BY <1>4, <1>a, InFlight DEF LockSetup, CheckSetup, CommitSetup, Verify, Rehash, Admit,
       StoreReset, CloseSessions, Fail, Is, process
  <2>2. \A i \in Job \ {j} : job'[i] = job[i]
    BY <1>4, <1>a DEF LockSetup, CheckSetup, CommitSetup, Verify, Rehash, Admit,
       StoreReset, CloseSessions, Fail, Last, Ends, TypeOK
  <2>3. job'[j].phase # "deriving"
    <3>1. ASSUME NEW w, job' = [job EXCEPT ![j] = w], w.phase # "deriving"
          PROVE  job'[j].phase # "deriving"
      BY <1>a, <3>1 DEF TypeOK
    <3>2. ASSUME NEW ph \in {"admitted", "stored"}, NEW a, Last(j, ph, a)
          PROVE  job'[j].phase # "deriving"
      BY <1>a, <3>2 DEF Last, Blank, TypeOK
    <3>3. Ends(j) => job'[j].phase # "deriving"
      BY <1>d, <3>1 DEF Ends
    <3>4. CASE LockSetup(j) \/ CheckSetup(j)
      <4>1. ASSUME NEW ph \in {"locked", "empty"}, job' = [job EXCEPT ![j].phase = ph]
            PROVE  job'[j].phase # "deriving"
        BY <1>a, <2>1, <4>1 DEF TypeOK, Work
      <4>2. LockSetup(j) => job'[j].phase # "deriving"
        BY <4>1 DEF LockSetup
      <4>3. CheckSetup(j) => job'[j].phase # "deriving"
        BY <3>3, <4>1 DEF CheckSetup
      <4> QED
        BY <3>4, <4>2, <4>3
    <3>5. CASE Verify(j)
      BY <2>1, <3>1, <3>2, <3>3, <3>5 DEF Verify, Work
    <3>6. CASE CommitSetup(j) \/ Rehash(j) \/ Admit(j) \/ StoreReset(j) \/ CloseSessions(j) \/ Fail(j)
      BY <3>2, <3>3, <3>6 DEF CommitSetup, Rehash, Admit, StoreReset, CloseSessions, Fail
    <3> QED
      BY <1>4, <3>4, <3>5, <3>6
  <2> QED
    BY <1>c, <2>1, <2>2, <2>3
<1>5. CASE Restart
  <2>1. ASSUME NEW i \in Job PROVE i \notin Deriving'
    <3>1. CASE OfServer(i)
      BY <1>5, <1>d, <3>1 DEF Restart, Deriving
    <3>2. CASE ~OfServer(i)
      <4>1. job'[i] = job[i]
        BY <1>5, <3>2 DEF Restart
      <4> QED
        BY <1>a, <1>d, <3>2, <4>1 DEF Deriving, OfServer, JobsOK, JobOK, Remote
    <3> QED
      BY <3>1, <3>2
  <2>2. Deriving' = {}
    BY <2>1 DEF Deriving
  <2> QED
    BY <1>5, <2>2, FS_EmptySet DEF Restart, SlotsTaken
<1>6. CASE UNCHANGED vars \/ \E s \in Session : ExpireSession(s) \/ Logout(s)
  <2>1. job' = job /\ slots' = slots
    BY <1>6 DEF vars, process, ExpireSession, Logout
  <2> QED
    BY <1>b, <2>1 DEF Deriving
<1> QED
  BY <1>1, <1>2, <1>3, <1>4, <1>5, <1>6, Steps DEF Step

(* At the start there is no job and no slot is taken.                      *)
LEMMA InitInv == Init => IInv
<1> SUFFICES ASSUME Init PROVE IInv
  OBVIOUS
<1>1. Deriving = {}
  BY DEF Init, Deriving, Idle
<1>2. SlotsTaken
  BY <1>1, FS_EmptySet DEF Init, SlotsTaken
<1>3. JobsOK
  BY DEF Init, JobsOK, JobOK
<1> QED
  BY <1>2, <1>3, InitType DEF IInv

(* The invariant is inductive.                                             *)
LEMMA Inv == Spec => []IInv
<1>1. IInv /\ [Next]_vars => IInv'
  BY TypeStep, JobsStep, SlotsStep DEF IInv
<1> QED
  BY <1>1, InitInv, PTL DEF Spec

(* Tables, slots, lock and jobs have their types: no derivation runs       *)
(* without a slot, and every slot given back was taken.                    *)
THEOREM AccessTypeCorrect == Spec => []TypeOK
BY Inv, PTL DEF IInv

----------------------------------------------------------------------------
(* One account.                                                            *)

(* Only the commit of a setup makes an account.                            *)
LEMMA AccountsStep ==
  ASSUME IInv, [Next]_vars
  PROVE  FoundByEmail' = FoundByEmail \/ (FoundByEmail = {} /\ FoundByEmail' = {NewId})
<1>a. TypeOK /\ JobsOK
  BY DEF IInv
<1>1. ASSUME NEW j \in Job, CommitSetup(j)
      PROVE  FoundByEmail = {} /\ FoundByEmail' = {NewId}
  <2>1. job[j] # Idle /\ FoundByEmail = {} /\ job[j].password \in Password
    BY <1>1, <1>a, InFlight DEF CommitSetup, JobsOK, JobOK, Configured
  <2>2. Hashed(j) # None
    BY <1>a, <2>1, HashedType
  <2> QED
    BY <1>1, <1>a, <2>1, <2>2, NewIdIsFree DEF CommitSetup, FoundByEmail, TypeOK
<1>2. ASSUME NEW j \in Job, Rehash(j) \/ StoreReset(j)
      PROVE  FoundByEmail' = FoundByEmail
  <2>1. job[j] # Idle /\ job[j].account \in FoundByEmail /\ job[j].password \in Password
    BY <1>2, <1>a, InFlight DEF Rehash, StoreReset, Is, JobsOK, JobOK
  <2>2. Hashed(j) # None
    BY <1>a, <2>1, HashedType
  <2>3. accounts' = accounts \/ accounts' = [accounts EXCEPT ![job[j].account] = Hashed(j)]
    BY <1>2 DEF Rehash, StoreReset, UpdatePasswordHash
  <2> QED
    BY <1>a, <2>1, <2>2, <2>3 DEF FoundByEmail, TypeOK
<1>3. CASE \A j \in Job : ~CommitSetup(j) /\ ~Rehash(j) /\ ~StoreReset(j)
  <2>1. accounts' = accounts
    BY <1>3, Steps DEF Step, BeginSetup, BeginSignIn, BeginReset, Derive, LockSetup, Derived,
       CheckSetup, Verify, Admit, CloseSessions, Fail, ExpireSession, Logout, Restart,
       vars, tables
  <2> QED
    BY <2>1 DEF FoundByEmail
<1> QED
  BY <1>1, <1>2, <1>3

(* However many setups hash and insert at once, the first account is the   *)
(* only account.                                                           *)
THEOREM FirstAccountOnly == Spec => []OneAccount
<1>1. Init => OneAccount
  BY DEF Init, OneAccount
<1>2. IInv /\ [Next]_vars /\ OneAccount => OneAccount'
  BY AccountsStep DEF OneAccount, FoundByEmail
<1> QED
  BY <1>1, <1>2, Inv, PTL DEF Spec
----------------------------------------------------------------------------
(* Resets.                                                                 *)

(* As long as hashing costs what it always did, no sign-in stores a hash.  *)
(* Whoever stores one sets the password.                                   *)
THEOREM ResetIsFinal == Spec => []ResetSticks
<1>1. Init => ResetSticks
  BY DEF Init, ResetSticks
<1>2. IInv /\ [Next]_vars /\ ResetSticks => ResetSticks'
  <2> SUFFICES ASSUME IInv, [Next]_vars, ResetSticks, cost' = 0
               PROVE  \A a \in Account : accounts'[a] # None =>
                        accounts'[a].password = set'[a].password
    BY DEF ResetSticks
  <2>a. TypeOK /\ JobsOK /\ cost = 0
    BY Growth DEF IInv, TypeOK
  <2>1. ASSUME NEW j \in Job, CommitSetup(j)
        PROVE  \A a \in Account : accounts'[a] # None =>
                 accounts'[a].password = set'[a].password
    BY <2>1, <2>a, NewIdIsFree DEF CommitSetup, Hashed, ResetSticks, TypeOK
  <2>2. ASSUME NEW j \in Job, StoreReset(j)
        PROVE  \A a \in Account : accounts'[a] # None =>
                 accounts'[a].password = set'[a].password
    BY <2>2, <2>a DEF StoreReset, UpdatePasswordHash, Hashed, ResetSticks, TypeOK
  <2>3. ASSUME NEW j \in Job PROVE ~Rehash(j)
    <3>1. SUFFICES ASSUME job[j].phase = "derived", job[j].task = "rehash"
                   PROVE  FALSE
      BY DEF Rehash, Is
    <3>2. job[j] \in Work /\ job[j].cost > 0 /\ job[j].cost <= cost
      BY <2>a, <3>1, InFlight DEF JobsOK, JobOK
    <3> QED
      BY <2>a, <3>2 DEF Work
  <2>4. CASE \A j \in Job : ~CommitSetup(j) /\ ~Rehash(j) /\ ~StoreReset(j)
    <3>1. accounts' = accounts /\ set' = set
      BY <2>4, Steps DEF Step, BeginSetup, BeginSignIn, BeginReset, Derive, LockSetup, Derived,
         CheckSetup, Verify, Admit, CloseSessions, Fail, ExpireSession, Logout, Restart,
         vars, tables, history
    <3> QED
      BY <2>a, <3>1 DEF ResetSticks
  <2> QED
    BY <2>1, <2>2, <2>3, <2>4
<1> QED
  BY <1>1, <1>2, Inv, PTL DEF Spec
(* When a reset is over, no session that was opened before it is live,     *)
(* whatever signed in meanwhile; only a command that stopped between its   *)
(* two statements leaves some.                                             *)
THEOREM SessionsEndWithReset == Spec => []ResetClosesSessions
<1>1. Init => ResetClosesSessions
  BY DEF Init, ResetClosesSessions
<1>2. IInv /\ [Next]_vars /\ ResetClosesSessions => ResetClosesSessions'
  <2> SUFFICES ASSUME IInv, [Next]_vars, ResetClosesSessions, NEW s \in Session,
                      sessions'[s] # None, sessions'[s].live,
                      NEW a \in Account, sessions'[s].account = a
               PROVE  \/ sessions'[s].opened = set'[a].resets
                      \/ Resetting(a)' \/ a \in interrupted'
    BY TypeStep DEF ResetClosesSessions, Resetting, TypeOK
  <2> DEFINE Covered == \/ sessions'[s].opened = set'[a].resets
                        \/ Resetting(a)' \/ a \in interrupted'
  <2>a. TypeOK /\ TypeOK' /\ JobsOK
    BY TypeStep DEF IInv
  <2>b. ASSUME sessions'[s] = sessions[s]
        PROVE  sessions[s].opened = set[a].resets \/ Resetting(a) \/ a \in interrupted
    BY <2>a, <2>b DEF ResetClosesSessions, TypeOK
  (* A session that was there stays covered if no reset is forgotten.      *)
  <2>c. ASSUME sessions'[s] = sessions[s], Resetting(a) => Resetting(a)' \/ a \in interrupted',
               set'[a].resets = set[a].resets, interrupted \subseteq interrupted'
        PROVE  Covered
    BY <2>b, <2>c
  <2>1. ASSUME NEW j \in Job, StoreReset(j)
        PROVE  Covered
    <3>1. job'[j].phase = "stored" /\ job'[j].account = job[j].account
      BY <2>1, <2>a DEF StoreReset, Last, Blank, TypeOK
    <3>2. CASE a = job[j].account
      BY <3>1, <3>2 DEF Resetting
    <3>3. CASE a # job[j].account
      <4>1. sessions'[s] = sessions[s] /\ interrupted' = interrupted
        BY <2>1 DEF StoreReset
      <4>2. set'[a].resets = set[a].resets
        BY <2>1, <2>a, <2>b, <3>3, <4>1 DEF StoreReset, TypeOK
      <4>3. Resetting(a) => Resetting(a)'
        BY <2>1, <2>a DEF StoreReset, Is, Last, Resetting, TypeOK
      <4> QED
        BY <2>c, <4>1, <4>2, <4>3
    <3> QED
      BY <3>2, <3>3
  <2>2. ASSUME NEW j \in Job, CloseSessions(j)
        PROVE  Covered
    <3>1. sessions'[s] = sessions[s] /\ a # job[j].account
      BY <2>2, <2>a DEF CloseSessions, TypeOK
    <3>2. Resetting(a) => Resetting(a)'
      BY <2>2, <2>a, <3>1 DEF CloseSessions, Ends, Resetting, TypeOK
    <3> QED
      BY <2>2, <2>c, <3>1, <3>2 DEF CloseSessions, history
  <2>3. ASSUME NEW j \in Job, Fail(j)
        PROVE  Covered
    <3>1. sessions'[s] = sessions[s] /\ set' = set /\ interrupted \subseteq interrupted'
      BY <2>3 DEF Fail, InterruptedBy, tables
    <3>2. Resetting(a) => Resetting(a)' \/ a \in interrupted'
      BY <2>3, <2>a DEF Fail, InterruptedBy, Ends, Resetting, TypeOK
    <3> QED
      BY <2>c, <3>1, <3>2
  <2>4. ASSUME NEW j \in Job, Admit(j)
        PROVE  Covered
    <3>1. CASE sessions'[s] = sessions[s]
      <4>1. Resetting(a) => Resetting(a)'
        BY <2>4, <2>a DEF Admit, Ends, Resetting, TypeOK
      <4> QED
        BY <2>4, <2>c, <3>1, <4>1 DEF Admit, history
    <3>2. CASE sessions'[s] # sessions[s]
      <4>1. sessions'[s] = [account |-> job[j].account, live |-> TRUE,
                            opened |-> set[job[j].account].resets]
        BY <2>4, <2>a, <3>2 DEF Admit, TypeOK
      <4> QED
        BY <2>4, <4>1 DEF Admit, history
    <3> QED
      BY <3>1, <3>2
  <2>5. ASSUME NEW j \in Job, CommitSetup(j)
        PROVE  Covered
    <3>1. sessions'[s] = sessions[s] /\ interrupted' = interrupted
      BY <2>5 DEF CommitSetup
    <3>2. set'[a].resets = set[a].resets
      BY <2>5, <2>a, <2>b, <3>1, NewIdIsFree DEF CommitSetup, TypeOK
    <3>3. Resetting(a) => Resetting(a)'
      BY <2>5, <2>a DEF CommitSetup, Last, Ends, Resetting, TypeOK
    <3> QED
      BY <2>c, <3>1, <3>2, <3>3
  <2>6. ASSUME NEW t \in Session, ExpireSession(t) \/ Logout(t)
        PROVE  Covered
    <3>1. sessions'[s] = sessions[s] /\ job' = job
      BY <2>6, <2>a DEF ExpireSession, Logout, TypeOK
    <3> QED
      BY <2>6, <2>c, <3>1 DEF ExpireSession, Logout, history, Resetting
  <2>7. CASE Restart
    <3>1. sessions'[s] = sessions[s]
      BY <2>7 DEF Restart, tables
    <3>2. Resetting(a) => Resetting(a)'
      BY <2>7, <2>a DEF Restart, OfServer, Resetting, JobsOK, JobOK, Remote
    <3> QED
      BY <2>7, <2>c, <3>1, <3>2 DEF Restart, history
  <2>8. ASSUME NEW j \in Job,
               \/ Derive(j) \/ Derived(j) \/ LockSetup(j) \/ CheckSetup(j) \/ Verify(j) \/ Rehash(j)
               \/ \E p \in Password : BeginReset(j, p)
               \/ \E by \in Remote, p \in Password : BeginSignIn(j, by, p)
               \/ \E by \in Actor, p \in Password : BeginSetup(j, by, p)
        PROVE  Covered
    <3>1. sessions' = sessions /\ set' = set /\ interrupted' = interrupted
      BY <2>8 DEF Derive, Derived, LockSetup, CheckSetup, Verify, Rehash, BeginSignIn,
         BeginReset, BeginSetup, tables, process, history
    <3>2. job[j].phase # "stored" /\ \A i \in Job \ {j} : job'[i] = job[i]
      <4>1. CASE Derive(j) \/ Derived(j) \/ LockSetup(j)
        BY <4>1, <2>a DEF Derive, Derived, LockSetup, Is, TypeOK
      <4>2. CASE CheckSetup(j)
        BY <4>2, <2>a DEF CheckSetup, Ends, TypeOK
      <4>3. CASE Verify(j)
        BY <4>3, <2>a DEF Verify, Is, Last, Ends, TypeOK
      <4>4. CASE Rehash(j)
        BY <4>4, <2>a DEF Rehash, Is, Last, TypeOK
      <4>5. CASE \E w : Begin(j, w)
        BY <4>5, <2>a, WorkRecords DEF Begin, TypeOK
      <4>6. ASSUME \/ \E p \in Password : BeginReset(j, p)
                   \/ \E by \in Remote, p \in Password : BeginSignIn(j, by, p)
                   \/ \E by \in Actor, p \in Password : BeginSetup(j, by, p)
            PROVE  \E w : Begin(j, w)
        BY <4>6 DEF BeginSignIn, BeginReset, BeginSetup
      <4> QED
        BY <2>8, <4>1, <4>2, <4>3, <4>4, <4>5, <4>6
    <3>3. Resetting(a) => Resetting(a)'
      BY <3>2 DEF Resetting
    <3> QED
      BY <2>c, <3>1, <3>3
  <2>9. CASE UNCHANGED vars
    BY <2>9, <2>c DEF vars, tables, history, Resetting
  <2> QED
    BY <2>1, <2>2, <2>3, <2>4, <2>5, <2>6, <2>7, <2>8, <2>9, Steps DEF Step
<1> QED
  BY <1>1, <1>2, Inv, PTL DEF Spec
=============================================================================
