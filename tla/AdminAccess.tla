---------------------------- MODULE AdminAccess ----------------------------
(***************************************************************************)
(* Who may use the server: its one account, the password of that account   *)
(* and the browser sessions opened with it.  The server's requests (first  *)
(* setup, sign-in of a browser or a device) and the operator's commands    *)
(* (create-account, set-password), each a process of its own, meet in two  *)
(* tables, and only the first account is made under a lock.                *)
(*                                                                         *)
(* A hash is the password it was made from and the cost it was made with;  *)
(* addresses, forms, cookies and the bytes of tokens are left out.         *)
(***************************************************************************)
EXTENDS Integers, FiniteSets

CONSTANTS
  Account,    \* account ids the database may assign
  Password,
  Session,    \* tokens of browser sessions (a bound on the rows at a time)
  Job,        \* requests and commands in flight (a bound)
  None,       \* no account, no job, no row
  Slots,      \* maxConcurrentPasswordDerivations, of the server's process
  MaxCost,    \* bound on how often a release raises the cost of a hash
  MaxResets   \* bound on the password resets

ASSUME AccessAssumption ==
  /\ None \notin Account /\ None \notin Job /\ None \notin Password
  /\ None \notin [password : Password, cost : Nat]
  /\ IsFiniteSet(Job)
  /\ Slots \in Nat \ {0}
  /\ MaxCost \in Nat /\ MaxResets \in Nat

VARIABLES
  accounts,   \* account -> its hash, or None
  sessions,   \* admin_sessions: token -> [account, live, opened], or None
  cost,       \* argonMemoryKiB and the rest, of the server that runs
  slots,      \* passwordDerivationSlots: how many are taken
  setupLock,  \* the advisory lock of the first setup: a job, or None
  job,        \* the requests and commands in flight
  set,        \* history: account -> how many resets, and the password set last
  interrupted \* history: accounts with a reset that stored its hash and stopped

tables  == <<accounts, sessions>>
process == <<cost, slots, setupLock>>
history == <<set, interrupted>>
vars    == <<tables, process, job, history>>

----------------------------------------------------------------------------
Hash   == [password : Password, cost : Nat]
NoHash == [password |-> None, cost |-> 0]

(* `by` is where it came in; `read` the hash a sign-in found; `cost` what the      *)
(* job's own process hashes with.                                          *)
Task  == {"setup", "verify", "rehash", "reset"}
Actor == {"panel", "api", "command"}
Phase == {"queued", "deriving", "derived", "locked", "empty", "admitted", "stored"}
Work  == [phase : Phase, task : Task, by : Actor,
          password : Password \cup {None}, account : Account \cup {None},
          read : Hash \cup {NoHash}, cost : Nat]
Blank == [phase |-> "queued", task |-> "setup", by |-> "panel",
          password |-> None, account |-> None, read |-> NoHash, cost |-> 0]
Idle  == [phase |-> "idle"]
Is(j, phase, task) == job[j].phase = phase /\ job[j].task = task   \* Idle has no task

TypeOK ==
  /\ accounts \in [Account -> Hash \cup {None}]
  /\ sessions \in [Session -> [account : Account, live : BOOLEAN, opened : Nat] \cup {None}]
  /\ cost \in Nat
  /\ slots \in 0..Slots
  /\ setupLock \in Job \cup {None}
  /\ job \in [Job -> Work \cup {Idle}]
  /\ set \in [Account -> [resets : Nat, password : Password \cup {None}]]
  /\ interrupted \subseteq Account

Init ==
  /\ accounts = [a \in Account |-> None]
  /\ sessions = [s \in Session |-> None]
  /\ cost = 0 /\ slots = 0 /\ setupLock = None
  /\ job = [j \in Job |-> Idle]
  /\ set = [a \in Account |-> [resets |-> 0, password |-> None]]
  /\ interrupted = {}

(* store.FindAccountByEmail: an address is that of an account or nobody's. *)
FoundByEmail == {a \in Account : accounts[a] # None}

(* store.CountAccounts, and the SELECT EXISTS of the setup.                *)
Configured == FoundByEmail # {}

(* Faulty: a hash of the same cost is made again as well.                  *)
FaultyNeedsRehash(j) == job[j].read.cost <= job[j].cost

(* auth.NeedsRehash, asked of the hash the sign-in has read.               *)
NeedsRehash(j) == job[j].read.cost < job[j].cost

Begin(j, work) ==
  /\ job[j] = Idle
  /\ job' = [job EXCEPT ![j] = work]
Ends(j) == job' = [job EXCEPT ![j] = Idle]

(* All that is left to do is the last step, for one account.               *)
Last(j, phase, a) ==
  job' = [job EXCEPT ![j] = [Blank EXCEPT !.phase = phase, !.by = job[j].by, !.account = a]]

(* auth.HashPassword, of the job's own process.                            *)
Hashed(j) == [password |-> job[j].password, cost |-> job[j].cost]

----------------------------------------------------------------------------
(* Faulty: there are as many derivations as requests.                      *)
FaultyDerive(j) ==
  /\ job[j].phase = "queued"
  /\ slots' = slots + 1
  /\ job' = [job EXCEPT ![j].phase = "deriving"]
  /\ UNCHANGED <<tables, cost, setupLock, history>>

(* Deriving a key takes one of the slots of its process; a command has its *)
(* process, and so the slots, to itself.                                   *)
Derive(j) ==
  /\ job[j].phase = "queued"
  /\ slots < Slots
  /\ slots' = slots + 1
  /\ job' = [job EXCEPT ![j].phase = "deriving"]
  /\ UNCHANGED <<tables, cost, setupLock, history>>

(* Faulty: the slot is not given back.                                     *)
FaultyDerived(j) ==
  /\ job[j].phase = "deriving"
  /\ job' = [job EXCEPT ![j].phase = "derived"]
  /\ UNCHANGED <<tables, cost, slots, setupLock, history>>

Derived(j) ==
  /\ job[j].phase = "deriving"
  /\ slots' = slots - 1
  /\ job' = [job EXCEPT ![j].phase = "derived"]
  /\ UNCHANGED <<tables, cost, setupLock, history>>

----------------------------------------------------------------------------
(* The first account.  A command has hashed when it comes to its lock.     *)
BeginSetup(j, by, p) ==
  /\ Begin(j, [Blank EXCEPT !.phase = IF by = "command" THEN "derived" ELSE "queued",
                !.by = by, !.password = p, !.cost = cost])
  /\ UNCHANGED <<tables, process, history>>

(* The panel turns away at once who comes when there is an account; the    *)
(* API (when signup is open) and the command look only under the lock.     *)
handleSetup(j, p)         == ~Configured /\ BeginSetup(j, "panel", p)
handleCreateAccount(j, p) == BeginSetup(j, "api", p)
runCreateAccount(j, p)    == BeginSetup(j, "command", p)

(* Faulty: there is no lock.                                               *)
FaultyLockSetup(j) ==
  /\ Is(j, "derived", "setup")
  /\ job' = [job EXCEPT ![j].phase = "locked"]
  /\ UNCHANGED <<tables, process, history>>

LockSetup(j) ==
  /\ Is(j, "derived", "setup")
  /\ setupLock = None
  /\ setupLock' = j
  /\ job' = [job EXCEPT ![j].phase = "locked"]
  /\ UNCHANGED <<tables, cost, slots, history>>

Released(j) == IF setupLock = j THEN None ELSE setupLock

(* CreateInitialAccount asks whether there is an account.                  *)
CheckSetup(j) ==
  /\ job[j].phase = "locked"
  /\ \/ /\ Configured
        /\ Ends(j)
        /\ setupLock' = Released(j)
     \/ /\ ~Configured
        /\ job' = [job EXCEPT ![j].phase = "empty"]
        /\ UNCHANGED setupLock
  /\ UNCHANGED <<tables, cost, slots, history>>

(* It inserts one and commits; the panel goes on to a session.  The commit *)
(* may be reported failed, and then nothing follows it.                    *)
NewId == CHOOSE a \in Account \ FoundByEmail : TRUE
CommitSetup(j) ==
  /\ job[j].phase = "empty"
  /\ Account \ FoundByEmail # {}
  /\ accounts' = [accounts EXCEPT ![NewId] = Hashed(j)]
  /\ set' = [set EXCEPT ![NewId].password = job[j].password]
  /\ setupLock' = Released(j)
  /\ \/ job[j].by = "panel" /\ Last(j, "admitted", NewId)
     \/ Ends(j)
  /\ UNCHANGED <<sessions, cost, slots, interrupted>>

----------------------------------------------------------------------------
(* Signing in, of a browser or of a device.  The account is read first; an *)
(* unknown address is verified against nothing, for as long as a known one *)
(* (SpendVerificationTime).                                                *)
BeginSignIn(j, by, p) ==
  /\ \E a \in FoundByEmail \cup {None} :
       Begin(j, [Blank EXCEPT !.task = "verify", !.by = by, !.password = p,
                 !.account = a, !.cost = cost,
                 !.read = IF a = None THEN NoHash ELSE accounts[a]])
  /\ UNCHANGED <<tables, process, history>>

handleLogin(j, p)          == Configured /\ BeginSignIn(j, "panel", p)
handleRegisterDevice(j, p) == BeginSignIn(j, "api", p)

(* VerifyPassword: a wrong password ends it; a hash that is too cheap is   *)
(* made again, for which the password is derived once more.                *)
Verify(j) ==
  /\ Is(j, "derived", "verify")
  /\ \/ /\ job[j].read.password # job[j].password
        /\ Ends(j)
     \/ /\ job[j].read.password = job[j].password
        /\ ~NeedsRehash(j)
        /\ Last(j, "admitted", job[j].account)
     \/ /\ job[j].read.password = job[j].password
        /\ NeedsRehash(j)
        /\ job' = [job EXCEPT ![j].phase = "queued", ![j].task = "rehash", ![j].read = NoHash]
  /\ UNCHANGED <<tables, process, history>>

(* store.UpdatePasswordHash, whatever the row holds by now; if it fails    *)
(* the sign-in goes on all the same.                                       *)
UpdatePasswordHash(j) ==
  accounts' = [accounts EXCEPT ![job[j].account] = Hashed(j)]
Rehash(j) ==
  /\ Is(j, "derived", "rehash")
  /\ UpdatePasswordHash(j) \/ UNCHANGED accounts
  /\ Last(j, "admitted", job[j].account)
  /\ UNCHANGED <<sessions, process, history>>

(* createAdminSession, which may fail; a device gets a token instead       *)
(* (RegisterDevice, of ChangeFeed).                                        *)
Admit(j) ==
  /\ job[j].phase = "admitted"
  /\ \/ \E s \in Session :
          /\ job[j].by = "panel" /\ sessions[s] = None
          /\ sessions' = [sessions EXCEPT ![s] =
               [account |-> job[j].account, live |-> TRUE,
                opened |-> set[job[j].account].resets]]
     \/ UNCHANGED sessions
  /\ Ends(j)
  /\ UNCHANGED <<accounts, process, history>>

(* A session runs out, and no longer authenticates.                        *)
ExpireSession(s) ==
  /\ sessions[s] # None /\ sessions[s].live
  /\ sessions' = [sessions EXCEPT ![s].live = FALSE]
  /\ UNCHANGED <<accounts, process, job, history>>

(* handleLogout; what has expired goes with it.                            *)
Logout(s) ==
  /\ sessions[s] # None /\ sessions[s].live
  /\ sessions' = [t \in Session |->
       IF t = s \/ (sessions[t] # None /\ ~sessions[t].live) THEN None ELSE sessions[t]]
  /\ UNCHANGED <<accounts, process, job, history>>

----------------------------------------------------------------------------
(* The operator's commands.                                                *)

(* Resets that have hashed and not stored, of one account.                 *)
Resets(a) == {j \in Job : Is(j, "derived", "reset") /\ job[j].account = a}

(* set-password: setAccountPassword finds the account and hashes.          *)
BeginReset(j, p) ==
  /\ \E a \in FoundByEmail :
       /\ set[a].resets + Cardinality(Resets(a)) < MaxResets
       /\ Begin(j, [Blank EXCEPT !.phase = "derived", !.task = "reset", !.by = "command",
                    !.password = p, !.account = a, !.cost = cost])
  /\ UNCHANGED <<tables, process, history>>

(* Faulty: sessions are not closed after the hash is stored.               *)
FaultyStoreReset(j) ==
  /\ Is(j, "derived", "reset")
  /\ UpdatePasswordHash(j)
  /\ set' = [set EXCEPT ![job[j].account] =
               [resets |-> @.resets + 1, password |-> job[j].password]]
  /\ Ends(j)
  /\ UNCHANGED <<sessions, process, interrupted>>

(* It stores the hash,                                                     *)
StoreReset(j) ==
  /\ Is(j, "derived", "reset")
  /\ UpdatePasswordHash(j)
  /\ set' = [set EXCEPT ![job[j].account] =
               [resets |-> @.resets + 1, password |-> job[j].password]]
  /\ Last(j, "stored", job[j].account)
  /\ UNCHANGED <<sessions, process, interrupted>>

(* and then closes every session of the account.                           *)
CloseSessions(j) ==
  /\ job[j].phase = "stored"
  /\ sessions' = [s \in Session |->
       IF sessions[s] # None /\ sessions[s].account = job[j].account
       THEN None ELSE sessions[s]]
  /\ Ends(j)
  /\ UNCHANGED <<accounts, process, history>>

----------------------------------------------------------------------------
(* A statement of a job fails or its client is gone, a command is killed.  *)
(* Who waits for a slot goes on waiting though its client has left, and a  *)
(* derivation runs to its end.                                             *)
InterruptedBy(killed) ==
  interrupted \cup {job[j].account : j \in {i \in killed : job[i].phase = "stored"}}
Fail(j) ==
  /\ job[j] # Idle /\ job[j].phase \notin {"queued", "deriving"}
  /\ Ends(j)
  /\ setupLock' = Released(j)
  /\ interrupted' = InterruptedBy({j})
  /\ UNCHANGED <<tables, cost, slots, set>>

(* The server stops with its requests, and another one starts, of the same *)
(* release or of one that hashes at a higher cost.  Commands run on.       *)
OfServer(j) == job[j] # Idle /\ job[j].by # "command"
Restart ==
  /\ job' = [j \in Job |-> IF OfServer(j) THEN Idle ELSE job[j]]
  /\ slots' = 0
  /\ setupLock' = IF setupLock # None /\ OfServer(setupLock) THEN None ELSE setupLock
  /\ cost' \in {cost} \cup (IF cost < MaxCost THEN {cost + 1} ELSE {})
  /\ UNCHANGED <<tables, history>>

----------------------------------------------------------------------------
Step(j) ==
  \/ Derived(j) \/ CheckSetup(j) \/ Verify(j) \/ Rehash(j) \/ Admit(j)
  \/ CommitSetup(j) \/ StoreReset(j) \/ CloseSessions(j)

Next ==
  \/ \E j \in Job, p \in Password :
       \/ handleSetup(j, p) \/ handleCreateAccount(j, p) \/ runCreateAccount(j, p)
       \/ handleLogin(j, p) \/ handleRegisterDevice(j, p)
       \/ BeginReset(j, p)
  \/ \E j \in Job : Derive(j) \/ LockSetup(j) \/ Step(j) \/ Fail(j)
  \/ \E s \in Session : ExpireSession(s) \/ Logout(s)
  \/ Restart

Spec == Init /\ [][Next]_vars

(* Every statement and every derivation ends; whoever waits for a slot or  *)
(* for the lock is served in turn (a Go channel's senders and PostgreSQL's *)
(* lock queue are first in, first out).                                    *)
Fairness == \A j \in Job : WF_vars(Step(j)) /\ SF_vars(Derive(j)) /\ SF_vars(LockSetup(j))
FairSpec == Spec /\ Fairness

----------------------------------------------------------------------------
(* What the code promises and keeps.                                       *)

(* "The first account, and only the first account": however many setups,   *)
(* of whatever entrance and address, hash and insert at once.              *)
OneAccount ==
  \A a, b \in Account : accounts[a] # None /\ accounts[b] # None => a = b

(* "Signs every browser out of it": a session that was opened before the   *)
(* last reset stored its hash is gone when the reset is over, sign-ins     *)
(* under way included, unless the command stopped between its two steps.   *)
Resetting(a) == \E j \in Job : job[j].phase = "stored" /\ job[j].account = a
ResetClosesSessions ==
  \A s \in Session : sessions[s] # None /\ sessions[s].live =>
    LET a == sessions[s].account
    IN  sessions[s].opened = set[a].resets \/ Resetting(a) \/ a \in interrupted

(* As long as no release has raised the cost of a hash, the password that  *)
(* was set last is the account's password, whatever sign-ins of an earlier *)
(* one are under way.                                                      *)
ResetSticks ==
  cost = 0 => \A a \in Account :
    accounts[a] # None => accounts[a].password = set[a].password

(* Every request and every command comes to its end, with more sign-ins    *)
(* than slots and more setups than locks.                                  *)
RequestsEnd == \A j \in Job : []<>(job[j] = Idle)

----------------------------------------------------------------------------
(* What the documents promise and the code does not keep.                  *)

(* "Replaces the password of an existing account": the password set last   *)
(* is the account's.                                                       *)
ResetReplaces ==
  \A a \in Account : accounts[a] # None => accounts[a].password = set[a].password
=============================================================================
