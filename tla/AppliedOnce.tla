----------------------------- MODULE AppliedOnce -----------------------------
(***************************************************************************)
(* What a push promises: a batch takes effect in one step, on the account  *)
(* as it is then; while its answer is remembered it does not take effect   *)
(* again; and a client is only told an answer of a step that happened.     *)
(* Nothing of transactions, locks, retries or lost connections is visible  *)
(* here.  PushTransaction implements this.                                 *)
(***************************************************************************)
EXTENDS PushBatch

VARIABLES
  rows,       \* account -> notebook -> version
  purged,     \* account -> notebooks whose erasure is remembered
  changeSeq,  \* account -> its cursor
  memory,     \* batch key -> what is remembered of it, or Nothing
  clock,      \* the time
  log,        \* what was applied, in order
  given       \* the answers clients are being given: [key, answer]

vars == <<rows, purged, changeSeq, memory, clock, log, given>>

Init ==
  /\ rows = [a \in Account |-> [e \in Entity |-> 0]]
  /\ purged = [a \in Account |-> {}]
  /\ changeSeq = [a \in Account |-> 0]
  /\ memory = [k \in Key |-> Nothing]
  /\ clock = 0
  /\ log = <<>>
  /\ given = {}

(* What is remembered of a batch may be dropped once its window is over.   *)
Lapses(k) == memory'[k] = Nothing /\ ~Fresh(memory[k], clock)

(* A batch takes effect: all of it, at once, unless it is remembered.      *)
Apply(k, at) ==
  LET a       == Owner(k)
      pending == Pending(Content[k], rows[a], purged[a])
      answer  == Outcome(Content[k], pending, changeSeq[a])
      effect  == [key |-> k, at |-> at, answer |-> answer]
  IN  /\ log' # log              \* implied below; it spares TLC the rest
      /\ ~Fresh(memory[k], clock)
      /\ log' = Append(log, effect)
      /\ rows' = [rows EXCEPT ![a] = RowsAfter(Content[k], pending, @)]
      /\ changeSeq' = [changeSeq EXCEPT ![a] = answer.cursor]
      /\ memory' \in [Key -> Memory]
      /\ memory'[k] = [at |-> at, answer |-> answer]
      /\ \A j \in Key \ {k} : memory'[j] = memory[j] \/ Lapses(j)
      /\ given' \in {given, given \cup {[key |-> k, answer |-> answer]}}
      /\ UNCHANGED <<purged, clock>>

(* A device is no longer registered: what was remembered of it goes.       *)
Forget(d) ==
  /\ memory' = [k \in Key |-> IF k[1] = d THEN Nothing ELSE memory[k]]
  /\ UNCHANGED <<rows, purged, changeSeq, clock, log, given>>

(* A client is given an answer again, or has been given the one it waited  *)
(* for.                                                                    *)
Tell(i) ==
  /\ given' = given \cup {[key |-> log[i].key, answer |-> log[i].answer]}
  /\ UNCHANGED <<rows, purged, changeSeq, memory, clock, log>>

Told(one) ==
  /\ given' = given \ {one}
  /\ UNCHANGED <<rows, purged, changeSeq, memory, clock, log>>

(* The operator erases a notebook, when older purges may be forgotten, or  *)
(* deletes one hosted here only.                                           *)
Operator(a, e) ==
  /\ rows[a][e] > 0
  /\ changeSeq' = [changeSeq EXCEPT ![a] = @ + 1]
  /\ \/ /\ rows' = [rows EXCEPT ![a][e] = 0]
        /\ \E kept \in SUBSET purged[a] :
             purged' = [purged EXCEPT ![a] = kept \cup {e}]
     \/ /\ rows' = [rows EXCEPT ![a][e] = @ + 1]
        /\ UNCHANGED purged
  /\ UNCHANGED <<memory, clock, log, given>>

Tick ==
  /\ clock' = clock + 1
  /\ UNCHANGED <<rows, purged, changeSeq, memory, log, given>>

Next ==
  \/ \E k \in Key, at \in 0..clock : Apply(k, at)
  \/ \E d \in Device : Forget(d)
  \/ \E i \in DOMAIN log : Tell(i)
  \/ \E one \in given : Told(one)
  \/ \E a \in Account, e \in Entity : Operator(a, e)
  \/ Tick

Spec == Init /\ [][Next]_vars
=============================================================================
