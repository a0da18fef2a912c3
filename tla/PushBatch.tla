------------------------------ MODULE PushBatch ------------------------------
(***************************************************************************)
(* What a push carries and what it does to the notebooks of its account:   *)
(* shared by the push as a transaction (PushTransaction) and by what it    *)
(* promises (AppliedOnce).  A row is its version here, 0 for none.  The    *)
(* entities are notebooks, the kind without a parent whose ids are retired *)
(* by the purge log; parents and contents are AccountSync's subject.       *)
(***************************************************************************)
EXTENDS Integers, Sequences

CONSTANTS
  Account,    \* accounts of the server
  Device,     \* installations of the app; a removed row gets a new id
  BatchId,    \* the ids clients give their batches
  Entity,     \* ids of notebooks
  AccountOf,  \* device -> the account it is registered with
  Content,    \* the batches clients send: <<device, batch id>> -> changes
  Window      \* BatchReplayWindow, in ticks of the clock

(* An answered batch is known by its device and its own id.                *)
Key    == DOMAIN Content
Change == [entity : Entity, base : Nat]

ASSUME BatchAssumption ==
  /\ AccountOf \in [Device -> Account]
  /\ Key \subseteq Device \X BatchId
  /\ Content \in [Key -> Seq(Change)]
  /\ Window \in Nat \ {0}

Owner(k) == AccountOf[k[1]]
Rows     == [Entity -> Nat]
Answer   == [applied : SUBSET Entity, cursor : Nat]

----------------------------------------------------------------------------
(* Faulty: an entity named twice is decoded twice.                         *)
FaultyDecoded(b) == DOMAIN b

(* decodeChanges: of an entity named twice only the first change counts.   *)
Decoded(b) == {i \in DOMAIN b : \A j \in 1..(i - 1) : b[j].entity # b[i].entity}

(* The changes the engine accepts: the id is not retired, and the version  *)
(* the client started from is the stored one (0: the row must not exist).  *)
Pending(b, rows, purged) ==
  {i \in Decoded(b) : /\ b[i].entity \notin purged
                      /\ rows[b[i].entity] = b[i].base}

Touched(b, pending) == {b[i].entity : i \in pending}

(* WriteChanges: the statements run in order and insert a row that is not  *)
(* there; one that is has the version the client started from, or the      *)
(* batch fails.                                                            *)
GuardFails(b, pending, rows) ==
  \E i \in pending :
    \/ rows[b[i].entity] \notin {0, b[i].base}
    \/ \E j \in pending : j < i /\ b[j].entity = b[i].entity

NewVersion(change) == change.base + 1

RowsAfter(b, pending, rows) ==
  [e \in Entity |-> IF e \in Touched(b, pending)
                    THEN NewVersion(b[CHOOSE i \in pending : b[i].entity = e])
                    ELSE rows[e]]

(* Faulty: a batch refused in full answers with no cursor at all.          *)
FaultyCursor(pending, seq) == IF pending = {} THEN -1 ELSE seq + 1

(* The answer: what was written and the sequence it was written with, or   *)
(* the account's cursor if all was refused, which burns no sequence.  What *)
(* a refusal says of the stored row follows from that cursor.              *)
Cursor(pending, seq) == IF pending = {} THEN seq ELSE seq + 1

Outcome(b, pending, seq) ==
  [applied |-> Touched(b, pending), cursor |-> Cursor(pending, seq)]

----------------------------------------------------------------------------
(* A remembered answer: when the transaction that recorded it began.       *)
Remembered == [at : Nat, answer : Answer]
Nothing    == [at |-> 0, answer |-> [applied |-> {}, cursor |-> -1]]
Memory     == Remembered \cup {Nothing}

(* Faulty: the window is left out of the comparison.                       *)
FaultyFresh(entry, now) == entry # Nothing /\ entry.at > now

Fresh(entry, now) == entry # Nothing /\ entry.at > now - Window

(* What happened: a batch was applied, by a transaction that began `at`,   *)
(* and was answered so.                                                    *)
Effect == [key : Key, at : Nat, answer : Answer]
=============================================================================
