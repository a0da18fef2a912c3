----------------------------- MODULE SyncKinds -----------------------------
(***************************************************************************)
(* The synced entity kinds, their rows, and the decisions a push makes     *)
(* about one change: operators only, shared by the modules of the account. *)
(***************************************************************************)
EXTENDS Integers

CONSTANTS
  Entity,    \* entity ids; an id belongs to one kind
  KindOf,    \* the kind each id is pushed as
  NoEntity   \* the parent of a kind that has none

(* The registry in apply order: a kind's Rank is its position.             *)
Kinds == {"notebook", "section", "page", "pageContent",
          "inkStroke", "inkErase", "inkMove", "attachment"}

ParentKind == [k \in Kinds |->
  CASE k = "section" -> "notebook"
    [] k = "page" -> "section"
    [] k \in {"pageContent", "inkStroke", "inkErase", "inkMove"} -> "page"
    [] OTHER -> "none"]

ASSUME KindsAssumption ==
  /\ NoEntity \notin Entity
  /\ KindOf \in [Entity -> Kinds]

IsRoot(e) == ParentKind[KindOf[e]] = "none"

(* The ids an entity may hang from: those of its parent kind.              *)
Parents(e) ==
  IF IsRoot(e) THEN {NoEntity}
               ELSE {p \in Entity : KindOf[p] = ParentKind[KindOf[e]]}

(* A stored row, reduced to what the protocol decides on.  `closed` and    *)
(* `cloud` are closed_at and cloud_only_at being set: a notebook's shelf.  *)
Row == {r \in [ver : Nat, seq : Nat, del : BOOLEAN, parent : Entity \cup {NoEntity},
               closed : BOOLEAN, cloud : BOOLEAN] : r.ver = 0 <=> r.seq = 0}

NoRow == [ver |-> 0, seq |-> 0, del |-> FALSE, parent |-> NoEntity,
          closed |-> FALSE, cloud |-> FALSE]

(* One change of a push that could be read.  A change refused while being  *)
(* decoded, or for the blobs it names, takes no further part in its batch: *)
(* it is a batch without that change.                                      *)
Change(e) == [base : Nat, del : BOOLEAN, parent : Parents(e),
              closed : BOOLEAN, cloud : BOOLEAN]

(* Faulty: only what the deleting client says is asked.                    *)
FaultyRetainOnDelete(e, change, stored) ==
  /\ KindOf[e] = "notebook"
  /\ change.del
  /\ stored.ver > 0 /\ ~stored.del
  /\ change.closed

(* NotebookFields.RetainOnDelete: the tombstone of a hosted notebook that  *)
(* is closed, by this change or by the stored row, is kept instead.        *)
RetainOnDelete(e, change, stored) ==
  /\ KindOf[e] = "notebook"
  /\ change.del
  /\ stored.ver > 0 /\ ~stored.del
  /\ change.closed \/ stored.closed

(* Faulty: the sequence of the stored row is kept.                         *)
FaultyWritten(e, change, stored, seq) ==
  [ver |-> change.base + 1, seq |-> stored.seq, del |-> change.del,
   parent |-> change.parent, closed |-> change.closed, cloud |-> change.cloud]

(* The row an accepted change stores.                                      *)
Written(e, change, stored, seq) ==
  LET kept == RetainOnDelete(e, change, stored)
  IN  [ver |-> change.base + 1, seq |-> seq, del |-> change.del /\ ~kept,
       parent |-> change.parent,
       closed |-> change.closed \/ kept, cloud |-> change.cloud \/ kept]

(* An entity and everything beneath it, for a function giving each         *)
(* entity's parent.  The foreign keys form a tree of four levels.          *)
Under(parentOf, roots) == {e \in DOMAIN parentOf : parentOf[e] \in roots}
Subtree(parentOf, root) ==
  LET sections == Under(parentOf, {root})
      pages    == Under(parentOf, sections)
  IN  {root} \cup sections \cup pages \cup Under(parentOf, pages)
=============================================================================
