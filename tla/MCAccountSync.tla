-------------------------- MODULE MCAccountSync ---------------------------
(***************************************************************************)
(* Instances of AccountSync for TLC: entities, and the pushes their        *)
(* clients may send, for each question the runs ask.                       *)
(***************************************************************************)
EXTENDS AccountSync, TLC

CONSTANTS d1, d2,                        \* devices
          n1, n2, s1, p1, none           \* entities

(* Rows to send: a new one and edits of a stored one.                      *)
New(parent)          == [base |-> 0, del |-> FALSE, parent |-> parent,
                         closed |-> FALSE, cloud |-> FALSE]
Edit(version, parent) == [New(parent) EXCEPT !.base = version]
Tomb(version)        == [Edit(version, none) EXCEPT !.del = TRUE]

KindAs(notebooks, sections, pages) ==
  [e \in notebooks \cup sections \cup pages |->
     CASE e \in notebooks -> "notebook"
       [] e \in sections  -> "section"
       [] e \in pages     -> "page"]

(* Two notebooks, created, deleted and pushed again.                       *)
EraseKinds == KindAs({n1, n2}, {}, {})
EraseBatches ==
  { n1 :> New(none) @@ n2 :> New(none), n1 :> Tomb(1) @@ n2 :> Tomb(1),
    n1 :> Tomb(0), n1 :> Edit(1, none) }

(* A tree of three levels beside a second notebook: created, moved, edited *)
(* again as the client that lost it, deleted for erasure.                  *)
TreeKinds == KindAs({n1, n2}, {s1}, {p1})
TreeBatches ==
  { n1 :> New(none) @@ n2 :> New(none) @@ s1 :> New(n1) @@ p1 :> New(s1),
    n1 :> Tomb(1) @@ n2 :> Tomb(1), s1 :> Edit(1, n2), p1 :> Edit(1, s1) }

(* A notebook with a section: pushes larger than a page, every combination *)
(* of the notebook's flags.                                                *)
SmallKinds == KindAs({n1}, {s1}, {})
SmallBatches ==
  { n1 :> New(none) @@ s1 :> New(n1) } \cup
  { n1 :> [base |-> v, del |-> dead, parent |-> none, closed |-> shut, cloud |-> hosted] :
      v \in 0..2, dead \in BOOLEAN, shut \in BOOLEAN, hosted \in BOOLEAN }
=============================================================================
