-------------------------- MODULE MCPushTransaction -------------------------
(***************************************************************************)
(* Instances of PushTransaction for TLC.                                   *)
(***************************************************************************)
EXTENDS PushTransaction, TLC

CONSTANTS a1, a2, d1, d2, i1, i2, e1, e2, r1, r2, l1

Edit(entity, base) == [entity |-> entity, base |-> base]

(* Two accounts whose ids hash to one lock key, with a device each.        *)
Accounts == d1 :> a1 @@ d2 :> a2
OneLock  == a1 :> l1 @@ a2 :> l1

(* The first device creates two notebooks, then edits one of them in a     *)
(* batch that names it twice.  The other account's device creates a        *)
(* notebook of the same id under the same batch id.                        *)
Batches ==
  <<d1, i1>> :> <<Edit(e1, 0), Edit(e2, 0)>>
    @@ <<d1, i2>> :> <<Edit(e1, 1), Edit(e1, 1)>>
    @@ <<d2, i1>> :> <<Edit(e1, 0)>>

(* The first batch is also sent when answers as old as its own are pruned, *)
(* the second when its window is just over.                                *)
Tries == <<d1, i1>> :> 2 @@ <<d1, i2>> :> 1 @@ <<d2, i1>> :> 0

(* Room for the operator to erase both notebooks of the first account,     *)
(* which prunes the purge of the one erased first.                         *)
Bounds == a1 :> 3 @@ a2 :> 1

(* Only the first device is ever revoked, and that once.                   *)
Revocations == d1 :> 1 @@ d2 :> 0

Symmetry == Permutations(Request)
=============================================================================
