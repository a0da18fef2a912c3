---------------------------- MODULE MCBlobStore ----------------------------
(***************************************************************************)
(* Instances of BlobStore for TLC.                                         *)
(***************************************************************************)
EXTENDS BlobStore, TLC

CONSTANTS a1, a2,   \* accounts
          x1, x2,   \* digests
          p1, p2,   \* pages
          b1, b2,   \* bodies
          u1, u2,   \* uploads
          s1, s2    \* sweepers

(* Every page and body belongs to the first account.                       *)
FirstOwns == [e \in Page \cup Body |-> a1]
Symmetry  == Permutations(Upload) \cup Permutations(Sweeper)
=============================================================================
