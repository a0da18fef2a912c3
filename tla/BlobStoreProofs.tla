-------------------------- MODULE BlobStoreProofs --------------------------
(***************************************************************************)
(* Proofs about BlobStore: its type invariant and, where a failed commit   *)
(* has had no effect, that no row outlives its bytes: never if no          *)
(* publication is cut off, and otherwise only by a loss of power.          *)
(***************************************************************************)
EXTENDS BlobStore, TLAPS

----------------------------------------------------------------------------
(* Types.                                                                  *)

(* A claim is an account and a digest.                                     *)
LEMMA ClaimParts ==
  ASSUME NEW c \in Claim
  PROVE  c[1] \in Account /\ c[2] \in Digest /\ c = <<c[1], c[2]>>
BY DEF Claim

(* A process that gives up its lock leaves the others as they are.         *)
LEMMA UnlockedType ==
  ASSUME NEW x, lock \in [Digest -> Upload \cup Sweeper \cup {None}]
  PROVE  /\ Unlocked(x) \in [Digest -> Upload \cup Sweeper \cup {None}]
         /\ \A d \in Digest : Unlocked(x)[d] = IF lock[d] = x THEN None ELSE lock[d]
BY DEF Unlocked

(* The records of an upload and of a sweep, as their steps build them.     *)
LEMMA UploadRecords ==
  /\ NoUpload \in UploadState
  /\ \A c \in Claim : [phase |-> "receiving", claim |-> c] \in UploadState
  /\ \A r \in UploadState : r.phase # "idle" => r.claim \in Claim
  /\ \A r \in UploadState : r.phase # "idle" =>
       \A phase \in {"locked", "renamed", "published", "failed", "unheld"} :
         [r EXCEPT !.phase = phase] \in UploadState
BY DEF UploadState, NoUpload

(* The records of a sweep likewise.                                        *)
LEMMA SweepRecords ==
  /\ NoSweep \in SweepState
  /\ \A K \in SUBSET Claim : Remaining(K) \in SweepState
  /\ \A r \in SweepState : r.candidates \in SUBSET Claim
  /\ \A r \in SweepState : r.phase \in {"locked", "unlink"} =>
       r.claim \in Claim /\ [r EXCEPT !.phase = "unlink"] \in SweepState
  /\ \A c \in Claim : \A K \in SUBSET Claim :
       [phase |-> "locked", claim |-> c, candidates |-> K] \in SweepState
<1>1. /\ NoSweep \in SweepState
      /\ \A K \in SUBSET Claim : Remaining(K) \in SweepState
      /\ \A r \in SweepState : r.candidates \in SUBSET Claim
  BY DEF SweepState, NoSweep, Remaining
<1>2. ASSUME NEW r \in SweepState, r.phase \in {"locked", "unlink"}
      PROVE  r.claim \in Claim /\ [r EXCEPT !.phase = "unlink"] \in SweepState
  <2>1. r \in [phase : {"locked", "unlink"}, claim : Claim, candidates : SUBSET Claim]
    BY <1>2 DEF SweepState, NoSweep
  <2> QED
    BY <2>1 DEF SweepState
<1>3. \A c \in Claim : \A K \in SUBSET Claim :
        [phase |-> "locked", claim |-> c, candidates |-> K] \in SweepState
  BY DEF SweepState
<1> QED
  BY <1>1, <1>2, <1>3

(* Charging an account keeps a count.                                      *)
LEMMA ChargedType ==
  ASSUME NEW c \in Claim, storage \in [Account -> Nat]
  PROVE  Charged(c) \in [Account -> Nat]
BY ClaimParts DEF Charged

(* A row keeps its states through a pass.                                  *)
LEMMA MarkType ==
  ASSUME NEW c \in Claim, TypeOK
  PROVE  MarkAfter(c) \in {"none", "held", "marked", "expired"}
BY DEF MarkAfter, TypeOK, Held

(* An empty store is well typed.                                           *)
LEMMA TypeInit == Init => TypeOK
BY UploadRecords, SweepRecords DEF Init, TypeOK, NoBody, BodyRow, Presence

(* Every step keeps the types: one case per action.                        *)
LEMMA TypeStep == TypeOK /\ [Next]_vars => TypeOK'
<1> SUFFICES ASSUME TypeOK, [Next]_vars PROVE TypeOK'
  OBVIOUS
<1> USE BlobAssumption
<1>1. ASSUME NEW p \in Page, NEW presence \in Presence, PushPage(p, presence)
      PROVE  TypeOK'
  BY <1>1 DEF PushPage, TypeOK
<1>2. ASSUME NEW gone \in SUBSET Page, ErasePages(gone)
      PROVE  TypeOK'
  BY <1>2 DEF ErasePages, TypeOK, NoBody, BodyRow, Presence
<1>3. ASSUME NEW w \in BodyWrite \cup AttachmentWrite, OpenPush(w)
      PROVE  TypeOK'
  BY <1>3 DEF OpenPush, TypeOK
<1>4. ASSUME NEW a \in Account, CommitPush(a)
      PROVE  TypeOK'
  <2> DEFINE w == push[a]
  <2>1. w \in BodyWrite \/ w \in AttachmentWrite
    BY <1>4 DEF CommitPush, TypeOK
  <2>2. push' \in [Account -> BodyWrite \cup AttachmentWrite \cup {None}]
    BY <1>4 DEF CommitPush, TypeOK
  <2>3. CASE IsBody(w)
    <3>1. w \in BodyWrite
      BY <2>1, <2>3 DEF IsBody, AttachmentWrite
    <3>2. bodies' \in [Body -> BodyRow]
      BY <1>4, <2>3, <3>1 DEF CommitPush, TypeOK, BodyWrite, BodyRow, Presence
    <3>3. refs' \subseteq Page \X Digest
      BY <1>4, <2>3, <3>1 DEF CommitPush, TypeOK, BodyWrite, ReferencesAfter
    <3>4. intact' \subseteq Page
      BY <1>4, <2>3, <3>1 DEF CommitPush, TypeOK, BodyWrite
    <3>5. attachments' = attachments
      BY <1>4, <2>3 DEF CommitPush
    <3> QED
      BY <1>4, <2>2, <3>2, <3>3, <3>4, <3>5 DEF CommitPush, TypeOK
  <2>4. CASE ~IsBody(w)
    <3>1. attachments' \in [Claim -> Presence]
      BY <1>4, <2>4 DEF CommitPush, TypeOK, Presence
    <3>2. UNCHANGED <<bodies, refs, intact>>
      BY <1>4, <2>4 DEF CommitPush
    <3> QED
      BY <1>4, <2>2, <3>1, <3>2 DEF CommitPush, TypeOK
  <2> QED
    BY <2>3, <2>4
<1>5. ASSUME NEW a \in Account, AbortPush(a)
      PROVE  TypeOK'
  BY <1>5 DEF AbortPush, TypeOK
<1>6. ASSUME NEW u \in Upload, NEW c \in Claim, StartUpload(u, c)
      PROVE  TypeOK'
  <2> DEFINE r == [phase |-> "receiving", claim |-> c]
  <2>1. r \in UploadState
    BY UploadRecords
  <2>2. upload' = [upload EXCEPT ![u] = r]
    BY <1>6 DEF StartUpload
  <2>3. UNCHANGED <<blobs, storage, refs, pages, bodies, attachments, files, volatile,
                    lock, push, sweep, inDoubt, intact>>
    BY <1>6 DEF StartUpload
  <2> HIDE DEF r
  <2> QED
    BY <2>1, <2>2, <2>3 DEF TypeOK
<1>7. ASSUME NEW u \in Upload, LockUpload(u)
      PROVE  TypeOK'
  <2>1. upload[u] \in UploadState /\ upload[u].phase # "idle"
    BY <1>7 DEF LockUpload, TypeOK
  <2>2. upload' \in [Upload -> UploadState]
    BY <1>7, <2>1, UploadRecords DEF LockUpload, TypeOK
  <2>3. lock' \in [Digest -> Upload \cup Sweeper \cup {None}]
    BY <1>7 DEF LockUpload, TypeOK
  <2> QED
    BY <1>7, <2>2, <2>3 DEF LockUpload, TypeOK
<1>8. ASSUME NEW u \in Upload, Publish(u) \/ SyncDirectory(u)
      PROVE  TypeOK'
  <2>1. upload[u] \in UploadState /\ upload[u].phase # "idle"
    BY <1>8 DEF Publish, SyncDirectory, TypeOK
  <2>2. upload' \in [Upload -> UploadState]
    <3>1. \/ upload' = [upload EXCEPT ![u].phase = "published"]
          \/ upload' = [upload EXCEPT ![u].phase = "renamed"]
      BY <1>8 DEF Publish, SyncDirectory
    <3>2. /\ [upload[u] EXCEPT !.phase = "published"] \in UploadState
          /\ [upload[u] EXCEPT !.phase = "renamed"] \in UploadState
      BY <2>1, UploadRecords
    <3> QED
      BY <3>1, <3>2 DEF TypeOK
  <2>3. files' \subseteq Digest /\ volatile' \subseteq Digest
    <3>1. upload[u].claim[2] \in Digest
      BY <2>1, UploadRecords, ClaimParts
    <3> QED
      BY <1>8, <3>1 DEF Publish, SyncDirectory, TypeOK
  <2> QED
    BY <1>8, <2>2, <2>3 DEF Publish, SyncDirectory, TypeOK
<1>9. ASSUME NEW u \in Upload, Record(u)
      PROVE  TypeOK'
  <2> DEFINE c == upload[u].claim
  <2>1. c \in Claim
    BY <1>9, UploadRecords DEF Record, TypeOK
  <2>2. upload' \in [Upload -> UploadState]
    BY <1>9, UploadRecords DEF Record, TypeOK
  <2>3. lock' \in [Digest -> Upload \cup Sweeper \cup {None}]
    BY <1>9, UnlockedType DEF Record, TypeOK
  <2>4. storage' \in [Account -> Nat]
    BY <1>9, <2>1, ChargedType DEF Record, TypeOK
  <2>5. blobs' \in [Claim -> {"none", "held", "marked", "expired"}]
    BY <1>9, <2>1 DEF Record, TypeOK
  <2> QED
    BY <1>9, <2>2, <2>3, <2>4, <2>5 DEF Record, TypeOK
<1>10. ASSUME NEW u \in Upload, RecordFails(u)
       PROVE  TypeOK'
  <2>1. upload[u] \in UploadState /\ upload[u].phase # "idle"
    BY <1>10 DEF RecordFails, TypeOK
  <2>2. upload' \in [Upload -> UploadState]
    BY <1>10, <2>1, UploadRecords DEF RecordFails, TypeOK
  <2>3. inDoubt' \subseteq Claim
    <3>1. inDoubt' = inDoubt \/ inDoubt' = inDoubt \cup {upload[u].claim}
      BY <1>10 DEF RecordFails
    <3>2. upload[u].claim \in Claim
      BY <2>1, UploadRecords
    <3>3. inDoubt \subseteq Claim
      BY DEF TypeOK
    <3> QED
      BY <3>1, <3>2, <3>3
  <2>4. UNCHANGED <<blobs, storage, refs, pages, bodies, attachments, files, volatile,
                    lock, push, sweep, intact>>
    BY <1>10 DEF RecordFails
  <2> QED
    BY <2>2, <2>3, <2>4 DEF TypeOK
<1>11. ASSUME NEW u \in Upload, CheckHolders(u)
       PROVE  TypeOK'
  <2>1. upload[u] \in UploadState /\ upload[u].phase # "idle"
    BY <1>11 DEF CheckHolders, TypeOK
  <2>2. upload' \in [Upload -> UploadState]
    <3>1. \/ upload' = [upload EXCEPT ![u] = NoUpload]
          \/ upload' = [upload EXCEPT ![u].phase = "unheld"]
      BY <1>11 DEF CheckHolders
    <3>2. NoUpload \in UploadState /\ [upload[u] EXCEPT !.phase = "unheld"] \in UploadState
      BY <2>1, UploadRecords
    <3>3. upload \in [Upload -> UploadState]
      BY DEF TypeOK
    <3> QED
      BY <3>1, <3>2, <3>3
  <2>3. lock' \in [Digest -> Upload \cup Sweeper \cup {None}]
    BY <1>11, UnlockedType DEF CheckHolders, TypeOK
  <2> QED
    BY <1>11, <2>2, <2>3 DEF CheckHolders, TypeOK
<1>12. ASSUME NEW u \in Upload, RemovePublished(u) \/ StopUpload(u)
       PROVE  TypeOK'
  <2>1. upload' \in [Upload -> UploadState]
    BY <1>12, UploadRecords DEF RemovePublished, StopUpload, TypeOK
  <2>2. lock' \in [Digest -> Upload \cup Sweeper \cup {None}]
    BY <1>12, UnlockedType DEF RemovePublished, StopUpload, TypeOK
  <2>3. RemovePublished(u) => files' \subseteq Digest /\ volatile' \subseteq Digest
    <3> HAVE RemovePublished(u)
    <3>1. Gone(upload[u].claim[2]) /\ upload[u].claim[2] \in Digest
      BY UploadRecords, ClaimParts DEF RemovePublished, TypeOK
    <3> QED
      BY <3>1 DEF Gone, TypeOK
  <2> QED
    BY <1>12, <2>1, <2>2, <2>3 DEF RemovePublished, StopUpload, TypeOK
<1>13. ASSUME NEW c \in Claim, Settle(c)
       PROVE  TypeOK'
  <2>1. storage' \in [Account -> Nat]
    BY <1>13, ChargedType DEF Settle, TypeOK
  <2> QED
    BY <1>13, <2>1 DEF Settle, TypeOK
<1>14. ASSUME NEW c \in Claim, Expire(c)
       PROVE  TypeOK'
  BY <1>14 DEF Expire, TypeOK
<1>15. ASSUME NEW s \in Sweeper, SweepPass(s)
       PROVE  TypeOK'
  <2>1. blobs' \in [Claim -> {"none", "held", "marked", "expired"}]
    BY <1>15, MarkType DEF SweepPass
  <2>2. refs' \subseteq Page \X Digest
    BY <1>15 DEF SweepPass, Pruned, TypeOK
  <2>3. sweep' \in [Sweeper -> SweepState]
    <3> DEFINE listed == {c \in Claim : blobs'[c] = "expired"}
    <3>1. listed \in SUBSET Claim
      OBVIOUS
    <3>2. sweep' = [sweep EXCEPT ![s] = Remaining(listed)]
      BY <1>15 DEF SweepPass, Remaining
    <3> HIDE DEF listed
    <3> QED
      BY <3>1, <3>2, SweepRecords DEF TypeOK
  <2> QED
    BY <1>15, <2>1, <2>2, <2>3 DEF SweepPass, TypeOK
<1>16. ASSUME NEW s \in Sweeper, NEW c \in Claim, LockSwept(s, c)
       PROVE  TypeOK'
  <2>1. sweep[s].candidates \ {c} \in SUBSET Claim
    BY SweepRecords DEF TypeOK
  <2>2. sweep' \in [Sweeper -> SweepState]
    BY <1>16, <2>1, SweepRecords DEF LockSwept, TypeOK
  <2>3. lock' \in [Digest -> Upload \cup Sweeper \cup {None}]
    BY <1>16 DEF LockSwept, TypeOK
  <2> QED
    BY <1>16, <2>2, <2>3 DEF LockSwept, TypeOK
<1>17. ASSUME NEW s \in Sweeper, Advance(s)
       PROVE  /\ sweep' \in [Sweeper -> SweepState]
              /\ lock' \in [Digest -> Upload \cup Sweeper \cup {None}]
  <2>1. Remaining(sweep[s].candidates) \in SweepState
    BY SweepRecords DEF TypeOK
  <2> QED
    BY <1>17, <2>1, UnlockedType DEF Advance, TypeOK
<1>18. ASSUME NEW s \in Sweeper, DeleteSwept(s)
       PROVE  TypeOK'
  <2> DEFINE c == sweep[s].claim
  <2>1. sweep[s] \in SweepState /\ sweep[s].phase = "locked"
    BY <1>18 DEF DeleteSwept, TypeOK
  <2>2. c \in Claim
    BY <2>1, SweepRecords
  <2>3. blobs' \in [Claim -> {"none", "held", "marked", "expired"}]
    BY <1>18, <2>2 DEF DeleteSwept, TypeOK
  <2>4. storage' \in [Account -> Nat]
    BY <1>18, <2>2, ClaimParts DEF DeleteSwept, TypeOK
  <2>5. /\ sweep' \in [Sweeper -> SweepState]
        /\ lock' \in [Digest -> Upload \cup Sweeper \cup {None}]
    <3>1. CASE Advance(s)
      BY <3>1, <1>17
    <3>2. CASE ~Advance(s)
      BY <1>18, <2>1, <3>2, SweepRecords DEF DeleteSwept, TypeOK
    <3> QED
      BY <3>1, <3>2
  <2> QED
    BY <1>18, <2>3, <2>4, <2>5 DEF DeleteSwept, TypeOK
<1>19. ASSUME NEW s \in Sweeper, Unlink(s)
       PROVE  TypeOK'
  <2>1. /\ sweep' \in [Sweeper -> SweepState]
        /\ lock' \in [Digest -> Upload \cup Sweeper \cup {None}]
    BY <1>17, <1>19 DEF Unlink
  <2>2. sweep[s].claim[2] \in Digest
    BY <1>19, SweepRecords, ClaimParts DEF Unlink, TypeOK
  <2> QED
    BY <1>19, <2>1, <2>2 DEF Unlink, Gone, TypeOK
<1>20. ASSUME NEW s \in Sweeper, StopSweep(s)
       PROVE  TypeOK'
  <2>1. sweep[s].candidates \in SUBSET Claim
    BY SweepRecords DEF TypeOK
  <2>2. sweep' \in [Sweeper -> SweepState]
    BY <1>20, <2>1, SweepRecords DEF StopSweep, TypeOK
  <2>3. lock' \in [Digest -> Upload \cup Sweeper \cup {None}]
    BY <1>20, UnlockedType DEF StopSweep, TypeOK
  <2> QED
    BY <1>20, <2>2, <2>3 DEF StopSweep, TypeOK
<1>21. CASE PowerLoss
  BY <1>21, UploadRecords, SweepRecords DEF PowerLoss, TypeOK
<1>22. CASE UNCHANGED vars
  BY <1>22 DEF vars, TypeOK
<1> QED
  BY <1>1, <1>2, <1>3, <1>4, <1>5, <1>6, <1>7, <1>8, <1>9, <1>10, <1>11, <1>12,
     <1>13, <1>14, <1>15, <1>16, <1>18, <1>19, <1>20, <1>21, <1>22 DEF Next

(* Every reachable state has the types of TypeOK, whatever commits do.     *)
THEOREM BlobTypeCorrect == Spec => []TypeOK
<1>1. Init => TypeOK
  BY TypeInit
<1>2. TypeOK /\ [Next]_vars => TypeOK'
  BY TypeStep
<1> QED
  BY <1>1, <1>2, PTL DEF Spec
----------------------------------------------------------------------------
(* A row never outlives its bytes.                                         *)

Holding(u)  == upload[u].phase \in {"locked", "renamed", "published", "failed", "unheld"}
Sweeping(s) == sweep[s].phase \in {"locked", "unlink"}

LocksHeld ==
  /\ \A u \in Upload : Holding(u) => lock[upload[u].claim[2]] = u
  /\ \A s \in Sweeper : Sweeping(s) => lock[sweep[s].claim[2]] = s
Durable        == files \ volatile
RowDurable     == ~CutPublishes => \A c \in Claim : Held(c) => c[2] \in Durable
PublishedThere ==
  \A u \in Upload : upload[u].phase = "published" =>
    /\ upload[u].claim[2] \in files
    /\ ~CutPublishes => upload[u].claim[2] \in Durable
RenamedThere   == \A u \in Upload : upload[u].phase = "renamed" => upload[u].claim[2] \in files
Renaming(d)    == \E u \in Upload : upload[u].phase = "renamed" /\ upload[u].claim[2] = d
RenamedByOne   == ~CutPublishes => \A d \in files : d \in volatile => Renaming(d)
RemovedUnheld ==
  /\ \A u \in Upload : upload[u].phase = "unheld" => ~AnyHolder(upload[u].claim[2])
  /\ \A s \in Sweeper : sweep[s].phase = "unlink" => ~AnyHolder(sweep[s].claim[2])

(* The inductive invariant: whoever is about to write a row under a digest *)
(* or to remove its file holds the digest's lock, the file of a row about  *)
(* to be written is there, and one about to be removed has no row.  Where  *)
(* no publication is cut off, a file that is there and not flushed is one  *)
(* an upload has just renamed, so an upload that finds a file finds a      *)
(* durable one, and so has every row one.                                  *)
BlobInv == /\ TypeOK /\ inDoubt = {} /\ RowDurable /\ LocksHeld
           /\ PublishedThere /\ RenamedThere /\ RenamedByOne /\ RemovedUnheld

(* A digest has a holder when some claim on it has a row.                  *)
LEMMA HolderOfClaim ==
  ASSUME NEW c \in Claim, Held(c)
  PROVE  AnyHolder(c[2])
BY ClaimParts DEF AnyHolder

(* A digest's lock has one owner, so at most one process is at work on it. *)
LEMMA OneAtWork ==
  ASSUME BlobInv
  PROVE  /\ \A u, v \in Upload : Holding(u) /\ Holding(v)
              /\ upload[u].claim[2] = upload[v].claim[2] => u = v
         /\ \A s, t \in Sweeper : Sweeping(s) /\ Sweeping(t)
              /\ sweep[s].claim[2] = sweep[t].claim[2] => s = t
         /\ \A u \in Upload, s \in Sweeper : Holding(u) /\ Sweeping(s)
              => upload[u].claim[2] # sweep[s].claim[2]
BY BlobAssumption DEF BlobInv, LocksHeld

(* An empty store has no row, no lock and nobody at work.                  *)
LEMMA BlobInvInit == Init => BlobInv
BY TypeInit DEF Init, BlobInv, RowDurable, Held, LocksHeld, PublishedThere, RenamedThere,
   RenamedByOne, RemovedUnheld, Holding, Sweeping, NoUpload, NoSweep

(* Steps that leave the blobs' own state alone.                            *)
LEMMA OtherSteps ==
  ASSUME BlobInv, TypeOK', UNCHANGED <<blobs, files, volatile, lock, upload, sweep, inDoubt>>
  PROVE  BlobInv'
BY DEF BlobInv, RowDurable, Durable, Held, AnyHolder, LocksHeld, PublishedThere, RenamedThere,
   RenamedByOne, Renaming, RemovedUnheld, Holding, Sweeping

(* What a publication does: a rename, or nothing.                          *)
LEMMA PublishSteps ==
  ASSUME NEW u \in Upload, upload \in [Upload -> UploadState], Publish(u)
  PROVE  /\ upload[u].phase = "locked" /\ lock' = lock
         /\ upload'[u].claim = upload[u].claim
         /\ upload[u].claim[2] \in files =>
              upload'[u].phase = "published" /\ UNCHANGED <<files, volatile>>
         /\ upload[u].claim[2] \notin files =>
              /\ upload'[u].phase = "renamed"
              /\ files' = files \cup {upload[u].claim[2]}
              /\ volatile' = volatile \cup {upload[u].claim[2]}
<1>1. upload[u].phase = "locked" /\ lock' = lock
  BY DEF Publish
<1>2. CASE upload[u].claim[2] \in files
  <2>1. upload' = [upload EXCEPT ![u].phase = "published"] /\ UNCHANGED <<files, volatile>>
    BY <1>2 DEF Publish
  <2>2. upload'[u].phase = "published" /\ upload'[u].claim = upload[u].claim
    BY <2>1
  <2> QED
    BY <1>1, <1>2, <2>1, <2>2
<1>3. CASE upload[u].claim[2] \notin files
  <2>1. /\ upload' = [upload EXCEPT ![u].phase = "renamed"]
        /\ files' = files \cup {upload[u].claim[2]}
        /\ volatile' = volatile \cup {upload[u].claim[2]}
    BY <1>3 DEF Publish
  <2>2. upload'[u].phase = "renamed" /\ upload'[u].claim = upload[u].claim
    BY <2>1
  <2> QED
    BY <1>1, <1>3, <2>1, <2>2
<1> QED
  BY <1>2, <1>3

(* A flush of the directory and a failed insert keep the claim and the     *)
(* lock.                                                                   *)
LEMMA PhaseSteps ==
  ASSUME NEW u \in Upload, upload \in [Upload -> UploadState],
         SyncDirectory(u) \/ RecordFails(u)
  PROVE  /\ Holding(u) /\ lock' = lock
         /\ upload'[u].phase \in {"published", "failed"}
         /\ upload'[u].claim = upload[u].claim
<1>1. Holding(u) /\ lock' = lock
  BY DEF SyncDirectory, RecordFails, Holding
<1>2. CASE SyncDirectory(u)
  <2>1. upload' = [upload EXCEPT ![u].phase = "published"]
    BY <1>2 DEF SyncDirectory
  <2>2. upload'[u].phase = "published" /\ upload'[u].claim = upload[u].claim
    BY <2>1
  <2> QED
    BY <1>1, <2>2
<1>3. CASE RecordFails(u)
  <2>1. upload' = [upload EXCEPT ![u].phase = "failed"]
    BY <1>3 DEF RecordFails
  <2>2. upload'[u].phase = "failed" /\ upload'[u].claim = upload[u].claim
    BY <2>1
  <2> QED
    BY <1>1, <2>2
<1> QED
  BY <1>2, <1>3

(* An upload's request moves on without touching rows or locks.            *)
LEMMA UploadKeeps ==
  ASSUME NEW u \in Upload, BlobInv, TypeOK', LateCommits = FALSE,
         \/ \E c \in Claim : StartUpload(u, c)
         \/ LockUpload(u) \/ Publish(u) \/ SyncDirectory(u) \/ RecordFails(u)
  PROVE  BlobInv'
<1> USE BlobAssumption
<1>1. UNCHANGED <<blobs, sweep>>
  BY DEF StartUpload, LockUpload, Publish, SyncDirectory, RecordFails
<1>2. upload \in [Upload -> UploadState] /\ \A v \in Upload \ {u} : upload'[v] = upload[v]
  BY DEF BlobInv, TypeOK, StartUpload, LockUpload, Publish, SyncDirectory, RecordFails
<1>3. /\ files \subseteq files'
      /\ \A d \in files : d \notin volatile => d \notin volatile'
  BY DEF StartUpload, LockUpload, Publish, SyncDirectory, RecordFails
<1>4. inDoubt' = {}
  BY DEF BlobInv, StartUpload, LockUpload, Publish, SyncDirectory, RecordFails
<1>5. \/ lock' = lock
      \/ /\ upload[u].phase = "receiving" /\ lock[upload[u].claim[2]] = None
         /\ lock' = [lock EXCEPT ![upload[u].claim[2]] = u]
         /\ upload'[u].claim = upload[u].claim
  <2>1. CASE LockUpload(u)
    BY <1>2, <2>1 DEF LockUpload
  <2>2. CASE ~LockUpload(u)
    BY <2>2 DEF StartUpload, Publish, SyncDirectory, RecordFails
  <2> QED
    BY <2>1, <2>2
<1>6. Holding(u)' => lock'[upload'[u].claim[2]] = u
  <2>1. CASE \E c \in Claim : StartUpload(u, c)
    <3>1. ~Holding(u)'
      BY <1>2, <2>1 DEF StartUpload, Holding, NoUpload
    <3> QED
      BY <3>1
  <2>2. CASE LockUpload(u)
    <3>1. upload[u].claim[2] \in Digest
      BY <1>2, <2>2, UploadRecords, ClaimParts DEF LockUpload
    <3> QED
      BY <1>2, <2>2, <3>1 DEF LockUpload, BlobInv, TypeOK
  <2>3. CASE Publish(u)
    <3>1. Holding(u) /\ lock' = lock /\ upload'[u].claim = upload[u].claim
      BY <1>2, <2>3, PublishSteps DEF Holding
    <3> QED
      BY <3>1 DEF BlobInv, LocksHeld
  <2>4. CASE SyncDirectory(u) \/ RecordFails(u)
    BY <1>2, <2>4, PhaseSteps DEF BlobInv, LocksHeld
  <2> QED
    BY <2>1, <2>2, <2>3, <2>4
<1>7. LocksHeld'
  <2>1. ASSUME NEW v \in Upload \ {u}, Holding(v)'
        PROVE  lock'[upload'[v].claim[2]] = v
    <3>1. Holding(v) /\ upload'[v] = upload[v]
      BY <1>2, <2>1 DEF Holding
    <3>2. lock[upload[v].claim[2]] = v
      BY <3>1 DEF BlobInv, LocksHeld
    <3>3. upload[v].claim[2] \in Digest
      BY <1>2, <3>1, UploadRecords, ClaimParts DEF Holding
    <3> QED
      BY <1>5, <3>1, <3>2, <3>3 DEF BlobInv, TypeOK
  <2>2. ASSUME NEW s \in Sweeper, Sweeping(s)'
        PROVE  lock'[sweep'[s].claim[2]] = s
    <3>1. Sweeping(s) /\ sweep'[s] = sweep[s]
      BY <1>1, <2>2 DEF Sweeping
    <3>2. lock[sweep[s].claim[2]] = s
      BY <3>1 DEF BlobInv, LocksHeld
    <3>3. sweep[s].claim[2] \in Digest
      BY <3>1, SweepRecords, ClaimParts DEF Sweeping, BlobInv, TypeOK
    <3> QED
      BY <1>5, <3>1, <3>2, <3>3 DEF BlobInv, TypeOK
  <2> QED
    BY <1>6, <2>1, <2>2 DEF LocksHeld
<1>8. PublishedThere'
  <2>1. upload'[u].phase = "published" =>
          /\ upload'[u].claim[2] \in files'
          /\ ~CutPublishes => upload'[u].claim[2] \in Durable'
    <3>1. CASE \E c \in Claim : StartUpload(u, c)
      BY <1>2, <3>1 DEF StartUpload, NoUpload
    <3>2. CASE LockUpload(u)
      BY <1>2, <3>2 DEF LockUpload
    <3>3. CASE Publish(u)
      <4>1. CASE upload[u].claim[2] \in files
        <5>1. upload'[u].claim = upload[u].claim /\ UNCHANGED <<files, volatile>> /\ Holding(u)
              /\ upload[u].phase = "locked"
          BY <1>2, <3>3, <4>1, PublishSteps DEF Holding
        <5>2. ~Renaming(upload[u].claim[2])
          BY <5>1, OneAtWork DEF Renaming, Holding
        <5> QED
          BY <4>1, <5>1, <5>2 DEF BlobInv, RenamedByOne, Durable
      <4>2. CASE upload[u].claim[2] \notin files
        BY <1>2, <3>3, <4>2, PublishSteps
      <4> QED
        BY <4>1, <4>2
    <3>4. CASE SyncDirectory(u)
      <4>1. /\ upload'[u].claim = upload[u].claim /\ upload[u].phase = "renamed"
            /\ files' = files /\ volatile' = volatile \ {upload[u].claim[2]}
        BY <1>2, <3>4 DEF SyncDirectory
      <4>2. upload[u].claim[2] \in files
        BY <4>1 DEF BlobInv, RenamedThere
      <4> QED
        BY <4>1, <4>2 DEF Durable
    <3>5. CASE RecordFails(u)
      BY <1>2, <3>5 DEF RecordFails
    <3> QED
      BY <3>1, <3>2, <3>3, <3>4, <3>5
  <2> QED
    BY <1>2, <1>3, <2>1 DEF BlobInv, PublishedThere, Durable
<1>9. RemovedUnheld'
  <2>1. upload'[u].phase # "unheld"
    <3>1. CASE \E c \in Claim : StartUpload(u, c)
      BY <1>2, <3>1 DEF StartUpload, NoUpload
    <3>2. CASE LockUpload(u)
      BY <1>2, <3>2 DEF LockUpload
    <3>3. CASE Publish(u)
      BY <1>2, <3>3, PublishSteps
    <3>4. CASE SyncDirectory(u) \/ RecordFails(u)
      BY <1>2, <3>4, PhaseSteps
    <3> QED
      BY <3>1, <3>2, <3>3, <3>4
  <2> QED
    BY <1>1, <1>2, <2>1 DEF BlobInv, RemovedUnheld, AnyHolder, Held
<1>10. RenamedThere'
  <2>1. upload'[u].phase = "renamed" => upload'[u].claim[2] \in files'
    <3>1. CASE \E c \in Claim : StartUpload(u, c)
      BY <1>2, <3>1 DEF StartUpload, NoUpload
    <3>2. CASE LockUpload(u)
      BY <1>2, <3>2 DEF LockUpload
    <3>3. CASE Publish(u)
      BY <1>2, <3>3, PublishSteps
    <3>4. CASE SyncDirectory(u) \/ RecordFails(u)
      BY <1>2, <3>4, PhaseSteps
    <3> QED
      BY <3>1, <3>2, <3>3, <3>4
  <2> QED
    BY <1>2, <1>3, <2>1 DEF BlobInv, RenamedThere
<1>11. RenamedByOne'
  <2> SUFFICES ASSUME ~CutPublishes PROVE RenamedByOne'
    BY DEF RenamedByOne
  <2>1. CASE upload[u].phase # "renamed"
    <3>1. \A d : Renaming(d) => Renaming(d)'
      BY <1>2, <2>1 DEF Renaming
    <3>2. \A d \in files' : d \in volatile' => Renaming(d)'
      <4>1. CASE Publish(u) /\ upload[u].claim[2] \notin files
        <5>1. /\ upload'[u].phase = "renamed" /\ upload'[u].claim = upload[u].claim
              /\ files' = files \cup {upload[u].claim[2]}
              /\ volatile' = volatile \cup {upload[u].claim[2]}
          BY <1>2, <4>1, PublishSteps
        <5>2. Renaming(upload[u].claim[2])'
          BY <5>1 DEF Renaming
        <5> QED
          BY <3>1, <5>1, <5>2 DEF BlobInv, RenamedByOne
      <4>2. CASE ~(Publish(u) /\ upload[u].claim[2] \notin files)
        <5>1. files' = files /\ volatile' = volatile
          BY <2>1, <4>2 DEF StartUpload, LockUpload, Publish, SyncDirectory, RecordFails
        <5> QED
          BY <3>1, <5>1 DEF BlobInv, RenamedByOne
      <4> QED
        BY <4>1, <4>2
    <3> QED
      BY <3>2 DEF RenamedByOne
  <2>2. CASE upload[u].phase = "renamed"
    <3>1. files' = files /\ volatile' = volatile \ {upload[u].claim[2]}
      BY <2>2 DEF StartUpload, LockUpload, Publish, SyncDirectory, RecordFails, NoUpload
    <3>2. \A d : d # upload[u].claim[2] => (Renaming(d) => Renaming(d)')
      BY <1>2 DEF Renaming
    <3> QED
      BY <3>1, <3>2 DEF BlobInv, RenamedByOne
  <2> QED
    BY <2>1, <2>2
<1>12. RowDurable'
  BY <1>1, <1>3 DEF BlobInv, RowDurable, Durable, Held
<1> QED
  BY <1>1, <1>4, <1>7, <1>8, <1>9, <1>10, <1>11, <1>12 DEF BlobInv

(* A process that lets go of its lock leaves the others theirs.            *)
LEMMA Released ==
  ASSUME NEW x \in Upload \cup Sweeper, BlobInv, lock' = Unlocked(x),
         \A v \in Upload \ {x} : upload'[v] = upload[v],
         \A t \in Sweeper \ {x} : sweep'[t] = sweep[t],
         x \in Upload => ~Holding(x)', x \in Sweeper => ~Sweeping(x)'
  PROVE  LocksHeld'
<1>1. ASSUME NEW v \in Upload, Holding(v)'
      PROVE  lock'[upload'[v].claim[2]] = v
  <2>1. v # x /\ upload'[v] = upload[v] /\ Holding(v)
    BY <1>1 DEF Holding
  <2>2. lock[upload[v].claim[2]] = v /\ upload[v].claim[2] \in Digest
    BY <2>1, UploadRecords, ClaimParts DEF BlobInv, LocksHeld, Holding, TypeOK
  <2> QED
    BY <2>1, <2>2, UnlockedType DEF BlobInv, TypeOK
<1>2. ASSUME NEW t \in Sweeper, Sweeping(t)'
      PROVE  lock'[sweep'[t].claim[2]] = t
  <2>1. t # x /\ sweep'[t] = sweep[t] /\ Sweeping(t)
    BY <1>2 DEF Sweeping
  <2>2. lock[sweep[t].claim[2]] = t /\ sweep[t].claim[2] \in Digest
    BY <2>1, SweepRecords, ClaimParts DEF BlobInv, LocksHeld, Sweeping, TypeOK
  <2> QED
    BY <2>1, <2>2, UnlockedType DEF BlobInv, TypeOK
<1> QED
  BY <1>1, <1>2 DEF LocksHeld

(* A process that is not renaming moves on and brings no file: what is not *)
(* flushed is still being renamed by another upload.                       *)
LEMMA RenamesStay ==
  ASSUME NEW x \in Upload \cup Sweeper, BlobInv,
         \A v \in Upload \ {x} : upload'[v] = upload[v],
         x \in Upload => upload[x].phase # "renamed" \/ CutPublishes,
         files' \subseteq files, \A d \in files' : d \in volatile' => d \in volatile
  PROVE  RenamedByOne'
<1> SUFFICES ASSUME ~CutPublishes PROVE RenamedByOne'
  BY DEF RenamedByOne
<1>1. \A d : Renaming(d) => Renaming(d)'
  BY DEF Renaming
<1> QED
  BY <1>1 DEF BlobInv, RenamedByOne

(* A row is recorded: its file was published and cannot have gone since.   *)
LEMMA RecordKeeps ==
  ASSUME NEW u \in Upload, BlobInv, TypeOK', Record(u)
  PROVE  BlobInv'
<1> DEFINE c == upload[u].claim
<1> USE BlobAssumption
<1>1. /\ c \in Claim /\ Holding(u) /\ (~CutPublishes => c[2] \in Durable) /\ upload[u].phase = "published"
      /\ files' = files /\ volatile' = volatile /\ sweep' = sweep /\ inDoubt' = inDoubt
      /\ lock' = Unlocked(u) /\ upload' = [upload EXCEPT ![u] = NoUpload]
      /\ \A e \in Claim : Held(e)' => Held(e) \/ e = c
  BY UploadRecords DEF Record, Holding, BlobInv, PublishedThere, TypeOK, Held
<1>2. upload'[u].phase = "idle" /\ \A v \in Upload \ {u} : upload'[v] = upload[v]
  BY <1>1 DEF BlobInv, TypeOK, NoUpload
<1>3. LocksHeld'
  BY <1>1, <1>2, Released DEF Holding
<1>4. RowDurable'
  BY <1>1 DEF BlobInv, RowDurable, Durable
<1>5. PublishedThere' /\ RenamedThere' /\ RenamedByOne'
  <2>1. PublishedThere' /\ RenamedThere'
    BY <1>1, <1>2 DEF BlobInv, PublishedThere, RenamedThere, Durable
  <2> QED
    BY <1>1, <1>2, <2>1, RenamesStay
<1>6. \A d \in Digest : d # c[2] => (AnyHolder(d)' => AnyHolder(d))
  BY <1>1 DEF AnyHolder, Claim
<1>7. RemovedUnheld'
  <2>1. ASSUME NEW v \in Upload, upload'[v].phase = "unheld"
        PROVE  ~AnyHolder(upload[v].claim[2])'
    <3>1. v # u /\ upload'[v] = upload[v] /\ Holding(v)
      BY <1>2, <2>1 DEF Holding
    <3>2. upload[v].claim[2] \in Digest
      BY <3>1, UploadRecords, ClaimParts DEF BlobInv, TypeOK, Holding
    <3>3. upload[v].claim[2] # c[2]
      BY <1>1, <3>1, OneAtWork
    <3> QED
      BY <1>6, <2>1, <3>1, <3>2, <3>3 DEF BlobInv, RemovedUnheld
  <2>2. ASSUME NEW s \in Sweeper, sweep'[s].phase = "unlink"
        PROVE  ~AnyHolder(sweep[s].claim[2])'
    <3>1. sweep'[s] = sweep[s] /\ Sweeping(s)
      BY <1>1, <2>2 DEF Sweeping
    <3>2. sweep[s].claim[2] \in Digest
      BY <3>1, SweepRecords, ClaimParts DEF BlobInv, TypeOK, Sweeping
    <3>3. sweep[s].claim[2] # c[2]
      BY <1>1, <3>1, OneAtWork
    <3> QED
      BY <1>6, <2>2, <3>1, <3>2, <3>3 DEF BlobInv, RemovedUnheld
  <2> QED
    BY <2>1, <2>2 DEF RemovedUnheld
<1> QED
  BY <1>1, <1>3, <1>4, <1>5, <1>7 DEF BlobInv

(* A process removes the file of a digest nobody holds, under its lock.    *)
LEMMA RemovalKeeps ==
  ASSUME NEW x \in Upload \cup Sweeper, NEW d \in Digest, BlobInv, TypeOK',
         lock[d] = x, ~AnyHolder(d),
         Gone(d), lock' = Unlocked(x), UNCHANGED <<blobs, inDoubt>>,
         x \in Upload => upload[x].phase # "renamed" \/ CutPublishes,
         \A v \in Upload \ {x} : upload'[v] = upload[v],
         \A t \in Sweeper \ {x} : sweep'[t] = sweep[t],
         x \in Upload => ~Holding(x)', x \in Sweeper => ~Sweeping(x)'
  PROVE  BlobInv'
<1>1. LocksHeld'
  BY Released
<1>2. RowDurable'
  <2>1. ASSUME ~CutPublishes, NEW c \in Claim, Held(c)
        PROVE  c[2] \in Durable'
    BY <2>1, HolderOfClaim DEF BlobInv, RowDurable, Durable, Gone
  <2> QED
    BY <2>1 DEF RowDurable, Held
<1>3. PublishedThere' /\ RenamedThere' /\ RenamedByOne'
  <2>1. ASSUME NEW v \in Upload, upload'[v].phase \in {"renamed", "published"}
        PROVE  upload'[v] = upload[v] /\ upload[v].claim[2] # d
    <3>1. v # x /\ upload'[v] = upload[v] /\ Holding(v)
      BY <2>1 DEF Holding
    <3>2. lock[upload[v].claim[2]] = v
      BY <3>1 DEF BlobInv, LocksHeld
    <3> QED
      BY <3>1, <3>2
  <2>2. PublishedThere'
    BY <2>1 DEF BlobInv, PublishedThere, Durable, Gone
  <2>3. RenamedThere'
    BY <2>1 DEF BlobInv, RenamedThere, Gone
  <2> QED
    BY <2>2, <2>3, RenamesStay DEF Gone
<1>4. RemovedUnheld'
  <2>1. \A v \in Upload : upload'[v].phase = "unheld" => upload'[v] = upload[v]
    BY DEF Holding
  <2>2. \A t \in Sweeper : sweep'[t].phase = "unlink" => sweep'[t] = sweep[t]
    BY DEF Sweeping
  <2>3. \A e : AnyHolder(e)' <=> AnyHolder(e)
    BY DEF AnyHolder, Held
  <2> QED
    BY <2>1, <2>2, <2>3 DEF BlobInv, RemovedUnheld
<1> QED
  BY <1>1, <1>2, <1>3, <1>4 DEF BlobInv

(* A request or a pass ends early and lets go of its lock.                 *)
LEMMA StopKeeps ==
  ASSUME NEW x \in Upload \cup Sweeper, BlobInv, TypeOK', lock' = Unlocked(x),
         UNCHANGED <<blobs, files, volatile, inDoubt>>,
         x \in Upload => upload[x].phase # "renamed" \/ CutPublishes,
         \A v \in Upload \ {x} : upload'[v] = upload[v],
         \A t \in Sweeper \ {x} : sweep'[t] = sweep[t],
         x \in Upload => ~Holding(x)', x \in Sweeper => ~Sweeping(x)'
  PROVE  BlobInv'
<1>1. LocksHeld'
  BY Released
<1>2. RowDurable'
  BY DEF BlobInv, RowDurable, Durable, Held
<1>3. \A v \in Upload : Holding(v)' => upload'[v] = upload[v]
  OBVIOUS
<1>4. \A t \in Sweeper : Sweeping(t)' => sweep'[t] = sweep[t]
  OBVIOUS
<1>5. PublishedThere' /\ RenamedThere' /\ RenamedByOne'
  BY <1>3, RenamesStay DEF BlobInv, PublishedThere, RenamedThere, Durable, Holding
<1>6. \A e : AnyHolder(e)' <=> AnyHolder(e)
  BY DEF AnyHolder, Held
<1>7. RemovedUnheld'
  BY <1>3, <1>4, <1>6 DEF BlobInv, RemovedUnheld, Holding, Sweeping
<1> QED
  BY <1>1, <1>2, <1>5, <1>7 DEF BlobInv

(* A pass re-marks rows and a grace period ends: no row comes or goes, and *)
(* a pass that starts is not at work on a digest yet.                      *)
LEMMA MarkKeeps ==
  ASSUME BlobInv, TypeOK', UNCHANGED <<files, volatile, lock, upload, inDoubt>>,
         \A c \in Claim : Held(c)' <=> Held(c),
         \A s \in Sweeper : Sweeping(s)' => sweep'[s] = sweep[s]
  PROVE  BlobInv'
<1>1. \A d \in Digest : AnyHolder(d)' <=> AnyHolder(d)
  BY DEF AnyHolder, Claim
<1>2. \A v \in Upload : upload[v].phase = "unheld" => upload[v].claim[2] \in Digest
  BY UploadRecords, ClaimParts DEF BlobInv, TypeOK
<1>3. \A s \in Sweeper : sweep[s].phase = "unlink" => sweep[s].claim[2] \in Digest
  BY SweepRecords, ClaimParts DEF BlobInv, TypeOK
<1>4. RemovedUnheld'
  BY <1>1, <1>2, <1>3 DEF BlobInv, RemovedUnheld, Sweeping
<1>5. LocksHeld'
  BY DEF BlobInv, LocksHeld, Holding, Sweeping
<1> QED
  BY <1>4, <1>5 DEF BlobInv, RowDurable, Durable, PublishedThere, RenamedThere, RenamedByOne,
     Renaming

(* A sweeper takes a candidate's lock.                                     *)
LEMMA LockSweptKeeps ==
  ASSUME NEW s \in Sweeper, NEW c \in Claim, BlobInv, TypeOK', LockSwept(s, c)
  PROVE  BlobInv'
<1> USE BlobAssumption
<1>1. /\ lock[c[2]] = None /\ lock' = [lock EXCEPT ![c[2]] = s] /\ c[2] \in Digest
      /\ sweep'[s].phase = "locked" /\ sweep'[s].claim = c
      /\ \A t \in Sweeper \ {s} : sweep'[t] = sweep[t]
      /\ UNCHANGED <<blobs, files, volatile, upload, inDoubt>>
  BY ClaimParts DEF LockSwept, BlobInv, TypeOK
<1>2. \A v \in Upload : Holding(v)' => lock'[upload'[v].claim[2]] = v
  <2>1. ASSUME NEW v \in Upload, Holding(v)'
        PROVE  lock'[upload'[v].claim[2]] = v
    <3>1. Holding(v) /\ upload'[v] = upload[v]
      BY <1>1, <2>1 DEF Holding
    <3>2. lock[upload[v].claim[2]] = v /\ v # None
      BY <3>1 DEF BlobInv, LocksHeld
    <3> QED
      BY <1>1, <3>1, <3>2 DEF BlobInv, TypeOK
  <2> QED
    BY <2>1
<1>3. \A t \in Sweeper : Sweeping(t)' => lock'[sweep'[t].claim[2]] = t
  <2>1. ASSUME NEW t \in Sweeper \ {s}, Sweeping(t)'
        PROVE  lock'[sweep'[t].claim[2]] = t
    <3>1. Sweeping(t) /\ sweep'[t] = sweep[t]
      BY <1>1, <2>1 DEF Sweeping
    <3>2. lock[sweep[t].claim[2]] = t /\ t # None
      BY <3>1 DEF BlobInv, LocksHeld
    <3> QED
      BY <1>1, <3>1, <3>2 DEF BlobInv, TypeOK
  <2>2. lock'[sweep'[s].claim[2]] = s
    BY <1>1 DEF BlobInv, TypeOK
  <2> QED
    BY <2>1, <2>2
<1>4. RemovedUnheld'
  <2>1. \A t \in Sweeper : sweep'[t].phase = "unlink" => sweep'[t] = sweep[t]
    BY <1>1
  <2>2. \A e : AnyHolder(e)' <=> AnyHolder(e)
    BY <1>1 DEF AnyHolder, Held
  <2> QED
    BY <1>1, <2>1, <2>2 DEF BlobInv, RemovedUnheld
<1>5. LocksHeld'
  BY <1>2, <1>3 DEF LocksHeld
<1> QED
  BY <1>1, <1>4, <1>5 DEF BlobInv, RowDurable, Durable, Held, PublishedThere, RenamedThere,
     RenamedByOne, Renaming

(* A swept row goes; its file is the sweeper's to remove if nobody else    *)
(* holds the digest, which it read in the transaction that deleted it.     *)
LEMMA DeleteSweptKeeps ==
  ASSUME NEW s \in Sweeper, BlobInv, TypeOK', DeleteSwept(s)
  PROVE  BlobInv'
<1> DEFINE c == sweep[s].claim
<1>1. c \in Claim /\ Sweeping(s) /\ c[1] \in Account /\ c[2] \in Digest
  BY SweepRecords, ClaimParts DEF DeleteSwept, Sweeping, BlobInv, TypeOK
<1>2. UNCHANGED <<files, volatile, upload, inDoubt>>
  BY DEF DeleteSwept
<1>3. ASSUME Advance(s)
      PROVE  /\ lock' = Unlocked(s) /\ ~Sweeping(s)'
             /\ \A t \in Sweeper \ {s} : sweep'[t] = sweep[t]
  BY <1>3 DEF Advance, Sweeping, Remaining, NoSweep, BlobInv, TypeOK
<1>4. CASE ~Deletable(c)
  <2>1. blobs' = blobs /\ Advance(s)
    BY <1>4 DEF DeleteSwept
  <2> QED
    BY <1>1, <1>2, <1>3, <2>1, StopKeeps, BlobAssumption
<1>5. CASE Deletable(c)
  <2>1. blobs' = [blobs EXCEPT ![c] = "none"]
    BY <1>5 DEF DeleteSwept
  <2>2. \A e \in Claim : Held(e)' <=> Held(e) /\ e # c
    BY <1>1, <2>1 DEF Held, BlobInv, TypeOK
  <2>3. \A d \in Digest : AnyHolder(d)' => AnyHolder(d)
    BY <2>2 DEF AnyHolder, Claim
  <2>4. LocksHeld' /\ \A t \in Sweeper \ {s} : sweep'[t] = sweep[t]
    <3>1. CASE Advance(s)
      BY <1>1, <1>2, <1>3, <3>1, Released, BlobAssumption
    <3>2. CASE ~Advance(s)
      <4>1. lock' = lock /\ sweep' = [sweep EXCEPT ![s].phase = "unlink"]
        BY <1>5, <3>2 DEF DeleteSwept
      <4>2. /\ \A t \in Sweeper : sweep'[t].claim = sweep[t].claim
            /\ \A t \in Sweeper : Sweeping(t)' => Sweeping(t)
            /\ \A t \in Sweeper \ {s} : sweep'[t] = sweep[t]
        BY <1>1, <4>1 DEF Sweeping, BlobInv, TypeOK
      <4> QED
        BY <1>2, <4>1, <4>2 DEF BlobInv, LocksHeld, Holding
    <3> QED
      BY <3>1, <3>2
  <2>5. sweep'[s].phase = "unlink" => sweep'[s].claim = c /\ ~AnyHolder(c[2])'
    <3>1. CASE OthersHold(c)
      BY <1>3, <1>5, <3>1 DEF DeleteSwept, Sweeping
    <3>2. CASE ~OthersHold(c)
      <4>1. sweep' = [sweep EXCEPT ![s].phase = "unlink"]
        BY <1>5, <3>2 DEF DeleteSwept
      <4>2. sweep'[s].claim = c
        BY <4>1 DEF BlobInv, TypeOK
      <4>3. PICK e \in Digest : e = c[2]
        BY <1>1
      <4>4. ASSUME NEW a \in Account, Held(<<a, e>>)'
            PROVE  FALSE
        <5>1. <<a, e>> \in Claim
          BY DEF Claim
        <5>2. Held(<<a, e>>) /\ <<a, e>> # c
          BY <2>2, <4>4, <5>1
        <5>3. a # c[1]
          BY <1>1, <4>3, <5>2, ClaimParts
        <5> QED
          BY <3>2, <4>3, <5>2, <5>3 DEF OthersHold
      <4>5. sweep'[s].claim[2] = e
        BY <4>2, <4>3
      <4> QED
        BY <4>2, <4>4, <4>5 DEF AnyHolder
    <3> QED
      BY <3>1, <3>2
  <2>6. RemovedUnheld'
    <3>1. ASSUME NEW v \in Upload, upload[v].phase = "unheld"
          PROVE  ~AnyHolder(upload[v].claim[2])'
      <4>1. upload[v].claim[2] \in Digest
        BY <3>1, UploadRecords, ClaimParts DEF BlobInv, TypeOK
      <4> QED
        BY <1>2, <2>3, <3>1, <4>1 DEF BlobInv, RemovedUnheld, AnyHolder, Held
    <3>2. ASSUME NEW t \in Sweeper \ {s}, sweep[t].phase = "unlink"
          PROVE  ~AnyHolder(sweep[t].claim[2])'
      <4>1. sweep[t].claim[2] \in Digest
        BY <3>2, SweepRecords, ClaimParts DEF BlobInv, TypeOK
      <4> QED
        <5>1. sweep'[t] = sweep[t]
          BY <2>4
        <5>2. PICK e \in Digest : e = sweep[t].claim[2]
          BY <4>1
        <5>3. ~AnyHolder(e)'
          BY <2>3, <3>2, <5>2 DEF BlobInv, RemovedUnheld
        <5> QED
          BY <5>1, <5>2, <5>3 DEF AnyHolder
    <3> QED
      BY <1>2, <2>4, <2>5, <3>1, <3>2 DEF RemovedUnheld
  <2> QED
    BY <1>2, <2>2, <2>4, <2>6 DEF BlobInv, RowDurable, Durable, PublishedThere, RenamedThere,
       RenamedByOne, Renaming
<1> QED
  BY <1>4, <1>5

(* One case per action: the lemma that covers it.                          *)
LEMMA BlobInvStep ==
  ASSUME LateCommits = FALSE, BlobInv, [Next]_vars
  PROVE  BlobInv'
<1> USE BlobAssumption
<1>0. TypeOK /\ TypeOK'
  BY TypeStep DEF BlobInv
<1>1. ASSUME \/ \E p \in Page, presence \in Presence : PushPage(p, presence)
             \/ \E gone \in SUBSET Page : ErasePages(gone)
             \/ \E w \in BodyWrite \cup AttachmentWrite : OpenPush(w)
             \/ \E a \in Account : CommitPush(a) \/ AbortPush(a)
             \/ UNCHANGED vars
      PROVE  BlobInv'
  <2>1. UNCHANGED <<blobs, files, volatile, lock, upload, sweep, inDoubt>>
    BY <1>1 DEF PushPage, ErasePages, OpenPush, CommitPush, AbortPush, vars
  <2> QED
    BY <1>0, <2>1, OtherSteps
<1>2. ASSUME NEW u \in Upload,
             \/ \E c \in Claim : StartUpload(u, c)
             \/ LockUpload(u) \/ Publish(u) \/ SyncDirectory(u) \/ RecordFails(u)
      PROVE  BlobInv'
  BY <1>0, <1>2, UploadKeeps
<1>3. ASSUME NEW u \in Upload, Record(u)
      PROVE  BlobInv'
  BY <1>0, <1>3, RecordKeeps
<1>4. ASSUME NEW u \in Upload, upload' = [upload EXCEPT ![u] = NoUpload], sweep' = sweep
      PROVE  /\ u \in Upload \cup Sweeper /\ u \notin Sweeper /\ ~Holding(u)'
             /\ \A v \in Upload \ {u} : upload'[v] = upload[v]
             /\ \A t \in Sweeper \ {u} : sweep'[t] = sweep[t]
  <2>1. upload'[u].phase = "idle" /\ \A v \in Upload \ {u} : upload'[v] = upload[v]
    BY <1>0, <1>4 DEF TypeOK, NoUpload
  <2> QED
    BY <1>4, <2>1 DEF Holding
<1>5. ASSUME NEW u \in Upload, CheckHolders(u)
      PROVE  BlobInv'
  <2>1. CASE AnyHolder(upload[u].claim[2])
    <3>1. /\ upload' = [upload EXCEPT ![u] = NoUpload] /\ lock' = Unlocked(u)
          /\ upload[u].phase = "failed"
          /\ UNCHANGED <<blobs, files, volatile, sweep, inDoubt>>
      BY <1>5, <2>1 DEF CheckHolders
    <3> QED
      BY <1>0, <1>4, <3>1, StopKeeps
  <2>2. CASE ~AnyHolder(upload[u].claim[2])
    <3>1. /\ upload[u].phase = "failed"
          /\ upload' = [upload EXCEPT ![u].phase = "unheld"]
          /\ UNCHANGED <<lock, blobs, files, volatile, sweep, inDoubt>>
      BY <1>5, <2>2 DEF CheckHolders
    <3>2. upload'[u].phase = "unheld" /\ \A v \in Upload : upload'[v].claim = upload[v].claim
      BY <1>0, <3>1 DEF TypeOK
    <3>3. \A v \in Upload \ {u} : upload'[v] = upload[v]
      BY <1>0, <3>1 DEF TypeOK
    <3>4. LocksHeld'
      BY <3>1, <3>2, <3>3 DEF BlobInv, LocksHeld, Holding, Sweeping
    <3>5. PublishedThere' /\ RenamedThere' /\ RenamedByOne'
      <4>1. PublishedThere' /\ RenamedThere'
        BY <3>1, <3>2, <3>3 DEF BlobInv, PublishedThere, RenamedThere, Durable
      <4> QED
        BY <3>1, <3>3, <4>1, RenamesStay
    <3>6. \A e : AnyHolder(e)' <=> AnyHolder(e)
      BY <3>1 DEF AnyHolder, Held
    <3>7. RemovedUnheld'
      BY <2>2, <3>1, <3>2, <3>3, <3>6 DEF BlobInv, RemovedUnheld
    <3> QED
      BY <1>0, <3>1, <3>4, <3>5, <3>7 DEF BlobInv, RowDurable, Durable, Held
  <2> QED
    BY <2>1, <2>2
<1>6. ASSUME NEW u \in Upload, RemovePublished(u)
      PROVE  BlobInv'
  <2>1. /\ upload[u].phase = "unheld" /\ lock' = Unlocked(u)
        /\ Gone(upload[u].claim[2])
        /\ upload' = [upload EXCEPT ![u] = NoUpload]
        /\ UNCHANGED <<blobs, sweep, inDoubt>>
    BY <1>6 DEF RemovePublished
  <2>2. PICK d \in Digest : d = upload[u].claim[2]
    BY <1>0, <2>1, UploadRecords, ClaimParts DEF TypeOK
  <2>3. lock[d] = u /\ ~AnyHolder(d)
    BY <2>1, <2>2 DEF BlobInv, LocksHeld, RemovedUnheld, Holding
  <2> QED
    BY <1>0, <1>4, <2>1, <2>2, <2>3, RemovalKeeps
<1>7. ASSUME NEW u \in Upload, StopUpload(u)
      PROVE  BlobInv'
  <2>1. /\ upload' = [upload EXCEPT ![u] = NoUpload] /\ lock' = Unlocked(u)
        /\ upload[u].phase # "renamed" \/ CutPublishes
        /\ UNCHANGED <<blobs, files, volatile, sweep, inDoubt>>
    BY <1>7 DEF StopUpload
  <2> QED
    BY <1>0, <1>4, <2>1, StopKeeps
<1>8. ASSUME NEW c \in Claim, Settle(c)
      PROVE  BlobInv'
  BY <1>8 DEF Settle, BlobInv
<1>9. ASSUME NEW c \in Claim, Expire(c)
      PROVE  BlobInv'
  <2>1. UNCHANGED <<files, volatile, lock, upload, sweep, inDoubt>>
    BY <1>9 DEF Expire
  <2>2. \A e \in Claim : Held(e)' <=> Held(e)
    BY <1>0, <1>9 DEF Expire, Held, TypeOK
  <2> QED
    BY <1>0, <2>1, <2>2, MarkKeeps
<1>10. ASSUME NEW s \in Sweeper, SweepPass(s)
       PROVE  BlobInv'
  <2>1. UNCHANGED <<files, volatile, lock, upload, inDoubt>>
    BY <1>10 DEF SweepPass
  <2>2. \A e \in Claim : Held(e)' <=> Held(e)
    BY <1>10 DEF SweepPass, Held, MarkAfter
  <2>3. /\ sweep'[s].phase \in {"idle", "deleting"}
        /\ \A t \in Sweeper \ {s} : sweep'[t] = sweep[t]
    BY <1>0, <1>10 DEF SweepPass, TypeOK, NoSweep
  <2>4. \A t \in Sweeper : Sweeping(t)' => sweep'[t] = sweep[t]
    BY <2>3 DEF Sweeping
  <2> QED
    BY <1>0, <2>1, <2>2, <2>4, MarkKeeps
<1>11. ASSUME NEW s \in Sweeper, NEW c \in Claim, LockSwept(s, c)
       PROVE  BlobInv'
  BY <1>0, <1>11, LockSweptKeeps
<1>12. ASSUME NEW s \in Sweeper, DeleteSwept(s)
       PROVE  BlobInv'
  BY <1>0, <1>12, DeleteSweptKeeps
<1>13. ASSUME NEW s \in Sweeper, NEW K \in SUBSET Claim, upload' = upload,
              sweep' = [sweep EXCEPT ![s] = Remaining(K)]
       PROVE  /\ s \in Upload \cup Sweeper /\ s \notin Upload /\ ~Sweeping(s)'
              /\ \A v \in Upload \ {s} : upload'[v] = upload[v]
              /\ \A t \in Sweeper \ {s} : sweep'[t] = sweep[t]
  <2>1. /\ sweep'[s].phase \in {"idle", "deleting"}
        /\ \A t \in Sweeper \ {s} : sweep'[t] = sweep[t]
    BY <1>0, <1>13 DEF TypeOK, Remaining, NoSweep
  <2> QED
    BY <1>13, <2>1 DEF Sweeping
<1>14. ASSUME NEW s \in Sweeper, Unlink(s)
       PROVE  BlobInv'
  <2>1. /\ sweep[s].phase = "unlink" /\ lock' = Unlocked(s)
        /\ Gone(sweep[s].claim[2])
        /\ sweep' = [sweep EXCEPT ![s] = Remaining(sweep[s].candidates)]
        /\ UNCHANGED <<blobs, upload, inDoubt>>
    BY <1>14 DEF Unlink, Advance
  <2>2. PICK d \in Digest : d = sweep[s].claim[2]
    BY <1>0, <2>1, SweepRecords, ClaimParts DEF TypeOK
  <2>3. lock[d] = s /\ ~AnyHolder(d)
    BY <2>1, <2>2 DEF BlobInv, LocksHeld, RemovedUnheld, Sweeping
  <2>4. sweep[s].candidates \in SUBSET Claim
    BY <1>0, SweepRecords DEF TypeOK
  <2> QED
    BY <1>0, <1>13, <2>1, <2>2, <2>3, <2>4, RemovalKeeps
<1>15. ASSUME NEW s \in Sweeper, StopSweep(s)
       PROVE  BlobInv'
  <2>1. sweep[s].candidates \in SUBSET Claim
    BY <1>0, SweepRecords DEF TypeOK
  <2>2. PICK K \in SUBSET Claim : sweep' = [sweep EXCEPT ![s] = Remaining(K)]
    BY <1>15, <2>1 DEF StopSweep
  <2>3. lock' = Unlocked(s) /\ UNCHANGED <<blobs, files, volatile, upload, inDoubt>>
    BY <1>15 DEF StopSweep
  <2> QED
    BY <1>0, <1>13, <2>2, <2>3, StopKeeps
<1>16. CASE PowerLoss
  <2>1. /\ files \ volatile \subseteq files' /\ volatile' = {}
        /\ \A u \in Upload : upload'[u].phase = "idle"
        /\ \A s \in Sweeper : sweep'[s].phase = "idle"
        /\ UNCHANGED <<blobs, inDoubt>>
    BY <1>16 DEF PowerLoss, NoUpload, NoSweep
  <2>2. RowDurable'
    BY <2>1 DEF BlobInv, RowDurable, Durable, Held
  <2> QED
    BY <1>0, <2>1, <2>2 DEF BlobInv, LocksHeld, PublishedThere, RenamedThere, RenamedByOne,
       RemovedUnheld, Holding, Sweeping
<1> QED
  BY <1>1, <1>2, <1>3, <1>5, <1>6, <1>7, <1>8, <1>9, <1>10, <1>11, <1>12, <1>14, <1>15, <1>16
     DEF Next

(* For any number of accounts, uploads and servers, whenever each stops: a *)
(* blob row always has its bytes on disk, losses of power included         *)
(* (httpapi.publishBlob and Sweeper.deleteOne under BlobLock), if a commit *)
(* that was reported failed has had no effect and no request ended between *)
(* the rename of its bytes and the flush of their directory.               *)
THEOREM RowsKeepTheirBytes ==
  LateCommits = FALSE /\ CutPublishes = FALSE => (Spec => []RowHasFile)
<1> SUFFICES ASSUME LateCommits = FALSE, CutPublishes = FALSE
             PROVE  Spec => []RowHasFile
  OBVIOUS
<1>1. Init => BlobInv
  BY BlobInvInit
<1>2. BlobInv /\ [Next]_vars => BlobInv'
  BY BlobInvStep
<1>3. BlobInv => RowHasFile
  BY DEF BlobInv, RowDurable, Durable, RowHasFile
<1> QED
  BY <1>1, <1>2, <1>3, PTL DEF Spec

(* Where a request may end between the rename and the flush, a row can     *)
(* lose its bytes, but only to a loss of power: no upload records a row    *)
(* without its file and neither the sweeper nor a failed upload removes    *)
(* the file of a row.                                                      *)
BytesStay ==
  \A c \in Claim : Held(c)' /\ c[2] \notin files' =>
    PowerLoss \/ (Held(c) /\ c[2] \notin files)

(* Where a commit that was reported failed has had no effect, every step   *)
(* but a loss of power keeps the bytes of every row (publishBlob and       *)
(* deleteOne under BlobLock), whenever requests and servers stop.          *)
THEOREM BytesGoWithPowerOnly == LateCommits = FALSE => (Spec => [][BytesStay]_vars)
<1> SUFFICES ASSUME LateCommits = FALSE
             PROVE  Spec => [][BytesStay]_vars
  OBVIOUS
<1>1. ASSUME BlobInv, [Next]_vars
      PROVE  BlobInv'
  BY <1>1, BlobInvStep
<1>2. ASSUME BlobInv, Next
      PROVE  BytesStay
  <2> SUFFICES ASSUME NEW c \in Claim, Held(c)', c[2] \notin files', ~PowerLoss
               PROVE  Held(c) /\ c[2] \notin files
    BY DEF BytesStay
  <2>1. TypeOK /\ c[2] \in Digest
    BY <1>2, ClaimParts DEF BlobInv
  <2>2. Held(c)
    <3>1. ASSUME NEW u \in Upload, Record(u), ~Held(c)
          PROVE  FALSE
      <4>1. PICK e \in Claim : e = upload[u].claim
        BY <2>1, <3>1, UploadRecords DEF Record, TypeOK
      <4>2. c = e
        BY <3>1, <4>1 DEF Record, Held
      <4>3. c[2] \in files /\ files' = files
        BY <1>2, <3>1, <4>1, <4>2 DEF Record, BlobInv, PublishedThere
      <4> QED
        BY <4>3
    <3>2. ASSUME NEW e \in Claim, Settle(e)
          PROVE  FALSE
      BY <1>2, <3>2 DEF Settle, BlobInv
    <3>3. ASSUME NEW e \in Claim, Expire(e)
          PROVE  Held(c)
      BY <3>3, <2>1 DEF Expire, Held, TypeOK
    <3>4. ASSUME NEW s \in Sweeper, SweepPass(s)
          PROVE  Held(c)
      BY <3>4 DEF SweepPass, MarkAfter, Held
    <3>5. ASSUME NEW s \in Sweeper, DeleteSwept(s)
          PROVE  Held(c)
      BY <3>5, <2>1 DEF DeleteSwept, Held, TypeOK
    <3>6. ASSUME blobs' = blobs
          PROVE  Held(c)
      BY <3>6 DEF Held
    <3> QED
      BY <1>2, <3>1, <3>2, <3>3, <3>4, <3>5, <3>6 DEF Next, PushPage, ErasePages, OpenPush,
         CommitPush, AbortPush, StartUpload, LockUpload, Publish, SyncDirectory, RecordFails,
         CheckHolders, RemovePublished, StopUpload, Unlink, StopSweep, LockSwept
  <2>3. c[2] \notin files
    <3>1. AnyHolder(c[2])
      BY <2>2, HolderOfClaim
    <3>2. ASSUME NEW u \in Upload, RemovePublished(u)
          PROVE  c[2] \notin files
      <4>1. upload[u].claim[2] # c[2]
        BY <1>2, <3>1, <3>2 DEF RemovePublished, BlobInv, RemovedUnheld
      <4> QED
        BY <3>2, <4>1 DEF RemovePublished, Gone
    <3>3. ASSUME NEW s \in Sweeper, Unlink(s)
          PROVE  c[2] \notin files
      <4>1. sweep[s].claim[2] # c[2]
        BY <1>2, <3>1, <3>3 DEF Unlink, BlobInv, RemovedUnheld
      <4> QED
        BY <3>3, <4>1 DEF Unlink, Gone
    <3>4. ASSUME files \subseteq files'
          PROVE  c[2] \notin files
      BY <3>4
    <3> QED
      BY <1>2, <3>2, <3>3, <3>4 DEF Next, PushPage, ErasePages, OpenPush,
         CommitPush, AbortPush, StartUpload, LockUpload, Publish, SyncDirectory, RecordFails,
         Record, CheckHolders, StopUpload, Settle, Expire, SweepPass, DeleteSwept, StopSweep,
         LockSwept
  <2> QED
    BY <2>2, <2>3
<1> QED
  BY <1>1, <1>2, BlobInvInit, PTL DEF Spec
=============================================================================
