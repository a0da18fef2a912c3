----------------------------- MODULE BlobStore -----------------------------
(***************************************************************************)
(* The bytes of attachments: the rows that claim them, the references that *)
(* keep them, the files on disk, uploads and the sweeper.                  *)
(*                                                                         *)
(* Rows and files cannot change together, so every database transaction    *)
(* and every file operation of an upload and of a sweep is an action of    *)
(* its own, and so are the two halves of a push: the reads that decide it  *)
(* and its commit.  Each may be the last a request or a server performs.   *)
(* The power may go, and takes with it what is not flushed to disk.  A     *)
(* restored backup and an operator who removes files are left out.         *)
(***************************************************************************)
EXTENDS Integers, FiniteSets

CONSTANTS
  Account, Digest,
  Page, Body,   \* pages and pageContent bodies: their ids
  OwnerOf,      \* the account of each page and body
  Upload,       \* upload requests in flight (a bound)
  Sweeper,      \* server instances, each with its sweeper
  LateCommits,  \* whether a commit that was reported failed may still take effect
  CutPublishes, \* whether a request may end between the rename of its bytes and the
                \* flush of the directory: the flush fails, the server is killed
  None          \* no process, no page, no claim, no write

ASSUME BlobAssumption ==
  /\ OwnerOf \in [Page \cup Body -> Account]
  /\ LateCommits \in BOOLEAN /\ CutPublishes \in BOOLEAN
  /\ None \notin Upload \cup Sweeper \cup Page
  /\ Upload \cap Sweeper = {}

VARIABLES
  blobs,        \* the blobs table: claim -> its row; how old its mark is, if it has one
  storage,      \* accounts.storage_bytes, in blobs
  refs,         \* page_blob_refs: <<page, digest>>
  pages,        \* pages: is there a row, and is it a tombstone
  bodies,       \* page_content: the page of a body and the pictures its document names
  attachments,  \* attachments: claim -> is there a row, and is it a tombstone
  files,        \* the digests whose bytes are in the store's directories
  volatile,     \* digests whose entry there has changed since it was last flushed
  lock,         \* BlobLock: digest -> the process that holds it
  upload,       \* an upload request
  push,         \* account -> the write of its open push transaction
  sweep,        \* a sweeper's pass
  inDoubt,      \* claims whose insert was reported failed and is not settled
  intact        \* history: pages not tombstoned since their references were written

vars == <<blobs, storage, refs, pages, bodies, attachments, files, volatile, lock,
          upload, push, sweep, inDoubt, intact>>

----------------------------------------------------------------------------
Claim     == Account \X Digest
Presence  == {"none", "live", "dead"}
PageClaim(p, d) == <<OwnerOf[p], d>>

BodyRow   == [row : Presence, page : Page \cup {None}, names : SUBSET Digest]
NoBody    == [row |-> "none", page |-> None, names |-> {}]

(* The change of a push that touches pictures.                             *)
BodyWrite       == [body : Body, page : Page, names : SUBSET Digest, dead : BOOLEAN]
AttachmentWrite == [claim : Claim, dead : BOOLEAN]
IsBody(w)       == "body" \in DOMAIN w

NoUpload    == [phase |-> "idle", claim |-> None]
UploadState == {NoUpload} \cup
  [phase : {"receiving", "locked", "renamed", "published", "failed", "unheld"}, claim : Claim]
NoSweep     == [phase |-> "idle", claim |-> None, candidates |-> {}]
SweepState  == {NoSweep} \cup
  [phase : {"deleting"}, claim : {None}, candidates : SUBSET Claim] \cup
  [phase : {"locked", "unlink"}, claim : Claim, candidates : SUBSET Claim]

TypeOK ==
  /\ blobs \in [Claim -> {"none", "held", "marked", "expired"}]
  /\ storage \in [Account -> Nat]
  /\ refs \subseteq Page \X Digest
  /\ pages \in [Page -> Presence]
  /\ bodies \in [Body -> BodyRow]
  /\ attachments \in [Claim -> Presence]
  /\ files \subseteq Digest
  /\ volatile \subseteq Digest
  /\ lock \in [Digest -> Upload \cup Sweeper \cup {None}]
  /\ upload \in [Upload -> UploadState]
  /\ push \in [Account -> BodyWrite \cup AttachmentWrite \cup {None}]
  /\ sweep \in [Sweeper -> SweepState]
  /\ inDoubt \subseteq Claim
  /\ intact \subseteq Page

Init ==
  /\ blobs = [c \in Claim |-> "none"]
  /\ storage = [a \in Account |-> 0]
  /\ refs = {}
  /\ pages = [p \in Page |-> "none"]
  /\ bodies = [b \in Body |-> NoBody]
  /\ attachments = [c \in Claim |-> "none"]
  /\ files = {}
  /\ volatile = {}
  /\ lock = [d \in Digest |-> None]
  /\ upload = [u \in Upload |-> NoUpload]
  /\ push = [a \in Account |-> None]
  /\ sweep = [s \in Sweeper |-> NoSweep]
  /\ inDoubt = {}
  /\ intact = {}

Held(c)      == blobs[c] # "none"
AnyHolder(d) == \E a \in Account : Held(<<a, d>>)

(* A process gives up the lock it holds, if it holds one.                  *)
Unlocked(x) == [d \in Digest |-> IF lock[d] = x THEN None ELSE lock[d]]

----------------------------------------------------------------------------
(* Pushes.  One is open per account, under the account's lock.  A change   *)
(* the engine refuses for a reason of its own is no write at all.          *)

(* A page is created, tombstoned or brought back.                          *)
PushPage(p, presence) ==
  /\ push[OwnerOf[p]] = None
  /\ presence # "none"
  /\ pages' = [pages EXCEPT ![p] = presence]
  /\ intact' = IF presence = "dead" THEN intact \ {p} ELSE intact
  /\ UNCHANGED <<blobs, storage, refs, bodies, attachments, files, volatile, lock,
                 upload, push, sweep, inDoubt>>

(* store.DeleteArchivedNotebook: pages cascade to bodies and references.   *)
ErasePages(gone) ==
  /\ gone # {}
  /\ \A p \in gone : push[OwnerOf[p]] = None
  /\ pages' = [p \in Page |-> IF p \in gone THEN "none" ELSE pages[p]]
  /\ bodies' = [b \in Body |-> IF bodies[b].page \in gone THEN NoBody ELSE bodies[b]]
  /\ refs' = {r \in refs : r[1] \notin gone}
  /\ intact' = intact \ gone
  /\ UNCHANGED <<blobs, storage, attachments, files, volatile, lock,
                 upload, push, sweep, inDoubt>>

(* The account that makes a write, and the claims it must find.            *)
WriterOf(w) == IF IsBody(w) THEN OwnerOf[w.body] ELSE w.claim[1]
Needs(w) ==
  IF w.dead THEN {}
  ELSE IF IsBody(w) THEN {<<OwnerOf[w.body], d>> : d \in w.names} ELSE {w.claim}

(* The reads of ApplyChangeBatch: the parent is stored, and so is every    *)
(* blob a live entity needs.                                               *)
OpenPush(w) ==
  /\ push[WriterOf(w)] = None
  /\ IsBody(w) => OwnerOf[w.page] = OwnerOf[w.body] /\ pages[w.page] # "none"
  /\ \A c \in Needs(w) : Held(c)
  /\ push' = [push EXCEPT ![WriterOf(w)] = w]
  /\ UNCHANGED <<blobs, storage, refs, pages, bodies, attachments, files, volatile, lock,
                 upload, sweep, inDoubt, intact>>

(* What makes its transaction fail: a second body on the page, or at the   *)
(* commit, the deferred foreign key from page_blob_refs to blobs.  The     *)
(* attachments table has no such key.                                      *)
ReferenceFails(w) == IsBody(w) /\ \E c \in Needs(w) : ~Held(c)
SecondBody(w)     == IsBody(w) /\ \E b \in Body \ {w.body} : bodies[b].page = w.page

(* The references of the page are replaced by those of the document.       *)
ReferencesAfter(w) ==
  {r \in refs : r[1] # w.page} \cup (IF w.dead THEN {} ELSE {w.page} \X w.names)

CommitPush(a) ==
  /\ push[a] # None
  /\ LET w == push[a]
     IN  /\ ~ReferenceFails(w) /\ ~SecondBody(w)
         /\ \/ /\ IsBody(w)
               /\ bodies' = [bodies EXCEPT ![w.body] =
                    [row |-> IF w.dead THEN "dead" ELSE "live",
                     page |-> w.page, names |-> w.names]]
               /\ refs' = ReferencesAfter(w)
               /\ intact' = IF pages[w.page] = "live" THEN intact \cup {w.page}
                                                      ELSE intact
               /\ UNCHANGED attachments
            \/ /\ ~IsBody(w)
               /\ attachments' = [attachments EXCEPT ![w.claim] =
                                    IF w.dead THEN "dead" ELSE "live"]
               /\ UNCHANGED <<bodies, refs, intact>>
  /\ push' = [push EXCEPT ![a] = None]
  /\ UNCHANGED <<blobs, storage, pages, files, volatile, lock, upload, sweep,
                 inDoubt>>

(* It fails as above, or for any other reason, and leaves nothing behind.  *)
AbortPush(a) ==
  /\ push[a] # None
  /\ push' = [push EXCEPT ![a] = None]
  /\ UNCHANGED <<blobs, storage, refs, pages, bodies, attachments, files, volatile, lock,
                 upload, sweep, inDoubt, intact>>

----------------------------------------------------------------------------
(* Uploads: handleUploadBlob and publishBlob.                              *)

(* With a row and a file the request is answered at once (as HEAD is);     *)
(* otherwise the body is received into the staging directory, where nobody *)
(* else looks.                                                             *)
StartUpload(u, c) ==
  /\ upload[u] = NoUpload
  /\ ~(Held(c) /\ c[2] \in files)
  /\ upload' = [upload EXCEPT ![u] = [phase |-> "receiving", claim |-> c]]
  /\ UNCHANGED <<blobs, storage, refs, pages, bodies, attachments, files, volatile, lock,
                 push, sweep, inDoubt, intact>>

(* Faulty: the lock is not waited for.                                     *)
FaultyLockUpload(u) ==
  /\ upload[u].phase = "receiving"
  /\ upload' = [upload EXCEPT ![u].phase = "locked"]
  /\ UNCHANGED <<blobs, storage, refs, pages, bodies, attachments, files, volatile, lock,
                 push, sweep, inDoubt, intact>>

LockUpload(u) ==
  /\ upload[u].phase = "receiving"
  /\ lock[upload[u].claim[2]] = None
  /\ lock' = [lock EXCEPT ![upload[u].claim[2]] = u]
  /\ upload' = [upload EXCEPT ![u].phase = "locked"]
  /\ UNCHANGED <<blobs, storage, refs, pages, bodies, attachments, files, volatile,
                 push, sweep, inDoubt, intact>>

(* StagedContent.Publish: nothing at all if the file is there, or else a   *)
(* rename, of bytes that were flushed while they were staged.              *)
Publish(u) ==
  /\ upload[u].phase = "locked"
  /\ LET d == upload[u].claim[2]
     IN  \/ /\ d \in files
            /\ upload' = [upload EXCEPT ![u].phase = "published"]
            /\ UNCHANGED <<files, volatile>>
         \/ /\ d \notin files
            /\ files' = files \cup {d} /\ volatile' = volatile \cup {d}
            /\ upload' = [upload EXCEPT ![u].phase = "renamed"]
  /\ UNCHANGED <<blobs, storage, refs, pages, bodies, attachments, lock,
                 push, sweep, inDoubt, intact>>

(* Faulty: the directory is not flushed.                                   *)
FaultySyncDirectory(u) ==
  /\ upload[u].phase = "renamed"
  /\ upload' = [upload EXCEPT ![u].phase = "published"]
  /\ UNCHANGED <<blobs, storage, refs, pages, bodies, attachments, files, volatile,
                 lock, push, sweep, inDoubt, intact>>

(* syncDirectory: what the leaf directory says of the digest is durable.   *)
SyncDirectory(u) ==
  /\ upload[u].phase = "renamed"
  /\ volatile' = volatile \ {upload[u].claim[2]}
  /\ upload' = [upload EXCEPT ![u].phase = "published"]
  /\ UNCHANGED <<blobs, storage, refs, pages, bodies, attachments, files, lock,
                 push, sweep, inDoubt, intact>>

(* Faulty: the account is charged whether or not the row is new.           *)
FaultyCharged(c) == [storage EXCEPT ![c[1]] = @ + 1]

Charged(c) == IF Held(c) THEN storage ELSE [storage EXCEPT ![c[1]] = @ + 1]

(* store.RecordStoredBlob: a row that exists is left alone, its mark too.  *)
(* An insert meeting one in doubt waits until that one is settled.         *)
Record(u) ==
  /\ upload[u].phase = "published"
  /\ LET c == upload[u].claim
     IN  /\ c \notin inDoubt
         /\ blobs' = IF Held(c) THEN blobs ELSE [blobs EXCEPT ![c] = "held"]
         /\ storage' = Charged(c)
  /\ upload' = [upload EXCEPT ![u] = NoUpload]
  /\ lock' = Unlocked(u)
  /\ UNCHANGED <<refs, pages, bodies, attachments, files, volatile, push, sweep,
                 inDoubt, intact>>

(* It failed; or its commit did, and then nobody knows.                    *)
RecordFails(u) ==
  /\ upload[u].phase = "published"
  /\ LET c == upload[u].claim
     IN  inDoubt' \in {inDoubt} \cup
           (IF LateCommits /\ ~Held(c) THEN {inDoubt \cup {c}} ELSE {})
  /\ upload' = [upload EXCEPT ![u].phase = "failed"]
  /\ UNCHANGED <<blobs, storage, refs, pages, bodies, attachments, files, volatile, lock,
                 push, sweep, intact>>

(* store.AnyAccountHoldsBlob.                                              *)
CheckHolders(u) ==
  /\ upload[u].phase = "failed"
  /\ \/ /\ AnyHolder(upload[u].claim[2])
        /\ upload' = [upload EXCEPT ![u] = NoUpload]
        /\ lock' = Unlocked(u)
     \/ /\ ~AnyHolder(upload[u].claim[2])
        /\ upload' = [upload EXCEPT ![u].phase = "unheld"]
        /\ UNCHANGED lock
  /\ UNCHANGED <<blobs, storage, refs, pages, bodies, attachments, files, volatile,
                 push, sweep, inDoubt, intact>>

(* FileStore.Remove: nothing is flushed.                                   *)
Gone(d) == files' = files \ {d} /\ volatile' = volatile \cup {d}

RemovePublished(u) ==
  /\ upload[u].phase = "unheld"
  /\ Gone(upload[u].claim[2])
  /\ upload' = [upload EXCEPT ![u] = NoUpload]
  /\ lock' = Unlocked(u)
  /\ UNCHANGED <<blobs, storage, refs, pages, bodies, attachments,
                 push, sweep, inDoubt, intact>>

(* The request ends early: the bytes are refused, a step fails, the client *)
(* goes away or the server stops.  Its session, and so its lock, is gone.  *)
StopUpload(u) ==
  /\ upload[u] # NoUpload
  /\ upload[u].phase = "renamed" => CutPublishes
  /\ upload' = [upload EXCEPT ![u] = NoUpload]
  /\ lock' = Unlocked(u)
  /\ UNCHANGED <<blobs, storage, refs, pages, bodies, attachments, files, volatile,
                 push, sweep, inDoubt, intact>>

(* An insert in doubt is settled one way or the other.                     *)
Settle(c) ==
  /\ c \in inDoubt
  /\ inDoubt' = inDoubt \ {c}
  /\ \/ /\ blobs' = [blobs EXCEPT ![c] = "held"]
        /\ storage' = Charged(c)
     \/ UNCHANGED <<blobs, storage>>
  /\ UNCHANGED <<refs, pages, bodies, attachments, files, volatile, lock,
                 upload, push, sweep, intact>>

----------------------------------------------------------------------------
(* The sweeper: Sweeper.SweepOnce.                                         *)

(* Faulty: the references of a page that is deleted are kept.              *)
FaultyPruned == refs

(* store.PruneReferencesOfDeletedPages.                                    *)
Pruned == {r \in refs : pages[r[1]] # "dead"}

(* reachabilityCondition: a live page's reference or a live attachment.    *)
Reachable(c) ==
  \/ \E r \in refs : PageClaim(r[1], r[2]) = c /\ pages[r[1]] = "live"
  \/ attachments[c] = "live"

(* store.MarkUnreferencedBlobs.                                            *)
MarkAfter(c) ==
  IF ~Held(c) THEN "none"
  ELSE IF Reachable(c) THEN "held"
  ELSE IF blobs[c] = "held" THEN "marked"
  ELSE blobs[c]

(* The grace period of a mark (VIVE_BLOB_RETENTION) is over.               *)
Expire(c) ==
  /\ blobs[c] = "marked"
  /\ blobs' = [blobs EXCEPT ![c] = "expired"]
  /\ UNCHANGED <<storage, refs, pages, bodies, attachments, files, volatile, lock,
                 upload, push, sweep, inDoubt, intact>>

(* One transaction prunes, marks, unmarks and lists the candidates; it     *)
(* commits, and gives up the sweep lock, before anything is deleted.       *)
SweepPass(s) ==
  /\ sweep[s] = NoSweep
  /\ refs' = Pruned
  /\ blobs' = [c \in Claim |-> MarkAfter(c)]
  /\ LET listed == {c \in Claim : blobs'[c] = "expired"}
     IN  sweep' = [sweep EXCEPT ![s] = IF listed = {} THEN NoSweep
                     ELSE [phase |-> "deleting", claim |-> None, candidates |-> listed]]
  /\ UNCHANGED <<storage, pages, bodies, attachments, files, volatile, lock,
                 upload, push, inDoubt, intact>>

(* The pass goes on with the candidates it has left.                       *)
Remaining(candidates) ==
  IF candidates = {} THEN NoSweep
  ELSE [phase |-> "deleting", claim |-> None, candidates |-> candidates]
Advance(s) ==
  /\ sweep' = [sweep EXCEPT ![s] = Remaining(@.candidates)]
  /\ lock' = Unlocked(s)

(* Faulty: the lock is taken for the claim, not by the session.            *)
FaultyLockSwept(s, c) ==
  /\ sweep[s].phase = "deleting" /\ c \in sweep[s].candidates
  /\ lock[c[2]] = None
  /\ lock' = [lock EXCEPT ![c[2]] = c]
  /\ sweep' = [sweep EXCEPT ![s] = [phase |-> "locked", claim |-> c,
                                    candidates |-> @.candidates \ {c}]]
  /\ UNCHANGED <<blobs, storage, refs, pages, bodies, attachments, files, volatile,
                 upload, push, inDoubt, intact>>

LockSwept(s, c) ==
  /\ sweep[s].phase = "deleting" /\ c \in sweep[s].candidates
  /\ lock[c[2]] = None
  /\ lock' = [lock EXCEPT ![c[2]] = s]
  /\ sweep' = [sweep EXCEPT ![s] = [phase |-> "locked", claim |-> c,
                                    candidates |-> @.candidates \ {c}]]
  /\ UNCHANGED <<blobs, storage, refs, pages, bodies, attachments, files, volatile,
                 upload, push, inDoubt, intact>>

(* What DeleteSweptBlob re-checks: the mark, and at its commit the foreign *)
(* key.  Whether something refers to the row is not asked again.           *)
Referenced(c) == \E r \in refs : PageClaim(r[1], r[2]) = c

(* Faulty: there is no foreign key.                                        *)
FaultyDeletable(c) == blobs[c] = "expired"
Deletable(c) == blobs[c] = "expired" /\ ~Referenced(c)

OthersHold(c) == \E a \in Account \ {c[1]} : Held(<<a, c[2]>>)

(* store.DeleteSweptBlob.                                                  *)
DeleteSwept(s) ==
  /\ sweep[s].phase = "locked"
  /\ LET c == sweep[s].claim
     IN  \/ /\ Deletable(c)
            /\ blobs' = [blobs EXCEPT ![c] = "none"]
            /\ storage' = [storage EXCEPT ![c[1]] = IF @ > 0 THEN @ - 1 ELSE 0]
            /\ IF OthersHold(c) THEN Advance(s)
               ELSE /\ sweep' = [sweep EXCEPT ![s].phase = "unlink"]
                    /\ UNCHANGED lock
         \/ /\ ~Deletable(c)
            /\ Advance(s)
            /\ UNCHANGED <<blobs, storage>>
  /\ UNCHANGED <<refs, pages, bodies, attachments, files, volatile,
                 upload, push, inDoubt, intact>>

Unlink(s) ==
  /\ sweep[s].phase = "unlink"
  /\ Gone(sweep[s].claim[2])
  /\ Advance(s)
  /\ UNCHANGED <<blobs, storage, refs, pages, bodies, attachments,
                 upload, push, inDoubt, intact>>

(* A deletion fails and is left for the next pass, or the server stops.    *)
StopSweep(s) ==
  /\ sweep[s] # NoSweep
  /\ \E kept \in {{}, sweep[s].candidates} : sweep' = [sweep EXCEPT ![s] = Remaining(kept)]
  /\ lock' = Unlocked(s)
  /\ UNCHANGED <<blobs, storage, refs, pages, bodies, attachments, files, volatile,
                 upload, push, inDoubt, intact>>

(* The power goes.  Every server stops with all it was doing, and what was *)
(* not flushed may be lost or not; at the start the staging directory is   *)
(* cleared.  The database is durable.                                      *)
PowerLoss ==
  /\ \E reached \in SUBSET volatile : files' = (files \ volatile) \cup reached
  /\ volatile' = {}
  /\ lock' = [d \in Digest |-> None]
  /\ upload' = [u \in Upload |-> NoUpload]
  /\ push' = [a \in Account |-> None]
  /\ sweep' = [s \in Sweeper |-> NoSweep]
  /\ UNCHANGED <<blobs, storage, refs, pages, bodies, attachments, inDoubt, intact>>

----------------------------------------------------------------------------
Next ==
  \/ \E p \in Page, presence \in Presence : PushPage(p, presence)
  \/ \E gone \in SUBSET Page : ErasePages(gone)
  \/ \E w \in BodyWrite \cup AttachmentWrite : OpenPush(w)
  \/ \E a \in Account : CommitPush(a) \/ AbortPush(a)
  \/ \E u \in Upload, c \in Claim : StartUpload(u, c)
  \/ \E u \in Upload : \/ LockUpload(u) \/ Publish(u) \/ SyncDirectory(u)
                       \/ Record(u) \/ RecordFails(u) \/ CheckHolders(u)
                       \/ RemovePublished(u) \/ StopUpload(u)
  \/ \E c \in Claim : Settle(c) \/ Expire(c)
  \/ \E s \in Sweeper : SweepPass(s) \/ DeleteSwept(s) \/ Unlink(s) \/ StopSweep(s)
  \/ \E s \in Sweeper, c \in Claim : LockSwept(s, c)
  \/ PowerLoss

Spec == Init /\ [][Next]_vars

(* Sweepers tick for ever and a mark's grace period ends.  A session that  *)
(* holds a digest's lock ends or moves on, an insert in doubt is settled.  *)
(* Waiting for a lock is in turn, so what keeps a sweep from a digest is   *)
(* only that it fails or stops: it does not do so for ever, whether it is  *)
(* deleting or has just listed a digest nobody has locked.  No client has  *)
(* to do anything.                                                         *)
Fairness ==
  /\ \A u \in Upload : WF_vars(Publish(u) \/ SyncDirectory(u) \/ Record(u) \/ RecordFails(u)
                               \/ CheckHolders(u) \/ RemovePublished(u) \/ StopUpload(u))
  /\ \A a \in Account : WF_vars(AbortPush(a))
  /\ \A c \in Claim : WF_vars(Expire(c)) /\ WF_vars(Settle(c))
  /\ \A s \in Sweeper :
       /\ SF_vars(SweepPass(s)) /\ SF_vars(DeleteSwept(s)) /\ WF_vars(Unlink(s))
       /\ \A c \in Claim : /\ SF_vars(LockSwept(s, c))
                          /\ SF_vars(SweepPass(s) /\ lock[c[2]] = None)
FairSpec == Spec /\ Fairness

----------------------------------------------------------------------------
(* What the code promises and keeps.                                       *)

(* A row never outlives its bytes: whatever an account holds is on disk,   *)
(* and still is after a loss of power, for uploads and sweeps of one       *)
(* digest by several accounts and servers, each of which may fail or stop  *)
(* between its row and its file (BlobLock, Publish).                       *)
RowHasFile == \A c \in Claim : Held(c) => c[2] \in files

(* Every picture named by the stored document of a live page is held by    *)
(* the account, whatever was swept between the check of a push and its     *)
(* commit, as long as the page was not deleted since its references were   *)
(* written.                                                                *)
PagesKeepPictures ==
  \A b \in Body : bodies[b].row = "live" /\ bodies[b].page \in intact =>
    \A d \in bodies[b].names : Held(PageClaim(b, d))

(* An account is charged exactly what it holds: an upload charges and a    *)
(* sweep refunds once, however often either is tried and however it ends.  *)
ChargedForHeld ==
  \A a \in Account : storage[a] = Cardinality({d \in Digest : Held(<<a, d>>)})

(* Once no live page and no live attachment needs a picture, and the pages *)
(* of the account are left alone, its row goes: marking, pruning and the   *)
(* failed deletions of a pass do not keep it for ever.                     *)
EventuallySwept ==
  \A c \in Claim :
    /\ <>[]~Reachable(c)
    /\ <>[][\A a \in Account : ~CommitPush(a)]_vars
    => []<>~Held(c)

----------------------------------------------------------------------------
(* What the documents promise and the code does not keep.                  *)

(* "Nothing that points at them can be swept": a live attachment's bytes.  *)
AttachmentsKept ==
  \A c \in Claim : attachments[c] = "live" => Held(c)

(* "Once the delete is durable, no live document names those bytes": the   *)
(* pictures of a live document on a live page.                             *)
LivePagesKeepPictures ==
  \A b \in Body : bodies[b].row = "live" /\ pages[bodies[b].page] = "live" =>
    \A d \in bodies[b].names : Held(PageClaim(b, d))
=============================================================================
