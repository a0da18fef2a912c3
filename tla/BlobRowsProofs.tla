--------------------------- MODULE BlobRowsProofs ---------------------------
(***************************************************************************)
(* Proofs about the rows of BlobStore: every account is charged for what   *)
(* it holds, and the pictures of a page that was not deleted keep their    *)
(* rows.  Neither depends on what a failed commit does or on when a        *)
(* publication is cut off.                                                 *)
(***************************************************************************)
EXTENDS BlobStoreProofs, FiniteSetTheorems

----------------------------------------------------------------------------
(* What a step does to the rows.                                           *)

KeepsRows ==
  storage' = storage /\ \A c \in Claim : Held(c)' <=> Held(c)
AddsRow(c) ==
  /\ ~Held(c) /\ Held(c)'
  /\ \A e \in Claim \ {c} : Held(e)' <=> Held(e)
  /\ storage' = [storage EXCEPT ![c[1]] = @ + 1]
DropsRow(c) ==
  /\ Held(c) /\ ~Referenced(c) /\ ~Held(c)'
  /\ \A e \in Claim \ {c} : Held(e)' <=> Held(e)
  /\ storage' = [storage EXCEPT ![c[1]] = IF @ > 0 THEN @ - 1 ELSE 0]

(* An insert, of an upload or of a commit that was in doubt, charges for   *)
(* the row it adds, and does nothing when the row is there.                *)
LEMMA InsertRow ==
  ASSUME NEW c \in Claim, TypeOK, storage' = Charged(c),
         blobs' = IF Held(c) THEN blobs ELSE [blobs EXCEPT ![c] = "held"]
  PROVE  KeepsRows \/ AddsRow(c)
BY DEF TypeOK, Charged, Held, KeepsRows, AddsRow

(* A step leaves the rows and the charges as they are, adds a row and      *)
(* charges for it, or drops a row nothing refers to and refunds it.        *)
LEMMA RowsStep ==
  ASSUME TypeOK, [Next]_vars
  PROVE  \/ KeepsRows
         \/ \E c \in Claim : AddsRow(c) \/ DropsRow(c)
<1>1. ASSUME UNCHANGED <<blobs, storage>>
      PROVE  KeepsRows
  BY <1>1 DEF KeepsRows, Held
<1>2. ASSUME NEW u \in Upload, Record(u)
      PROVE  KeepsRows \/ \E c \in Claim : AddsRow(c)
  <2>1. PICK c \in Claim : c = upload[u].claim
    BY <1>2, UploadRecords DEF Record, TypeOK
  <2>2. /\ blobs' = IF Held(c) THEN blobs ELSE [blobs EXCEPT ![c] = "held"]
        /\ storage' = Charged(c)
    BY <1>2, <2>1 DEF Record
  <2> QED
    BY <2>2, InsertRow
<1>3. ASSUME NEW c \in Claim, Settle(c)
      PROVE  KeepsRows \/ AddsRow(c)
  <2>1. CASE UNCHANGED <<blobs, storage>>
    BY <1>1, <2>1
  <2>2. CASE blobs' = [blobs EXCEPT ![c] = "held"] /\ storage' = Charged(c)
    BY <2>2 DEF TypeOK, Charged, Held, KeepsRows, AddsRow
  <2> QED
    BY <1>3, <2>1, <2>2 DEF Settle
<1>4. ASSUME NEW c \in Claim, Expire(c)
      PROVE  KeepsRows
  BY <1>4 DEF Expire, KeepsRows, Held, TypeOK
<1>5. ASSUME NEW s \in Sweeper, SweepPass(s)
      PROVE  KeepsRows
  BY <1>5 DEF SweepPass, MarkAfter, KeepsRows, Held
<1>6. ASSUME NEW s \in Sweeper, DeleteSwept(s)
      PROVE  KeepsRows \/ \E c \in Claim : DropsRow(c)
  <2>1. PICK c \in Claim : c = sweep[s].claim
    BY <1>6, SweepRecords DEF DeleteSwept, TypeOK
  <2>2. CASE ~Deletable(c)
    BY <1>1, <1>6, <2>1, <2>2 DEF DeleteSwept
  <2>3. CASE Deletable(c)
    <3>1. /\ blobs' = [blobs EXCEPT ![c] = "none"]
          /\ storage' = [storage EXCEPT ![c[1]] = IF @ > 0 THEN @ - 1 ELSE 0]
      BY <1>6, <2>1, <2>3 DEF DeleteSwept
    <3>2. DropsRow(c)
      BY <2>3, <3>1 DEF Deletable, DropsRow, Held, TypeOK
    <3> QED
      BY <3>2
  <2> QED
    BY <2>2, <2>3
<1>7. ASSUME \/ \E p \in Page, presence \in Presence : PushPage(p, presence)
             \/ \E gone \in SUBSET Page : ErasePages(gone)
             \/ \E w \in BodyWrite \cup AttachmentWrite : OpenPush(w)
             \/ \E a \in Account : CommitPush(a) \/ AbortPush(a)
             \/ PowerLoss
             \/ UNCHANGED vars
      PROVE  KeepsRows
  BY <1>1, <1>7 DEF PushPage, ErasePages, OpenPush, CommitPush, AbortPush, PowerLoss, vars
<1>8. ASSUME NEW u \in Upload,
             \/ \E c \in Claim : StartUpload(u, c)
             \/ LockUpload(u) \/ Publish(u) \/ SyncDirectory(u) \/ RecordFails(u)
             \/ CheckHolders(u) \/ RemovePublished(u) \/ StopUpload(u)
      PROVE  KeepsRows
  BY <1>1, <1>8 DEF StartUpload, LockUpload, Publish, SyncDirectory, RecordFails,
     CheckHolders, RemovePublished, StopUpload
<1>9. ASSUME NEW s \in Sweeper,
             Unlink(s) \/ StopSweep(s) \/ \E c \in Claim : LockSwept(s, c)
      PROVE  KeepsRows
  BY <1>1, <1>9 DEF Unlink, StopSweep, LockSwept
<1> QED
  BY <1>1, <1>2, <1>3, <1>4, <1>5, <1>6, <1>7, <1>8, <1>9 DEF Next

----------------------------------------------------------------------------
(* Charges.                                                                *)

HeldBy(a) == {d \in Digest : Held(<<a, d>>)}

(* The inductive invariant: an account holds finitely many digests and is  *)
(* charged their number.                                                   *)
ChargeInv ==
  /\ TypeOK
  /\ \A a \in Account : IsFiniteSet(HeldBy(a)) /\ storage[a] = Cardinality(HeldBy(a))

(* An empty store holds nothing and charges nothing.                       *)
LEMMA ChargeInit == Init => ChargeInv
<1> SUFFICES ASSUME Init PROVE ChargeInv
  OBVIOUS
<1>1. \A a \in Account : HeldBy(a) = {} /\ storage[a] = 0
  BY DEF Init, HeldBy, Held, Claim
<1> QED
  BY <1>1, TypeInit, FS_EmptySet DEF ChargeInv

(* A row added or dropped is one digest of one account, and its charge     *)
(* follows; an account that loses a row was charged at least for that one. *)
LEMMA ChargeStep == ChargeInv /\ [Next]_vars => ChargeInv'
<1> SUFFICES ASSUME ChargeInv, [Next]_vars PROVE ChargeInv'
  OBVIOUS
<1>1. TypeOK /\ TypeOK'
  BY TypeStep DEF ChargeInv
<1>2. \A a \in Account, d \in Digest : <<a, d>> \in Claim
  BY DEF Claim
<1>3. CASE KeepsRows
  <2>1. \A a \in Account : HeldBy(a)' = HeldBy(a) /\ storage'[a] = storage[a]
    BY <1>2, <1>3 DEF KeepsRows, HeldBy
  <2> QED
    BY <1>1, <2>1 DEF ChargeInv
<1>4. ASSUME NEW c \in Claim, AddsRow(c)
      PROVE  ChargeInv'
  <2>1. \A a \in Account \ {c[1]} : HeldBy(a)' = HeldBy(a) /\ storage'[a] = storage[a]
    BY <1>1, <1>2, <1>4, ClaimParts DEF AddsRow, HeldBy, TypeOK
  <2>2. /\ c[2] \notin HeldBy(c[1]) /\ HeldBy(c[1])' = HeldBy(c[1]) \cup {c[2]}
        /\ storage'[c[1]] = storage[c[1]] + 1
    <3>1. c[2] \notin HeldBy(c[1]) /\ HeldBy(c[1])' = HeldBy(c[1]) \cup {c[2]}
      BY <1>2, <1>4, ClaimParts DEF AddsRow, HeldBy
    <3>2. storage'[c[1]] = storage[c[1]] + 1
      BY <1>1, <1>4, ClaimParts DEF AddsRow, TypeOK
    <3> QED
      BY <3>1, <3>2
  <2>3. /\ IsFiniteSet(HeldBy(c[1]))'
        /\ storage'[c[1]] = Cardinality(HeldBy(c[1])')
    <3>1. /\ IsFiniteSet(HeldBy(c[1]))
          /\ storage[c[1]] = Cardinality(HeldBy(c[1]))
      BY ClaimParts DEF ChargeInv
    <3> DEFINE H == HeldBy(c[1])
    <3> HIDE DEF H
    <3> QED
      BY <2>2, <3>1, FS_AddElement DEF H
  <2> QED
    BY <1>1, <2>1, <2>3 DEF ChargeInv
<1>5. ASSUME NEW c \in Claim, DropsRow(c)
      PROVE  ChargeInv'
  <2>1. \A a \in Account \ {c[1]} : HeldBy(a)' = HeldBy(a) /\ storage'[a] = storage[a]
    BY <1>1, <1>2, <1>5, ClaimParts DEF DropsRow, HeldBy, TypeOK
  <2>2. c[2] \in HeldBy(c[1]) /\ HeldBy(c[1])' = HeldBy(c[1]) \ {c[2]}
    BY <1>2, <1>5, ClaimParts DEF DropsRow, HeldBy
  <2>3. storage[c[1]] > 0
    <3>1. /\ IsFiniteSet(HeldBy(c[1])) /\ HeldBy(c[1]) # {}
          /\ storage[c[1]] = Cardinality(HeldBy(c[1]))
      BY <2>2, ClaimParts DEF ChargeInv
    <3>2. Cardinality(HeldBy(c[1])) # 0
      BY <3>1, FS_EmptySet
    <3> QED
      BY <1>1, <3>1, <3>2, ClaimParts DEF TypeOK
  <2>4. storage'[c[1]] = storage[c[1]] - 1
    BY <1>1, <1>5, <2>3, ClaimParts DEF DropsRow, TypeOK
  <2>5. /\ IsFiniteSet(HeldBy(c[1]))'
        /\ storage'[c[1]] = Cardinality(HeldBy(c[1])')
    <3>1. /\ IsFiniteSet(HeldBy(c[1]))
          /\ storage[c[1]] = Cardinality(HeldBy(c[1]))
      BY ClaimParts DEF ChargeInv
    <3> DEFINE H == HeldBy(c[1])
    <3> HIDE DEF H
    <3> QED
      BY <2>2, <2>4, <3>1, FS_RemoveElement DEF H
  <2> QED
    BY <1>1, <2>1, <2>5 DEF ChargeInv
<1> QED
  BY <1>1, <1>3, <1>4, <1>5, RowsStep

(* An account is charged exactly what it holds: however many uploads and   *)
(* sweeps of a digest there are, however each of them ends, and whether or *)
(* not a commit that was reported failed takes effect later, a row is      *)
(* charged once (RecordStoredBlob) and refunded once (DeleteSweptBlob).    *)
THEOREM HoldersAreCharged == Spec => []ChargedForHeld
<1>1. ChargeInv => ChargedForHeld
  BY DEF ChargeInv, ChargedForHeld, HeldBy
<1> QED
  BY <1>1, ChargeInit, ChargeStep, PTL DEF Spec

----------------------------------------------------------------------------
(* Pictures.                                                               *)

ForeignKey == \A r \in refs : Held(PageClaim(r[1], r[2]))
OneOwner ==
  /\ \A b \in Body : bodies[b].page \in Page => OwnerOf[bodies[b].page] = OwnerOf[b]
  /\ \A a \in Account : push[a] # None /\ IsBody(push[a]) =>
       OwnerOf[push[a].page] = OwnerOf[push[a].body]
NamesReferenced ==
  \A b \in Body : bodies[b].row = "live" /\ bodies[b].page \in intact =>
    \A d \in bodies[b].names : <<bodies[b].page, d>> \in refs
IntactThere == \A p \in intact : pages[p] # "dead"

(* The inductive invariant: what a page refers to is held, as the foreign  *)
(* key of page_blob_refs has it; a body and its page are of one account,   *)
(* also those of a write under way; and the document of a page that was    *)
(* not deleted since names only what the page refers to, for which the     *)
(* page has to be one the sweeper does not prune.                          *)
PictureInv ==
  TypeOK /\ ForeignKey /\ OneOwner /\ NamesReferenced /\ IntactThere

(* An empty store has no page and no reference.                            *)
LEMMA PictureInit == Init => PictureInv
<1> SUFFICES ASSUME Init PROVE PictureInv
  OBVIOUS
<1>1. \A b \in Body : bodies[b].page \notin Page /\ bodies[b].row = "none"
  BY BlobAssumption DEF Init, NoBody
<1> QED
  BY <1>1, TypeInit DEF Init, PictureInv, ForeignKey, OneOwner, NamesReferenced,
     IntactThere

(* A reference is a page and a digest, and so is the claim it needs.       *)
LEMMA ReferenceParts ==
  ASSUME TypeOK, NEW r \in refs
  PROVE  /\ r[1] \in Page /\ r[2] \in Digest /\ r = <<r[1], r[2]>>
         /\ PageClaim(r[1], r[2]) \in Claim
BY BlobAssumption DEF TypeOK, PageClaim, Claim

(* No step takes the row of a claim a page refers to: the foreign key.     *)
LEMMA ReferencedRowsStay ==
  ASSUME TypeOK, ForeignKey, [Next]_vars
  PROVE  \A r \in refs : Held(PageClaim(r[1], r[2]))'
<1> SUFFICES ASSUME NEW r \in refs
             PROVE  Held(PageClaim(r[1], r[2]))'
  OBVIOUS
<1> DEFINE c == PageClaim(r[1], r[2])
<1>1. c \in Claim /\ Held(c) /\ Referenced(c)
  BY ReferenceParts DEF ForeignKey, Referenced
<1> HIDE DEF c
<1> QED
  BY <1>1, RowsStep DEF KeepsRows, AddsRow, DropsRow, c

(* A write of an account's body to a page is one or the other, and names   *)
(* digests.                                                                *)
LEMMA WriteKinds ==
  /\ \A w \in BodyWrite : /\ IsBody(w) /\ w.body \in Body /\ w.page \in Page
                          /\ w.names \subseteq Digest
  /\ \A w \in AttachmentWrite : ~IsBody(w)
  /\ \A w \in BodyWrite \cup AttachmentWrite : WriterOf(w) \in Account
BY BlobAssumption, ClaimParts DEF BodyWrite, AttachmentWrite, IsBody, WriterOf

(* A commit of a body.  Its page has no other body, so replacing the       *)
(* page's references by the document's leaves no other document without    *)
(* its own; and what the new references need is held, although the sweeper *)
(* may have been at work since the push looked.                            *)
LEMMA CommitBody ==
  ASSUME PictureInv, TypeOK', [Next]_vars, NEW a \in Account, CommitPush(a),
         IsBody(push[a])
  PROVE  ForeignKey' /\ NamesReferenced' /\ IntactThere' /\ OneOwner'
<1> DEFINE w == push[a]
<1>1. /\ w.body \in Body /\ w.page \in Page /\ w.names \subseteq Digest
      /\ OwnerOf[w.page] = OwnerOf[w.body]
  <2>1. w # None /\ w \in BodyWrite
    BY WriteKinds DEF CommitPush, PictureInv, TypeOK
  <2> QED
    BY <2>1, WriteKinds DEF PictureInv, OneOwner
<1>2. /\ bodies' = [bodies EXCEPT ![w.body] =
                      [row |-> IF w.dead THEN "dead" ELSE "live",
                       page |-> w.page, names |-> w.names]]
      /\ refs' = ReferencesAfter(w)
      /\ intact' = IF pages[w.page] = "live" THEN intact \cup {w.page} ELSE intact
      /\ pages' = pages /\ push' = [push EXCEPT ![a] = None] /\ blobs' = blobs
      /\ ~ReferenceFails(w) /\ ~SecondBody(w)
  BY <1>1 DEF CommitPush
<1>3. \A b \in Body \ {w.body} : bodies'[b] = bodies[b] /\ bodies[b].page # w.page
  BY <1>1, <1>2 DEF SecondBody, PictureInv, TypeOK
<1>4. /\ bodies'[w.body].page = w.page /\ bodies'[w.body].names = w.names
      /\ bodies'[w.body].row = "live" => ~w.dead
  BY <1>1, <1>2 DEF PictureInv, TypeOK
<1>5. ForeignKey'
  <2> SUFFICES ASSUME NEW r \in refs'
               PROVE  Held(PageClaim(r[1], r[2]))'
    BY DEF ForeignKey
  <2>1. CASE r \in refs
    BY <2>1, ReferencedRowsStay DEF PictureInv
  <2>2. CASE r \notin refs
    <3>1. ~w.dead /\ r[1] = w.page /\ r[2] \in w.names
      BY <1>2, <2>2 DEF ReferencesAfter
    <3>2. Held(<<OwnerOf[w.body], r[2]>>)
      BY <1>1, <1>2, <3>1 DEF ReferenceFails, Needs
    <3> QED
      BY <1>1, <1>2, <3>1, <3>2 DEF Held, PageClaim
  <2> QED
    BY <2>1, <2>2
<1>6. NamesReferenced'
  <2> SUFFICES ASSUME NEW b \in Body, bodies'[b].row = "live",
                      bodies'[b].page \in intact', NEW d \in bodies'[b].names
               PROVE  <<bodies'[b].page, d>> \in refs'
    BY DEF NamesReferenced
  <2>1. CASE b = w.body
    BY <1>2, <1>4, <2>1 DEF ReferencesAfter
  <2>2. CASE b # w.body
    <3>1. bodies'[b] = bodies[b] /\ bodies[b].page # w.page
      BY <1>3, <2>2
    <3>2. <<bodies[b].page, d>> \in refs
      BY <1>2, <3>1 DEF PictureInv, NamesReferenced
    <3> QED
      BY <1>2, <3>1, <3>2 DEF ReferencesAfter
  <2> QED
    BY <2>1, <2>2
<1>7. IntactThere'
  BY <1>2 DEF PictureInv, IntactThere
<1>8. OneOwner'
  <2>1. \A b \in Body : bodies'[b].page \in Page => OwnerOf[bodies'[b].page] = OwnerOf[b]
    BY <1>1, <1>3, <1>4 DEF PictureInv, OneOwner
  <2>2. \A x \in Account : push'[x] # None => push'[x] = push[x]
    BY <1>2 DEF PictureInv, TypeOK
  <2> QED
    BY <2>1, <2>2 DEF PictureInv, OneOwner
<1> QED
  BY <1>5, <1>6, <1>7, <1>8

(* Every step keeps the pictures: a page that is deleted is no longer one  *)
(* to keep, one that goes takes its bodies along, and the sweeper prunes   *)
(* the references of deleted pages only.                                   *)
LEMMA PictureStep == PictureInv /\ [Next]_vars => PictureInv'
<1> SUFFICES ASSUME PictureInv, [Next]_vars PROVE PictureInv'
  OBVIOUS
<1>0. TypeOK /\ TypeOK'
  BY TypeStep DEF PictureInv
<1>1. \A r \in refs : Held(PageClaim(r[1], r[2]))'
  BY ReferencedRowsStay DEF PictureInv
<1>2. ASSUME refs' \subseteq refs PROVE ForeignKey'
  BY <1>1, <1>2 DEF ForeignKey
<1>3. ASSUME \A a \in Account : push'[a] # None => push'[a] = push[a]
      PROVE  \A a \in Account : push'[a] # None /\ IsBody(push'[a]) =>
               OwnerOf[push'[a].page] = OwnerOf[push'[a].body]
  BY <1>3 DEF PictureInv, OneOwner
<1>4. ASSUME UNCHANGED <<refs, pages, bodies, intact>>,
             \A a \in Account : push'[a] # None => push'[a] = push[a]
      PROVE  PictureInv'
  BY <1>0, <1>2, <1>3, <1>4 DEF PictureInv, OneOwner, NamesReferenced, IntactThere
<1>5. ASSUME NEW p \in Page, NEW presence \in Presence, PushPage(p, presence)
      PROVE  PictureInv'
  <2>1. UNCHANGED <<refs, bodies, push>> /\ intact' \subseteq intact
    BY <1>5 DEF PushPage
  <2>2. IntactThere'
    BY <1>0, <1>5 DEF PushPage, PictureInv, IntactThere, TypeOK
  <2>3. NamesReferenced'
    BY <2>1 DEF PictureInv, NamesReferenced
  <2> QED
    BY <1>0, <1>2, <2>1, <2>2, <2>3 DEF PictureInv, OneOwner
<1>6. ASSUME NEW gone \in SUBSET Page, ErasePages(gone)
      PROVE  PictureInv'
  <2>1. /\ refs' = {r \in refs : r[1] \notin gone} /\ intact' = intact \ gone
        /\ \A p \in Page \ gone : pages'[p] = pages[p]
        /\ push' = push
        /\ \A b \in Body : bodies'[b] = IF bodies[b].page \in gone THEN NoBody ELSE bodies[b]
    BY <1>6 DEF ErasePages
  <2>2. IntactThere'
    BY <1>0, <2>1 DEF PictureInv, IntactThere, TypeOK
  <2>3. OneOwner'
    <3>1. NoBody.page \notin Page
      BY BlobAssumption DEF NoBody
    <3> QED
      BY <1>3, <2>1, <3>1 DEF PictureInv, OneOwner
  <2>4. NamesReferenced'
    <3>1. NoBody.row # "live"
      BY DEF NoBody
    <3> QED
      BY <2>1, <3>1 DEF PictureInv, NamesReferenced
  <2> QED
    BY <1>0, <1>2, <2>1, <2>2, <2>3, <2>4 DEF PictureInv
<1>7. ASSUME NEW w \in BodyWrite \cup AttachmentWrite, OpenPush(w)
      PROVE  PictureInv'
  <2>1. UNCHANGED <<refs, pages, bodies, intact>> /\ push' = [push EXCEPT ![WriterOf(w)] = w]
    BY <1>7 DEF OpenPush
  <2>2. OneOwner'
    <3>1. IsBody(w) => OwnerOf[w.page] = OwnerOf[w.body]
      BY <1>7 DEF OpenPush
    <3>2. \A a \in Account : push'[a] = push[a] \/ push'[a] = w
      BY <1>0, <2>1 DEF TypeOK
    <3> QED
      BY <2>1, <3>1, <3>2 DEF PictureInv, OneOwner
  <2> QED
    BY <1>0, <1>2, <2>1, <2>2 DEF PictureInv, NamesReferenced, IntactThere
<1>8. ASSUME NEW a \in Account, CommitPush(a)
      PROVE  PictureInv'
  <2>1. CASE IsBody(push[a])
    BY <1>0, <1>8, <2>1, CommitBody DEF PictureInv
  <2>2. CASE ~IsBody(push[a])
    BY <1>0, <1>4, <1>8, <2>2 DEF CommitPush, TypeOK
  <2> QED
    BY <2>1, <2>2
<1>9. ASSUME (\E a \in Account : AbortPush(a)) \/ PowerLoss \/ UNCHANGED vars
      PROVE  PictureInv'
  BY <1>0, <1>4, <1>9 DEF AbortPush, PowerLoss, vars, TypeOK
<1>10. ASSUME NEW s \in Sweeper, SweepPass(s)
       PROVE  PictureInv'
  <2>1. refs' = Pruned /\ UNCHANGED <<pages, bodies, intact, push>>
    BY <1>10 DEF SweepPass
  <2>2. NamesReferenced'
    <3> SUFFICES ASSUME NEW b \in Body, bodies[b].row = "live", bodies[b].page \in intact,
                        NEW d \in bodies[b].names
                 PROVE  <<bodies[b].page, d>> \in Pruned
      BY <2>1 DEF NamesReferenced
    <3>1. <<bodies[b].page, d>> \in refs /\ pages[bodies[b].page] # "dead"
      BY DEF PictureInv, NamesReferenced, IntactThere
    <3> QED
      BY <3>1 DEF Pruned
  <2> QED
    BY <1>0, <1>2, <2>1, <2>2 DEF PictureInv, OneOwner, IntactThere, Pruned
<1>11. ASSUME NEW u \in Upload,
              \/ \E c \in Claim : StartUpload(u, c)
              \/ LockUpload(u) \/ Publish(u) \/ SyncDirectory(u) \/ Record(u)
              \/ RecordFails(u) \/ CheckHolders(u) \/ RemovePublished(u) \/ StopUpload(u)
       PROVE  PictureInv'
  BY <1>4, <1>11 DEF StartUpload, LockUpload, Publish, SyncDirectory, Record, RecordFails,
     CheckHolders, RemovePublished, StopUpload
<1>12. ASSUME NEW c \in Claim, Settle(c) \/ Expire(c)
       PROVE  PictureInv'
  BY <1>4, <1>12 DEF Settle, Expire
<1>13. ASSUME NEW s \in Sweeper,
              \/ DeleteSwept(s) \/ Unlink(s) \/ StopSweep(s)
              \/ \E c \in Claim : LockSwept(s, c)
       PROVE  PictureInv'
  BY <1>4, <1>13 DEF DeleteSwept, Unlink, StopSweep, LockSwept
<1> QED
  BY <1>5, <1>6, <1>7, <1>8, <1>9, <1>10, <1>11, <1>12, <1>13 DEF Next

(* Every picture a live page's stored document names is held, as long as   *)
(* the page was not deleted since its references were written: whatever    *)
(* the sweeper did between the reads of a push and its commit              *)
(* (ApplyChangeBatch, DeleteSweptBlob, PruneReferencesOfDeletedPages).     *)
THEOREM PicturesAreKept == Spec => []PagesKeepPictures
<1>1. PictureInv => PagesKeepPictures
  <2> SUFFICES ASSUME PictureInv, NEW b \in Body, bodies[b].row = "live",
                      bodies[b].page \in intact, NEW d \in bodies[b].names
               PROVE  Held(PageClaim(b, d))
    BY DEF PagesKeepPictures
  <2>1. <<bodies[b].page, d>> \in refs /\ OwnerOf[bodies[b].page] = OwnerOf[b]
    BY DEF PictureInv, TypeOK, NamesReferenced, OneOwner
  <2> QED
    BY <2>1 DEF PictureInv, ForeignKey, PageClaim
<1> QED
  BY <1>1, PictureInit, PictureStep, PTL DEF Spec
=============================================================================
