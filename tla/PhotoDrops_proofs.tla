------------------------- MODULE PhotoDrops_proofs -------------------------
(***************************************************************************)
(* PhotoDrops, for every set of drops, smokes, photos and requests, every  *)
(* cap, every set of operations and every set of faults: first what holds  *)
(* of every interleaving, then what holds of one request at a time.        *)
(***************************************************************************)
EXTENDS PhotoDrops, FiniteSetTheorems, TLAPS

\* Every variable keeps its type: a step writes only ids of the right kind.
LEMMA TypeStep == TypeOK /\ [Next]_vars => TypeOK'
<1> SUFFICES ASSUME TypeOK, [Next]_vars
             PROVE  TypeOK'
  OBVIOUS
<1> USE DEF TypeOK, Stages, Idle, Goto, Done, Advance, At, Starts, Stageable,
            Claimable, dropVars, smokeVars, photoVars, objVars
<1>1. ASSUME NEW r \in Requests, Put(r) \/ PutFails(r) \/ InsertStaged(r)
                                  \/ InsertAttached(r) \/ InsertUnanswered(r)
                                  \/ InsertFails(r) \/ Cleanup(r)
      PROVE  TypeOK'
  <2>1. CASE Put(r)  BY <2>1 DEF Put
  <2>2. CASE PutFails(r)  BY <2>2 DEF PutFails
  <2>3. CASE InsertStaged(r)  BY <2>3 DEF InsertStaged, StageRow
  <2>4. CASE InsertAttached(r)  BY <2>4 DEF InsertAttached, AttachRow
  <2>5. CASE InsertFails(r)  BY <2>5 DEF InsertFails
  <2>6. CASE Cleanup(r)
    <3>1. bucket' \subseteq bucket
      BY <2>6 DEF Cleanup
    <3>2. QED  BY <2>6, <3>1 DEF Cleanup
  <2>7. CASE InsertUnanswered(r)
    <3>1. CASE StageRow(r)  BY <2>7, <3>1 DEF InsertUnanswered, StageRow
    <3>2. CASE AttachRow(r)  BY <2>7, <3>2 DEF InsertUnanswered, AttachRow
    <3>3. QED  BY <2>7, <3>1, <3>2 DEF InsertUnanswered
  <2>8. QED  BY <1>1, <2>1, <2>2, <2>3, <2>4, <2>5, <2>6, <2>7
<1>2. ASSUME NEW r \in Requests, ClaimRefused(r) \/ ClaimPick(r)
                                  \/ ClaimCommit(r) \/ ClaimFails(r)
      PROVE  TypeOK'
  <2>1. CASE ClaimRefused(r)  BY <2>1 DEF ClaimRefused
  <2>2. CASE ClaimPick(r)  BY <2>2 DEF ClaimPick, StagedIn
  <2>3. CASE ClaimCommit(r)
    BY <2>3 DEF ClaimCommit, MovePhotos, BindDrop, StampStart
  <2>4. CASE ClaimFails(r)  BY <2>4 DEF ClaimFails
  <2>5. QED  BY <1>2, <2>1, <2>2, <2>3, <2>4
<1>3. ASSUME NEW r \in Requests, NEW d \in Drops, NEW s \in Smokes, ClaimRead(r, d, s)
      PROVE  TypeOK'
  BY <1>3 DEF ClaimRead
<1>4. ASSUME NEW r \in Requests, RemoveRow(r) \/ DeleteCommit(r) \/ RemovalFails(r)
      PROVE  TypeOK'
  <2>1. CASE RemoveRow(r)  BY <2>1 DEF RemoveRow
  <2>2. CASE DeleteCommit(r)  BY <2>2 DEF DeleteCommit, ForeignKeyActions
  <2>3. CASE RemovalFails(r)  BY <2>3 DEF RemovalFails
  <2>4. QED  BY <1>4, <2>1, <2>2, <2>3
<1>5. ASSUME NEW r \in Requests, SweepStaged(r) \/ SweepObjects(r) \/ SweepRows(r)
                                  \/ SweepFails(r) \/ OpenDrop(r) \/ Crash(r)
      PROVE  TypeOK'
  <2>1. CASE SweepStaged(r)  BY <2>1 DEF SweepStaged, Sweepable
  <2>2. CASE SweepObjects(r)
    <3>1. bucket' \subseteq bucket
      BY <2>2 DEF SweepObjects
    <3>2. QED  BY <2>2, <3>1 DEF SweepObjects
  <2>3. CASE SweepRows(r)  BY <2>3 DEF SweepRows
  <2>4. CASE SweepFails(r)  BY <2>4 DEF SweepFails
  <2>5. CASE OpenDrop(r)  BY <2>5 DEF OpenDrop
  <2>6. CASE Crash(r)  BY <2>6 DEF Crash
  <2>7. QED  BY <1>5, <2>1, <2>2, <2>3, <2>4, <2>5, <2>6
<1>6. ASSUME NEW r \in Requests, NEW d \in Drops, NEW p \in Photos,
             StageBegin(r, d, p) \/ RemoveThroughLink(r, d, p)
      PROVE  TypeOK'
  BY <1>6 DEF StageBegin, RemoveThroughLink
<1>7. ASSUME NEW r \in Requests, NEW s \in Smokes, NEW p \in Photos, AddBegin(r, s, p)
      PROVE  TypeOK'
  BY <1>7 DEF AddBegin
<1>8. ASSUME NEW r \in Requests, NEW p \in Photos, RemoveFromSmoke(r, p)
      PROVE  TypeOK'
  BY <1>8 DEF RemoveFromSmoke
<1>9. ASSUME NEW r \in Requests, NEW s \in Smokes, NEW ds \in SUBSET Drops,
             SaveSmoke(r, s, ds)
      PROVE  TypeOK'
  BY <1>9 DEF SaveSmoke
<1>10. ASSUME NEW r \in Requests, NEW s \in Smokes, DeleteBegin(r, s)
       PROVE  TypeOK'
  BY <1>10 DEF DeleteBegin, AttachedTo
<1>11. ASSUME NEW r \in Requests, OpenBegin(r)
       PROVE  TypeOK'
  BY <1>11 DEF OpenBegin, Doomed
<1>12. ASSUME NEW d \in Drops, Age(d)
       PROVE  TypeOK'
  BY <1>12 DEF Age
<1>13. CASE UNCHANGED vars  BY <1>13 DEF vars
<1>14. QED
  BY <1>1, <1>2, <1>3, <1>4, <1>5, <1>6, <1>7, <1>8, <1>9, <1>10, <1>11, <1>12, <1>13
  DEF Next, Step, Start

\* The types of the tables and of the requests in flight hold in every
\* reachable state.
THEOREM TypeCorrect == Spec => []TypeOK
<1>1. Init => TypeOK
  BY DEF Init, TypeOK, Idle, Stages
<1>2. QED  BY <1>1, TypeStep, PTL DEF Spec

-----------------------------------------------------------------------------
(* The inductive invariant.  OnePlace and VisibleStagedHasBytes are not      *)
(* inductive: they depend on what the requests in flight still hold.        *)

Uploading == {"put_staged", "put_attached", "insert_staged", "insert_attached", "cleanup"}

\* A photo id nobody was given has no row and no request.
FreshIsUnused ==
  \A p \in Photos : p \notin minted =>
    /\ staged[p] = NoDrop /\ attached[p] = NoSmoke /\ p \notin unanswered
    /\ \A r \in Requests : p \notin req[r].photos

\* An upload in flight is alone with its photo, which has no row yet, unless its row
\* committed unanswered and it is cleaning up.
UploadIsAlone ==
  \A r \in Requests : req[r].pc \in Uploading =>
    \A p \in req[r].photos :
      \/ req[r].pc = "cleanup" /\ p \in unanswered
      \/ /\ staged[p] = NoDrop /\ attached[p] = NoSmoke /\ p \notin unanswered
         /\ \A q \in Requests : q # r => p \notin req[q].photos

\* Bytes before rows.
InsertHasBytes ==
  \A r \in Requests : req[r].pc \in {"insert_staged", "insert_attached"} =>
    req[r].photos \subseteq bucket

\* Objects about to be deleted by a removal or a deletion are staged nowhere.
UnlinkIsUnstaged ==
  \A r \in Requests : req[r].pc \in {"remove_attached", "delete", "unlink"} =>
    \A p \in req[r].photos : staged[p] = NoDrop

\* A sweep works on drops whose link is dead, or that another sweep took.
SweepIsDead ==
  \A r \in Requests :
    /\ req[r].pc \in {"sweep_staged", "sweep_objects", "sweep_rows"} =>
         \A d \in req[r].drops : dropRow[d] = "swept" \/ (dropRow[d] = "row" /\ age[d] > 0)
    /\ req[r].pc = "sweep_objects" =>
         \A p \in req[r].photos : staged[p] = NoDrop \/ age[staged[p]] > 0

\* Behind a live link, staged bytes are in the bucket, unless their upload was not answered.
LiveStagedHasBytes ==
  \A p \in Photos :
    (staged[p] # NoDrop /\ age[staged[p]] = 0 /\ p \notin unanswered) => p \in bucket

PhotoInv ==
  /\ TypeOK
  /\ OnePlace
  /\ NoForeignRow
  /\ FreshIsUnused
  /\ UploadIsAlone
  /\ InsertHasBytes
  /\ UnlinkIsUnstaged
  /\ SweepIsDead
  /\ LiveStagedHasBytes

\* The empty tables satisfy the invariant.
LEMMA PhotoInvInit == Init => PhotoInv
  BY SentinelAssumption
  DEF Init, PhotoInv, TypeOK, OnePlace, NoForeignRow, FreshIsUnused, UploadIsAlone,
      InsertHasBytes, UnlinkIsUnstaged, SweepIsDead, LiveStagedHasBytes,
      Idle, Stages, Uploading

\* Every step of every request, and every fault, keeps it.
LEMMA PhotoInvStep == PhotoInv /\ [Next]_vars => PhotoInv'
<1> SUFFICES ASSUME PhotoInv, [Next]_vars
             PROVE  PhotoInv'
  OBVIOUS
<1>0. TypeOK'
  BY TypeStep DEF PhotoInv
<1> USE <1>0, SentinelAssumption
    DEF PhotoInv, TypeOK, OnePlace, NoForeignRow, FreshIsUnused, UploadIsAlone,
        InsertHasBytes, UnlinkIsUnstaged, SweepIsDead, LiveStagedHasBytes,
        Stages, Uploading, Idle, Goto, Done, Advance, At, Starts, Stageable, Claimable,
        dropVars, smokeVars, photoVars, objVars
<1>1. ASSUME NEW r \in Requests, Put(r)  PROVE PhotoInv'
  <2>1. /\ req[r].pc \in {"put_staged", "put_attached"}
        /\ req'[r].pc \in {"insert_staged", "insert_attached"}
        /\ req'[r].photos = req[r].photos
        /\ \A q \in Requests : q # r => req'[q] = req[q]
        /\ bucket' = bucket \union req[r].photos
        /\ UNCHANGED <<dropVars, smokeVars, photoVars, minted, unanswered>>
    BY <1>1 DEF Put
  <2>2. FreshIsUnused' /\ OnePlace' /\ NoForeignRow'
    <3>1. FreshIsUnused'
      BY <2>1
    <3>2. OnePlace' /\ NoForeignRow'
      BY <2>1
    <3>3. QED  BY <3>1, <3>2
  <2>3. UploadIsAlone'
    <3> SUFFICES ASSUME NEW q \in Requests, req'[q].pc \in Uploading,
                        NEW x \in req'[q].photos
                 PROVE  \/ req'[q].pc = "cleanup" /\ x \in unanswered'
                        \/ /\ staged'[x] = NoDrop /\ attached'[x] = NoSmoke /\ x \notin unanswered'
                           /\ \A t \in Requests : t # q => x \notin req'[t].photos
      BY DEF UploadIsAlone
    <3>1. /\ req[q].pc \in Uploading /\ x \in req[q].photos
          /\ req'[q].pc = "cleanup" <=> req[q].pc = "cleanup"
      BY <2>1
    <3>2. \/ req[q].pc = "cleanup" /\ x \in unanswered
          \/ /\ staged[x] = NoDrop /\ attached[x] = NoSmoke /\ x \notin unanswered
             /\ \A t \in Requests : t # q => x \notin req[t].photos
      BY <3>1
    <3>3. QED  BY <2>1, <3>1, <3>2
  <2>4. InsertHasBytes' /\ LiveStagedHasBytes'
    <3>1. InsertHasBytes'
      <4> SUFFICES ASSUME NEW q \in Requests, req'[q].pc \in {"insert_staged", "insert_attached"}
                   PROVE  req'[q].photos \subseteq bucket'
        OBVIOUS
      <4>1. q # r => req[q].pc \in {"insert_staged", "insert_attached"} /\ req[q].photos \subseteq bucket
        BY <2>1
      <4>2. QED  BY <2>1, <4>1
    <3>2. LiveStagedHasBytes'
      <4>1. /\ staged' = staged /\ age' = age /\ unanswered' = unanswered
            /\ bucket \subseteq bucket' /\ LiveStagedHasBytes
        BY <2>1
      <4>2. QED  BY <4>1
    <3>3. QED  BY <3>1, <3>2
  <2>5. UnlinkIsUnstaged'
    BY <2>1
  <2>6. SweepIsDead'
    <3> SUFFICES ASSUME NEW q \in Requests
                 PROVE  SweepIsDead!(q)'
      BY DEF SweepIsDead
    <3>1. CASE q = r  BY <2>1, <3>1
    <3>2. CASE q # r
      <4>1. req'[q] = req[q] /\ dropRow' = dropRow /\ age' = age /\ staged' = staged
        BY <2>1, <3>2
      <4>2. SweepIsDead!(q)
        OBVIOUS
      <4>3. QED  BY <4>1, <4>2
    <3>3. QED  BY <3>1, <3>2
  <2>7. QED  BY <2>2, <2>3, <2>4, <2>5, <2>6
<1>2. ASSUME NEW r \in Requests, PutFails(r)  PROVE PhotoInv'
  BY <1>2 DEF PutFails
<1>3. ASSUME NEW r \in Requests, InsertStaged(r)  PROVE PhotoInv'
  BY <1>3 DEF InsertStaged, StageRow
<1>4. ASSUME NEW r \in Requests, InsertAttached(r)  PROVE PhotoInv'
  BY <1>4 DEF InsertAttached, AttachRow
<1>5. ASSUME NEW r \in Requests, InsertFails(r)  PROVE PhotoInv'
  BY <1>5 DEF InsertFails
<1>6. ASSUME NEW r \in Requests, Cleanup(r)  PROVE PhotoInv'
  <2>1. \A p \in Photos \ req[r].photos : p \in bucket => p \in bucket'
    BY <1>6 DEF Cleanup, Deletable
  <2>2. bucket' \subseteq bucket
    BY <1>6 DEF Cleanup
  <2>3. \A p \in req[r].photos : staged[p] = NoDrop \/ p \in unanswered
    BY <1>6 DEF Cleanup
  <2>4. QED  BY <1>6, <2>1, <2>2, <2>3 DEF Cleanup
<1>7. ASSUME NEW r \in Requests, ClaimRefused(r) \/ ClaimFails(r)  PROVE PhotoInv'
  <2>1. Done(r) /\ UNCHANGED <<dropVars, smokeVars, photoVars, objVars>>
    BY <1>7 DEF ClaimRefused, ClaimFails
  <2>2. QED  BY <2>1
<1>8. ASSUME NEW r \in Requests, ClaimPick(r)  PROVE PhotoInv'
  BY <1>8 DEF ClaimPick, StagedIn
<1>9. ASSUME NEW r \in Requests, ClaimCommit(r)  PROVE PhotoInv'
  BY <1>9 DEF ClaimCommit, MovePhotos, BindDrop, StampStart
<1>10. ASSUME NEW r \in Requests, NEW d \in Drops, NEW s \in Smokes, ClaimRead(r, d, s)
       PROVE PhotoInv'
  BY <1>10 DEF ClaimRead
<1>11. ASSUME NEW r \in Requests, RemoveRow(r)  PROVE PhotoInv'
  BY <1>11 DEF RemoveRow
<1>12. ASSUME NEW r \in Requests, DeleteCommit(r)  PROVE PhotoInv'
  BY <1>12 DEF DeleteCommit, ForeignKeyActions
<1>13. ASSUME NEW r \in Requests, RemovalFails(r)  PROVE PhotoInv'
  BY <1>13 DEF RemovalFails
<1>14. ASSUME NEW r \in Requests, SweepStaged(r)  PROVE PhotoInv'
  BY <1>14 DEF SweepStaged, Sweepable
<1>15. ASSUME NEW r \in Requests, SweepObjects(r)  PROVE PhotoInv'
  BY <1>15 DEF SweepObjects, Deletable
<1>16. ASSUME NEW r \in Requests, SweepRows(r)  PROVE PhotoInv'
  BY <1>16 DEF SweepRows
<1>17. ASSUME NEW r \in Requests, SweepFails(r) \/ OpenDrop(r) \/ Crash(r)  PROVE PhotoInv'
  <2>1. CASE SweepFails(r)  BY <2>1 DEF SweepFails
  <2>2. CASE OpenDrop(r)  BY <2>2 DEF OpenDrop
  <2>3. CASE Crash(r)  BY <2>3 DEF Crash
  <2>4. QED  BY <1>17, <2>1, <2>2, <2>3
<1>18. ASSUME NEW r \in Requests, NEW d \in Drops, NEW p \in Photos, StageBegin(r, d, p)
       PROVE PhotoInv'
  BY <1>18 DEF StageBegin
<1>19. ASSUME NEW r \in Requests, NEW d \in Drops, NEW p \in Photos,
              RemoveThroughLink(r, d, p)
       PROVE PhotoInv'
  <2>1. /\ \/ staged[p] = d /\ req'[r].pc = "remove_staged"
           \/ attached[p] # NoSmoke /\ req'[r].pc = "remove_attached"
        /\ req'[r].photos = {p}
        /\ \A q \in Requests : q # r => req'[q] = req[q]
        /\ UNCHANGED <<dropVars, smokeVars, photoVars, objVars>>
    BY <1>19 DEF RemoveThroughLink, Status
  <2>2. FreshIsUnused' /\ OnePlace' /\ NoForeignRow'
    BY <2>1
  <2>3. UploadIsAlone'
    <3> SUFFICES ASSUME NEW q \in Requests, req'[q].pc \in Uploading,
                        NEW x \in req'[q].photos
                 PROVE  \/ req'[q].pc = "cleanup" /\ x \in unanswered'
                        \/ /\ staged'[x] = NoDrop /\ attached'[x] = NoSmoke /\ x \notin unanswered'
                           /\ \A t \in Requests : t # q => x \notin req'[t].photos
      BY DEF UploadIsAlone
    <3>1. /\ req[q].pc \in Uploading /\ x \in req[q].photos
          /\ req'[q].pc = "cleanup" <=> req[q].pc = "cleanup"
      BY <2>1
    <3>2. \/ req[q].pc = "cleanup" /\ x \in unanswered
          \/ /\ staged[x] = NoDrop /\ attached[x] = NoSmoke /\ x \notin unanswered
             /\ \A t \in Requests : t # q => x \notin req[t].photos
      BY <3>1
    <3>3. QED  BY <2>1, <3>1, <3>2
  <2>4. InsertHasBytes' /\ LiveStagedHasBytes'
    <3>1. InsertHasBytes'
      BY <2>1
    <3>2. LiveStagedHasBytes'
      BY <2>1
    <3>3. QED  BY <3>1, <3>2
  <2>5. UnlinkIsUnstaged'
    BY <2>1
  <2>6. SweepIsDead'
    <3> SUFFICES ASSUME NEW q \in Requests
                 PROVE  SweepIsDead!(q)'
      BY DEF SweepIsDead
    <3>1. CASE q = r  BY <2>1, <3>1
    <3>2. CASE q # r
      <4>1. req'[q] = req[q] /\ dropRow' = dropRow /\ age' = age /\ staged' = staged
        BY <2>1, <3>2
      <4>2. SweepIsDead!(q)
        OBVIOUS
      <4>3. QED  BY <4>1, <4>2
    <3>3. QED  BY <3>1, <3>2
  <2>7. QED  BY <2>2, <2>3, <2>4, <2>5, <2>6
<1>20. ASSUME NEW r \in Requests, NEW s \in Smokes, NEW p \in Photos, AddBegin(r, s, p)
       PROVE PhotoInv'
  BY <1>20 DEF AddBegin
<1>21. ASSUME NEW r \in Requests, NEW p \in Photos, RemoveFromSmoke(r, p)
       PROVE PhotoInv'
  BY <1>21 DEF RemoveFromSmoke
<1>22. ASSUME NEW r \in Requests, NEW s \in Smokes, NEW ds \in SUBSET Drops,
              SaveSmoke(r, s, ds)
       PROVE PhotoInv'
  <2>1. /\ req'[r].pc \in {"idle", "claim_read"}
        /\ req'[r].photos = {}
        /\ \A q \in Requests : q # r => req'[q] = req[q]
        /\ smokeRow' = [smokeRow EXCEPT ![s] = "row"]
        /\ \A t \in Smokes : t # s => start'[t] = start[t]
        /\ UNCHANGED <<dropVars, photoVars, objVars>>
    BY <1>22 DEF SaveSmoke
  <2>2. FreshIsUnused' /\ OnePlace' /\ NoForeignRow'
    BY <2>1
  <2>3. UploadIsAlone'
    <3> SUFFICES ASSUME NEW q \in Requests, req'[q].pc \in Uploading,
                        NEW x \in req'[q].photos
                 PROVE  \/ req'[q].pc = "cleanup" /\ x \in unanswered'
                        \/ /\ staged'[x] = NoDrop /\ attached'[x] = NoSmoke /\ x \notin unanswered'
                           /\ \A t \in Requests : t # q => x \notin req'[t].photos
      BY DEF UploadIsAlone
    <3>1. /\ req[q].pc \in Uploading /\ x \in req[q].photos
          /\ req'[q].pc = "cleanup" <=> req[q].pc = "cleanup"
      BY <2>1
    <3>2. \/ req[q].pc = "cleanup" /\ x \in unanswered
          \/ /\ staged[x] = NoDrop /\ attached[x] = NoSmoke /\ x \notin unanswered
             /\ \A t \in Requests : t # q => x \notin req[t].photos
      BY <3>1
    <3>3. QED  BY <2>1, <3>1, <3>2
  <2>4. InsertHasBytes' /\ LiveStagedHasBytes'
    <3>1. InsertHasBytes'
      BY <2>1
    <3>2. LiveStagedHasBytes'
      BY <2>1
    <3>3. QED  BY <3>1, <3>2
  <2>5. UnlinkIsUnstaged'
    BY <2>1
  <2>6. SweepIsDead'
    <3> SUFFICES ASSUME NEW q \in Requests
                 PROVE  SweepIsDead!(q)'
      BY DEF SweepIsDead
    <3>1. CASE q = r  BY <2>1, <3>1
    <3>2. CASE q # r
      <4>1. req'[q] = req[q] /\ dropRow' = dropRow /\ age' = age /\ staged' = staged
        BY <2>1, <3>2
      <4>2. SweepIsDead!(q)
        OBVIOUS
      <4>3. QED  BY <4>1, <4>2
    <3>3. QED  BY <3>1, <3>2
  <2>7. QED  BY <2>2, <2>3, <2>4, <2>5, <2>6
<1>23. ASSUME NEW r \in Requests, NEW s \in Smokes, DeleteBegin(r, s)
       PROVE PhotoInv'
  BY <1>23 DEF DeleteBegin, AttachedTo
<1>24. ASSUME NEW r \in Requests, OpenBegin(r)
       PROVE PhotoInv'
  BY <1>24 DEF OpenBegin, Doomed
<1>25. ASSUME NEW d \in Drops, Age(d)
       PROVE PhotoInv'
  BY <1>25 DEF Age
<1>26. ASSUME NEW r \in Requests, InsertUnanswered(r)  PROVE PhotoInv'
  <2>1. CASE StageRow(r)  BY <1>26, <2>1 DEF InsertUnanswered, StageRow
  <2>2. CASE AttachRow(r)  BY <1>26, <2>2 DEF InsertUnanswered, AttachRow
  <2>3. QED  BY <1>26, <2>1, <2>2 DEF InsertUnanswered
<1>27. CASE UNCHANGED vars
  BY <1>27 DEF vars
<1>28. QED
  BY <1>1, <1>2, <1>3, <1>4, <1>5, <1>6, <1>7, <1>8, <1>9, <1>10, <1>11, <1>12, <1>13,
     <1>14, <1>15, <1>16, <1>17, <1>18, <1>19, <1>20, <1>21, <1>22, <1>23, <1>24, <1>25,
     <1>26, <1>27
  DEF Next, Step, Start

\* The invariant of every interleaving.
THEOREM PhotoInvariant == Spec => []PhotoInv
  BY PhotoInvInit, PhotoInvStep, PTL DEF Spec

\* A claim is a move: no photo is ever both staged and on a smoke.
THEOREM ClaimIsAMove == Spec => []OnePlace
<1>1. PhotoInv => OnePlace
  BY DEF PhotoInv
<1>2. QED  BY <1>1, PhotoInvariant, PTL

\* Rows go with the rows they refer to.
THEOREM RowsAreKept == Spec => []NoForeignRow
<1>1. PhotoInv => NoForeignRow
  BY DEF PhotoInv
<1>2. QED  BY <1>1, PhotoInvariant, PTL

\* What a working link shows as staged can be served, but for photos whose upload was
\* reported failed after its row had committed.
THEOREM LinkShowsBytes == Spec => []VisibleStagedHasBytes
<1>1. PhotoInv => VisibleStagedHasBytes
  BY DEF PhotoInv, TypeOK, LiveStagedHasBytes, VisibleStagedHasBytes, Status
<1>2. QED  BY <1>1, PhotoInvariant, PTL

-----------------------------------------------------------------------------
(* One request at a time.  What a request has read is then still so when it  *)
(* writes, and the caps hold; two at once may break both.                   *)

OneAtATime == \A r, q \in Requests : r = q \/ At(r, "idle") \/ At(q, "idle")

\* What an upload or a claim is about to attach fits.
RoomKept ==
  \A r \in Requests : req[r].pc \in {"put_attached", "insert_attached", "move"} =>
    Cardinality(req[r].photos) + Cardinality(AttachedTo(req[r].smoke)) <= MaxPhotos

\* A photo is attached by an insert, answered or not, or by a claim alone.
Attaches(r) == AttachRow(r) \/ ClaimCommit(r)
Detached == \A p \in Photos : attached'[p] \in {attached[p], NoSmoke}

\* The photos of a smoke can be counted.
LEMMA AttachedIsFinite ==
  \A s : IsFiniteSet(AttachedTo(s)) /\ Cardinality(AttachedTo(s)) \in Nat
BY FiniteAssumption, FS_Subset, FS_CardinalityType DEF AttachedTo

\* So can any photos.
LEMMA PhotosAreFinite ==
  \A ps \in SUBSET Photos : IsFiniteSet(ps) /\ Cardinality(ps) \in Nat
BY FiniteAssumption, FS_Subset, FS_CardinalityType

\* A detached photo only makes room.
LEMMA DetachStep ==
  ASSUME Detached, NEW s \in Smokes
  PROVE  Cardinality(AttachedTo(s)') <= Cardinality(AttachedTo(s))
<1>1. AttachedTo(s)' \subseteq AttachedTo(s)
  BY SentinelAssumption DEF Detached, AttachedTo
<1>2. QED  BY <1>1, AttachedIsFinite, FS_Subset

\* Photos that fit leave the cap kept.
LEMMA AttachStep ==
  ASSUME CapHolds, NEW r \in Requests, req[r].photos \in SUBSET Photos, req[r].smoke \in Smokes,
         Cardinality(req[r].photos) + Cardinality(AttachedTo(req[r].smoke)) <= MaxPhotos,
         attached' = [p \in Photos |-> IF p \in req[r].photos THEN req[r].smoke ELSE attached[p]]
  PROVE  CapHolds'
<1> DEFINE ps == req[r].photos
           t == req[r].smoke
<1>1. IsFiniteSet(ps) /\ Cardinality(ps) \in Nat /\ MaxPhotos \in Nat
  BY PhotosAreFinite, MaxPhotosAssumption
<1>2. ASSUME NEW s \in Smokes, s = t PROVE Cardinality(AttachedTo(s)') <= MaxPhotos
  <2>1. AttachedTo(s)' = ps \union AttachedTo(t)  BY <1>2 DEF AttachedTo
  <2>2. /\ IsFiniteSet(ps \cap AttachedTo(t)) /\ Cardinality(ps \cap AttachedTo(t)) \in Nat
        /\ Cardinality(ps \cup AttachedTo(t)) =
             Cardinality(ps) + Cardinality(AttachedTo(t)) - Cardinality(ps \cap AttachedTo(t))
    <3>1. ps \cap AttachedTo(t) \in SUBSET Photos  BY DEF AttachedTo
    <3>2. QED  BY <1>1, <3>1, PhotosAreFinite, AttachedIsFinite, FS_Union
  <2>3. QED  BY <1>1, <2>1, <2>2, AttachedIsFinite
<1>3. ASSUME NEW s \in Smokes, s # t PROVE Cardinality(AttachedTo(s)') <= MaxPhotos
  <2>1. AttachedTo(s)' \subseteq AttachedTo(s)  BY <1>3 DEF AttachedTo
  <2>2. Cardinality(AttachedTo(s)') <= Cardinality(AttachedTo(s))
    BY <2>1, AttachedIsFinite, FS_Subset
  <2>3. Cardinality(AttachedTo(s)') \in Nat
    BY <2>1, AttachedIsFinite, FS_Subset, FS_CardinalityType
  <2>4. QED  BY <1>1, <2>2, <2>3, AttachedIsFinite DEF CapHolds
<1>4. QED  BY <1>2, <1>3 DEF CapHolds

\* An upload to a smoke and a claim have one to go to.
TargetIsSmoke ==
  \A r \in Requests :
    req[r].pc \in {"put_attached", "insert_attached", "claim_read", "claim", "move"} =>
      req[r].smoke \in Smokes

\* What a request's own step does to it and to the photos on smokes.
LEMMA RequestStep ==
  ASSUME TypeOK, TargetIsSmoke, NEW r \in Requests, Step(r) \/ Start(r)
  PROVE  /\ \A q \in Requests \ {r} : req'[q] = req[q]
         /\ At(r, "idle") => attached' = attached
         /\ Detached \/ Attaches(r)
         /\ req'[r].pc \in {"put_attached", "insert_attached", "move"} =>
              \/ \E s \in Smokes, p \in Photos : AddBegin(r, s, p)
              \/ Put(r) \/ ClaimPick(r)
         /\ req'[r].pc \in {"put_attached", "insert_attached", "claim_read", "claim", "move"} =>
              req'[r].smoke \in Smokes
<1> DEFINE Goal ==
             /\ \A q \in Requests \ {r} : req'[q] = req[q]
             /\ At(r, "idle") => attached' = attached
             /\ Detached \/ Attaches(r)
             /\ req'[r].pc \in {"put_attached", "insert_attached", "move"} =>
                  \/ \E s \in Smokes, p \in Photos : AddBegin(r, s, p)
                  \/ Put(r) \/ ClaimPick(r)
             /\ req'[r].pc \in {"put_attached", "insert_attached", "claim_read", "claim", "move"} =>
                  req'[r].smoke \in Smokes
<1>0. /\ req \in [Requests -> [pc : Stages, drops : SUBSET Drops,
                               smoke : Smokes \union {NoSmoke}, photos : SUBSET Photos]]
      /\ attached \in [Photos -> Smokes \union {NoSmoke}]
  BY DEF TypeOK
\* Steps that leave the photos of smokes alone and go where nothing is attached.
<1>1. ASSUME attached' = attached, NEW new, req' = [req EXCEPT ![r] = new],
             new.pc \notin {"put_attached", "insert_attached", "claim_read", "claim", "move"}
      PROVE  Goal
  BY <1>0, <1>1 DEF Detached
<1>2. CASE Put(r)
  BY <1>0, <1>2 DEF Put, Advance, Goto, At, photoVars, Detached, TargetIsSmoke
<1>3. CASE ClaimPick(r)
  <2>1. PICK ps : req' = [req EXCEPT ![r] = [pc |-> "move", drops |-> req[r].drops,
                                            smoke |-> req[r].smoke, photos |-> ps]]
    BY <1>3 DEF ClaimPick, Goto
  <2>2. req[r].smoke \in Smokes /\ ~At(r, "idle") /\ attached' = attached
    BY <1>3 DEF ClaimPick, At, photoVars, TargetIsSmoke
  <2>3. QED  BY <1>0, <1>3, <2>1, <2>2 DEF Detached
<1>4. CASE Attaches(r) /\ (InsertAttached(r) \/ InsertUnanswered(r) \/ ClaimCommit(r))
  <2>1. ~At(r, "idle")
    BY <1>4 DEF Attaches, AttachRow, ClaimCommit, At
  <2>2. CASE req' = [req EXCEPT ![r] = Idle]
    BY <1>0, <1>4, <2>1, <2>2 DEF Idle
  <2>3. CASE InsertUnanswered(r)
    <3>1. /\ req'[r].pc = "cleanup"
          /\ \A q \in Requests \ {r} : req'[q] = req[q]
      BY <1>0, <2>3 DEF InsertUnanswered, Advance, Goto
    <3>2. QED  BY <1>4, <2>1, <3>1
  <2>4. InsertAttached(r) \/ InsertUnanswered(r) \/ ClaimCommit(r)
    BY <1>4
  <2>5. QED  BY <2>2, <2>3, <2>4 DEF InsertAttached, ClaimCommit, Done
<1>5. CASE PutFails(r)  BY <1>1, <1>5 DEF PutFails, Done, Idle, photoVars
<1>6. CASE InsertStaged(r)  BY <1>1, <1>6 DEF InsertStaged, StageRow, Done, Idle
<1>7. CASE InsertFails(r)  BY <1>1, <1>7 DEF InsertFails, Advance, Goto, photoVars
<1>8. CASE Cleanup(r)  BY <1>1, <1>8 DEF Cleanup, Done, Idle, photoVars
<1>9. CASE ClaimRefused(r) \/ ClaimFails(r)
  BY <1>1, <1>9 DEF ClaimRefused, ClaimFails, Done, Idle, photoVars
<1>10. CASE \E d \in Drops, s \in Smokes : ClaimRead(r, d, s)
  BY <1>0, <1>10 DEF ClaimRead, Goto, photoVars, Detached
<1>11. CASE RemoveRow(r)
  <2>1. /\ req' = [req EXCEPT ![r] = [pc |-> "unlink", drops |-> req[r].drops,
                                      smoke |-> req[r].smoke, photos |-> req[r].photos]]
        /\ ~At(r, "idle")
    BY <1>11 DEF RemoveRow, Advance, Goto, At
  <2>2. Detached
    BY <1>0, <1>11 DEF RemoveRow, Detached
  <2>3. QED  BY <1>0, <2>1, <2>2
<1>12. CASE DeleteCommit(r)
  <2>1. /\ req' = [req EXCEPT ![r] = [pc |-> "unlink", drops |-> {},
                                      smoke |-> NoSmoke, photos |-> req[r].photos]]
        /\ ~At(r, "idle")
    BY <1>12 DEF DeleteCommit, Goto, At
  <2>2. Detached
    BY <1>0, <1>12 DEF DeleteCommit, ForeignKeyActions, Detached
  <2>3. QED  BY <1>0, <2>1, <2>2
<1>13. CASE RemovalFails(r)  BY <1>1, <1>13 DEF RemovalFails, Done, Idle, photoVars
<1>14. CASE SweepStaged(r) \/ SweepObjects(r) \/ SweepRows(r) \/ SweepFails(r)
  BY <1>1, <1>14 DEF SweepStaged, SweepObjects, SweepRows, SweepFails, Goto, Advance, photoVars
<1>15. CASE OpenDrop(r) \/ Crash(r)
  BY <1>1, <1>15 DEF OpenDrop, Crash, Done, Idle, photoVars
<1>16. ASSUME NEW d \in Drops, NEW p \in Photos, StageBegin(r, d, p) \/ RemoveThroughLink(r, d, p)
       PROVE  Goal
  BY <1>1, <1>16 DEF StageBegin, RemoveThroughLink, Goto, photoVars
<1>17. ASSUME NEW s \in Smokes, NEW p \in Photos, AddBegin(r, s, p) PROVE Goal
  BY <1>0, <1>17 DEF AddBegin, Goto, photoVars, Detached
<1>18. ASSUME NEW p \in Photos, RemoveFromSmoke(r, p) PROVE Goal
  BY <1>1, <1>18 DEF RemoveFromSmoke, Goto, photoVars
<1>19. ASSUME NEW s \in Smokes, NEW ds \in SUBSET Drops, SaveSmoke(r, s, ds) PROVE Goal
  BY <1>0, <1>19 DEF SaveSmoke, Goto, Done, Idle, photoVars, Detached
<1>20. ASSUME NEW s \in Smokes, DeleteBegin(r, s) PROVE Goal
  BY <1>1, <1>20 DEF DeleteBegin, Goto, photoVars
<1>21. CASE OpenBegin(r)
  <2>1. PICK pc \in {"open", "sweep_staged"}, ds \in SUBSET Drops :
          req' = [req EXCEPT ![r] = [pc |-> pc, drops |-> ds, smoke |-> NoSmoke, photos |-> {}]]
    BY <1>21 DEF OpenBegin, Goto
  <2>2. QED  BY <1>1, <1>21, <2>1 DEF OpenBegin, photoVars
<1>22. CASE StageRow(r) /\ InsertUnanswered(r)
  BY <1>1, <1>22 DEF InsertUnanswered, StageRow, Advance, Goto
<1>23. QED
  BY <1>2, <1>3, <1>4, <1>5, <1>6, <1>7, <1>8, <1>9, <1>10, <1>11, <1>12, <1>13, <1>14, <1>15,
     <1>16, <1>17, <1>18, <1>19, <1>20, <1>21, <1>22
  DEF Step, Start, Attaches, InsertAttached, InsertUnanswered

CapInv == CapHolds /\ RoomKept /\ TargetIsSmoke

\* The steps of requests keep the cap and the room it is computed from.
LEMMA CapStep ==
  ASSUME TypeOK, OneAtATime, CapInv, NEW r \in Requests, Step(r) \/ Start(r)
  PROVE  CapInv'
<1>0. /\ CapHolds /\ RoomKept /\ TargetIsSmoke /\ MaxPhotos \in Nat
      /\ req \in [Requests -> [pc : Stages, drops : SUBSET Drops,
                               smoke : Smokes \union {NoSmoke}, photos : SUBSET Photos]]
  BY MaxPhotosAssumption DEF CapInv, TypeOK
<1>1. CapHolds'
  <2>1. CASE Detached
    <3>1. ASSUME NEW s \in Smokes PROVE Cardinality(AttachedTo(s)') <= MaxPhotos
      <4>1. Cardinality(AttachedTo(s)') <= Cardinality(AttachedTo(s))  BY <2>1, DetachStep
      <4>2. Cardinality(AttachedTo(s)') \in Nat
        <5>1. AttachedTo(s)' \in SUBSET Photos  BY DEF AttachedTo
        <5>2. QED  BY <5>1, PhotosAreFinite
      <4>3. QED  BY <1>0, <4>1, <4>2, AttachedIsFinite DEF CapHolds
    <3>2. QED  BY <3>1 DEF CapHolds
  <2>2. CASE Attaches(r)
    <3>1. /\ req[r].pc \in {"insert_attached", "move"} /\ req[r].photos \in SUBSET Photos
          /\ attached' = [p \in Photos |-> IF p \in req[r].photos THEN req[r].smoke ELSE attached[p]]
      BY <1>0, <2>2 DEF Attaches, AttachRow, ClaimCommit, MovePhotos, At
    <3>2. /\ req[r].smoke \in Smokes
          /\ Cardinality(req[r].photos) + Cardinality(AttachedTo(req[r].smoke)) <= MaxPhotos
      BY <1>0, <3>1 DEF RoomKept, TargetIsSmoke
    <3>3. QED  BY <1>0, <3>1, <3>2, AttachStep
  <2>3. QED  BY <1>0, <2>1, <2>2, RequestStep
<1>2. ASSUME NEW q \in Requests, req'[q].pc \in {"put_attached", "insert_attached", "move"}
      PROVE  Cardinality(req'[q].photos) + Cardinality(AttachedTo(req[q].smoke)') <= MaxPhotos
  <2>1. CASE q # r
    <3>1. req'[q] = req[q]  BY <1>0, <2>1, RequestStep
    <3>2. At(r, "idle")  BY <1>2, <2>1, <3>1 DEF OneAtATime, At
    <3>3. attached' = attached  BY <1>0, <3>2, RequestStep
    <3>4. QED  BY <1>0, <1>2, <3>1, <3>3 DEF RoomKept, AttachedTo
  <2>2. CASE q = r
    <3>1. CASE \E s \in Smokes, p \in Photos : AddBegin(r, s, p)
      <4>1. PICK s \in Smokes, p \in Photos : AddBegin(r, s, p)  BY <3>1
      <4>2. /\ req'[r].smoke = s /\ req'[r].photos = {p} /\ attached' = attached
            /\ Cardinality(AttachedTo(s)) < MaxPhotos
        BY <1>0, <4>1 DEF AddBegin, Goto, photoVars
      <4>3. Cardinality({p}) = 1  BY FS_Singleton
      <4>4. AttachedTo(req[q].smoke)' = AttachedTo(s)  BY <2>2, <4>2 DEF AttachedTo
      <4>5. QED  BY <1>0, <2>2, <4>2, <4>3, <4>4, AttachedIsFinite
    <3>2. CASE Put(r)
      <4>1. /\ req[r].pc \in {"put_staged", "put_attached"} /\ attached' = attached
            /\ req'[r].photos = req[r].photos /\ req'[r].smoke = req[r].smoke
            /\ req[r].pc = "put_staged" => req'[r].pc = "insert_staged"
        BY <1>0, <3>2 DEF Put, Advance, Goto, At, photoVars
      <4>2. AttachedTo(req[q].smoke)' = AttachedTo(req[r].smoke)  BY <2>2, <4>1 DEF AttachedTo
      <4>3. QED  BY <1>0, <1>2, <2>2, <4>1, <4>2 DEF RoomKept
    <3>3. CASE ClaimPick(r)
      <4>1. PICK moving \in SUBSET Photos :
              /\ Cardinality(moving) <= Room(req[r].smoke)
              /\ req'[r].photos = moving /\ req'[r].smoke = req[r].smoke
              /\ attached' = attached /\ At(r, "claim")
        <5>0. PICK d \in req[r].drops : \E moving \in SUBSET StagedIn(d) :
                /\ \/ moving = StagedIn(d) /\ Cardinality(moving) <= Room(req[r].smoke)
                   \/ moving # StagedIn(d) /\ Cardinality(moving) = Room(req[r].smoke)
                /\ Goto(r, "move", req[r].drops, req[r].smoke, moving)
          BY <3>3 DEF ClaimPick
        <5>1. PICK moving \in SUBSET StagedIn(d) :
                /\ \/ moving = StagedIn(d) /\ Cardinality(moving) <= Room(req[r].smoke)
                   \/ moving # StagedIn(d) /\ Cardinality(moving) = Room(req[r].smoke)
                /\ Goto(r, "move", req[r].drops, req[r].smoke, moving)
          BY <5>0
        <5>2. moving \in SUBSET Photos  BY DEF StagedIn
        <5>3. Cardinality(moving) \in Nat  BY <5>2, PhotosAreFinite
        <5>4. /\ req'[r].photos = moving /\ req'[r].smoke = req[r].smoke
              /\ attached' = attached /\ At(r, "claim")
          BY <1>0, <3>3, <5>1 DEF ClaimPick, Goto, photoVars
        <5>5. QED  BY <5>1, <5>2, <5>3, <5>4
      <4>2. /\ req[r].smoke \in Smokes
            /\ Cardinality(AttachedTo(req[r].smoke)) <= MaxPhotos
        BY <1>0, <4>1 DEF TargetIsSmoke, CapHolds, At
      <4>3. Cardinality(moving) \in Nat  BY PhotosAreFinite
      <4>4. AttachedTo(req[q].smoke)' = AttachedTo(req[r].smoke)  BY <2>2, <4>1 DEF AttachedTo
      <4>5. QED  BY <1>0, <2>2, <4>1, <4>2, <4>3, <4>4, AttachedIsFinite DEF Room
    <3>4. QED  BY <1>0, <1>2, <2>2, <3>1, <3>2, <3>3, RequestStep
  <2>3. QED  BY <2>1, <2>2
<1>3. RoomKept'  BY <1>2 DEF RoomKept
<1>4. TargetIsSmoke'
  <2>1. ASSUME NEW q \in Requests,
               req'[q].pc \in {"put_attached", "insert_attached", "claim_read", "claim", "move"}
        PROVE  req'[q].smoke \in Smokes
    BY <1>0, <2>1, RequestStep DEF TargetIsSmoke
  <2>2. QED  BY <2>1 DEF TargetIsSmoke
<1>5. QED  BY <1>1, <1>3, <1>4 DEF CapInv

\* No smoke has photos to begin with.
LEMMA CapInit == Init => CapInv
<1> SUFFICES ASSUME Init PROVE CapInv  OBVIOUS
<1>1. \A s \in Smokes : AttachedTo(s) = {}
  BY SentinelAssumption DEF Init, AttachedTo
<1>2. CapHolds  BY <1>1, FS_EmptySet, MaxPhotosAssumption DEF CapHolds
<1>3. RoomKept /\ TargetIsSmoke  BY DEF Init, Idle, RoomKept, TargetIsSmoke
<1>4. QED  BY <1>2, <1>3 DEF CapInv

\* Every step keeps the cap, time included.
LEMMA CapNext ==
  ASSUME TypeOK, OneAtATime, CapInv, [Next]_vars PROVE CapInv'
<1>1. CASE (\E d \in Drops : Age(d)) \/ UNCHANGED vars
  <2>1. UNCHANGED <<attached, req>>  BY <1>1 DEF Age, photoVars, vars
  <2>2. QED  BY <2>1 DEF CapInv, CapHolds, RoomKept, TargetIsSmoke, AttachedTo
<1>2. CASE \E r \in Requests : Step(r) \/ Start(r)  BY <1>2, CapStep
<1>3. QED  BY <1>1, <1>2 DEF Next

\* While no two requests are in flight at a time, a smoke never holds more photos than its
\* cap: the count and the insert, and the room and the move, see the same photos.
THEOREM CapHoldsOneAtATime == Spec /\ []OneAtATime => []CapHolds
<1>1. TypeOK /\ OneAtATime /\ CapInv /\ [Next]_vars => CapInv'  BY CapNext
<1>2. CapInv => CapHolds  BY DEF CapInv
<1>3. QED  BY CapInit, <1>1, <1>2, TypeCorrect, PTL DEF Spec

-----------------------------------------------------------------------------
(* One request at a time, and neither a failed call on the bucket nor a     *)
(* process that dies nor a commit unanswered: then no object is left        *)
(* without a row.                                                           *)

\* A request at one of these stages still has its photos' objects to answer for.
Holding == {"insert_staged", "insert_attached", "cleanup", "unlink"}

\* An object has a row, or a request that will give it one or delete it.
ObjectsAreHeld ==
  \A p \in bucket : \/ staged[p] # NoDrop \/ attached[p] # NoSmoke
                    \/ \E r \in Requests : req[r].pc \in Holding /\ p \in req[r].photos

\* The keys read ahead of a deletion are those of every photo it cascades to.
DeleteCovers ==
  \A r \in Requests : req[r].pc = "delete" => AttachedTo(req[r].smoke) \subseteq req[r].photos

\* So are those of a sweep, and once they are deleted its rows have no bytes.
SweepCovers ==
  \A r \in Requests :
    /\ req[r].pc = "sweep_objects" => Sweepable(req[r].drops) \subseteq req[r].photos
    /\ req[r].pc = "sweep_rows" => Sweepable(req[r].drops) \cap bucket = {}

HeldInv == ObjectsAreHeld /\ DeleteCovers /\ SweepCovers

\* A request that begins touches no photo.
LEMMA IdleStep ==
  ASSUME TypeOK, NEW r \in Requests, At(r, "idle"), Step(r) \/ Start(r)
  PROVE  /\ UNCHANGED <<staged, attached, bucket>>
         /\ \A q \in Requests \ {r} : req'[q] = req[q]
         /\ req'[r].pc \notin {"sweep_objects", "sweep_rows", "move", "unlink", "cleanup"}
         /\ req'[r].pc = "delete" => req'[r].photos = AttachedTo(req'[r].smoke)
         /\ req'[r].pc = "remove_staged" => \A p \in req'[r].photos : staged[p] # NoDrop
<1> DEFINE Goal ==
             /\ UNCHANGED <<staged, attached, bucket>>
             /\ \A q \in Requests \ {r} : req'[q] = req[q]
             /\ req'[r].pc \notin {"sweep_objects", "sweep_rows", "move", "unlink", "cleanup"}
             /\ req'[r].pc = "delete" => req'[r].photos = AttachedTo(req'[r].smoke)
             /\ req'[r].pc = "remove_staged" => \A p \in req'[r].photos : staged[p] # NoDrop
<1>0. req \in [Requests -> [pc : Stages, drops : SUBSET Drops,
                            smoke : Smokes \union {NoSmoke}, photos : SUBSET Photos]]
  BY DEF TypeOK
<1>1. ASSUME UNCHANGED <<staged, attached, bucket>>, NEW new, req' = [req EXCEPT ![r] = new],
             new.pc \notin {"sweep_objects", "sweep_rows", "move", "unlink", "cleanup", "delete"},
             new.pc = "remove_staged" => \A p \in new.photos : staged[p] # NoDrop
      PROVE  Goal
  BY <1>0, <1>1
<1>2. CASE Step(r)
  <2>1. PICK d \in Drops, s \in Smokes : ClaimRead(r, d, s)
    BY <1>2
    DEF At, Step, Put, PutFails, InsertStaged, InsertAttached, InsertUnanswered, StageRow,
        AttachRow, InsertFails, Cleanup,
        ClaimRefused, ClaimPick, ClaimCommit, ClaimFails, RemoveRow, DeleteCommit,
        RemovalFails, SweepStaged, SweepObjects, SweepRows, SweepFails, OpenDrop, Crash
  <2>2. QED  BY <1>1, <2>1 DEF ClaimRead, Goto, photoVars, objVars
<1>3. ASSUME NEW d \in Drops, NEW p \in Photos, StageBegin(r, d, p) \/ RemoveThroughLink(r, d, p)
      PROVE  Goal
  BY <1>1, <1>3, SentinelAssumption DEF StageBegin, RemoveThroughLink, Goto, photoVars, objVars
<1>4. ASSUME NEW s \in Smokes, NEW p \in Photos, AddBegin(r, s, p) PROVE Goal
  BY <1>1, <1>4 DEF AddBegin, Goto, photoVars
<1>5. ASSUME NEW p \in Photos, RemoveFromSmoke(r, p) PROVE Goal
  BY <1>1, <1>5 DEF RemoveFromSmoke, Goto, photoVars, objVars
<1>6. ASSUME NEW s \in Smokes, NEW ds \in SUBSET Drops, SaveSmoke(r, s, ds) PROVE Goal
  BY <1>1, <1>6 DEF SaveSmoke, Goto, Done, Idle, photoVars, objVars
<1>7. ASSUME NEW s \in Smokes, DeleteBegin(r, s) PROVE Goal
  BY <1>0, <1>7 DEF DeleteBegin, Goto, photoVars, objVars
<1>8. CASE OpenBegin(r)
  <2>1. PICK pc \in {"open", "sweep_staged"}, ds \in SUBSET Drops :
          req' = [req EXCEPT ![r] = [pc |-> pc, drops |-> ds, smoke |-> NoSmoke, photos |-> {}]]
    BY <1>8 DEF OpenBegin, Goto
  <2>2. QED  BY <1>1, <1>8, <2>1 DEF OpenBegin, photoVars, objVars
<1>9. QED  BY <1>2, <1>3, <1>4, <1>5, <1>6, <1>7, <1>8 DEF Start

\* Alone, a request that has begun leaves no object it does not answer for.
LEMMA BusyStep ==
  ASSUME TypeOK, TargetIsSmoke, HeldInv,
         "answer" \notin Faults, "storage" \notin Faults, "crash" \notin Faults,
         NEW r \in Requests, Step(r), ~At(r, "idle"),
         \A q \in Requests \ {r} : At(q, "idle")
  PROVE  HeldInv'
<1> DEFINE Held(p) == staged[p] # NoDrop \/ attached[p] # NoSmoke
           Mine(p) == req[r].pc \in Holding /\ p \in req[r].photos
<1>0. /\ req \in [Requests -> [pc : Stages, drops : SUBSET Drops,
                               smoke : Smokes \union {NoSmoke}, photos : SUBSET Photos]]
      /\ staged \in [Photos -> Drops \union {NoDrop}]
      /\ attached \in [Photos -> Smokes \union {NoSmoke}]
      /\ bucket \subseteq Photos
  BY DEF TypeOK
<1>1. /\ \A p \in bucket : Held(p) \/ Mine(p)
      /\ req[r].pc = "delete" => AttachedTo(req[r].smoke) \subseteq req[r].photos
      /\ req[r].pc = "sweep_objects" => Sweepable(req[r].drops) \subseteq req[r].photos
      /\ req[r].pc = "sweep_rows" => Sweepable(req[r].drops) \cap bucket = {}
  BY DEF HeldInv, ObjectsAreHeld, DeleteCovers, SweepCovers, At, Holding
<1>2. \A q \in Requests \ {r} : req'[q] = req[q]
  BY RequestStep
\* It is enough to look at the request itself.
<1>3. ASSUME \A p \in bucket' : Held(p)' \/ Mine(p)',
             req'[r].pc = "delete" =>
               \A p \in Photos : attached'[p] = req'[r].smoke => p \in req'[r].photos,
             req'[r].pc = "sweep_objects" =>
               \A p \in Photos : staged'[p] \in req'[r].drops => p \in req'[r].photos,
             req'[r].pc = "sweep_rows" =>
               \A p \in Photos : staged'[p] \in req'[r].drops => p \notin bucket'
      PROVE  HeldInv'
  <2>1. \A q \in Requests \ {r} : req'[q].pc = "idle"  BY <1>2 DEF At
  <2>2. ObjectsAreHeld'  BY <1>3 DEF ObjectsAreHeld
  <2>3. DeleteCovers'  BY <1>3, <2>1 DEF DeleteCovers, AttachedTo
  <2>4. SweepCovers'  BY <1>3, <2>1 DEF SweepCovers, Sweepable
  <2>5. QED  BY <2>2, <2>3, <2>4 DEF HeldInv
\* Steps that leave rows and objects alone and go on, or are done with nothing to answer for.
<1>4. ASSUME UNCHANGED <<staged, attached, bucket>>, NEW new, req' = [req EXCEPT ![r] = new],
             new.pc \notin {"delete", "sweep_objects", "sweep_rows"},
             req[r].pc \in Holding => new.pc \in Holding /\ new.photos = req[r].photos
      PROVE  HeldInv'
  BY <1>0, <1>1, <1>3, <1>4
<1>5. CASE Put(r)
  <2>1. /\ req[r].pc \notin Holding /\ req'[r].pc \in {"insert_staged", "insert_attached"}
        /\ req'[r].photos = req[r].photos /\ bucket' = bucket \union req[r].photos
        /\ UNCHANGED <<staged, attached>>
    BY <1>0, <1>5 DEF Put, Advance, Goto, At, Holding, photoVars
  <2>2. QED  BY <1>1, <1>3, <2>1 DEF Holding
<1>6. CASE PutFails(r) \/ InsertUnanswered(r) \/ Crash(r)
  BY <1>6 DEF PutFails, InsertUnanswered, Crash
<1>7. CASE InsertStaged(r)
  <2>1. PICK d \in Drops :
          staged' = [p \in Photos |-> IF p \in req[r].photos THEN d ELSE staged[p]]
    BY <1>0, <1>7 DEF InsertStaged, StageRow
  <2>2. req'[r] = Idle /\ bucket' = bucket /\ attached' = attached
    BY <1>0, <1>7 DEF InsertStaged, StageRow, Done, objVars
  <2>3. QED  BY <1>0, <1>1, <1>3, <2>1, <2>2, SentinelAssumption DEF Idle
<1>8. CASE InsertAttached(r)
  <2>1. /\ req'[r] = Idle /\ bucket' = bucket /\ staged' = staged
        /\ attached' = [p \in Photos |-> IF p \in req[r].photos THEN req[r].smoke ELSE attached[p]]
        /\ req[r].smoke \in Smokes
    BY <1>0, <1>8 DEF InsertAttached, AttachRow, Done, objVars, TargetIsSmoke, At
  <2>2. QED  BY <1>0, <1>1, <1>3, <2>1, SentinelAssumption DEF Idle
<1>9. CASE InsertFails(r)
  <2>1. req[r].pc \in Holding  BY <1>9 DEF InsertFails, At, Holding
  <2>2. QED  BY <1>4, <1>9, <2>1 DEF InsertFails, Advance, Goto, photoVars, objVars, Holding
<1>10. CASE Cleanup(r)
  <2>1. /\ req'[r] = Idle /\ bucket' = bucket \ req[r].photos /\ UNCHANGED <<staged, attached>>
    BY <1>0, <1>10 DEF Cleanup, Done, Deletable, photoVars
  <2>2. QED  BY <1>1, <1>3, <2>1 DEF Idle
<1>11. CASE ClaimRefused(r) \/ ClaimFails(r) \/ RemovalFails(r)
  BY <1>4, <1>11
  DEF ClaimRefused, ClaimFails, RemovalFails, Done, Idle, At, Holding, photoVars, objVars
<1>12. ASSUME NEW d \in Drops, NEW s \in Smokes, ClaimRead(r, d, s) PROVE HeldInv'
  BY <1>4, <1>12 DEF ClaimRead, Starts, Goto, At, Holding, photoVars, objVars
<1>13. CASE ClaimPick(r)
  BY <1>4, <1>13 DEF ClaimPick, Goto, At, Holding, photoVars, objVars
<1>14. CASE ClaimCommit(r)
  <2>1. /\ req'[r] = Idle /\ bucket' = bucket
        /\ staged' = [p \in Photos |-> IF p \in req[r].photos THEN NoDrop ELSE staged[p]]
        /\ attached' = [p \in Photos |-> IF p \in req[r].photos THEN req[r].smoke ELSE attached[p]]
        /\ req[r].smoke \in Smokes
    BY <1>0, <1>14 DEF ClaimCommit, MovePhotos, Done, objVars, TargetIsSmoke, At
  <2>2. req[r].pc \notin Holding  BY <1>14 DEF ClaimCommit, At, Holding
  <2>3. QED  BY <1>0, <1>1, <1>3, <2>1, <2>2, SentinelAssumption DEF Idle
<1>15. CASE RemoveRow(r)
  <2>1. /\ req'[r].pc = "unlink" /\ req'[r].photos = req[r].photos /\ bucket' = bucket
        /\ \A p \in Photos \ req[r].photos : staged'[p] = staged[p] /\ attached'[p] = attached[p]
    BY <1>0, <1>15 DEF RemoveRow, Advance, Goto, objVars
  <2>2. req[r].pc \notin Holding  BY <1>15 DEF RemoveRow, At, Holding
  <2>3. QED  BY <1>0, <1>1, <1>3, <2>1, <2>2 DEF Holding
<1>16. CASE DeleteCommit(r)
  <2>1. /\ req'[r].pc = "unlink" /\ req'[r].photos = req[r].photos /\ bucket' = bucket
        /\ staged' = staged /\ req[r].pc = "delete"
        /\ \A p \in Photos : attached[p] # req[r].smoke => attached'[p] = attached[p]
    BY <1>0, <1>16 DEF DeleteCommit, ForeignKeyActions, Goto, At, objVars
  <2>2. QED  BY <1>0, <1>1, <1>3, <2>1 DEF Holding, AttachedTo
<1>17. CASE SweepStaged(r)
  <2>1. /\ req'[r] = [pc |-> "sweep_objects", drops |-> req[r].drops, smoke |-> NoSmoke,
                      photos |-> Sweepable(req[r].drops)]
        /\ UNCHANGED <<staged, attached, bucket>> /\ req[r].pc \notin Holding
    BY <1>0, <1>17 DEF SweepStaged, Goto, At, Holding, photoVars, objVars
  <2>2. QED  BY <1>1, <1>3, <2>1 DEF Sweepable
<1>18. CASE SweepObjects(r)
  <2>1. /\ req[r].pc = "sweep_objects" /\ req'[r].pc = "sweep_rows"
        /\ req'[r].drops = req[r].drops
        /\ bucket' = bucket \ req[r].photos /\ UNCHANGED <<staged, attached>>
    BY <1>0, <1>18 DEF SweepObjects, Deletable, Advance, Goto, At, photoVars
  <2>2. QED  BY <1>1, <1>3, <2>1 DEF Sweepable, Holding
<1>19. CASE SweepRows(r)
  <2>1. /\ req[r].pc = "sweep_rows" /\ req'[r].pc = "open" /\ bucket' = bucket
        /\ attached' = attached
        /\ \A p \in Photos : staged[p] \notin req[r].drops => staged'[p] = staged[p]
    BY <1>0, <1>19 DEF SweepRows, Goto, At, objVars
  <2>2. QED  BY <1>0, <1>1, <1>3, <2>1 DEF Sweepable, Holding
<1>20. CASE SweepFails(r)
  BY <1>4, <1>20 DEF SweepFails, Goto, At, Holding, photoVars, objVars
<1>21. CASE OpenDrop(r)
  BY <1>4, <1>21 DEF OpenDrop, Done, Idle, At, Holding, photoVars, objVars
<1>22. QED
  BY <1>5, <1>6, <1>7, <1>8, <1>9, <1>10, <1>11, <1>12, <1>13, <1>14, <1>15, <1>16, <1>17,
     <1>18, <1>19, <1>20, <1>21
  DEF Step

\* A request that begins changes what the others answer for as little.
LEMMA BeginStep ==
  ASSUME TypeOK, HeldInv, NEW r \in Requests, At(r, "idle"), Step(r) \/ Start(r)
  PROVE  HeldInv'
<1>1. /\ UNCHANGED <<staged, attached, bucket>>
      /\ \A q \in Requests \ {r} : req'[q] = req[q]
      /\ req'[r].pc \notin {"sweep_objects", "sweep_rows"}
      /\ req'[r].pc = "delete" => req'[r].photos = AttachedTo(req'[r].smoke)
  BY IdleStep
<1>2. \A q \in Requests : req[q].pc \in Holding => req'[q] = req[q]
  BY <1>1 DEF At, Holding
<1>3. ObjectsAreHeld'  BY <1>1, <1>2 DEF HeldInv, ObjectsAreHeld
<1>4. DeleteCovers'  BY <1>1 DEF HeldInv, DeleteCovers, AttachedTo
<1>5. SweepCovers'  BY <1>1 DEF HeldInv, SweepCovers, Sweepable
<1>6. QED  BY <1>3, <1>4, <1>5 DEF HeldInv

\* While no two requests are in flight at a time, no call on the bucket fails, no process
\* dies and no commit goes unanswered, every object belongs to a row when nothing is in
\* flight, whatever the database refuses: uploads clean up, removals, deletions and sweeps take their objects along.
THEOREM NoOrphanOneAtATime ==
  ASSUME "answer" \notin Faults, "storage" \notin Faults, "crash" \notin Faults
  PROVE  Spec /\ []OneAtATime => []NoOrphanAtRest
<1>1. Init => HeldInv /\ CapInv
  <2> SUFFICES ASSUME Init PROVE HeldInv  BY CapInit
  <2>1. QED  BY DEF Init, Idle, HeldInv, ObjectsAreHeld, DeleteCovers, SweepCovers
<1>2. ASSUME TypeOK, OneAtATime, HeldInv, CapInv, [Next]_vars PROVE HeldInv' /\ CapInv'
  <2>1. CASE (\E d \in Drops : Age(d)) \/ UNCHANGED vars
    <3>1. UNCHANGED <<staged, attached, bucket, req>>
      BY <2>1 DEF Age, photoVars, objVars, vars
    <3>2. HeldInv'
      BY <1>2, <3>1
      DEF HeldInv, ObjectsAreHeld, DeleteCovers, SweepCovers, AttachedTo, Sweepable
    <3>3. QED  BY <1>2, <3>2, CapNext
  <2>2. ASSUME NEW r \in Requests, Step(r) \/ Start(r) PROVE HeldInv'
    <3>1. CASE At(r, "idle")  BY <1>2, <2>2, <3>1, BeginStep
    <3>2. CASE ~At(r, "idle")
      <4>1. Step(r)
        BY <2>2, <3>2
        DEF Start, StageBegin, RemoveThroughLink, AddBegin, RemoveFromSmoke, SaveSmoke,
            DeleteBegin, OpenBegin, Starts
      <4>2. \A q \in Requests \ {r} : At(q, "idle")  BY <1>2, <3>2 DEF OneAtATime
      <4>3. QED  BY <1>2, <3>2, <4>1, <4>2, BusyStep DEF CapInv
    <3>3. QED  BY <3>1, <3>2
  <2>3. QED  BY <1>2, <2>1, <2>2, CapNext DEF Next
<1>3. HeldInv => NoOrphanAtRest
  BY DEF HeldInv, ObjectsAreHeld, NoOrphanAtRest, Idle, Holding
<1>4. QED  BY <1>1, <1>2, <1>3, TypeCorrect, PTL DEF Spec

-----------------------------------------------------------------------------
(* One request at a time, and neither a database that fails nor a process   *)
(* that dies, which would leave a swept drop with its rows: then a smoke's  *)
(* photos have their bytes, whatever the bucket does.                       *)

\* A row has its bytes, but for those a sweep is about to delete.
RowsHaveBytes ==
  \A p \in Photos :
    /\ attached[p] # NoSmoke => p \in bucket
    /\ staged[p] # NoDrop =>
         p \in bucket \/ \E r \in Requests : req[r].pc = "sweep_rows" /\ staged[p] \in req[r].drops

\* What a request has read of its photos is still so.
ReadIsTrue ==
  \A r \in Requests : \A p \in req[r].photos :
    /\ req[r].pc \in {"remove_staged", "move"} => staged[p] # NoDrop
    /\ req[r].pc = "delete" => attached[p] = req[r].smoke
    /\ req[r].pc = "unlink" => attached[p] = NoSmoke
    /\ req[r].pc = "cleanup" => staged[p] = NoDrop /\ attached[p] = NoSmoke
    /\ req[r].pc = "sweep_objects" => staged[p] \in req[r].drops

BytesInv == RowsHaveBytes /\ ReadIsTrue

\* Alone, a request that has begun takes the bytes of no row but those it sweeps.
LEMMA BusyBytes ==
  ASSUME PhotoInv, TargetIsSmoke, BytesInv,
         "db" \notin Faults, "answer" \notin Faults, "crash" \notin Faults,
         NEW r \in Requests, Step(r), ~At(r, "idle"),
         \A q \in Requests \ {r} : At(q, "idle")
  PROVE  BytesInv'
<1> DEFINE Known(pc, s, ds, p) ==
             /\ pc \in {"remove_staged", "move"} => staged[p] # NoDrop
             /\ pc = "delete" => attached[p] = s
             /\ pc = "unlink" => attached[p] = NoSmoke
             /\ pc = "cleanup" => staged[p] = NoDrop /\ attached[p] = NoSmoke
             /\ pc = "sweep_objects" => staged[p] \in ds
<1>0. /\ req \in [Requests -> [pc : Stages, drops : SUBSET Drops,
                               smoke : Smokes \union {NoSmoke}, photos : SUBSET Photos]]
      /\ staged \in [Photos -> Drops \union {NoDrop}]
      /\ attached \in [Photos -> Smokes \union {NoSmoke}]
      /\ bucket \subseteq Photos /\ TypeOK
      /\ NoDrop \notin Drops /\ NoSmoke \notin Smokes
  BY SentinelAssumption DEF PhotoInv, TypeOK
<1>1. /\ \A p \in Photos : attached[p] # NoSmoke => p \in bucket
      /\ \A p \in Photos : staged[p] # NoDrop =>
           p \in bucket \/ (req[r].pc = "sweep_rows" /\ staged[p] \in req[r].drops)
      /\ \A p \in req[r].photos : Known(req[r].pc, req[r].smoke, req[r].drops, p)
  BY DEF BytesInv, RowsHaveBytes, ReadIsTrue, At
<1>2. \A q \in Requests \ {r} : req'[q] = req[q]
  BY <1>0, RequestStep
\* It is enough to look at the request itself.
<1>3. ASSUME \A p \in Photos : attached'[p] # NoSmoke => p \in bucket',
             \A p \in Photos : staged'[p] # NoDrop =>
               p \in bucket' \/ (req'[r].pc = "sweep_rows" /\ staged'[p] \in req'[r].drops),
             \A p \in req'[r].photos :
               /\ req'[r].pc \in {"remove_staged", "move"} => staged'[p] # NoDrop
               /\ req'[r].pc = "delete" => attached'[p] = req'[r].smoke
               /\ req'[r].pc = "unlink" => attached'[p] = NoSmoke
               /\ req'[r].pc = "cleanup" => staged'[p] = NoDrop /\ attached'[p] = NoSmoke
               /\ req'[r].pc = "sweep_objects" => staged'[p] \in req'[r].drops
      PROVE  BytesInv'
  <2>1. \A q \in Requests \ {r} : req'[q].pc = "idle"  BY <1>2 DEF At
  <2>2. RowsHaveBytes'  BY <1>3 DEF RowsHaveBytes
  <2>3. ReadIsTrue'  BY <1>3, <2>1 DEF ReadIsTrue
  <2>4. QED  BY <2>2, <2>3 DEF BytesInv
<1> HIDE DEF Known
\* Steps that leave rows alone, take no bytes and go where nothing need be known.
<1>4. ASSUME UNCHANGED <<staged, attached>>, bucket \subseteq bucket',
             NEW new, req' = [req EXCEPT ![r] = new], req[r].pc # "sweep_rows",
             new.pc \notin {"remove_staged", "move", "delete", "unlink", "cleanup", "sweep_objects"}
      PROVE  BytesInv'
  BY <1>0, <1>1, <1>3, <1>4
<1>5. CASE Put(r)
  <2>1. PICK pc \in {"insert_staged", "insert_attached"} :
          req' = [req EXCEPT ![r] = [pc |-> pc, drops |-> req[r].drops,
                                     smoke |-> req[r].smoke, photos |-> req[r].photos]]
    BY <1>5 DEF Put, Advance, Goto
  <2>2. QED  BY <1>4, <1>5, <2>1 DEF Put, At, photoVars
<1>6. CASE PutFails(r)
  BY <1>4, <1>6 DEF PutFails, Done, Idle, At, photoVars
<1>7. CASE InsertStaged(r)
  <2>1. PICK d \in Drops :
          staged' = [p \in Photos |-> IF p \in req[r].photos THEN d ELSE staged[p]]
    BY <1>0, <1>7 DEF InsertStaged, StageRow
  <2>2. /\ req'[r] = Idle /\ bucket' = bucket /\ attached' = attached
        /\ req[r].pc = "insert_staged" /\ req[r].photos \subseteq bucket
    BY <1>0, <1>7 DEF InsertStaged, StageRow, Done, objVars, At, PhotoInv, InsertHasBytes
  <2>3. QED  BY <1>0, <1>1, <1>3, <2>1, <2>2 DEF Idle
<1>8. CASE InsertAttached(r)
  <2>1. /\ req'[r] = Idle /\ bucket' = bucket /\ staged' = staged
        /\ attached' = [p \in Photos |-> IF p \in req[r].photos THEN req[r].smoke ELSE attached[p]]
        /\ req[r].pc = "insert_attached" /\ req[r].photos \subseteq bucket
    BY <1>0, <1>8 DEF InsertAttached, AttachRow, Done, objVars, At, PhotoInv, InsertHasBytes
  <2>2. QED  BY <1>0, <1>1, <1>3, <2>1 DEF Idle
<1>9. CASE InsertFails(r)
  <2>1. /\ req'[r].pc = "cleanup" /\ req'[r].photos = req[r].photos
        /\ UNCHANGED <<staged, attached, bucket>>
        /\ req[r].pc \in {"insert_staged", "insert_attached"}
    BY <1>0, <1>9 DEF InsertFails, Advance, Goto, At, photoVars, objVars
  <2>2. \A p \in req[r].photos : staged[p] = NoDrop /\ attached[p] = NoSmoke
    BY <2>1 DEF PhotoInv, UploadIsAlone, Uploading
  <2>3. QED  BY <1>0, <1>1, <1>3, <2>1, <2>2
<1>10. CASE Cleanup(r)
  <2>1. /\ req'[r] = Idle /\ UNCHANGED <<staged, attached>>
        /\ bucket \ req[r].photos \subseteq bucket' /\ req[r].pc \in {"cleanup", "unlink"}
    BY <1>0, <1>10 DEF Cleanup, Done, Deletable, photoVars, At
  <2>2. \A p \in req[r].photos : staged[p] = NoDrop /\ attached[p] = NoSmoke
    <3>1. CASE req[r].pc = "cleanup"
      BY <1>1, <3>1 DEF Known
    <3>2. CASE req[r].pc = "unlink"
      BY <1>1, <3>2 DEF Known, PhotoInv, UnlinkIsUnstaged
    <3>3. QED  BY <2>1, <3>1, <3>2
  <2>3. QED  BY <1>0, <1>1, <1>3, <2>1, <2>2 DEF Idle
<1>11. CASE ClaimRefused(r) \/ ClaimFails(r) \/ RemovalFails(r)
  BY <1>4, <1>11
  DEF ClaimRefused, ClaimFails, RemovalFails, Done, Idle, At, photoVars, objVars
<1>12. ASSUME NEW d \in Drops, NEW s \in Smokes, ClaimRead(r, d, s) PROVE BytesInv'
  BY <1>4, <1>12 DEF ClaimRead, Starts, Goto, At, photoVars, objVars
<1>13. CASE ClaimPick(r)
  <2>1. PICK d \in req[r].drops : \E moving \in SUBSET StagedIn(d) :
          Goto(r, "move", req[r].drops, req[r].smoke, moving)
    BY <1>13 DEF ClaimPick
  <2>2. PICK moving \in SUBSET StagedIn(d) :
          Goto(r, "move", req[r].drops, req[r].smoke, moving)
    BY <2>1
  <2>3. /\ req'[r].pc = "move" /\ req'[r].photos = moving
        /\ \A p \in moving : staged[p] = d
        /\ UNCHANGED <<staged, attached, bucket>> /\ req[r].pc = "claim" /\ d \in Drops
    BY <1>0, <1>13, <2>2 DEF ClaimPick, Goto, StagedIn, At, photoVars, objVars
  <2>4. QED  BY <1>0, <1>1, <1>3, <2>3
<1>14. CASE ClaimCommit(r)
  <2>1. /\ req'[r] = Idle /\ bucket' = bucket /\ req[r].pc = "move"
        /\ staged' = [p \in Photos |-> IF p \in req[r].photos THEN NoDrop ELSE staged[p]]
        /\ attached' = [p \in Photos |-> IF p \in req[r].photos THEN req[r].smoke ELSE attached[p]]
    BY <1>0, <1>14 DEF ClaimCommit, MovePhotos, Done, objVars, At
  <2>2. req[r].photos \subseteq bucket
    BY <1>0, <1>1, <2>1 DEF Known
  <2>3. QED  BY <1>0, <1>1, <1>3, <2>1, <2>2 DEF Idle
<1>15. CASE RemoveRow(r)
  <2>1. /\ req'[r].pc = "unlink" /\ req'[r].photos = req[r].photos /\ bucket' = bucket
        /\ \A p \in Photos : staged'[p] \in {staged[p], NoDrop} /\ attached'[p] \in {attached[p], NoSmoke}
        /\ req[r].pc \in {"remove_staged", "remove_attached"}
        /\ req[r].pc = "remove_staged" => attached' = attached
        /\ req[r].pc = "remove_attached" => \A p \in req[r].photos : attached'[p] = NoSmoke
    BY <1>0, <1>15 DEF RemoveRow, Advance, Goto, objVars, At
  <2>2. \A p \in req[r].photos : attached'[p] = NoSmoke
    BY <1>0, <1>1, <2>1 DEF Known, PhotoInv, OnePlace
  <2>3. QED  BY <1>0, <1>1, <1>3, <2>1, <2>2
<1>16. CASE DeleteCommit(r)
  <2>1. /\ req'[r].pc = "unlink" /\ req'[r].photos = req[r].photos /\ bucket' = bucket
        /\ staged' = staged /\ req[r].pc = "delete"
        /\ attached' = [p \in Photos |-> IF attached[p] = req[r].smoke THEN NoSmoke ELSE attached[p]]
    BY <1>0, <1>16 DEF DeleteCommit, ForeignKeyActions, Goto, At, objVars
  <2>2. \A p \in req[r].photos : attached'[p] = NoSmoke
    BY <1>0, <1>1, <2>1 DEF Known
  <2>3. QED  BY <1>0, <1>1, <1>3, <2>1, <2>2
<1>17. CASE SweepStaged(r)
  <2>1. /\ req'[r] = [pc |-> "sweep_objects", drops |-> req[r].drops, smoke |-> NoSmoke,
                      photos |-> Sweepable(req[r].drops)]
        /\ UNCHANGED <<staged, attached, bucket>> /\ req[r].pc = "sweep_staged"
    BY <1>0, <1>17 DEF SweepStaged, Goto, At, photoVars, objVars
  <2>2. QED  BY <1>1, <1>3, <2>1 DEF Sweepable
<1>18. CASE SweepObjects(r)
  <2>1. /\ req[r].pc = "sweep_objects" /\ req'[r].pc = "sweep_rows"
        /\ req'[r].drops = req[r].drops
        /\ bucket \ req[r].photos \subseteq bucket' /\ UNCHANGED <<staged, attached>>
    BY <1>0, <1>18 DEF SweepObjects, Deletable, Advance, Goto, At, photoVars
  <2>2. \A p \in req[r].photos : staged[p] \in req[r].drops /\ attached[p] = NoSmoke
    BY <1>0, <1>1, <2>1 DEF Known, PhotoInv, OnePlace
  <2>3. QED  BY <1>0, <1>1, <1>3, <2>1, <2>2
<1>19. CASE SweepRows(r)
  <2>1. /\ req[r].pc = "sweep_rows" /\ req'[r].pc = "open" /\ bucket' = bucket
        /\ attached' = attached
        /\ staged' = [p \in Photos |-> IF staged[p] \in req[r].drops THEN NoDrop ELSE staged[p]]
    BY <1>0, <1>19 DEF SweepRows, Goto, At, objVars
  <2>2. QED  BY <1>0, <1>1, <1>3, <2>1
<1>20. CASE InsertUnanswered(r) \/ SweepFails(r) \/ Crash(r)
  BY <1>20 DEF InsertUnanswered, SweepFails, Crash
<1>21. CASE OpenDrop(r)
  BY <1>4, <1>21 DEF OpenDrop, Done, Idle, At, photoVars, objVars
<1>22. QED
  BY <1>5, <1>6, <1>7, <1>8, <1>9, <1>10, <1>11, <1>12, <1>13, <1>14, <1>15, <1>16, <1>17,
     <1>18, <1>19, <1>20, <1>21
  DEF Step

\* A request that begins reads what is so, and touches no row and no bytes.
LEMMA BeginBytes ==
  ASSUME PhotoInv, BytesInv, NEW r \in Requests, At(r, "idle"), Step(r) \/ Start(r)
  PROVE  BytesInv'
<1>1. /\ UNCHANGED <<staged, attached, bucket>>
      /\ \A q \in Requests \ {r} : req'[q] = req[q]
      /\ req'[r].pc \notin {"sweep_objects", "sweep_rows", "move", "unlink", "cleanup"}
      /\ req'[r].pc = "delete" => req'[r].photos = AttachedTo(req'[r].smoke)
      /\ req'[r].pc = "remove_staged" => \A p \in req'[r].photos : staged[p] # NoDrop
  BY IdleStep DEF PhotoInv
<1>2. \A q \in Requests : req[q].pc = "sweep_rows" => req'[q] = req[q]
  BY <1>1 DEF At
<1>3. RowsHaveBytes'  BY <1>1, <1>2 DEF BytesInv, RowsHaveBytes
<1>4. ReadIsTrue'  BY <1>1 DEF BytesInv, ReadIsTrue, AttachedTo
<1>5. QED  BY <1>3, <1>4 DEF BytesInv

\* While no two requests are in flight at a time, the database does not fail (nor loses an
\* answer) and no process dies, a smoke's photo has its objects, whatever the bucket refuses: an upload puts them
\* before its row, a removal and a deletion take the row first, and a sweep takes the rows
\* of what it has deleted before a late claim can move them.
THEOREM BytesOneAtATime ==
  ASSUME "db" \notin Faults, "answer" \notin Faults, "crash" \notin Faults
  PROVE  Spec /\ []OneAtATime => []AttachedHasBytes
<1>1. Init => BytesInv /\ CapInv
  <2> SUFFICES ASSUME Init PROVE BytesInv  BY CapInit
  <2>1. QED  BY DEF Init, Idle, BytesInv, RowsHaveBytes, ReadIsTrue
<1>2. ASSUME PhotoInv, OneAtATime, BytesInv, CapInv, [Next]_vars PROVE BytesInv' /\ CapInv'
  <2>0. TypeOK  BY <1>2 DEF PhotoInv
  <2>1. CASE (\E d \in Drops : Age(d)) \/ UNCHANGED vars
    <3>1. UNCHANGED <<staged, attached, bucket, req>>
      BY <2>1 DEF Age, photoVars, objVars, vars
    <3>2. BytesInv'
      BY <1>2, <3>1 DEF BytesInv, RowsHaveBytes, ReadIsTrue
    <3>3. QED  BY <1>2, <2>0, <3>2, CapNext
  <2>2. ASSUME NEW r \in Requests, Step(r) \/ Start(r) PROVE BytesInv'
    <3>1. CASE At(r, "idle")  BY <1>2, <2>2, <3>1, BeginBytes
    <3>2. CASE ~At(r, "idle")
      <4>1. Step(r)
        BY <2>2, <3>2
        DEF Start, StageBegin, RemoveThroughLink, AddBegin, RemoveFromSmoke, SaveSmoke,
            DeleteBegin, OpenBegin, Starts
      <4>2. \A q \in Requests \ {r} : At(q, "idle")  BY <1>2, <3>2 DEF OneAtATime
      <4>3. QED  BY <1>2, <3>2, <4>1, <4>2, BusyBytes DEF CapInv
    <3>3. QED  BY <3>1, <3>2
  <2>3. QED  BY <1>2, <2>0, <2>1, <2>2, CapNext DEF Next
<1>3. BytesInv => AttachedHasBytes
  BY DEF BytesInv, RowsHaveBytes, AttachedHasBytes
<1>4. QED  BY <1>1, <1>2, <1>3, PhotoInvariant, PTL DEF Spec
=============================================================================
