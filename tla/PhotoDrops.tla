---------------------------- MODULE PhotoDrops ----------------------------
(***************************************************************************)
(* The life of a smoke's photos: photo drops, the photos staged in them,   *)
(* the claim that moves them onto a smoke, removal, the deletion of the    *)
(* smoke and the retention sweep, against one database and one bucket.     *)
(*                                                                         *)
(* Every service is a request that runs in steps.  A step is one           *)
(* transaction, one read outside a transaction, or one batch of calls on   *)
(* the bucket; other requests run between two steps.  A claim reads inside *)
(* its own transaction, at READ COMMITTED and without a row lock, so its   *)
(* read and its commit are two steps as well.                              *)
(*                                                                         *)
(* One user: ownership guards are true throughout and are not written.     *)
(***************************************************************************)
EXTENDS Naturals, FiniteSets

CONSTANTS
  Drops,      \* ids of photo_drops rows
  Smokes,     \* ids of smokes rows
  Photos,     \* photo ids; a photo's two objects are one object here
  Requests,   \* slots for requests in flight
  MaxPhotos,  \* MAX_PHOTOS_PER_SMOKE = MAX_PHOTOS_PER_DROP (12)
  Ops,        \* the operations the environment may start
  Faults,     \* the faults that may happen: "db" a statement that takes no effect,
              \* "answer" one that does and reports an error, "storage", "crash"
  NoDrop, NoSmoke, NoStart, Stated

ASSUME MaxPhotosAssumption == MaxPhotos \in Nat \ {0}
ASSUME SentinelAssumption ==
  /\ NoDrop \notin Drops
  /\ NoSmoke \notin Smokes
  /\ NoStart \notin Drops \union {Stated}
ASSUME FiniteAssumption == IsFiniteSet(Photos)

VARIABLES
  dropRow,   \* photo_drops: "unborn", "row", or "swept"
  age,       \* of a drop: 0 live, 1 past expires_at, 2 days past it, 3 past retention
  claimed,   \* photo_drops.claimed_at is set
  boundTo,   \* photo_drops.smoke_id
  smokeRow,  \* smokes: "unborn", "row", or "deleted"
  start,     \* smokes.started_at: unset, stated, or a drop's session start
  staged,    \* staged_smoke_photos: the drop of a photo's row
  attached,  \* smoke_photos: the smoke of a photo's row
  bucket,    \* photos whose objects are in the bucket
  minted,    \* photo ids given out (randomUUID never repeats)
  unanswered,\* photos whose insert committed and whose answer was lost (history)
  req        \* the requests in flight

vars == <<dropRow, age, claimed, boundTo, smokeRow, start, staged, attached,
          bucket, minted, unanswered, req>>

dropVars  == <<dropRow, age, claimed, boundTo>>
smokeVars == <<smokeRow, start>>
photoVars == <<staged, attached>>
objVars   == <<bucket, minted, unanswered>>

Stages == {"idle", "put_staged", "put_attached", "insert_staged",
           "insert_attached", "cleanup", "claim_read", "claim", "move",
           "remove_staged", "remove_attached", "unlink", "delete",
           "sweep_staged", "sweep_objects", "sweep_rows", "open"}

Idle == [pc |-> "idle", drops |-> {}, smoke |-> NoSmoke, photos |-> {}]

Init ==
  /\ dropRow = [d \in Drops |-> "unborn"]
  /\ age = [d \in Drops |-> 0]
  /\ claimed = [d \in Drops |-> FALSE]
  /\ boundTo = [d \in Drops |-> NoSmoke]
  /\ smokeRow = [s \in Smokes |-> "unborn"]
  /\ start = [s \in Smokes |-> NoStart]
  /\ staged = [p \in Photos |-> NoDrop]
  /\ attached = [p \in Photos |-> NoSmoke]
  /\ bucket = {}
  /\ minted = {}
  /\ unanswered = {}
  /\ req = [r \in Requests |-> Idle]

-----------------------------------------------------------------------------
(* Reads *)

StagedIn(d)   == {p \in Photos : staged[p] = d}
AttachedTo(s) == {p \in Photos : attached[p] = s}

\* dropStatus: claimed with no smoke is closed, not open again.
Status(d) ==
  IF age[d] > 0 \/ (claimed[d] /\ boundTo[d] = NoSmoke) THEN "closed"
  ELSE IF claimed[d] THEN "attached" ELSE "open"

RoomOffByOne(s) ==
  LET held == Cardinality(AttachedTo(s))
  IN  IF held > MaxPhotos THEN 0 ELSE MaxPhotos + 1 - held

\* The room a smoke has under its cap.
Room(s) ==
  LET held == Cardinality(AttachedTo(s))
  IN  IF held >= MaxPhotos THEN 0 ELSE MaxPhotos - held

\* What the retention sweep takes.
Doomed(d) ==
  /\ dropRow[d] = "row"
  /\ age[d] = 3 \/ (claimed[d] /\ boundTo[d] = NoSmoke /\ age[d] > 0)

Goto(r, pc, ds, s, ps) ==
  req' = [req EXCEPT ![r] = [pc |-> pc, drops |-> ds, smoke |-> s, photos |-> ps]]

At(r, pc) == req[r].pc = pc
Advance(r, pc) == Goto(r, pc, req[r].drops, req[r].smoke, req[r].photos)
Done(r) == req' = [req EXCEPT ![r] = Idle]
Starts(r, op) == At(r, "idle") /\ op \in Ops

-----------------------------------------------------------------------------
(* stagePhotoByToken and addSmokePhoto: bucket first, row second.          *)

\* Uploads through the link are staged only while the drop is open.
Stageable(d) == dropRow[d] = "row" /\ Status(d) = "open"

\* An upload through the link of an open drop.
StageBegin(r, d, p) ==
  /\ Starts(r, "upload")
  /\ Stageable(d)
  /\ Cardinality(StagedIn(d)) < MaxPhotos
  /\ p \notin minted
  /\ minted' = minted \union {p}
  /\ Goto(r, "put_staged", {d}, NoSmoke, {p})
  /\ UNCHANGED <<dropVars, smokeVars, photoVars, bucket, unanswered>>

\* An upload to a smoke: its owner's, or through the link of an attached drop.
AddBegin(r, s, p) ==
  /\ Starts(r, "upload")
  /\ smokeRow[s] = "row"
  /\ Cardinality(AttachedTo(s)) < MaxPhotos
  /\ p \notin minted
  /\ minted' = minted \union {p}
  /\ Goto(r, "put_attached", {}, s, {p})
  /\ UNCHANGED <<dropVars, smokeVars, photoVars, bucket, unanswered>>

PutAfterRow(r) ==
  /\ \/ At(r, "put_staged") /\ Advance(r, "insert_staged")
     \/ At(r, "put_attached") /\ Advance(r, "insert_attached")
  /\ UNCHANGED <<dropVars, smokeVars, photoVars, objVars>>

Put(r) ==
  /\ \/ At(r, "put_staged") /\ Advance(r, "insert_staged")
     \/ At(r, "put_attached") /\ Advance(r, "insert_attached")
  /\ bucket' = bucket \union req[r].photos
  /\ UNCHANGED <<dropVars, smokeVars, photoVars, minted, unanswered>>

\* A put that throws: nothing is cleaned up, one object may be left behind.
PutFails(r) ==
  /\ "storage" \in Faults
  /\ At(r, "put_staged") \/ At(r, "put_attached")
  /\ bucket' \in {bucket, bucket \union req[r].photos}
  /\ Done(r)
  /\ UNCHANGED <<dropVars, smokeVars, photoVars, minted, unanswered>>

\* The rows an upload commits.
StageRow(r) ==
  /\ At(r, "insert_staged")
  /\ \E d \in req[r].drops :
       /\ dropRow[d] = "row"    \* the drop_id foreign key
       /\ staged' = [p \in Photos |-> IF p \in req[r].photos THEN d ELSE staged[p]]
  /\ UNCHANGED <<dropVars, smokeVars, attached>>

AttachRow(r) ==
  /\ At(r, "insert_attached")
  /\ smokeRow[req[r].smoke] = "row"    \* the smoke_id foreign key
  /\ attached' = [p \in Photos |->
                    IF p \in req[r].photos THEN req[r].smoke ELSE attached[p]]
  /\ UNCHANGED <<dropVars, smokeVars, staged>>

InsertStaged(r)   == StageRow(r) /\ Done(r) /\ UNCHANGED objVars
InsertAttached(r) == AttachRow(r) /\ Done(r) /\ UNCHANGED objVars

\* The commit took effect and its answer was lost: transaction() rejects, and the upload
\* cleans up after a row that is there.  (Any other commit without its answer is the commit
\* followed by Crash: its request does nothing more.)
InsertUnanswered(r) ==
  /\ "answer" \in Faults
  /\ StageRow(r) \/ AttachRow(r)
  /\ unanswered' = unanswered \union req[r].photos
  /\ Advance(r, "cleanup")
  /\ UNCHANGED <<bucket, minted>>

InsertFailsUncleaned(r) ==
  /\ At(r, "insert_staged") \/ At(r, "insert_attached")
  /\ "db" \in Faults
  /\ Done(r)
  /\ UNCHANGED <<dropVars, smokeVars, photoVars, objVars>>

\* The insert is refused by its foreign key, or the database fails: no row.
InsertFails(r) ==
  /\ \/ /\ At(r, "insert_staged")
        /\ "db" \in Faults \/ \A d \in req[r].drops : dropRow[d] # "row"
     \/ /\ At(r, "insert_attached")
        /\ "db" \in Faults \/ smokeRow[req[r].smoke] # "row"
  /\ Advance(r, "cleanup")
  /\ UNCHANGED <<dropVars, smokeVars, photoVars, objVars>>

\* Best-effort deletes: each may fail and is swallowed.
Deletable(ps) == IF "storage" \in Faults THEN SUBSET ps ELSE {ps}

Cleanup(r) ==
  /\ At(r, "cleanup") \/ At(r, "unlink")
  /\ \E gone \in Deletable(req[r].photos) : bucket' = bucket \ gone
  /\ Done(r)
  /\ UNCHANGED <<dropVars, smokeVars, photoVars, minted, unanswered>>

-----------------------------------------------------------------------------
(* save_smoke's effect on these tables, and claimPhotoDrop after it.        *)

\* The save commits a smoke; its start is unset, stated, or the session start
\* of the drop it names.  A save that names a drop goes on to claim it.
SaveSmoke(r, s, ds) ==
  /\ Starts(r, "save")
  /\ smokeRow[s] = "unborn"
  /\ Cardinality(ds) <= 1
  /\ smokeRow' = [smokeRow EXCEPT ![s] = "row"]
  /\ \E at \in {NoStart, Stated} \union {d \in ds : dropRow[d] = "row"} :
       start' = [start EXCEPT ![s] = at]
  /\ IF ds = {} THEN Done(r) ELSE Goto(r, "claim_read", ds, s, {})
  /\ UNCHANGED <<dropVars, photoVars, objVars>>

\* A drop another smoke holds is reported bound_elsewhere and left alone.
Claimable(d, s) ==
  dropRow[d] = "row" /\ smokeRow[s] = "row" /\ boundTo[d] \in {NoSmoke, s}

\* The reads ahead of the claim's transaction.  A claim also starts on its own:
\* the replay of a save, or add_smoke_photo with a photoDropId.
ClaimRead(r, d, s) ==
  /\ \/ Starts(r, "claim")
     \/ At(r, "claim_read") /\ req[r].drops = {d} /\ req[r].smoke = s
  /\ Claimable(d, s)
  /\ Goto(r, "claim", {d}, s, {})
  /\ UNCHANGED <<dropVars, smokeVars, photoVars, objVars>>

\* not_found, bound_elsewhere, or an error the save swallows.
ClaimRefused(r) ==
  /\ At(r, "claim_read")
  /\ \/ "db" \in Faults
     \/ \E d \in req[r].drops : ~Claimable(d, req[r].smoke)
  /\ Done(r)
  /\ UNCHANGED <<dropVars, smokeVars, photoVars, objVars>>

\* In the transaction: the staged rows to move, at most the smoke's room.
ClaimPick(r) ==
  /\ At(r, "claim")
  /\ \E d \in req[r].drops : \E moving \in SUBSET StagedIn(d) :
       /\ \/ moving = StagedIn(d) /\ Cardinality(moving) <= Room(req[r].smoke)
          \/ moving # StagedIn(d) /\ Cardinality(moving) = Room(req[r].smoke)
       /\ Goto(r, "move", req[r].drops, req[r].smoke, moving)
  /\ UNCHANGED <<dropVars, smokeVars, photoVars, objVars>>

MovePhotosCopies(r) ==
  /\ attached' = [p \in Photos |->
                    IF p \in req[r].photos THEN req[r].smoke ELSE attached[p]]
  /\ UNCHANGED staged

MovePhotos(r) ==
  /\ staged' = [p \in Photos |-> IF p \in req[r].photos THEN NoDrop ELSE staged[p]]
  /\ attached' = [p \in Photos |->
                    IF p \in req[r].photos THEN req[r].smoke ELSE attached[p]]

BindDropToItself(r) ==
  LET bound == {d \in req[r].drops : dropRow[d] = "row"} IN
  /\ claimed' = [d \in Drops |-> claimed[d] \/ d \in bound]
  /\ boundTo' = [d \in Drops |-> IF d \in bound THEN d ELSE boundTo[d]]

BindDrop(r) ==
  LET bound == {d \in req[r].drops : dropRow[d] = "row"} IN
  /\ claimed' = [d \in Drops |-> claimed[d] \/ d \in bound]
  /\ boundTo' = [d \in Drops |-> IF d \in bound THEN req[r].smoke ELSE boundTo[d]]

\* COALESCE on started_at, when the session start is within the window.
StampStart(r) ==
  \/ UNCHANGED start
  \/ /\ start[req[r].smoke] = NoStart
     /\ \E d \in req[r].drops : start' = [start EXCEPT ![req[r].smoke] = d]

\* The commit.  Inserting needs the smoke (foreign key) and photo ids no
\* smoke_photos row has (primary key); deleting a staged row that is gone, and
\* updating a drop that is gone, touch no row and do not fail.  The claim does
\* not look at the drop again.
ClaimCommit(r) ==
  /\ At(r, "move")
  /\ smokeRow[req[r].smoke] = "row"
  /\ \A p \in req[r].photos : attached[p] = NoSmoke
  /\ MovePhotos(r) /\ BindDrop(r) /\ StampStart(r)
  /\ Done(r)
  /\ UNCHANGED <<dropRow, age, smokeRow, objVars>>

ClaimFails(r) ==
  /\ At(r, "claim") \/ At(r, "move")
  /\ \/ "db" \in Faults
     \/ smokeRow[req[r].smoke] # "row"
     \/ \E p \in req[r].photos : attached[p] # NoSmoke
  /\ Done(r)
  /\ UNCHANGED <<dropVars, smokeVars, photoVars, objVars>>

-----------------------------------------------------------------------------
(* removePhotoDropPhoto, removeSmokePhoto and deleteSmoke: row first.       *)

\* Through the link: resolveDropPhoto finds the row, then it is removed.
RemoveThroughLink(r, d, p) ==
  /\ Starts(r, "remove")
  /\ dropRow[d] = "row" /\ Status(d) # "closed"
  /\ \/ staged[p] = d /\ Goto(r, "remove_staged", {}, NoSmoke, {p})
     \/ /\ Status(d) = "attached" /\ attached[p] = boundTo[d]
        /\ Goto(r, "remove_attached", {}, NoSmoke, {p})
  /\ UNCHANGED <<dropVars, smokeVars, photoVars, objVars>>

RemoveFromSmoke(r, p) ==
  /\ Starts(r, "remove")
  /\ attached[p] # NoSmoke
  /\ Goto(r, "remove_attached", {}, NoSmoke, {p})
  /\ UNCHANGED <<dropVars, smokeVars, photoVars, objVars>>

\* A delete by id: a row that is gone by now is no error.
RemoveRow(r) ==
  /\ \/ /\ At(r, "remove_staged")
        /\ staged' = [p \in Photos |-> IF p \in req[r].photos THEN NoDrop ELSE staged[p]]
        /\ UNCHANGED attached
     \/ /\ At(r, "remove_attached")
        /\ attached' = [p \in Photos |-> IF p \in req[r].photos THEN NoSmoke ELSE attached[p]]
        /\ UNCHANGED staged
  /\ Advance(r, "unlink")
  /\ UNCHANGED <<dropVars, smokeVars, objVars>>

\* deleteSmoke reads the storage keys before its transaction.
DeleteBegin(r, s) ==
  /\ Starts(r, "delete")
  /\ smokeRow[s] = "row"
  /\ Goto(r, "delete", {}, s, AttachedTo(s))
  /\ UNCHANGED <<dropVars, smokeVars, photoVars, objVars>>

\* smoke_photos cascades; photo_drops.smoke_id is set null.
ForeignKeyActions(s) ==
  /\ attached' = [p \in Photos |-> IF attached[p] = s THEN NoSmoke ELSE attached[p]]
  /\ boundTo' = [d \in Drops |-> IF boundTo[d] = s THEN NoSmoke ELSE boundTo[d]]

DeleteCommit(r) ==
  LET s == req[r].smoke IN
  /\ At(r, "delete")
  /\ smokeRow[s] = "row"
  /\ smokeRow' = [smokeRow EXCEPT ![s] = "deleted"]
  /\ start' = [start EXCEPT ![s] = NoStart]
  /\ ForeignKeyActions(s)
  /\ Goto(r, "unlink", {}, NoSmoke, req[r].photos)
  /\ UNCHANGED <<dropRow, age, claimed, staged, objVars>>

RemovalFails(r) ==
  /\ \/ At(r, "remove_staged") /\ "db" \in Faults
     \/ At(r, "remove_attached") /\ "db" \in Faults
     \/ At(r, "delete") /\ ("db" \in Faults \/ smokeRow[req[r].smoke] # "row")
  /\ Done(r)
  /\ UNCHANGED <<dropVars, smokeVars, photoVars, objVars>>

-----------------------------------------------------------------------------
(* openPhotoDrop: the retention sweep (objects first, rows second, every    *)
(* failure swallowed), then the drop.                                       *)

OpenBegin(r) ==
  LET doomed == {d \in Drops : Doomed(d)} IN
  /\ Starts(r, "open")
  /\ Goto(r, IF doomed = {} THEN "open" ELSE "sweep_staged", doomed, NoSmoke, {})
  /\ UNCHANGED <<dropVars, smokeVars, photoVars, objVars>>

\* Only staged photos: claimed ones are on smoke_photos.
Sweepable(ds) == {p \in Photos : staged[p] \in ds}

SweepStaged(r) ==
  /\ At(r, "sweep_staged")
  /\ Goto(r, "sweep_objects", req[r].drops, NoSmoke, Sweepable(req[r].drops))
  /\ UNCHANGED <<dropVars, smokeVars, photoVars, objVars>>

SweepObjects(r) ==
  /\ At(r, "sweep_objects")
  /\ \E gone \in Deletable(req[r].photos) : bucket' = bucket \ gone
  /\ Advance(r, "sweep_rows")
  /\ UNCHANGED <<dropVars, smokeVars, photoVars, minted, unanswered>>

\* Deleting the drop cascades whatever is staged in it now.
SweepRows(r) ==
  /\ At(r, "sweep_rows")
  /\ dropRow' = [d \in Drops |-> IF d \in req[r].drops THEN "swept" ELSE dropRow[d]]
  /\ age' = [d \in Drops |-> IF d \in req[r].drops THEN 0 ELSE age[d]]
  /\ claimed' = [d \in Drops |-> claimed[d] /\ d \notin req[r].drops]
  /\ boundTo' = [d \in Drops |-> IF d \in req[r].drops THEN NoSmoke ELSE boundTo[d]]
  /\ staged' = [p \in Photos |-> IF staged[p] \in req[r].drops THEN NoDrop ELSE staged[p]]
  /\ Goto(r, "open", {}, NoSmoke, {})
  /\ UNCHANGED <<smokeVars, attached, objVars>>

SweepFails(r) ==
  /\ "db" \in Faults
  /\ At(r, "sweep_staged") \/ At(r, "sweep_rows")
  /\ Goto(r, "open", {}, NoSmoke, {})
  /\ UNCHANGED <<dropVars, smokeVars, photoVars, objVars>>

\* The open continues a drop, which changes none of these tables, or makes one.
\* PhotoDropLinks models the choice.
OpenDrop(r) ==
  /\ At(r, "open")
  /\ \/ UNCHANGED dropRow
     \/ \E d \in Drops : /\ dropRow[d] = "unborn"
                         /\ dropRow' = [dropRow EXCEPT ![d] = "row"]
  /\ Done(r)
  /\ UNCHANGED <<age, claimed, boundTo, smokeVars, photoVars, objVars>>

-----------------------------------------------------------------------------
(* The environment *)

\* Time passes: a link expires, and five days later its drop is past retention.
\* No request lasts that long: age 2 is reached with nothing in flight.
Age(d) ==
  /\ dropRow[d] = "row" /\ age[d] < 3
  /\ age[d] = 1 => \A r \in Requests : At(r, "idle")
  /\ age' = [age EXCEPT ![d] = @ + 1]
  /\ UNCHANGED <<dropRow, claimed, boundTo, smokeVars, photoVars, objVars, req>>

\* The process dies in the middle of a request; nothing resumes it.
Crash(r) ==
  /\ "crash" \in Faults
  /\ ~At(r, "idle")
  /\ Done(r)
  /\ UNCHANGED <<dropVars, smokeVars, photoVars, objVars>>

Step(r) ==
  \/ Put(r) \/ PutFails(r) \/ InsertStaged(r) \/ InsertAttached(r)
  \/ InsertUnanswered(r) \/ InsertFails(r) \/ Cleanup(r)
  \/ ClaimRefused(r) \/ ClaimPick(r) \/ ClaimCommit(r) \/ ClaimFails(r)
  \/ \E d \in Drops, s \in Smokes : ClaimRead(r, d, s)
  \/ RemoveRow(r) \/ DeleteCommit(r) \/ RemovalFails(r)
  \/ SweepStaged(r) \/ SweepObjects(r) \/ SweepRows(r) \/ SweepFails(r)
  \/ OpenDrop(r) \/ Crash(r)

Start(r) ==
  \/ \E d \in Drops, p \in Photos : StageBegin(r, d, p) \/ RemoveThroughLink(r, d, p)
  \/ \E s \in Smokes, p \in Photos : AddBegin(r, s, p)
  \/ \E p \in Photos : RemoveFromSmoke(r, p)
  \/ \E s \in Smokes, ds \in SUBSET Drops : SaveSmoke(r, s, ds)
  \/ \E s \in Smokes : DeleteBegin(r, s)
  \/ OpenBegin(r)

Next == \/ \E r \in Requests : Step(r) \/ Start(r)
        \/ \E d \in Drops : Age(d)

Spec == Init /\ [][Next]_vars

-----------------------------------------------------------------------------
(* Properties *)

TypeOK ==
  /\ dropRow \in [Drops -> {"unborn", "row", "swept"}]
  /\ age \in [Drops -> 0..3]
  /\ claimed \in [Drops -> BOOLEAN]
  /\ boundTo \in [Drops -> Smokes \union {NoSmoke}]
  /\ smokeRow \in [Smokes -> {"unborn", "row", "deleted"}]
  /\ start \in [Smokes -> Drops \union {NoStart, Stated}]
  /\ staged \in [Photos -> Drops \union {NoDrop}]
  /\ attached \in [Photos -> Smokes \union {NoSmoke}]
  /\ bucket \subseteq Photos
  /\ minted \subseteq Photos
  /\ unanswered \subseteq Photos
  /\ req \in [Requests -> [pc : Stages, drops : SUBSET Drops,
                           smoke : Smokes \union {NoSmoke}, photos : SUBSET Photos]]

\* A claim is a move: however claims, retries, removals, sweeps and deletions
\* interleave, no photo is both staged in a drop and on a smoke.
OnePlace == \A p \in Photos : staged[p] = NoDrop \/ attached[p] = NoSmoke

\* The sweep deletes objects before rows, so a staged row may outlive its bytes,
\* but never behind a link that still works: what an open or attached drop's
\* page shows as staged is in the bucket.  Except a photo whose upload was reported failed
\* though its row committed: the upload deletes the objects of that row, and nothing that
\* runs later tells it from the others.
VisibleStagedHasBytes ==
  \A p \in Photos :
    (staged[p] # NoDrop /\ Status(staged[p]) # "closed" /\ p \notin unanswered)
      => p \in bucket

\* No row refers to a row that is gone: a smoke's photos and its drop's binding
\* go with it, a drop's staged photos with the drop.
NoForeignRow ==
  /\ \A p \in Photos : staged[p] # NoDrop => dropRow[staged[p]] = "row"
  /\ \A p \in Photos : attached[p] # NoSmoke => smokeRow[attached[p]] = "row"
  /\ \A d \in Drops : boundTo[d] # NoSmoke => smokeRow[boundTo[d]] = "row"

\* A smoke's photo can be served: its objects are in the bucket.  Not true of calls that
\* overlap (a claim beside a removal or a sweep), nor of a claim after a sweep that was cut
\* short between the objects and the rows, nor of an upload whose commit was not answered.
AttachedHasBytes == \A p \in Photos : attached[p] # NoSmoke => p \in bucket

\* A smoke never holds more photos than its cap.
CapHolds == \A s \in Smokes : Cardinality(AttachedTo(s)) <= MaxPhotos

\* With nothing in flight, every object in the bucket belongs to a row.
NoOrphanAtRest ==
  (\A r \in Requests : req[r] = Idle) =>
    \A p \in bucket : staged[p] # NoDrop \/ attached[p] # NoSmoke

\* Not true of an upload that overlaps a claim: once a drop is claimed its photos go to
\* the smoke, and nothing more is staged.
NoStagingAfterClaim ==
  [][\A p \in Photos :
       (staged[p] = NoDrop /\ staged'[p] # NoDrop) => ~claimed[staged'[p]]]_vars

\* Not true of two claims that overlap: a drop bound to a smoke is never taken over by
\* another one.
BindingIsFinal ==
  [][\A d \in Drops :
       (boundTo[d] # NoSmoke /\ boundTo'[d] # boundTo[d]) => boundTo'[d] = NoSmoke]_vars
=============================================================================
