--------------------------- MODULE PhotoDropLinks ---------------------------
(***************************************************************************)
(* Which drop openPhotoDrop hands out, and the bounded set of links (token  *)
(* hashes) each drop keeps: one user's opens, overlapping, with the claims  *)
(* and the retention sweep that end a drop.                                 *)
(*                                                                          *)
(* An open runs in the steps the database lets others run between: the      *)
(* sweep, the read of the drop to continue, then a transaction at READ      *)
(* COMMITTED.  A continue inserts its link (nobody sees it yet), updates    *)
(* the drop, which waits for and takes the row's lock, and then prunes and  *)
(* commits.                                                                 *)
(***************************************************************************)
EXTENDS Naturals, FiniteSets

CONSTANTS
  Drops,      \* ids of photo_drops rows
  Links,      \* photo_drop_tokens rows, by token hash
  Requests,   \* slots for opens in flight
  MaxLinks,   \* PHOTO_DROP_TOKENS_MAX (5)
  Gap,        \* DROP_SESSION_GAP_HOURS, in ticks of the clock
  Ttl,        \* PHOTO_DROP_TTL_SECONDS
  Retention,  \* PHOTO_DROP_RETENTION_SECONDS
  MaxTime,    \* bound on the clock
  Faults,     \* "db" when transactions may fail
  NoDrop, NoLink

ASSUME MaxLinksAssumption == MaxLinks \in Nat \ {0}
ASSUME TimeAssumption == Gap \in Nat /\ Ttl \in Nat /\ Retention \in Nat /\ MaxTime \in Nat
ASSUME SentinelAssumption == NoDrop \notin Drops /\ NoLink \notin Links
ASSUME LinksAreFinite == IsFiniteSet(Links)

VARIABLES
  clock,
  dropRow,     \* photo_drops: "unborn", "row" or "swept"
  created,     \* photo_drops.created_at
  expires,     \* photo_drops.expires_at
  lastOpened,  \* photo_drops.last_opened_at
  claimed,     \* photo_drops.claimed_at is set
  linkOf,      \* photo_drop_tokens.photo_drop_id, uncommitted rows included
  issued,      \* photo_drop_tokens.issued_at
  used,        \* token hashes drawn (randomBytes never repeats)
  req          \* the opens in flight

vars == <<clock, dropRow, created, expires, lastOpened, claimed, linkOf, issued, used, req>>
dropVars == <<dropRow, created, expires, lastOpened, claimed>>
linkVars == <<linkOf, issued, used>>

Stages == {"idle", "read", "mint", "stamp", "prune", "commit", "fresh"}

\* "now" is deps.now(), read once, ahead of the read of the drop.
Idle == [pc |-> "idle", drop |-> NoDrop, link |-> NoLink, gone |-> {}, now |-> 0]

Init ==
  /\ clock = 0
  /\ dropRow = [d \in Drops |-> "unborn"]
  /\ created = [d \in Drops |-> 0]
  /\ expires = [d \in Drops |-> 0]
  /\ lastOpened = [d \in Drops |-> 0]
  /\ claimed = [d \in Drops |-> FALSE]
  /\ linkOf = [l \in Links |-> NoDrop]
  /\ issued = [l \in Links |-> 0]
  /\ used = {}
  /\ req = [r \in Requests |-> Idle]

-----------------------------------------------------------------------------
(* Reads *)

At(r, pc) == req[r].pc = pc
Done(r)   == req' = [req EXCEPT ![r] = Idle]

\* Links inserted by a transaction that is still open.
Pending == {req[r].link : r \in {q \in Requests : req[q].pc \in {"stamp", "prune", "commit"}}}

\* A drop's links, as every other session sees them.
LiveLinks(d) == {l \in Links \ Pending : linkOf[l] = d}

Expired(d, now) == expires[d] <= now

\* sessionDrop: unclaimed, unexpired, last opened inside the gap ...
InSession(d, now) ==
  /\ dropRow[d] = "row"
  /\ ~claimed[d]
  /\ ~Expired(d, now)
  /\ lastOpened[d] + Gap >= now

\* ... and the most recently opened of these.
SessionDrops(now) ==
  {d \in Drops : /\ InSession(d, now)
                 /\ \A e \in Drops : InSession(e, now) => lastOpened[e] <= lastOpened[d]}

\* resumableDrop: a named drop, whatever the gap.
Resumable(d, now) == dropRow[d] = "row" /\ ~claimed[d] /\ ~Expired(d, now)

\* The UPDATE of last_opened_at holds the drop's row until the commit.
Locked(d) == \E r \in Requests : req[r].pc \in {"prune", "commit"} /\ req[r].drop = d

-----------------------------------------------------------------------------
(* openPhotoDrop *)

Open(r) ==
  /\ At(r, "idle")
  /\ req' = [req EXCEPT ![r].pc = "read"]
  /\ UNCHANGED <<clock, dropVars, linkVars>>

\* The drop to continue, or none, and the time of the read.
Decide(r, pc, d) ==
  req' = [req EXCEPT ![r] =
            [pc |-> pc, drop |-> d, link |-> NoLink, gone |-> {}, now |-> clock]]

\* A plain open continues the session's drop, or goes on to a fresh one.
ReadSession(r) ==
  /\ At(r, "read")
  /\ \/ \E d \in SessionDrops(clock) : Decide(r, "mint", d)
     \/ SessionDrops(clock) = {} /\ Decide(r, "fresh", NoDrop)
  /\ UNCHANGED <<clock, dropVars, linkVars>>

\* An open that names a drop resumes it, or is refused.
ReadNamed(r, d) ==
  /\ At(r, "read")
  /\ IF Resumable(d, clock) THEN Decide(r, "mint", d) ELSE Done(r)
  /\ UNCHANGED <<clock, dropVars, linkVars>>

InsertLinkOfItself(r, l) ==
  /\ At(r, "mint")
  /\ dropRow[req[r].drop] = "row"
  /\ l \notin used
  /\ used' = used \union {l}
  /\ linkOf' = [linkOf EXCEPT ![l] = l]
  /\ issued' = [issued EXCEPT ![l] = clock]
  /\ req' = [req EXCEPT ![r].pc = "stamp", ![r].link = l]
  /\ UNCHANGED <<clock, dropVars>>

\* The link is inserted; issued_at is the time its transaction began.
InsertLink(r, l) ==
  /\ At(r, "mint")
  /\ dropRow[req[r].drop] = "row"
  /\ l \notin used
  /\ used' = used \union {l}
  /\ linkOf' = [linkOf EXCEPT ![l] = req[r].drop]
  /\ issued' = [issued EXCEPT ![l] = clock]
  /\ req' = [req EXCEPT ![r].pc = "stamp", ![r].link = l]
  /\ UNCHANGED <<clock, dropVars>>

UpdateDropUnlocked(r) ==
  /\ At(r, "stamp")
  /\ req' = [req EXCEPT ![r].pc = "prune"]
  /\ UNCHANGED <<clock, dropVars, linkVars>>

UpdateDropUpgradesLock(r) ==
  /\ At(r, "stamp")
  /\ ~\E q \in Requests \ {r} :
        req[q].pc \in {"stamp", "prune", "commit"} /\ req[q].drop = req[r].drop
  /\ req' = [req EXCEPT ![r].pc = "prune"]
  /\ UNCHANGED <<clock, dropVars, linkVars>>

\* The UPDATE of last_opened_at, which waits for the row's lock and takes it; the
\* new value is seen from the commit on.
UpdateDrop(r) ==
  /\ At(r, "stamp")
  /\ ~Locked(req[r].drop)
  /\ req' = [req EXCEPT ![r].pc = "prune"]
  /\ UNCHANGED <<clock, dropVars, linkVars>>

KeepMaxOffByOne(seen) ==
  IF Cardinality(seen) < MaxLinks THEN Cardinality(seen) ELSE MaxLinks - 1

KeepMax(seen) == IF Cardinality(seen) < MaxLinks THEN Cardinality(seen) ELSE MaxLinks

\* The newest MaxLinks of the links a transaction sees; ties go by a random id.
Newest(seen) ==
  {keep \in SUBSET seen :
     /\ Cardinality(keep) = KeepMax(seen)
     /\ \A l \in keep, o \in seen \ keep : issued[o] <= issued[l]}

Seen(r) == LiveLinks(req[r].drop) \union {req[r].link}

NewestOnly(r) == Newest(Seen(r))

\* The links a prune keeps: the newest it sees, and the one it just minted.
Kept(r) == {keep \union {req[r].link} : keep \in Newest(Seen(r))}

\* The deletes are seen by nobody else before the commit.
Prune(r) ==
  /\ At(r, "prune")
  /\ \E keep \in Kept(r) :
       req' = [req EXCEPT ![r] = [@ EXCEPT !.pc = "commit", !.gone = Seen(r) \ keep]]
  /\ UNCHANGED <<clock, dropVars, linkVars>>

\* The commit.  last_opened_at becomes the time the open read, whatever it is now.
Commit(r) ==
  /\ At(r, "commit")
  /\ linkOf' = [l \in Links |-> IF l \in req[r].gone THEN NoDrop ELSE linkOf[l]]
  /\ lastOpened' = [lastOpened EXCEPT ![req[r].drop] = req[r].now]
  /\ Done(r)
  /\ UNCHANGED <<clock, dropRow, created, expires, claimed, issued, used>>

FreshWithoutLink(r, d, l) ==
  /\ At(r, "fresh")
  /\ dropRow[d] = "unborn" /\ l \notin used
  /\ dropRow' = [dropRow EXCEPT ![d] = "row"]
  /\ created' = [created EXCEPT ![d] = clock]
  /\ expires' = [expires EXCEPT ![d] = req[r].now + Ttl]
  /\ lastOpened' = [lastOpened EXCEPT ![d] = req[r].now]
  /\ used' = used \union {l}
  /\ Done(r)
  /\ UNCHANGED <<clock, claimed, linkOf, issued>>

\* A fresh drop and its first link, in one transaction nobody waits for.
FreshDrop(r, d, l) ==
  /\ At(r, "fresh")
  /\ dropRow[d] = "unborn" /\ l \notin used
  /\ dropRow' = [dropRow EXCEPT ![d] = "row"]
  /\ created' = [created EXCEPT ![d] = clock]
  /\ expires' = [expires EXCEPT ![d] = req[r].now + Ttl]
  /\ lastOpened' = [lastOpened EXCEPT ![d] = req[r].now]
  /\ used' = used \union {l}
  /\ linkOf' = [linkOf EXCEPT ![l] = d]
  /\ issued' = [issued EXCEPT ![l] = clock]
  /\ Done(r)
  /\ UNCHANGED <<clock, claimed>>

\* A bound: no id is left for what the transaction inserts.
OutOfIds(r) ==
  \/ req[r].pc \in {"mint", "fresh"} /\ used = Links
  \/ At(r, "fresh") /\ \A d \in Drops : dropRow[d] # "unborn"

\* A transaction that ends without a commit leaves nothing, and unlocks the row.
Rollback(r) ==
  /\ req[r].pc \in {"mint", "stamp", "prune", "commit", "fresh"}
  /\ linkOf' = [l \in Links |-> IF l = req[r].link THEN NoDrop ELSE linkOf[l]]
  /\ Done(r)
  /\ UNCHANGED <<clock, dropVars, issued, used>>

\* The insert of a link on a drop that is gone fails its foreign key.
Refused(r) ==
  /\ (At(r, "mint") /\ dropRow[req[r].drop] # "row") \/ OutOfIds(r)
  /\ Rollback(r)

\* The database fails the transaction, or the process dies.
Abort(r) == "db" \in Faults /\ Rollback(r)

-----------------------------------------------------------------------------
(* What else happens to a drop *)

\* claimPhotoDrop commits: it updates the drop's row, so it waits for the lock,
\* and it claims an expired drop too.
Claim(d) ==
  /\ dropRow[d] = "row" /\ ~claimed[d] /\ ~Locked(d)
  /\ claimed' = [claimed EXCEPT ![d] = TRUE]
  /\ UNCHANGED <<clock, dropRow, created, expires, lastOpened, linkVars, req>>

\* sweepPhotoDrops deletes a drop past retention; its links cascade.  The delete
\* waits for every transaction that references the row (the foreign key's lock).
Sweep(d) ==
  /\ dropRow[d] = "row"
  /\ created[d] + Retention < clock
  /\ ~\E r \in Requests : req[r].pc \in {"stamp", "prune", "commit"} /\ req[r].drop = d
  /\ dropRow' = [dropRow EXCEPT ![d] = "swept"]
  /\ linkOf' = [l \in Links |-> IF linkOf[l] = d THEN NoDrop ELSE linkOf[l]]
  /\ UNCHANGED <<clock, created, expires, lastOpened, claimed, issued, used, req>>

Tick == /\ clock < MaxTime
        /\ clock' = clock + 1
        /\ UNCHANGED <<dropVars, linkVars, req>>

Step(r) ==
  \/ ReadSession(r)
  \/ \E l \in Links : InsertLink(r, l)
  \/ Prune(r) \/ Commit(r) \/ Refused(r)
  \/ \E d \in Drops, l \in Links : FreshDrop(r, d, l)

Next ==
  \/ \E r \in Requests : Open(r) \/ Step(r) \/ UpdateDrop(r) \/ Abort(r)
  \/ \E r \in Requests, d \in Drops : ReadNamed(r, d)
  \/ \E d \in Drops : Claim(d) \/ Sweep(d)
  \/ Tick

Spec == Init /\ [][Next]_vars

\* An open's own steps are taken; the database grants a row lock that keeps
\* becoming free (waiters are queued).
FairSpec ==
  /\ Spec
  /\ \A r \in Requests : WF_vars(Step(r)) /\ SF_vars(UpdateDrop(r))

-----------------------------------------------------------------------------
(* Properties *)

TypeOK ==
  /\ clock \in Nat
  /\ dropRow \in [Drops -> {"unborn", "row", "swept"}]
  /\ created \in [Drops -> Nat]
  /\ expires \in [Drops -> Nat]
  /\ lastOpened \in [Drops -> Nat]
  /\ claimed \in [Drops -> BOOLEAN]
  /\ linkOf \in [Links -> Drops \union {NoDrop}]
  /\ issued \in [Links -> Nat]
  /\ used \subseteq Links
  /\ req \in [Requests -> [pc : Stages, drop : Drops \union {NoDrop},
                           link : Links \union {NoLink}, gone : SUBSET Links,
                           now : Nat]]

\* However opens of one drop overlap, it never has more than one working link
\* over the bound: the row lock orders the prunes, and each leaves the newest
\* MaxLinks and its own.
LinksBounded == \A d \in Drops : Cardinality(LiveLinks(d)) <= MaxLinks + 1

\* A drop is never out of reach: whatever is pruned, aborted or swept, a drop
\* that exists has a link that works.
EveryDropHasALink == \A d \in Drops : dropRow[d] = "row" => LiveLinks(d) # {}

\* The page a user has open keeps its link: while its drop exists, a link only
\* dies when MaxLinks others, none of them older, work in its place.
OnlyTheOldestDies ==
  [][\A d \in Drops, l \in Links :
       (l \in LiveLinks(d) /\ l \notin LiveLinks(d)' /\ dropRow'[d] = "row") =>
         Cardinality({o \in LiveLinks(d)' : issued'[o] >= issued[l]}) >= MaxLinks]_vars

\* An open that ends with a link ends with one that works: its own prune, and
\* those of the opens it raced, have spared it.
HandedLinkWorks ==
  [][\A r \in Requests : Commit(r) => linkOf'[req[r].link] = req[r].drop]_vars

\* Every open is answered: no set of overlapping opens waits on itself.
EveryOpenEnds == \A r \in Requests : At(r, "read") ~> At(r, "idle")

\* Not true of the code, whose first opens may overlap: a session has one open drop, no two that a plain open would continue.
OneOpenDropPerSession ==
  \A d, e \in Drops : InSession(d, clock) /\ InSession(e, clock) => d = e
=============================================================================
