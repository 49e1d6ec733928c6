----------------------------- MODULE CigarMerges -----------------------------
(***************************************************************************)
(* Catalog hygiene: a merge folds a duplicate cigar into a survivor and     *)
(* writes a ledger of the rows it moved, an unmerge puts them back from     *)
(* the ledger, newest merge first; an exclusion hides a cigar, and is       *)
(* undone by a restore or from its audit row.  Each call is a transaction   *)
(* that checks the cigars it read and then writes whatever they are by now. *)
(* Users and the crawler write rows on any cigar in between, one commit     *)
(* each (HumidorLedger takes the calls of users on lots and smokes apart).  *)
(*                                                                          *)
(* The nine tables a merge moves fall into kinds: lots and auto listings,   *)
(* which an exclusion looks at; smokes, which are drawn from lots; marks    *)
(* (wants, favorites), of which a user has one per cigar, here of one user; *)
(* and product photos, one per cigar.  Offers, reviews and enrichment asks  *)
(* move as listings do.                                                     *)
(***************************************************************************)
EXTENDS Naturals, Sequences, FiniteSets

CONSTANTS
  Cigars, Lots, Smokes, Listings, Marks, Photos,
  Merges,      \* ids of cigar_merges rows
  Requests,    \* slots for curation calls in flight
  MaxExcludes, \* bound on the exclusions that are audited
  NoCigar, NoLot, NoMerge

Rows == Lots \union Smokes \union Listings \union Marks \union Photos
Slots == {Marks, Photos}

ASSUME SentinelAssumption ==
  NoCigar \notin Cigars /\ NoLot \notin Lots /\ NoMerge \notin Merges
ASSUME KindsAssumption ==
  /\ Lots \intersect (Smokes \union Listings \union Marks \union Photos) = {}
  /\ Smokes \intersect (Listings \union Marks \union Photos) = {}
  /\ Listings \intersect (Marks \union Photos) = {}
  /\ Marks \intersect Photos = {}
ASSUME BoundAssumption == MaxExcludes \in Nat

VARIABLES
  cigar,    \* cigars: catalog_status and merged_into
  at,       \* the cigar a row is of, or NoCigar for no row (a listing: no match)
  drawn,    \* smoke_consumptions: the lot a smoke was drawn from, or NoLot
  ledger,   \* cigar_merges
  excludes, \* the cigar.exclude rows of audit_log, oldest first
  home,     \* history: the cigar users, curators and the crawler gave a row
  strayed,  \* history: rows given another cigar while a live ledger named them, or
            \* that their merge's undo left behind
  parted,   \* history: lots an unmerge took from some of their smokes
  late,     \* history: lots put on a cigar that was hidden or being hidden
  rehidden, \* history: lots on a cigar that the undo of an exclusion hid
  raced,    \* history: two curation calls overlapped on a cigar
  revived,  \* history: the undo of an exclusion took a tombstone's flag
  req       \* the calls in flight

vars == <<cigar, at, drawn, ledger, excludes, home, strayed, parted, late, rehidden,
          raced, revived, req>>
tables == <<cigar, at, drawn, ledger, excludes>>
history == <<home, strayed, parted, late, rehidden, revived>>

NoLedger == [source |-> NoCigar, target |-> NoCigar, moved |-> {}, dropped |-> {},
             before |-> [status |-> "active", into |-> NoCigar], undone |-> FALSE]
Idle == [pc |-> "idle", a |-> NoCigar, b |-> NoCigar, merge |-> NoMerge,
         before |-> [status |-> "active", into |-> NoCigar]]

Init ==
  /\ cigar = [c \in Cigars |-> [status |-> "active", into |-> NoCigar]]
  /\ at = [x \in Rows |-> NoCigar]
  /\ drawn = [s \in Smokes |-> NoLot]
  /\ ledger = [m \in Merges |-> NoLedger]
  /\ excludes = <<>>
  /\ home = [x \in Rows |-> NoCigar]
  /\ strayed = {} /\ parted = {} /\ late = {} /\ rehidden = {}
  /\ raced = FALSE /\ revived = FALSE
  /\ req = [r \in Requests |-> Idle]

At(r, pc) == req[r].pc = pc
Become(r, new) == req' = [req EXCEPT ![r] = new]
Done(r) == Become(r, Idle)

Status(c) == cigar[c].status
Live(m) == ledger[m].source # NoCigar
Written(m) == Live(m) \/ ledger[m].undone
Names(m, x) == x \in ledger[m].moved \union ledger[m].dropped
RowsOf(c) == {x \in Rows : at[x] = c}

\* Marks and photos are unique per cigar.
Taken(kind, c) == \E y \in kind : at[y] = c
Fits(x, c) == \A kind \in Slots : x \in kind => ~Taken(kind, c)

\* A call starts: it has read the cigars it is about.  Of two calls on one cigar only
\* unmerges order themselves, on the claim of a ledger.
Start(r, new) ==
  /\ At(r, "idle")
  /\ Become(r, new)
  /\ raced' = (raced \/ \E q \in Requests :
                 /\ ({new.a, new.b} \intersect {req[q].a, req[q].b}) \ {NoCigar} # {}
                 /\ new.pc # "unmerge" \/ ~At(q, "unmerge"))

-----------------------------------------------------------------------------
(* Users and the crawler: a row is written, moved or removed in one commit. *)

\* A row that has strayed is no longer followed: its home is forgotten.
Stray(xs) ==
  /\ strayed' = strayed \union xs
  /\ home' = [x \in Rows |-> IF x \in xs THEN NoCigar ELSE home[x]]

\* A write by id never looks at the catalog status.
Settle(x, c) ==
  LET named == {y \in {x} : y \in strayed \/ \E m \in Merges : Live(m) /\ Names(m, y)} IN
  /\ at' = [at EXCEPT ![x] = c]
  /\ home' = [home EXCEPT ![x] = IF x \in named THEN NoCigar ELSE c]
  /\ strayed' = strayed \union named
  /\ late' = late \union {y \in {x} \intersect Lots :
                            \/ Status(c) # "active"
                            \/ \E q \in Requests : At(q, "exclude") /\ req[q].a = c}
  /\ UNCHANGED <<cigar, ledger, excludes, parted, rehidden, raced, revived, req>>

\* assertLotOwned: a smoke of a cigar is drawn from a lot of it, or from none.
Draw(s, c) ==
  \E l \in {NoLot} \union (RowsOf(c) \intersect Lots) : drawn' = [drawn EXCEPT ![s] = l]

Create(x, c) ==
  /\ at[x] = NoCigar /\ home[x] = NoCigar /\ x \notin strayed /\ Fits(x, c)
  /\ Settle(x, c)
  /\ IF x \in Smokes THEN Draw(x, c) ELSE UNCHANGED drawn

\* update_purchase refuses a cigar that some smoke drawn from the lot is not of;
\* update_smoke keeps, drops or changes the lot; a listing gets another verdict.
Move(x, c) ==
  /\ x \in Lots \union Smokes \union Listings /\ at[x] \notin {NoCigar, c}
  /\ \A s \in Smokes : drawn[s] = x => at[s] = c
  /\ Settle(x, c)
  /\ IF x \in Smokes THEN Draw(x, c) ELSE UNCHANGED drawn

\* update_smoke with a consumption block and no other cigar.
Attribute(s) ==
  /\ at[s] # NoCigar
  /\ Draw(s, at[s])
  /\ UNCHANGED <<cigar, at, ledger, excludes, history, raced, req>>

\* A mark is taken back, a smoke deleted, a listing judged to be of no cigar.
Unmark(x) ==
  /\ x \in Marks \union Smokes \union Listings /\ at[x] # NoCigar
  /\ at' = [at EXCEPT ![x] = NoCigar]
  /\ drawn' = [s \in Smokes |-> IF s = x THEN NoLot ELSE drawn[s]]
  /\ Stray({x})
  /\ UNCHANGED <<cigar, ledger, excludes, parted, late, rehidden, raced, revived, req>>

-----------------------------------------------------------------------------
(* mergeCigars *)

MergeIntoHidden(r, s, t) ==
  /\ s # t /\ Status(s) # "merged" /\ Status(t) # "merged"
  /\ Start(r, [Idle EXCEPT !.pc = "merge", !.a = s, !.b = t, !.before = cigar[s]])
  /\ UNCHANGED <<tables, history>>

\* Neither side is a tombstone, and the survivor is visible.
Merge(r, s, t) ==
  /\ s # t /\ Status(s) # "merged" /\ Status(t) = "active"
  /\ Start(r, [Idle EXCEPT !.pc = "merge", !.a = s, !.b = t, !.before = cigar[s]])
  /\ UNCHANGED <<tables, history>>

\* What the survivor does not take: a mark its user has on both (deleted, and kept
\* whole in the ledger), and a photo it has one of (left on the tombstone).
Doubles(s, t, kind) == {x \in kind : at[x] = s /\ Taken(kind, t)}
Moved(s, t) == {x \in RowsOf(s) : \A kind \in Slots : x \notin Doubles(s, t, kind)}

MergeCommit(r, m) ==
  LET s == req[r].a
      t == req[r].b
      dropped == Doubles(s, t, Marks)
  IN
  /\ At(r, "merge") /\ ~Written(m)
  /\ at' = [x \in Rows |-> IF x \in Moved(s, t) THEN t
                           ELSE IF x \in dropped THEN NoCigar ELSE at[x]]
  /\ cigar' = [cigar EXCEPT ![s] = [status |-> "merged", into |-> t]]
  /\ ledger' = [ledger EXCEPT ![m] = [source |-> s, target |-> t, moved |-> Moved(s, t),
                                      dropped |-> dropped, before |-> req[r].before,
                                      undone |-> FALSE]]
  /\ Done(r)
  /\ UNCHANGED <<drawn, excludes, history, raced>>

-----------------------------------------------------------------------------
(* unmergeCigars, and the undo of a merge's audit row *)

UndoableInAnyOrder(m) ==
  Live(m) /\ cigar[ledger[m].source] = [status |-> "merged", into |-> ledger[m].target]

\* The ledger is still the source's state, and the survivor is no tombstone.
Undoable(m) ==
  LET l == ledger[m] IN
  /\ Live(m)
  /\ cigar[l.source] = [status |-> "merged", into |-> l.target]
  /\ Status(l.target) # "merged"

Unmerge(r, m) ==
  /\ Live(m)
  /\ Start(r, [Idle EXCEPT !.pc = "unmerge", !.merge = m,
                           !.a = ledger[m].source, !.b = ledger[m].target])
  /\ UNCHANGED <<tables, history>>

\* The ledger is claimed by a conditional update, which waits for another claim; a
\* ledger that does not apply is refused, and the claim rolled back.
UnmergeRefused(r) ==
  /\ At(r, "unmerge") /\ ~Undoable(req[r].merge)
  /\ Done(r)
  /\ UNCHANGED <<tables, history, raced>>

\* The smokes of the source once its smokes are back, which is before its lots are.
SmokesBack(m) ==
  LET l == ledger[m] IN
  {s \in Smokes : at[s] = l.source \/ (s \in l.moved /\ at[s] = l.target)}
DrawnFrom(x) == {s \in Smokes : drawn[s] = x}

NothingHeldBack(m) == {}

\* lotsConsumedOnlyElsewhere: lots smoked from, and by no smoke of the source.
HeldBack(m) ==
  {x \in ledger[m].moved \intersect Lots :
     DrawnFrom(x) # {} /\ DrawnFrom(x) \intersect SmokesBack(m) = {}}

\* Rows go back that are still on the survivor and fit; a dropped mark is made anew.
Returns(m) ==
  LET l == ledger[m] IN
  {x \in l.moved \ HeldBack(m) : at[x] = l.target /\ Fits(x, l.source)} \union
  {x \in l.dropped : Fits(x, l.source)}

\* Lots that do not go where all their smokes are: those both sides drew from, which go
\* back, and those a smoke that goes back was given of the survivor's.
Split(m) ==
  {x \in Lots : LET back == DrawnFrom(x) \intersect SmokesBack(m)
                IN  back # {} /\ (x \in ledger[m].moved => back # DrawnFrom(x))}

\* The source gets the status it had before the merge; the spent ledger, which no
\* write reads again, is forgotten here.
UnmergeCommit(r) ==
  LET m == req[r].merge IN
  /\ At(r, "unmerge") /\ Undoable(m)
  /\ at' = [x \in Rows |-> IF x \in Returns(m) THEN ledger[m].source ELSE at[x]]
  /\ cigar' = [cigar EXCEPT ![ledger[m].source] = ledger[m].before]
  /\ ledger' = [ledger EXCEPT ![m] = [NoLedger EXCEPT !.undone = TRUE]]
  /\ Stray({x \in Rows : Names(m, x) /\ ~Fits(x, ledger[m].source)} \union HeldBack(m))
  /\ parted' = parted \union Split(m)
  /\ Done(r)
  /\ UNCHANGED <<drawn, excludes, late, rehidden, raced, revived>>

-----------------------------------------------------------------------------
(* excludeCigar, restoreCigar, and the undo of an exclusion's audit row *)

ExcludeAny(r, c) ==
  /\ RowsOf(c) \intersect Lots = {}
  /\ Start(r, [Idle EXCEPT !.pc = "exclude", !.a = c, !.before = cigar[c]])
  /\ UNCHANGED <<tables, history>>

\* A held cigar is never hidden.
Exclude(r, c) ==
  /\ Status(c) # "merged" /\ RowsOf(c) \intersect Lots = {}
  /\ Start(r, [Idle EXCEPT !.pc = "exclude", !.a = c, !.before = cigar[c]])
  /\ UNCHANGED <<tables, history>>

\* The auto listings of the cigar are unlinked in the same transaction.
ExcludeCommit(r) ==
  LET c == req[r].a
      unlinked == RowsOf(c) \intersect Listings
  IN
  /\ At(r, "exclude") /\ Len(excludes) < MaxExcludes
  /\ cigar' = [cigar EXCEPT ![c].status = "excluded"]
  /\ at' = [x \in Rows |-> IF x \in unlinked THEN NoCigar ELSE at[x]]
  /\ Stray(unlinked)
  /\ excludes' = Append(excludes, [cigar |-> c, prior |-> req[r].before.status,
                                   reverted |-> FALSE])
  /\ Done(r)
  /\ UNCHANGED <<drawn, ledger, parted, late, rehidden, raced, revived>>

Restore(r, c) ==
  /\ Status(c) # "merged"
  /\ Start(r, [Idle EXCEPT !.pc = "restore", !.a = c])
  /\ UNCHANGED <<tables, history>>

\* The restore is recorded as the revert of the cigar's latest exclusion.
Latest(c) == {i \in DOMAIN excludes : /\ excludes[i].cigar = c
                                      /\ \A j \in DOMAIN excludes :
                                           excludes[j].cigar = c => j <= i}

RestoreCommit(r) ==
  LET c == req[r].a IN
  /\ At(r, "restore")
  /\ cigar' = [cigar EXCEPT ![c].status = "active"]
  /\ excludes' = [i \in DOMAIN excludes |-> IF i \in Latest(c)
                                            THEN [excludes[i] EXCEPT !.reverted = TRUE]
                                            ELSE excludes[i]]
  /\ Done(r)
  /\ UNCHANGED <<at, drawn, ledger, history, raced>>

\* The undo of an exclusion writes the status of its before image: it does not look
\* at what the cigar is by now.
UndoExclude(i) ==
  LET c == excludes[i].cigar IN
  /\ ~excludes[i].reverted
  /\ cigar' = [cigar EXCEPT ![c].status = excludes[i].prior]
  /\ excludes' = [excludes EXCEPT ![i].reverted = TRUE]
  /\ rehidden' = rehidden \union {l \in RowsOf(c) \intersect Lots : excludes[i].prior = "excluded"}
  /\ raced' = (raced \/ \E q \in Requests : c \in {req[q].a, req[q].b})
  /\ revived' = (revived \/ Status(c) = "merged")
  /\ UNCHANGED <<at, drawn, ledger, home, strayed, parted, late, req>>

-----------------------------------------------------------------------------
\* A transaction that fails leaves nothing.
Fail(r) ==
  /\ ~At(r, "idle")
  /\ Done(r)
  /\ UNCHANGED <<tables, history, raced>>

Step(r) ==
  \/ \E m \in Merges : MergeCommit(r, m)
  \/ UnmergeRefused(r) \/ UnmergeCommit(r)
  \/ ExcludeCommit(r) \/ RestoreCommit(r)
  \/ Fail(r)

Next ==
  \/ \E r \in Requests : Step(r)
  \/ \E r \in Requests, s, t \in Cigars : Merge(r, s, t)
  \/ \E r \in Requests, m \in Merges : Unmerge(r, m)
  \/ \E r \in Requests, c \in Cigars : Exclude(r, c) \/ Restore(r, c)
  \/ \E i \in DOMAIN excludes : UndoExclude(i)
  \/ \E x \in Rows, c \in Cigars : Create(x, c) \/ Move(x, c)
  \/ \E x \in Rows : Unmark(x)
  \/ \E s \in Smokes : Attribute(s)

Spec == Init /\ [][Next]_vars

-----------------------------------------------------------------------------
(* Properties *)

State == [status : {"active", "excluded", "merged"}, into : Cigars \union {NoCigar}]

TypeOK ==
  /\ cigar \in [Cigars -> State]
  /\ at \in [Rows -> Cigars \union {NoCigar}]
  /\ drawn \in [Smokes -> Lots \union {NoLot}]
  /\ ledger \in [Merges -> [source : Cigars \union {NoCigar}, target : Cigars \union {NoCigar},
                            moved : SUBSET Rows, dropped : SUBSET Marks,
                            before : State, undone : BOOLEAN]]
  /\ excludes \in Seq([cigar : Cigars, prior : {"active", "excluded"}, reverted : BOOLEAN])
  /\ home \in [Rows -> Cigars \union {NoCigar}]
  /\ strayed \subseteq Rows /\ parted \subseteq Lots /\ late \subseteq Lots /\ rehidden \subseteq Lots
  /\ raced \in BOOLEAN /\ revived \in BOOLEAN
  /\ req \in [Requests -> [pc : {"idle", "merge", "unmerge", "exclude", "restore"},
                           a : Cigars \union {NoCigar}, b : Cigars \union {NoCigar},
                           merge : Merges \union {NoMerge}, before : State]]

\* The live merges that moved a row, or dropped it.
Carriers(x) == {m \in Merges : Live(m) /\ Names(m, x)}

\* Where a row belongs: nowhere while it is dropped, with the last survivor it was
\* merged into, or at home.
Belongs(x, c) ==
  IF \E m \in Carriers(x) : x \in ledger[m].dropped THEN c = NoCigar
  ELSE \/ Carriers(x) = {} /\ c = home[x]
       \/ \E m \in Carriers(x) : /\ c = ledger[m].target
                                 /\ \A n \in Carriers(x) : ledger[n].source # c

\* Unmerge is an inverse: after any sequence of merges and unmerges, nested or not,
\* with rows written to survivors and tombstones in between, a row nobody moved by hand
\* is where the merges that still stand put it, and at home when none does.  Except a row
\* an unmerge left behind, and said so (its slot there was taken, or the lot was smoked
\* from at the survivor alone), and once two curation calls overlapped on a cigar or the
\* undo of an exclusion took a tombstone's flag.
UnmergeRestores ==
  raced \/ revived \/ \A x \in Rows \ strayed : Belongs(x, at[x])

\* Lots stay with the smokes drawn from them: however merges, unmerges in any order,
\* purchases, smokes and re-pointings are interleaved, the lot of a smoke is of the smoke's
\* cigar, so that remaining = acquired - consumed.  Except a lot an unmerge parted: both
\* sides had smoked from it (the code sends it back), or a smoke that went back had been
\* given a lot the merge did not move.
LotsKeepTheirSmokes ==
  \A s \in Smokes : drawn[s] \in Lots \ parted => at[drawn[s]] = at[s]

\* A lot that merges, unmerges, exclusions, restores and undos find on a visible cigar is
\* never left on an excluded one.  Except a lot put on a cigar while it was hidden or
\* being hidden, or on a cigar that the undo of its second exclusion hid again, and once
\* two curation calls overlapped on a cigar.
HeldIsVisible ==
  raced \/ \A l \in Lots \ (late \union rehidden) :
             at[l] # NoCigar => Status(at[l]) # "excluded"

\* Not true of the code, where an undone exclusion flips the flag of what has been merged
\* since: both ends of a merge stay valid, while its ledger is live its source is its
\* tombstone, so that the merge can be undone once later ones are.
TombstoneIsKept ==
  raced \/ \A m \in Merges :
    Live(m) => cigar[ledger[m].source] = [status |-> "merged", into |-> ledger[m].target]
=============================================================================
