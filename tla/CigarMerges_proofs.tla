------------------------- MODULE CigarMerges_proofs -------------------------
(***************************************************************************)
(* CigarMerges, for every set of cigars, of rows of each kind, of merge     *)
(* ids and of calls in flight.                                              *)
(***************************************************************************)
EXTENDS CigarMerges, SequenceTheorems, TLAPS

-----------------------------------------------------------------------------
(* The inductive invariant.  What a call has read, and what a ledger says, *)
(* stays true for as long as the calls on a cigar come one after another   *)
(* and no tombstone loses its flag to the undo of an exclusion.            *)

\* A call in flight is about cigars, and an unmerge about the two of its ledger.
Shape(r) ==
  /\ At(r, "idle") => req[r] = Idle
  /\ ~At(r, "idle") => req[r].a \in Cigars
  /\ At(r, "merge") => req[r].b \in Cigars \ {req[r].a}
  /\ req[r].pc \in {"exclude", "restore"} => req[r].b = NoCigar
  /\ req[r].pc \in {"merge", "exclude"} => req[r].before.status # "merged"
  /\ At(r, "unmerge") =>
       /\ req[r].merge \in Merges /\ Written(req[r].merge)
       /\ Live(req[r].merge) => /\ req[r].a = ledger[req[r].merge].source
                                /\ req[r].b = ledger[req[r].merge].target
CallsFit == \A r \in Requests : Shape(r)

\* A merge moves a row or drops it, never both.
LedgersFit == \A m \in Merges : ledger[m].moved \intersect ledger[m].dropped = {}

\* Two calls on one cigar are both unmerges, and the others still see what they read.
Touches(r) == {req[r].a, req[r].b} \ {NoCigar}
Apart ==
  \A q, r \in Requests :
    q # r /\ Touches(q) \intersect Touches(r) # {} => At(q, "unmerge") /\ At(r, "unmerge")
AsRead(r) ==
  /\ At(r, "merge") => cigar[req[r].a] = req[r].before /\ Status(req[r].b) = "active"
  /\ At(r, "exclude") => cigar[req[r].a] = req[r].before
  /\ At(r, "restore") => Status(req[r].a) # "merged"
OneByOne == raced \/ (Apart /\ \A r \in Requests : AsRead(r))

\* The source of a live ledger is its tombstone, and of no other live ledger.
TombsStand ==
  raced \/ revived \/
  \A m \in Merges : Live(m) =>
    /\ cigar[ledger[m].source] = [status |-> "merged", into |-> ledger[m].target]
    /\ \A n \in Merges : Live(n) /\ ledger[n].source = ledger[m].source => n = m

\* Lots are on visible cigars, on none about to be hidden, and a merge that moved one
\* will give its source a visible status back: true of tombstones that lost their flag too.
LotsVisible ==
  raced \/
  \A l \in Lots \ (late \union rehidden) :
    /\ at[l] # NoCigar => Status(at[l]) = "active"
    /\ \A r \in Requests : At(r, "exclude") => at[l] # req[r].a
    /\ \A m \in Merges :
         Live(m) /\ l \in ledger[m].moved => ledger[m].before.status = "active"

\* The live merges of a row form a chain p[1], ..., p[n] from its home to where it is.
\* Of the merges before the last, each moved the row to the source of the next; only
\* the last may have dropped it.
IsChain(x, n, p) ==
  /\ \A m \in Merges : m \in Carriers(x) <=> \E i \in 1 .. n : p[i] = m
  /\ n = 0 => at[x] = home[x]
  /\ n > 0 => ledger[p[1]].source = home[x]
  /\ \A i \in 1 .. n - 1 : /\ x \in ledger[p[i]].moved
                           /\ ledger[p[i]].target = ledger[p[i + 1]].source
  /\ n > 0 => \/ x \in ledger[p[n]].dropped /\ at[x] = NoCigar
              \/ x \in ledger[p[n]].moved /\ at[x] = ledger[p[n]].target
  /\ \A i \in 1 .. n : ledger[p[i]].source # at[x]
HasChain(x) == \E n \in Nat : \E p \in [1 .. n -> Merges] : IsChain(x, n, p)
Chained == raced \/ revived \/ \A x \in Rows \ strayed : HasChain(x)

\* The lots of smokes, but for parted ones, are where the smokes are; a smoke that is
\* deleted is drawn from nothing.
Together ==
  /\ LotsKeepTheirSmokes
  /\ \A s \in Smokes : at[s] = NoCigar => drawn[s] = NoLot

Inv == /\ TypeOK /\ CallsFit /\ LedgersFit /\ Together
       /\ OneByOne /\ TombsStand /\ LotsVisible /\ Chained

-----------------------------------------------------------------------------
\* No call, no ledger and every row at its home satisfy the invariant.
LEMMA InvInit == Init => Inv
<1> SUFFICES ASSUME Init PROVE Inv  OBVIOUS
<1>1. TypeOK  
  <2>1. excludes \in Seq([cigar : Cigars, prior : {"active", "excluded"}, reverted : BOOLEAN])
    BY DEF Init
  <2>2. QED  BY <2>1 DEF Init, TypeOK, State, Idle, NoLedger
<1>2. CallsFit /\ LedgersFit
  BY DEF Init, CallsFit, LedgersFit, Shape, At, Idle, NoLedger
<1>3. OneByOne  BY DEF Init, OneByOne, Apart, AsRead, Touches, At, Idle
<1>4. \A m \in Merges : ~Live(m)  BY DEF Init, Live, NoLedger
<1> TombsStand  BY <1>4 DEF TombsStand
<1> LotsVisible
  <2>1. \A l \in Lots : at[l] = NoCigar  BY DEF Init, Rows
  <2>2. \A r \in Requests : ~At(r, "exclude")  BY DEF Init, At, Idle
  <2>3. QED  BY <1>4, <2>1, <2>2 DEF LotsVisible
<1>5. Chained
  <2> SUFFICES ASSUME NEW x \in Rows PROVE HasChain(x)  BY DEF Chained
  <2> DEFINE p == [i \in 1 .. 0 |-> NoMerge]
  <2>1. p \in [1 .. 0 -> Merges]  OBVIOUS
  <2>2. IsChain(x, 0, p)  BY DEF Init, IsChain, Carriers, Live, NoLedger
  <2>3. QED  BY <2>1, <2>2 DEF HasChain
<1>6. Together
  BY SentinelAssumption DEF Init, Together, LotsKeepTheirSmokes, Rows
<1>7. QED  BY <1>1, <1>2, <1>3, <1>4, <1>5, <1>6 DEF Inv

\* A row of audit_log keeps its place, whatever is changed in it.
LEMMA RowsInPlace ==
  ASSUME NEW S, NEW rows \in Seq(S), NEW new,
         new = [i \in DOMAIN rows |-> new[i]], \A i \in DOMAIN rows : new[i] \in S
  PROVE  new \in Seq(S)
<1>1. PICK n \in Nat : rows \in [1 .. n -> S]  BY SeqDef
<1>2. new \in [1 .. n -> S]  BY <1>1
<1>3. QED  BY <1>2, SeqDef

LogRow == [cigar : Cigars, prior : {"active", "excluded"}, reverted : BOOLEAN]

\* Every write to the audit log keeps its type.
LEMMA LogStep ==
  ASSUME TypeOK, CallsFit
  PROVE  /\ \A r \in Requests : ExcludeCommit(r) => excludes' \in Seq(LogRow)
         /\ \A r \in Requests : RestoreCommit(r) => excludes' \in Seq(LogRow)
         /\ \A i \in DOMAIN excludes :
              excludes[i] \in LogRow /\ (UndoExclude(i) => excludes' \in Seq(LogRow))
<1>1. excludes \in Seq(LogRow)  BY DEF TypeOK, LogRow
<1>2. \A i \in DOMAIN excludes : excludes[i] \in LogRow  BY <1>1
<1>3. ASSUME NEW r \in Requests, ExcludeCommit(r) PROVE excludes' \in Seq(LogRow)
  <2>1. req[r].a \in Cigars /\ req[r].before.status \in {"active", "excluded"}
    BY <1>3 DEF ExcludeCommit, CallsFit, Shape, TypeOK, State, At
  <2>2. QED  BY <1>1, <1>3, <2>1 DEF ExcludeCommit, LogRow
<1>4. ASSUME NEW r \in Requests, RestoreCommit(r) PROVE excludes' \in Seq(LogRow)
  <2>1. \A i \in DOMAIN excludes : excludes'[i] \in LogRow
    BY <1>2, <1>4 DEF RestoreCommit, LogRow
  <2>2. QED  BY <1>1, <1>4, <2>1, RowsInPlace DEF RestoreCommit
<1>5. ASSUME NEW i \in DOMAIN excludes, UndoExclude(i) PROVE excludes' \in Seq(LogRow)
  <2>1. \A j \in DOMAIN excludes : excludes'[j] \in LogRow
    BY <1>2, <1>5 DEF UndoExclude, LogRow
  <2>2. QED  BY <1>1, <1>5, <2>1, RowsInPlace DEF UndoExclude
<1>6. QED  BY <1>2, <1>3, <1>4, <1>5

\* The tables, ledgers and calls keep their types.
LEMMA TypeStep ==
  ASSUME TypeOK, CallsFit, [Next]_vars
  PROVE  TypeOK'
<1> USE DEF TypeOK, State, tables, history, Done, Become, Idle, At, Start, Stray
<1>1. ASSUME NEW r \in Requests, NEW m \in Merges, MergeCommit(r, m) PROVE TypeOK'
  <2>1. req[r].a \in Cigars /\ req[r].b \in Cigars  BY <1>1 DEF MergeCommit, CallsFit, Shape
  <2>2. /\ Moved(req[r].a, req[r].b) \subseteq Rows
        /\ Doubles(req[r].a, req[r].b, Marks) \subseteq Marks
    BY DEF Moved, Doubles, RowsOf
  <2>3. QED  BY <1>1, <2>1, <2>2 DEF MergeCommit
<1>2. ASSUME NEW r \in Requests, UnmergeRefused(r) \/ Fail(r) PROVE TypeOK'
  <2>1. req' = [req EXCEPT ![r] = Idle] /\ UNCHANGED <<tables, history, raced>>
    BY <1>2 DEF UnmergeRefused, Fail
  <2>2. QED  BY <2>1
<1>3. ASSUME NEW r \in Requests, UnmergeCommit(r) PROVE TypeOK'
  <2>1. req[r].merge \in Merges  BY <1>3 DEF UnmergeCommit, CallsFit, Shape
  <2>2. HeldBack(req[r].merge) \subseteq Rows /\ Split(req[r].merge) \subseteq Lots
    BY DEF HeldBack, Split, Rows
  <2>3. QED  BY <1>3, <2>1, <2>2 DEF UnmergeCommit, NoLedger
<1>4. ASSUME NEW r \in Requests, ExcludeCommit(r) PROVE TypeOK'
  <2>1. req[r].a \in Cigars /\ req[r].before.status \in {"active", "excluded"}
    BY <1>4 DEF ExcludeCommit, CallsFit, Shape
  <2>2. excludes' \in Seq(LogRow)  BY <1>4, LogStep
  <2>3. cigar' \in [Cigars -> State] /\ at' \in [Rows -> Cigars \union {NoCigar}]
    <3>1. cigar' = [cigar EXCEPT ![req[r].a].status = "excluded"]  BY <1>4 DEF ExcludeCommit
    <3>2. at' = [x \in Rows |-> IF x \in RowsOf(req[r].a) \intersect Listings THEN NoCigar ELSE at[x]]
      BY <1>4 DEF ExcludeCommit
    <3>3. cigar' \in [Cigars -> State]
      <4>1. cigar \in [Cigars -> State]  OBVIOUS
      <4> HIDE DEF TypeOK, Start, Stray, Done, Become
      <4>2. QED  BY <2>1, <3>1, <4>1
    <3>4. at' \in [Rows -> Cigars \union {NoCigar}]  BY <3>2
    <3>5. QED  BY <3>3, <3>4
  <2>4. /\ home' \in [Rows -> Cigars \union {NoCigar}] /\ strayed' \subseteq Rows
        /\ late' \subseteq Lots /\ rehidden' \subseteq Lots /\ parted' \subseteq Lots
        /\ ledger' = ledger /\ drawn' = drawn /\ raced' \in BOOLEAN /\ revived' \in BOOLEAN
    BY <1>4 DEF ExcludeCommit, RowsOf, LogRow
  <2>5. req' = [req EXCEPT ![r] = Idle]
    BY <1>4 DEF ExcludeCommit, RowsOf, LogRow
  <2>6. QED  BY <2>2, <2>3, <2>4, <2>5 DEF LogRow
<1>5. ASSUME NEW r \in Requests, RestoreCommit(r) PROVE TypeOK'
  <2>1. req[r].a \in Cigars  BY <1>5 DEF RestoreCommit, CallsFit, Shape
  <2>2. excludes' \in Seq(LogRow)  BY <1>5, LogStep
  <2>3. cigar' \in [Cigars -> State] /\ at' \in [Rows -> Cigars \union {NoCigar}]
    BY <1>5, <2>1 DEF RestoreCommit, LogRow
  <2>4. /\ home' \in [Rows -> Cigars \union {NoCigar}] /\ strayed' \subseteq Rows
        /\ late' \subseteq Lots /\ rehidden' \subseteq Lots /\ parted' \subseteq Lots
        /\ ledger' = ledger /\ drawn' = drawn /\ raced' \in BOOLEAN /\ revived' \in BOOLEAN
    BY <1>5 DEF RestoreCommit, LogRow
  <2>5. req' = [req EXCEPT ![r] = Idle]
    BY <1>5 DEF RestoreCommit, LogRow
  <2>6. QED  BY <2>2, <2>3, <2>4, <2>5 DEF LogRow
<1>6. ASSUME NEW r \in Requests, NEW s \in Cigars, NEW t \in Cigars, Merge(r, s, t)
      PROVE TypeOK'
  BY <1>6 DEF Merge
<1>7. ASSUME NEW r \in Requests, NEW m \in Merges, Unmerge(r, m) PROVE TypeOK'
  BY <1>7 DEF Unmerge
<1>8. ASSUME NEW r \in Requests, NEW c \in Cigars, Exclude(r, c) PROVE TypeOK'
  BY <1>8 DEF Exclude
<1>9. ASSUME NEW r \in Requests, NEW c \in Cigars, Restore(r, c) PROVE TypeOK'
  BY <1>9 DEF Restore
<1>10. ASSUME NEW i \in DOMAIN excludes, UndoExclude(i) PROVE TypeOK'
  <2>1. excludes[i] \in LogRow  BY LogStep
  <2>2. excludes' \in Seq(LogRow)  BY <1>10, LogStep
  <2>3. cigar' \in [Cigars -> State] /\ at' \in [Rows -> Cigars \union {NoCigar}]
    <3>1. cigar' = [cigar EXCEPT ![excludes[i].cigar].status = excludes[i].prior] /\ at' = at
      BY <1>10 DEF UndoExclude
    <3>2. QED  BY <2>1, <3>1 DEF LogRow
  <2>4. /\ home' \in [Rows -> Cigars \union {NoCigar}] /\ strayed' \subseteq Rows
        /\ late' \subseteq Lots /\ rehidden' \subseteq Lots /\ parted' \subseteq Lots
        /\ ledger' = ledger /\ drawn' = drawn /\ raced' \in BOOLEAN /\ revived' \in BOOLEAN
    BY <1>10 DEF UndoExclude, LogRow
  <2>5. req' = req
    BY <1>10 DEF UndoExclude, LogRow
  <2>6. QED  BY <2>2, <2>3, <2>4, <2>5 DEF LogRow
<1>11. ASSUME NEW x \in Rows, NEW c \in Cigars, Settle(x, c),
              (x \in Smokes /\ Draw(x, c)) \/ drawn' = drawn
       PROVE TypeOK'
  <2>1. drawn' \in [Smokes -> Lots \union {NoLot}]  BY <1>11 DEF Draw
  <2>2. QED  BY <1>11, <2>1 DEF Settle
<1>12. ASSUME NEW x \in Rows, Unmark(x) PROVE TypeOK'
  BY <1>12 DEF Unmark
<1>13. ASSUME NEW s \in Smokes, Attribute(s) PROVE TypeOK'
  <2>1. drawn' \in [Smokes -> Lots \union {NoLot}]  BY <1>13 DEF Attribute, Draw
  <2>2. QED  BY <1>13, <2>1 DEF Attribute
<1>14. CASE UNCHANGED vars  BY <1>14 DEF vars
<1>15. QED
  BY <1>1, <1>2, <1>3, <1>4, <1>5, <1>6, <1>7, <1>8, <1>9, <1>10, <1>11, <1>12, <1>13, <1>14
  DEF Next, Step, Create, Move

-----------------------------------------------------------------------------
\* Calls keep their shape, and a ledger never lists a row twice.
LEMMA ShapeStep ==
  ASSUME TypeOK, CallsFit, LedgersFit, [Next]_vars
  PROVE  CallsFit' /\ LedgersFit'
<1> USE DEF CallsFit, LedgersFit, Shape, At, Become, Done, Live, Written, Status
<1>0. /\ req \in [Requests -> [pc : {"idle", "merge", "unmerge", "exclude", "restore"},
                              a : Cigars \union {NoCigar}, b : Cigars \union {NoCigar},
                              merge : Merges \union {NoMerge}, before : State]]
      /\ DOMAIN ledger = Merges
      /\ \A m \in Merges : /\ ledger[m].source \in Cigars \union {NoCigar}
                            /\ ledger[m].target \in Cigars \union {NoCigar}
  BY DEF TypeOK
<1>1. ASSUME NEW r \in Requests, NEW m \in Merges, MergeCommit(r, m)
      PROVE CallsFit' /\ LedgersFit'
  <2>1. \A n \in Merges \ {m} : ledger'[n] = ledger[n]  BY <1>0, <1>1 DEF MergeCommit
  <2>2. Moved(req[r].a, req[r].b) \intersect Doubles(req[r].a, req[r].b, Marks) = {}
    BY DEF Moved, Slots
  <2>3. LedgersFit'  BY <1>0, <1>1, <2>1, <2>2 DEF MergeCommit
  <2>4. ~Written(m)  BY <1>1 DEF MergeCommit
  <2>5. req' = [req EXCEPT ![r] = Idle]  BY <1>1 DEF MergeCommit
  <2>6. CallsFit'  BY <1>0, <2>1, <2>4, <2>5 DEF Idle
  <2>7. QED  BY <2>3, <2>6
<1>2. ASSUME NEW r \in Requests, req' = [req EXCEPT ![r] = Idle], ledger' = ledger
      PROVE CallsFit' /\ LedgersFit'
  BY <1>0, <1>2 DEF Idle
<1>3. ASSUME NEW r \in Requests, UnmergeCommit(r) PROVE CallsFit' /\ LedgersFit'
  <2> DEFINE m == req[r].merge
  <2>1. \A n \in Merges \ {m} : ledger'[n] = ledger[n]  BY <1>0, <1>3 DEF UnmergeCommit
  <2>2. m \in Merges => ledger'[m] = [NoLedger EXCEPT !.undone = TRUE]
    BY <1>0, <1>3 DEF UnmergeCommit
  <2>3. LedgersFit'  BY <2>1, <2>2 DEF NoLedger
  <2>4. req' = [req EXCEPT ![r] = Idle]  BY <1>3 DEF UnmergeCommit
  <2>5. CallsFit'  BY <1>0, <2>1, <2>2, <2>4 DEF Idle, NoLedger
  <2>6. QED  BY <2>3, <2>5
<1>4. ASSUME NEW r \in Requests, NEW new, Start(r, new), ledger' = ledger, new.pc # "idle",
             new.a \in Cigars,
             new.pc = "merge" => new.b \in Cigars \ {new.a},
             new.pc \in {"exclude", "restore"} => new.b = NoCigar,
             new.pc \in {"merge", "exclude"} => new.before.status # "merged",
             new.pc = "unmerge" => /\ new.merge \in Merges /\ Live(new.merge)
                                   /\ new.a = ledger[new.merge].source
                                   /\ new.b = ledger[new.merge].target
      PROVE CallsFit' /\ LedgersFit'
  BY <1>0, <1>4 DEF Start
<1>5. ASSUME NEW r \in Requests, NEW s \in Cigars, NEW t \in Cigars, Merge(r, s, t)
      PROVE CallsFit' /\ LedgersFit'
  BY <1>4, <1>5 DEF Merge, Idle, tables
<1>6. ASSUME NEW r \in Requests, NEW m \in Merges, Unmerge(r, m)
      PROVE CallsFit' /\ LedgersFit'
  BY <1>0, <1>4, <1>6 DEF Unmerge, Idle, tables
<1>7. ASSUME NEW r \in Requests, NEW c \in Cigars, Exclude(r, c) \/ Restore(r, c)
      PROVE CallsFit' /\ LedgersFit'
  <2>1. CASE Exclude(r, c)  BY <1>4, <2>1 DEF Exclude, Idle, tables
  <2>2. CASE Restore(r, c)  BY <1>4, <2>2 DEF Restore, Idle, tables
  <2>3. QED  BY <1>7, <2>1, <2>2
<1>8. ASSUME UNCHANGED <<ledger, req>> PROVE CallsFit' /\ LedgersFit'
  BY <1>8
<1>9. QED
  BY <1>1, <1>2, <1>3, <1>5, <1>6, <1>7, <1>8
  DEF Next, Step, UnmergeRefused, ExcludeCommit, RestoreCommit, Fail, UndoExclude,
      Create, Move, Settle, Unmark, Attribute, tables, vars

-----------------------------------------------------------------------------
\* Unless two calls race on a cigar, what the others read of theirs stays so.
LEMMA OneByOneStep ==
  ASSUME TypeOK, CallsFit, OneByOne, [Next]_vars
  PROVE  OneByOne'
<1> USE DEF OneByOne, Apart, AsRead, Touches, At, Become, Done, Status
<1>0. /\ req \in [Requests -> [pc : {"idle", "merge", "unmerge", "exclude", "restore"},
                              a : Cigars \union {NoCigar}, b : Cigars \union {NoCigar},
                              merge : Merges \union {NoMerge}, before : State]]
      /\ cigar \in [Cigars -> State] /\ raced \in BOOLEAN
      /\ NoCigar \notin Cigars
  BY SentinelAssumption DEF TypeOK
<1>1. \A q \in Requests :
        /\ req[q].pc \in {"merge", "exclude", "restore"} => req[q].a \in Cigars
        /\ req[q].pc = "merge" => req[q].b \in Cigars
  BY DEF CallsFit, Shape
\* The commit of one call changes only a cigar the call is about.
<1>2. ASSUME NEW r \in Requests, req' = [req EXCEPT ![r] = Idle], raced' = raced,
             NEW c \in Touches(r), \A d \in Cigars \ {c} : cigar'[d] = cigar[d]
      PROVE OneByOne'
  <2> SUFFICES ASSUME ~raced PROVE OneByOne'  BY <1>0, <1>2
  <2>1. Apart'  BY <1>0, <1>2, ZenonT(60) DEF Idle
  <2>2. ASSUME NEW q \in Requests PROVE AsRead(q)'
    <3>1. CASE q = r  BY <1>0, <1>2, <3>1 DEF Idle
    <3>2. CASE q # r
      <4>1. req'[q] = req[q]  BY <1>0, <1>2, <3>2
      <4>2. req[q].pc \in {"merge", "exclude", "restore"} => c \notin Touches(q)
        BY <1>2, <3>2
      <4>3. QED  BY <1>0, <1>1, <1>2, <4>1, <4>2
    <3>3. QED  BY <3>1, <3>2
  <2>3. QED  BY <2>1, <2>2
<1>3. ASSUME NEW r \in Requests, NEW new, Start(r, new), cigar' = cigar,
             new.pc = "merge" => cigar[new.a] = new.before /\ Status(new.b) = "active",
             new.pc = "exclude" => cigar[new.a] = new.before,
             new.pc = "restore" => Status(new.a) # "merged"
      PROVE OneByOne'
  <2> SUFFICES ASSUME ~raced' PROVE OneByOne'  OBVIOUS
  <2>1. ~raced /\ \A q \in Requests :
          \/ ({new.a, new.b} \intersect {req[q].a, req[q].b}) \ {NoCigar} = {}
          \/ new.pc = "unmerge" /\ req[q].pc = "unmerge"
    BY <1>3 DEF Start
  <2>2. req' = [req EXCEPT ![r] = new]  BY <1>3 DEF Start
  <2>3. Apart'
    <3> SUFFICES ASSUME NEW p \in Requests, NEW q \in Requests, p # q,
                        (Touches(p) \intersect Touches(q))' # {}
                 PROVE  At(p, "unmerge")' /\ At(q, "unmerge")'
      OBVIOUS
    <3>1. Touches(r)' = {new.a, new.b} \ {NoCigar}  BY <1>0, <2>2
    <3>2. \A o \in Requests \ {r} : req'[o] = req[o]  BY <1>0, <2>2
    <3>3. req'[r] = new  BY <1>0, <2>2
    <3>4. CASE p = r  BY <2>1, <3>1, <3>2, <3>3, <3>4
    <3>5. CASE q = r  BY <2>1, <3>1, <3>2, <3>3, <3>5
    <3>6. CASE p # r /\ q # r  BY <2>1, <3>2, <3>6
    <3>7. QED  BY <3>4, <3>5, <3>6
  <2>4. ASSUME NEW q \in Requests PROVE AsRead(q)'
    BY <1>0, <1>3, <2>1, <2>2
  <2>5. QED  BY <2>3, <2>4
<1>4. ASSUME NEW r \in Requests, NEW m \in Merges, MergeCommit(r, m) PROVE OneByOne'
  <2>1. req[r].a \in Touches(r)  BY <1>0, <1>1, <1>4 DEF MergeCommit
  <2>2. QED  BY <1>0, <1>2, <1>4, <2>1 DEF MergeCommit
<1>5. ASSUME NEW r \in Requests, UnmergeCommit(r) PROVE OneByOne'
  <2>1. req[r].a = ledger[req[r].merge].source /\ req[r].a \in Cigars
    BY <1>5 DEF UnmergeCommit, Undoable, CallsFit, Shape
  <2>2. req[r].a \in Touches(r)  BY <1>0, <2>1
  <2>3. QED  BY <1>0, <1>2, <1>5, <2>1, <2>2, ZenonT(60) DEF UnmergeCommit
<1>6. ASSUME NEW r \in Requests, ExcludeCommit(r) \/ RestoreCommit(r) PROVE OneByOne'
  <2>1. req[r].a \in Touches(r)  BY <1>0, <1>1, <1>6 DEF ExcludeCommit, RestoreCommit
  <2>2. /\ req' = [req EXCEPT ![r] = Idle] /\ raced' = raced
        /\ \A d \in Cigars \ {req[r].a} : cigar'[d] = cigar[d]
    BY <1>0, <1>6 DEF ExcludeCommit, RestoreCommit
  <2>3. QED  BY <1>2, <2>1, <2>2
<1>7. ASSUME NEW r \in Requests, UnmergeRefused(r) \/ Fail(r) PROVE OneByOne'
  <2>1. req' = [req EXCEPT ![r] = Idle] /\ raced' = raced /\ cigar' = cigar
    BY <1>7 DEF UnmergeRefused, Fail, tables
  <2>2. QED  BY <1>0, <2>1 DEF Idle
<1>8. ASSUME NEW r \in Requests, NEW s \in Cigars, NEW t \in Cigars, Merge(r, s, t)
      PROVE OneByOne'
  BY <1>3, <1>8 DEF Merge, Idle, tables
<1>9. ASSUME NEW r \in Requests, NEW m \in Merges, Unmerge(r, m) PROVE OneByOne'
  BY <1>3, <1>9 DEF Unmerge, Idle, tables
<1>10. ASSUME NEW r \in Requests, NEW c \in Cigars, Exclude(r, c) \/ Restore(r, c)
       PROVE OneByOne'
  BY <1>3, <1>10 DEF Exclude, Restore, Idle, tables
<1>11. ASSUME NEW i \in DOMAIN excludes, UndoExclude(i) PROVE OneByOne'
  <2> SUFFICES ASSUME ~raced' PROVE OneByOne'  OBVIOUS
  <2> DEFINE c == excludes[i].cigar
  <2>1. ~raced /\ \A q \in Requests : c \notin {req[q].a, req[q].b}
    BY <1>11 DEF UndoExclude
  <2>2. req' = req /\ \A d \in Cigars \ {c} : cigar'[d] = cigar[d]
    BY <1>0, <1>11 DEF UndoExclude
  <2>3. QED  BY <1>0, <1>1, <2>1, <2>2
<1>12. ASSUME UNCHANGED <<cigar, req, raced>> PROVE OneByOne'
  BY <1>12
<1>13. QED
  BY <1>4, <1>5, <1>6, <1>7, <1>8, <1>9, <1>10, <1>11, <1>12
  DEF Next, Step, Create, Move, Settle, Unmark, Attribute, vars

-----------------------------------------------------------------------------
\* A tombstone stands while its ledger does, unless an undo takes its flag.
LEMMA TombsStep ==
  ASSUME TypeOK, CallsFit, OneByOne, TombsStand, [Next]_vars
  PROVE  TombsStand'
<1> USE DEF TombsStand, Live, Done, Become
<1>0. /\ cigar \in [Cigars -> State] /\ raced \in BOOLEAN /\ revived \in BOOLEAN
      /\ NoCigar \notin Cigars /\ DOMAIN ledger = Merges
      /\ \A m \in Merges : ledger[m].source \in Cigars \union {NoCigar}
  BY SentinelAssumption DEF TypeOK
\* A write to a cigar that is no tombstone.
<1>1. ASSUME NEW c \in Cigars, raced \/ revived \/ Status(c) # "merged",
             \A d \in Cigars \ {c} : cigar'[d] = cigar[d],
             ledger' = ledger, raced => raced', revived => revived'
      PROVE TombsStand'
  BY <1>0, <1>1 DEF Status
<1>2. ASSUME NEW r \in Requests, NEW m \in Merges, MergeCommit(r, m) PROVE TombsStand'
  <2> SUFFICES ASSUME ~raced, ~revived PROVE TombsStand'
    BY <1>0, <1>2 DEF MergeCommit, history
  <2> DEFINE s == req[r].a
  <2>1. s \in Cigars /\ Status(s) # "merged"
    BY <1>2 DEF MergeCommit, CallsFit, Shape, OneByOne, AsRead, Status, At
  <2>2. \A n \in Merges : Live(n) => ledger[n].source # s
    <3> SUFFICES ASSUME NEW n \in Merges, Live(n) PROVE Status(ledger[n].source) = "merged"
      BY <2>1
    <3>1. cigar[ledger[n].source] = [status |-> "merged", into |-> ledger[n].target]
      OBVIOUS
    <3>2. QED  BY <3>1 DEF Status
  <2>3. /\ \A n \in Merges \ {m} : ledger'[n] = ledger[n]
        /\ ledger'[m].source = s /\ ledger'[m].target = req[r].b
        /\ \A d \in Cigars \ {s} : cigar'[d] = cigar[d]
        /\ cigar'[s] = [status |-> "merged", into |-> req[r].b]
    BY <1>0, <1>2, <2>1 DEF MergeCommit
  <2>4. QED  BY <1>0, <2>1, <2>2, <2>3
<1>3. ASSUME NEW r \in Requests, UnmergeCommit(r) PROVE TombsStand'
  <2> SUFFICES ASSUME ~raced, ~revived PROVE TombsStand'
    BY <1>0, <1>3 DEF UnmergeCommit
  <2> DEFINE m == req[r].merge
  <2>1. m \in Merges /\ Live(m)
    BY <1>3 DEF UnmergeCommit, Undoable, CallsFit, Shape
  <2>2. /\ \A n \in Merges \ {m} : ledger'[n] = ledger[n]
        /\ ledger'[m].source = NoCigar
        /\ \A d \in Cigars \ {ledger[m].source} : cigar'[d] = cigar[d]
    BY <1>0, <1>3, <2>1 DEF UnmergeCommit, NoLedger
  <2>3. QED  BY <1>0, <2>1, <2>2
<1>4. ASSUME NEW r \in Requests, ExcludeCommit(r) \/ RestoreCommit(r) PROVE TombsStand'
  <2>1. req[r].a \in Cigars /\ (raced \/ Status(req[r].a) # "merged")
    BY <1>4 DEF ExcludeCommit, RestoreCommit, CallsFit, Shape, OneByOne, AsRead, Status, At
  <2>2. QED  BY <1>0, <1>1, <1>4, <2>1 DEF ExcludeCommit, RestoreCommit, history
<1>5. ASSUME NEW i \in DOMAIN excludes, UndoExclude(i) PROVE TombsStand'
  <2>1. excludes[i].cigar \in Cigars  BY LogStep DEF LogRow
  <2>2. CASE revived'  BY <2>2
  <2>3. CASE ~revived'
    <3>1. Status(excludes[i].cigar) # "merged"  BY <1>5, <2>3 DEF UndoExclude
    <3>2. QED  BY <1>0, <1>1, <1>5, <2>1, <3>1 DEF UndoExclude
  <2>4. QED  BY <2>2, <2>3
<1>6. ASSUME UNCHANGED <<cigar, ledger>>, raced => raced', revived => revived'
      PROVE TombsStand'
  BY <1>6
<1>7. QED
  BY <1>2, <1>3, <1>4, <1>5, <1>6, ZenonT(60)
  DEF Next, Step, UnmergeRefused, Fail, Merge, Unmerge, Exclude, Restore, Start,
      Create, Move, Settle, Unmark, Attribute, vars, tables, history

-----------------------------------------------------------------------------
\* No curation hides a lot, and no unmerge brings one back to a hidden cigar.
LEMMA LotsStep ==
  ASSUME TypeOK, CallsFit, OneByOne, LotsVisible, [Next]_vars
  PROVE  LotsVisible'
<1> USE DEF LotsVisible, Live, Status, At, Become, Done
<1>0. /\ cigar \in [Cigars -> State] /\ raced \in BOOLEAN /\ revived \in BOOLEAN
      /\ NoCigar \notin Cigars /\ DOMAIN ledger = Merges
      /\ at \in [Rows -> Cigars \union {NoCigar}] /\ Lots \subseteq Rows
      /\ DOMAIN req = Requests
      /\ \A m \in Merges : /\ ledger[m].source \in Cigars \union {NoCigar}
                            /\ ledger[m].dropped \subseteq Marks
      /\ Lots \intersect (Smokes \union Listings \union Marks \union Photos) = {}
      /\ late \subseteq Lots /\ rehidden \subseteq Lots
  BY SentinelAssumption, KindsAssumption DEF TypeOK, Rows
<1>1. ASSUME NEW r \in Requests, NEW m \in Merges, MergeCommit(r, m) PROVE LotsVisible'
  <2> SUFFICES ASSUME ~raced, NEW l \in Lots \ (late \union rehidden)
               PROVE  /\ at'[l] # NoCigar => cigar'[at'[l]].status = "active"
                      /\ \A q \in Requests : req'[q].pc = "exclude" => at'[l] # req'[q].a
                      /\ \A n \in Merges : ledger'[n].source # NoCigar /\ l \in ledger'[n].moved
                                           => ledger'[n].before.status = "active"
    BY <1>0, <1>1 DEF MergeCommit, history
  <2> DEFINE s == req[r].a
             t == req[r].b
  <2>1. /\ s \in Cigars /\ t \in Cigars \ {s}
        /\ cigar[s] = req[r].before /\ cigar[t].status = "active"
    BY <1>1 DEF MergeCommit, CallsFit, Shape, OneByOne, AsRead
  <2>2. /\ \A n \in Merges \ {m} : ledger'[n] = ledger[n]
        /\ ledger'[m].moved = Moved(s, t) /\ ledger'[m].before = req[r].before
        /\ \A d \in Cigars \ {s} : cigar'[d] = cigar[d]
        /\ \A q \in Requests \ {r} : req'[q] = req[q]
        /\ req'[r] = Idle
    BY <1>0, <1>1, <2>1 DEF MergeCommit
  <2>3. l \in Moved(s, t) <=> at[l] = s
    BY <1>0 DEF Moved, Doubles, RowsOf, Slots
  <2>4. l \notin Doubles(s, t, Marks)  BY <1>0 DEF Doubles
  <2>5. at'[l] = IF at[l] = s THEN t ELSE at[l]
    BY <1>0, <1>1, <2>3, <2>4 DEF MergeCommit
  <2>6. at'[l] # NoCigar => cigar'[at'[l]].status = "active"
    BY <1>0, <2>1, <2>2, <2>5
  <2>7. ASSUME NEW q \in Requests, req'[q].pc = "exclude" PROVE at'[l] # req'[q].a
    <3>1. q # r /\ req[q].pc = "exclude"  BY <2>2, <2>7 DEF Idle
    <3>2. t \notin Touches(q)
      BY <1>0, <1>1, <2>1, <3>1 DEF MergeCommit, OneByOne, Apart, Touches
    <3>3. QED  BY <1>0, <2>1, <2>2, <2>5, <3>1, <3>2 DEF Touches
  <2>8. ASSUME NEW n \in Merges, ledger'[n].source # NoCigar, l \in ledger'[n].moved
        PROVE ledger'[n].before.status = "active"
    BY <1>0, <2>1, <2>2, <2>3, <2>8
  <2>9. QED  BY <2>6, <2>7, <2>8
<1>2. ASSUME NEW r \in Requests, UnmergeCommit(r) PROVE LotsVisible'
  <2> SUFFICES ASSUME ~raced, NEW l \in Lots \ (late \union rehidden)
               PROVE  /\ at'[l] # NoCigar => cigar'[at'[l]].status = "active"
                      /\ \A q \in Requests : req'[q].pc = "exclude" => at'[l] # req'[q].a
                      /\ \A n \in Merges : ledger'[n].source # NoCigar /\ l \in ledger'[n].moved
                                           => ledger'[n].before.status = "active"
    BY <1>0, <1>2 DEF UnmergeCommit, history
  <2> DEFINE m == req[r].merge
             s == ledger[m].source
  <2>1. m \in Merges /\ s \in Cigars /\ req[r].a = s /\ cigar[s].status = "merged"
    BY <1>0, <1>2 DEF UnmergeCommit, Undoable, CallsFit, Shape
  <2>2. /\ \A n \in Merges \ {m} : ledger'[n] = ledger[n]
        /\ ledger'[m].source = NoCigar
        /\ cigar'[s] = ledger[m].before
        /\ \A d \in Cigars \ {s} : cigar'[d] = cigar[d]
        /\ \A q \in Requests \ {r} : req'[q] = req[q]
        /\ req'[r] = Idle
    BY <1>0, <1>2, <2>1 DEF UnmergeCommit, NoLedger
  <2>3. /\ at'[l] = IF l \in Returns(m) THEN s ELSE at[l]
        /\ l \in Returns(m) => l \in ledger[m].moved
    BY <1>0, <1>2, <2>1 DEF UnmergeCommit, Returns
  <2>4. at[l] # s  BY <1>0, <2>1
  <2>5. l \in Returns(m) => ledger[m].before.status = "active"
    BY <1>0, <2>1, <2>3
  <2>6. at'[l] # NoCigar => cigar'[at'[l]].status = "active"
    BY <1>0, <2>1, <2>2, <2>3, <2>4, <2>5
  <2>7. ASSUME NEW q \in Requests, req'[q].pc = "exclude" PROVE at'[l] # req'[q].a
    <3>1. q # r /\ req[q].pc = "exclude"  BY <2>2, <2>7 DEF Idle
    <3>2. s \notin Touches(q)
      BY <1>0, <1>2, <2>1, <3>1 DEF UnmergeCommit, OneByOne, Apart, Touches
    <3>3. QED  BY <1>0, <2>1, <2>2, <2>3, <3>1, <3>2 DEF Touches
  <2>8. ASSUME NEW n \in Merges, ledger'[n].source # NoCigar, l \in ledger'[n].moved
        PROVE ledger'[n].before.status = "active"
    BY <1>0, <2>2, <2>8
  <2>9. QED  BY <2>6, <2>7, <2>8
\* A write to one cigar that hides no lot.
<1>3. ASSUME NEW c \in Cigars, \A d \in Cigars \ {c} : cigar'[d] = cigar[d],
             \A l \in Lots : at'[l] = at[l],
             ledger' = ledger, late' = late, rehidden \subseteq rehidden', raced => raced',
             \A q \in Requests : req'[q] = req[q] \/ req'[q] = Idle,
             \/ cigar'[c].status = "active"
             \/ ~raced' => \A l \in Lots \ (late \union rehidden') : at[l] # c
      PROVE LotsVisible'
  <2> SUFFICES ASSUME ~raced', NEW l \in Lots \ (late \union rehidden')
               PROVE  /\ at'[l] # NoCigar => cigar'[at'[l]].status = "active"
                      /\ \A q \in Requests : req'[q].pc = "exclude" => at'[l] # req'[q].a
                      /\ \A n \in Merges : ledger'[n].source # NoCigar /\ l \in ledger'[n].moved
                                           => ledger'[n].before.status = "active"
    BY <1>0, <1>3
  <2>1. at'[l] # NoCigar => cigar'[at'[l]].status = "active"
    BY <1>0, <1>3
  <2>2. \A q \in Requests : req'[q].pc = "exclude" => at'[l] # req'[q].a
    BY <1>0, <1>3 DEF Idle
  <2>3. QED  BY <1>3, <2>1, <2>2
<1>4. ASSUME NEW r \in Requests, ExcludeCommit(r) PROVE LotsVisible'
  <2>1. req[r].a \in Cigars  BY <1>4 DEF ExcludeCommit, CallsFit, Shape
  <2>2. \A l \in Lots : at'[l] = at[l]  BY <1>0, <1>4 DEF ExcludeCommit
  <2>3. ~raced' => \A l \in Lots \ (late \union rehidden') : at[l] # req[r].a
    BY <1>4 DEF ExcludeCommit
  <2>4. QED  BY <1>0, <1>3, <1>4, <2>1, <2>2, <2>3 DEF ExcludeCommit, Stray
<1>5. ASSUME NEW r \in Requests, RestoreCommit(r) PROVE LotsVisible'
  <2>1. req[r].a \in Cigars  BY <1>5 DEF RestoreCommit, CallsFit, Shape
  <2>2. cigar'[req[r].a].status = "active"  BY <1>0, <1>5, <2>1 DEF RestoreCommit, State
  <2>3. QED  BY <1>0, <1>3, <1>5, <2>1, <2>2 DEF RestoreCommit, history
<1>6. ASSUME NEW i \in DOMAIN excludes, UndoExclude(i) PROVE LotsVisible'
  <2>1. excludes[i].cigar \in Cigars  BY LogStep DEF LogRow
  <2> DEFINE c == excludes[i].cigar
  <2>2. cigar'[c].status = excludes[i].prior  BY <1>0, <1>6, <2>1 DEF UndoExclude, State
  <2>3. \/ excludes[i].prior = "active"
        \/ \A l \in Lots \ (late \union rehidden') : at[l] # c
    <3>1. excludes[i].prior \in {"active", "excluded"}  BY LogStep DEF LogRow
    <3>2. QED  BY <1>0, <1>6, <3>1 DEF UndoExclude, RowsOf
  <2>4. QED  BY <1>0, <1>3, <1>6, <2>1, <2>2, <2>3 DEF UndoExclude
<1>7. ASSUME NEW r \in Requests, NEW new, Start(r, new), UNCHANGED <<cigar, at, ledger, late, rehidden>>,
             new.pc = "exclude" => RowsOf(new.a) \intersect Lots = {}
      PROVE LotsVisible'
  BY <1>0, <1>7 DEF Start, RowsOf
<1>8. ASSUME NEW r \in Requests, NEW s \in Cigars, NEW t \in Cigars, Merge(r, s, t)
      PROVE LotsVisible'
  BY <1>7, <1>8 DEF Merge, Idle, tables, history
<1>9. ASSUME NEW r \in Requests, NEW m \in Merges, Unmerge(r, m) PROVE LotsVisible'
  BY <1>7, <1>9 DEF Unmerge, Idle, tables, history
<1>10. ASSUME NEW r \in Requests, NEW c \in Cigars, Exclude(r, c) \/ Restore(r, c)
       PROVE LotsVisible'
  BY <1>7, <1>10 DEF Exclude, Restore, Idle, tables, history
<1>11. ASSUME NEW x \in Rows, NEW c \in Cigars, Settle(x, c) PROVE LotsVisible'
  <2>1. \A l \in Rows : at'[l] = IF l = x THEN c ELSE at[l]  BY <1>0, <1>11 DEF Settle
  <2>2. x \in Lots \ late' => /\ cigar[c].status = "active"
                             /\ \A q \in Requests : req[q].pc = "exclude" => req[q].a # c
    BY <1>11 DEF Settle
  <2>3. late \subseteq late' /\ UNCHANGED <<cigar, ledger, rehidden, raced, req>>
    BY <1>11 DEF Settle
  <2>4. QED  BY <1>0, <2>1, <2>2, <2>3
<1>12. ASSUME NEW x \in Rows, Unmark(x) PROVE LotsVisible'
  <2>1. \A l \in Lots : at'[l] = at[l]  BY <1>0, <1>12 DEF Unmark
  <2>2. QED  BY <1>0, <1>12, <2>1 DEF Unmark
<1>13. ASSUME NEW r \in Requests, UnmergeRefused(r) \/ Fail(r) PROVE LotsVisible'
  <2>1. /\ req' = [req EXCEPT ![r] = Idle]
        /\ UNCHANGED <<cigar, at, ledger, late, rehidden, raced>>
    BY <1>13 DEF UnmergeRefused, Fail, tables, history
  <2>2. QED  BY <1>0, <2>1 DEF Idle
<1>14. ASSUME UNCHANGED <<cigar, at, ledger, late, rehidden, raced, req>> PROVE LotsVisible'
  BY <1>14
<1>15. ASSUME NEW s \in Smokes, Attribute(s) PROVE LotsVisible'
  BY <1>14, <1>15 DEF Attribute, history
<1>16. CASE UNCHANGED vars  BY <1>14, <1>16 DEF vars
<1>17. QED
  BY <1>1, <1>2, <1>4, <1>5, <1>6, <1>8, <1>9, <1>10, <1>11, <1>12, <1>13, <1>15, <1>16
  DEF Next, Step, Create, Move

-----------------------------------------------------------------------------
\* A lot and the smokes drawn from it move as one, or the unmerge that parts them says so.
LEMMA TogetherStep ==
  ASSUME TypeOK, CallsFit, Together, [Next]_vars
  PROVE  Together'
<1> USE DEF Together, LotsKeepTheirSmokes
<1>0. /\ at \in [Rows -> Cigars \union {NoCigar}] /\ drawn \in [Smokes -> Lots \union {NoLot}]
      /\ Lots \subseteq Rows /\ Smokes \subseteq Rows /\ NoLot \notin Lots /\ NoCigar \notin Cigars
      /\ Lots \intersect (Smokes \union Listings \union Marks \union Photos) = {}
      /\ Smokes \intersect (Listings \union Marks \union Photos) = {}
  BY SentinelAssumption, KindsAssumption DEF TypeOK, Rows
<1>1. ASSUME NEW r \in Requests, NEW m \in Merges, MergeCommit(r, m) PROVE Together'
  <2> DEFINE s == req[r].a
             t == req[r].b
  <2>1. s \in Cigars /\ t \in Cigars  BY <1>1 DEF MergeCommit, CallsFit, Shape, At
  <2>2. \A x \in Lots \union Smokes : /\ x \in Moved(s, t) <=> at[x] = s
                                   /\ x \notin Doubles(s, t, Marks)
    BY <1>0 DEF Moved, Doubles, RowsOf, Slots
  <2>3. \A x \in Lots \union Smokes : at'[x] = IF at[x] = s THEN t ELSE at[x]
    BY <1>0, <1>1, <2>2 DEF MergeCommit
  <2>4. drawn' = drawn /\ parted' = parted  BY <1>1 DEF MergeCommit, history
  <2>5. QED  BY <1>0, <2>1, <2>3, <2>4
<1>2. ASSUME NEW r \in Requests, UnmergeCommit(r) PROVE Together'
  <2> DEFINE m == req[r].merge
             a == ledger[m].source
             b == ledger[m].target
  <2>1. m \in Merges /\ a \in Cigars /\ a # b
    BY <1>2 DEF UnmergeCommit, Undoable, CallsFit, Shape, Live, Status, TypeOK
  <2>2. /\ \A x \in Rows : at'[x] = IF x \in Returns(m) THEN a ELSE at[x]
        /\ drawn' = drawn /\ parted' = parted \union Split(m)
    BY <1>2 DEF UnmergeCommit
  <2>3. ledger[m].dropped \subseteq Marks  BY <2>1 DEF TypeOK
  \* Neither a lot nor a smoke has a slot that could be taken.
  <2>4. \A x \in Lots \union Smokes :
          x \in Returns(m) <=> x \in ledger[m].moved \ HeldBack(m) /\ at[x] = b
    BY <1>0, <2>3 DEF Returns, Fits, Slots
  <2>5. \A s \in Smokes : s \notin HeldBack(m)  BY <1>0 DEF HeldBack
  <2>6. ASSUME NEW s \in Smokes, drawn[s] \in Lots \ parted'
        PROVE  at'[drawn[s]] = at'[s]
    <3> DEFINE x == drawn[s]
               back == DrawnFrom(x) \intersect SmokesBack(m)
    <3>1. x \in Lots /\ at[x] = at[s] /\ s \in DrawnFrom(x)
      BY <2>2, <2>6 DEF DrawnFrom
    <3>2. back = {} \/ (x \in ledger[m].moved /\ back = DrawnFrom(x))
      BY <2>2, <2>6 DEF Split
    <3>3. CASE s \in Returns(m)
      <4>1. s \in ledger[m].moved /\ at[s] = b  BY <2>4, <3>3
      <4>2. s \in back  BY <3>1, <4>1 DEF SmokesBack
      <4>3. x \in ledger[m].moved \ HeldBack(m)  BY <3>2, <4>2 DEF HeldBack
      <4>4. x \in Returns(m)  BY <2>4, <3>1, <4>1, <4>3
      <4>5. QED  BY <1>0, <2>2, <3>1, <3>3, <4>4
    <3>4. CASE s \notin Returns(m)
      <4>1. x \notin Returns(m)
        <5> SUFFICES ASSUME x \in Returns(m) PROVE FALSE  OBVIOUS
        <5>1. x \in ledger[m].moved \ HeldBack(m) /\ at[x] = b  BY <2>4, <3>1
        <5>2. back # {}  BY <3>1, <5>1 DEF HeldBack
        <5>3. s \in SmokesBack(m)  BY <3>1, <3>2, <5>2
        <5>4. s \in ledger[m].moved  BY <2>1, <3>1, <5>1, <5>3 DEF SmokesBack
        <5>5. QED  BY <2>4, <2>5, <3>1, <3>4, <5>1, <5>4
      <4>2. QED  BY <1>0, <2>2, <3>1, <3>4, <4>1
    <3>5. QED  BY <3>3, <3>4
  <2>7. \A s \in Smokes : at'[s] = NoCigar => drawn'[s] = NoLot
    BY <1>0, <2>1, <2>2
  <2>8. QED  BY <2>2, <2>6, <2>7
\* A step that leaves lots, smokes and what is drawn alone.
<1>3. ASSUME \A x \in Lots \union Smokes : at'[x] = at[x], UNCHANGED <<drawn, parted>>
      PROVE Together'
  BY <1>0, <1>3
<1>4. ASSUME NEW r \in Requests, ExcludeCommit(r) PROVE Together'
  <2>1. \A x \in Lots \union Smokes : at'[x] = at[x]  BY <1>0, <1>4 DEF ExcludeCommit
  <2>2. QED  BY <1>3, <1>4, <2>1 DEF ExcludeCommit
\* Of a smoke that is written anew, the lot is of its new cigar.
<1>5. ASSUME NEW s \in Smokes, NEW c \in Cigars, Draw(s, c), parted' = parted,
             \A x \in Lots \union Smokes : at'[x] = IF x = s THEN c ELSE at[x]
      PROVE Together'
  <2>1. PICK l \in {NoLot} \union (RowsOf(c) \intersect Lots) : drawn' = [drawn EXCEPT ![s] = l]
    BY <1>5 DEF Draw
  <2>2. l \in Lots => at[l] = c /\ l # s  BY <1>0, <2>1 DEF RowsOf
  <2>3. \A q \in Smokes : drawn'[q] = IF q = s THEN l ELSE drawn[q]  BY <1>0, <2>1
  <2>4. \A q \in Smokes : drawn[q] \in Lots => drawn[q] # s  BY <1>0
  <2>5. QED  BY <1>0, <1>5, <2>1, <2>2, <2>3, <2>4
<1>6. ASSUME NEW x \in Rows, NEW c \in Cigars, Create(x, c) PROVE Together'
  <2>1. /\ \A y \in Rows : at'[y] = IF y = x THEN c ELSE at[y]
        /\ parted' = parted /\ at[x] = NoCigar
    BY <1>0, <1>6 DEF Create, Settle
  <2>2. CASE x \in Smokes  BY <1>0, <1>5, <1>6, <2>1, <2>2 DEF Create
  <2>3. CASE x \notin Smokes
    <3>1. drawn' = drawn  BY <1>6, <2>3 DEF Create
    <3>2. \A s \in Smokes : drawn[s] = x => x \notin Lots \ parted  BY <1>0, <2>1
    <3>3. QED  BY <1>0, <2>1, <2>3, <3>1, <3>2
  <2>4. QED  BY <2>2, <2>3
<1>7. ASSUME NEW x \in Rows, NEW c \in Cigars, Move(x, c) PROVE Together'
  <2>1. /\ \A y \in Rows : at'[y] = IF y = x THEN c ELSE at[y]
        /\ parted' = parted
    BY <1>0, <1>7 DEF Move, Settle
  <2>2. CASE x \in Smokes  BY <1>0, <1>5, <1>7, <2>1, <2>2 DEF Move
  <2>3. CASE x \notin Smokes
    <3>1. drawn' = drawn  BY <1>7, <2>3 DEF Move
    <3>2. \A s \in Smokes : drawn[s] = x => at[s] = c  BY <1>7 DEF Move
    <3>3. QED  BY <1>0, <2>1, <2>3, <3>1, <3>2
  <2>4. QED  BY <2>2, <2>3
<1>8. ASSUME NEW s \in Smokes, Attribute(s) PROVE Together'
  <2>1. at[s] \in Cigars /\ Draw(s, at[s]) /\ at' = at /\ parted' = parted
    BY <1>0, <1>8 DEF Attribute, history
  <2>2. QED  BY <1>5, <2>1
<1>9. ASSUME NEW x \in Rows, Unmark(x) PROVE Together'
  <2>1. /\ \A y \in Lots \union Smokes : at'[y] = IF y = x THEN NoCigar ELSE at[y]
        /\ \A s \in Smokes : drawn'[s] = IF s = x THEN NoLot ELSE drawn[s]
        /\ parted' = parted /\ x \notin Lots
    BY <1>0, <1>9 DEF Unmark
  <2>2. QED  BY <1>0, <2>1
<1>10. ASSUME UNCHANGED <<at, drawn, parted>> PROVE Together'
  BY <1>10
<1>11. QED
  BY <1>1, <1>2, <1>4, <1>6, <1>7, <1>8, <1>9, <1>10
  DEF Next, Step, UnmergeRefused, RestoreCommit, Fail, Merge, Unmerge, Exclude, Restore,
      UndoExclude, tables, history, vars

-----------------------------------------------------------------------------
\* A chain is one of the ledgers it goes through: it stays one while they, the row and
\* its carriers are left alone.
LEMMA SameChain ==
  ASSUME NEW x \in Rows, NEW n \in Nat, NEW p \in [1 .. n -> Merges], IsChain(x, n, p),
         at'[x] = at[x], home'[x] = home[x],
         \A i \in 1 .. n : ledger'[p[i]] = ledger[p[i]],
         \A m \in Merges : m \in Carriers(x)' <=> m \in Carriers(x)
  PROVE  HasChain(x)'
<1>1. IsChain(x, n, p)'
  <2>1. n > 0 => n \in 1 .. n /\ 1 \in 1 .. n  OBVIOUS
  <2>2. \A i \in 1 .. n - 1 : i \in 1 .. n /\ i + 1 \in 1 .. n  OBVIOUS
  <2>3. QED  BY <2>1, <2>2 DEF IsChain
<1>2. QED  BY <1>1 DEF HasChain

\* A merge puts itself at the end of the chain of each row it carries.
LEMMA MergeExtends ==
  ASSUME TypeOK, CallsFit, OneByOne, TombsStand, ~raced, ~revived,
         NEW r \in Requests, NEW m \in Merges, MergeCommit(r, m),
         NEW x \in Rows, HasChain(x)
  PROVE  HasChain(x)'
<1> DEFINE s == req[r].a
           t == req[r].b
<1>0. /\ NoCigar \notin Cigars /\ DOMAIN ledger = Merges
      /\ \A k \in Merges : ledger[k].source \in Cigars \union {NoCigar}
  BY SentinelAssumption DEF TypeOK
<1>1. s \in Cigars /\ t \in Cigars \ {s} /\ Status(t) = "active"
  BY DEF MergeCommit, CallsFit, Shape, OneByOne, AsRead, At
<1>2. /\ ~Live(m) /\ home'[x] = home[x]
      /\ \A k \in Merges \ {m} : ledger'[k] = ledger[k]
      /\ ledger'[m].source = s /\ ledger'[m].target = t
      /\ ledger'[m].moved = Moved(s, t) /\ ledger'[m].dropped = Doubles(s, t, Marks)
      /\ at'[x] = IF x \in Moved(s, t) THEN t
                  ELSE IF x \in Doubles(s, t, Marks) THEN NoCigar ELSE at[x]
  BY <1>0 DEF MergeCommit, Written, history
<1>3a. PICK n \in Nat : \E p \in [1 .. n -> Merges] : IsChain(x, n, p)  BY DEF HasChain
<1>3. PICK p \in [1 .. n -> Merges] : IsChain(x, n, p)  BY <1>3a
<1>4. m \notin Carriers(x) /\ \A i \in 1 .. n : p[i] # m /\ Live(p[i])
  BY <1>2, <1>3 DEF Carriers, IsChain
<1>5. \A k \in Merges \ {m} : k \in Carriers(x)' <=> k \in Carriers(x)
  BY <1>2 DEF Carriers, Live, Names
<1>6. \A i \in 1 .. n : ledger'[p[i]] = ledger[p[i]]  BY <1>2, <1>4
<1>7. CASE x \notin Moved(s, t) /\ x \notin Doubles(s, t, Marks)
  <2>1. m \notin Carriers(x)'  BY <1>2, <1>7 DEF Carriers, Names
  <2>2. QED  BY <1>2, <1>3, <1>4, <1>5, <1>6, <1>7, <2>1, SameChain
<1>8. CASE x \in Moved(s, t) \/ x \in Doubles(s, t, Marks)
  <2> DEFINE q == [i \in 1 .. n + 1 |-> IF i = n + 1 THEN m ELSE p[i]]
  <2>1. at[x] = s  BY <1>8 DEF Moved, Doubles, RowsOf
  <2>2. m \in Carriers(x)'
    BY <1>0, <1>1, <1>2, <1>8 DEF Carriers, Names, Live
  <2>3. q \in [1 .. n + 1 -> Merges] /\ q[n + 1] = m /\ \A i \in 1 .. n : q[i] = p[i]
    OBVIOUS
  <2>4. \A k \in Merges : k \in Carriers(x)' <=> \E i \in 1 .. n + 1 : q[i] = k
    <3>1. ASSUME NEW k \in Merges, k \in Carriers(x)' PROVE \E i \in 1 .. n + 1 : q[i] = k
      <4>1. CASE k = m  BY <2>3, <4>1
      <4>2. CASE k # m
        <5>1. PICK i \in 1 .. n : p[i] = k  BY <1>3, <1>5, <3>1, <4>2 DEF IsChain
        <5>2. i \in 1 .. n + 1 /\ q[i] = k  BY <2>3, <5>1
        <5>3. QED  BY <5>2
      <4>3. QED  BY <4>1, <4>2
    <3>2. ASSUME NEW i \in 1 .. n + 1 PROVE q[i] \in Carriers(x)'
      <4>1. CASE i = n + 1  BY <2>2, <2>3, <4>1
      <4>2. CASE i \in 1 .. n  BY <1>3, <1>4, <1>5, <2>3, <4>2 DEF IsChain
      <4>3. QED  BY <4>1, <4>2
    <3>3. QED  BY <3>1, <3>2
  <2>5. ledger'[q[1]].source = home'[x]
    <3>1. CASE n = 0  BY <1>2, <1>3, <2>1, <2>3, <3>1 DEF IsChain
    <3>2. CASE n > 0  BY <1>2, <1>3, <1>6, <2>3, <3>2 DEF IsChain
    <3>3. QED  BY <3>1, <3>2
  <2>6. ASSUME NEW i \in 1 .. n
        PROVE  x \in ledger'[q[i]].moved /\ ledger'[q[i]].target = ledger'[q[i + 1]].source
    <3>1. CASE i = n
      <4>1. x \in ledger[p[n]].moved /\ ledger[p[n]].target = s
        BY <1>0, <1>1, <1>3, <2>1, <3>1 DEF IsChain
      <4>2. QED  BY <1>2, <1>6, <2>3, <3>1, <4>1
    <3>2. CASE i < n
      <4>1. i \in 1 .. n - 1 /\ i + 1 \in 1 .. n  BY <3>2
      <4>2. q[i] = p[i] /\ q[i + 1] = p[i + 1]  BY <2>3, <4>1
      <4>3. x \in ledger[p[i]].moved /\ ledger[p[i]].target = ledger[p[i + 1]].source
        BY <1>3, <4>1 DEF IsChain
      <4> HIDE DEF q
      <4>4. QED  BY <1>6, <4>1, <4>2, <4>3
    <3>3. QED  BY <3>1, <3>2
  <2>7. \/ x \in ledger'[m].dropped /\ at'[x] = NoCigar
        \/ x \in ledger'[m].moved /\ at'[x] = ledger'[m].target
    BY <1>2, <1>8
  <2>8. ASSUME NEW i \in 1 .. n + 1 PROVE ledger'[q[i]].source # at'[x]
    <3>1. at'[x] \in {t, NoCigar}  BY <1>2, <1>8
    <3>2. CASE i = n + 1  BY <1>0, <1>1, <1>2, <2>3, <3>1, <3>2
    <3>3. CASE i \in 1 .. n
      <4>1. Live(p[i]) /\ ledger'[q[i]] = ledger[p[i]]  BY <1>4, <1>6, <2>3, <3>3
      <4>2. ledger[p[i]].source # NoCigar  BY <4>1 DEF Live
      <4>3. Status(ledger[p[i]].source) = "merged"
        <5>1. cigar[ledger[p[i]].source] = [status |-> "merged", into |-> ledger[p[i]].target]
          BY <3>3, <4>1 DEF TombsStand
        <5>2. QED  BY <5>1 DEF Status
      <4>4. QED  BY <1>1, <3>1, <4>1, <4>2, <4>3
    <3>4. QED  BY <3>2, <3>3
  <2>9. IsChain(x, n + 1, q)'
    <3>1. 1 .. (n + 1) - 1 = 1 .. n /\ n + 1 # 0 /\ n + 1 > 0  OBVIOUS
    <3>2. \A i \in 1 .. (n + 1) - 1 :
            x \in ledger'[q[i]].moved /\ ledger'[q[i]].target = ledger'[q[i + 1]].source
      BY <2>6, <3>1
    <3> HIDE DEF q
    <3>3. QED  BY <2>3, <2>4, <2>5, <2>7, <2>8, <3>1, <3>2 DEF IsChain
  <2>10. QED  BY <2>3, <2>9 DEF HasChain
<1>9. QED  BY <1>7, <1>8

\* An unmerge, in order or out of it, takes itself out of the chains it can, and a row it
\* cannot take back strays.
LEMMA UnmergeShortens ==
  ASSUME TypeOK, CallsFit, TombsStand, ~raced, ~revived,
         NEW r \in Requests, UnmergeCommit(r),
         NEW x \in Rows, x \notin strayed', HasChain(x)
  PROVE  HasChain(x)'
<1> DEFINE m == req[r].merge
           s == ledger[m].source
           t == ledger[m].target
<1>0. NoCigar \notin Cigars /\ DOMAIN ledger = Merges
  BY SentinelAssumption DEF TypeOK
<1>1. m \in Merges /\ Live(m) /\ Status(t) # "merged"
  BY DEF UnmergeCommit, Undoable, CallsFit, Shape
<1>2. /\ \A k \in Merges \ {m} : ledger'[k] = ledger[k]
      /\ ledger'[m].source = NoCigar
      /\ at'[x] = IF x \in Returns(m) THEN s ELSE at[x]
      /\ Names(m, x) => Fits(x, s) /\ x \notin HeldBack(m)
      /\ home'[x] = home[x]
  BY <1>0, <1>1 DEF UnmergeCommit, NoLedger, Stray
<1>3a. PICK n \in Nat : \E p \in [1 .. n -> Merges] : IsChain(x, n, p)  BY DEF HasChain
<1>3. PICK p \in [1 .. n -> Merges] : IsChain(x, n, p)  BY <1>3a
<1>4. \A k \in Merges : k \in Carriers(x)' <=> k \in Carriers(x) /\ k # m
  BY <1>1, <1>2 DEF Carriers, Live, Names
<1>5. \A i \in 1 .. n : p[i] \in Merges /\ Live(p[i])
  BY <1>3 DEF IsChain, Carriers
<1>6. CASE m \notin Carriers(x)
  <2>1. x \notin Returns(m)  BY <1>1, <1>6 DEF Carriers, Names, Returns
  <2>2. \A i \in 1 .. n : p[i] # m  BY <1>1, <1>3, <1>6 DEF IsChain
  <2>3. QED  BY <1>2, <1>3, <1>4, <1>5, <1>6, <2>1, <2>2, SameChain
<1>7. CASE m \in Carriers(x)
  \* The survivor of a merge that is not the last is a tombstone by now.
  <2>1. \A i \in 1 .. n : p[i] = m => i = n
    <3> SUFFICES ASSUME NEW i \in 1 .. n, p[i] = m, i # n PROVE FALSE  OBVIOUS
    <3>1. i \in 1 .. n - 1 /\ i + 1 \in 1 .. n  OBVIOUS
    <3>2. t = ledger[p[i + 1]].source  BY <1>3, <3>1 DEF IsChain
    <3>3. cigar[t] = [status |-> "merged", into |-> ledger[p[i + 1]].target]
      BY <1>5, <3>1, <3>2 DEF TombsStand
    <3>4. QED  BY <1>1, <3>3 DEF Status
  <2>2. n > 0 /\ p[n] = m  BY <1>1, <1>3, <1>7, <2>1 DEF IsChain
  <2>3. at'[x] = s
    <3>1. Fits(x, s) /\ x \notin HeldBack(m)  BY <1>2, <1>7 DEF Carriers
    <3>2. \/ x \in ledger[m].dropped
          \/ x \in ledger[m].moved /\ at[x] = t
      BY <1>3, <2>2 DEF IsChain
    <3>3. x \in Returns(m)  BY <3>1, <3>2 DEF Returns
    <3>4. QED  BY <1>2, <3>3
  <2> DEFINE q == [i \in 1 .. n - 1 |-> p[i]]
  <2>4. n - 1 \in Nat /\ q \in [1 .. n - 1 -> Merges]  BY <2>2
  <2>5. \A i \in 1 .. n - 1 : /\ q[i] = p[i] /\ i \in 1 .. n /\ q[i] # m
                             /\ ledger'[q[i]] = ledger[p[i]]
    BY <1>2, <1>5, <2>1
  <2>6. \A k \in Merges : k \in Carriers(x)' <=> \E i \in 1 .. n - 1 : q[i] = k
    <3>1. ASSUME NEW k \in Merges, k \in Carriers(x)' PROVE \E i \in 1 .. n - 1 : q[i] = k
      <4>1. PICK i \in 1 .. n : p[i] = k  BY <1>3, <1>4, <3>1 DEF IsChain
      <4>2. i \in 1 .. n - 1  BY <1>4, <2>2, <3>1, <4>1
      <4>3. QED  BY <2>5, <4>1, <4>2
    <3>2. ASSUME NEW i \in 1 .. n - 1 PROVE q[i] \in Carriers(x)'
      BY <1>3, <1>4, <1>5, <2>5 DEF IsChain
    <3>3. QED  BY <3>1, <3>2
  <2>7. n - 1 = 0 => at'[x] = home'[x]
    BY <1>2, <1>3, <2>2, <2>3 DEF IsChain
  <2>8. n - 1 > 0 => ledger'[q[1]].source = home'[x]
    BY <1>2, <1>3, <2>5 DEF IsChain
  <2>9. ASSUME NEW i \in 1 .. n - 1
        PROVE  x \in ledger'[q[i]].moved /\ ledger'[q[i]].target = ledger[p[i + 1]].source
    BY <1>3, <2>5 DEF IsChain
  <2>10. \A i \in 1 .. n - 2 : ledger'[q[i]].target = ledger'[q[i + 1]].source
    <3> SUFFICES ASSUME NEW i \in 1 .. n - 2
                 PROVE  ledger'[q[i]].target = ledger'[q[i + 1]].source
      OBVIOUS
    <3>1. i \in 1 .. n - 1 /\ i + 1 \in 1 .. n - 1  OBVIOUS
    <3>2. QED  BY <2>5, <2>9, <3>1
  <2>11. n - 1 > 0 => /\ x \in ledger'[q[n - 1]].moved
                      /\ ledger'[q[n - 1]].target = s
    BY <2>2, <2>9
  <2>12. \A i \in 1 .. n - 1 : ledger'[q[i]].source # s
    <3> SUFFICES ASSUME NEW i \in 1 .. n - 1, ledger[p[i]].source = s PROVE FALSE  BY <2>5
    <3>1. p[i] \in Merges /\ Live(p[i]) /\ p[i] # m  BY <1>5, <2>5
    <3>2. QED  BY <1>1, <3>1 DEF TombsStand
  <2>13. IsChain(x, n - 1, q)'
    <3>1. 1 .. (n - 1) - 1 = 1 .. n - 2 /\ \A i \in 1 .. n - 2 : i \in 1 .. n - 1  BY <2>2
    <3>2. \A i \in 1 .. (n - 1) - 1 : /\ x \in ledger'[q[i]].moved
                                    /\ ledger'[q[i]].target = ledger'[q[i + 1]].source
      BY <2>9, <2>10, <3>1
    <3>3. QED  BY <2>3, <2>4, <2>6, <2>7, <2>8, <2>11, <2>12, <3>2 DEF IsChain
  <2>14. QED  BY <2>4, <2>13 DEF HasChain
<1>8. QED  BY <1>6, <1>7

\* Every step keeps the chains.
LEMMA ChainStep ==
  ASSUME TypeOK, CallsFit, OneByOne, TombsStand, Chained, [Next]_vars
  PROVE  Chained'
<1>0. /\ raced \in BOOLEAN /\ revived \in BOOLEAN
      /\ at \in [Rows -> Cigars \union {NoCigar}] /\ home \in [Rows -> Cigars \union {NoCigar}]
  BY DEF TypeOK
<1>1. ASSUME NEW r \in Requests, NEW m \in Merges, MergeCommit(r, m) PROVE Chained'
  <2>1. raced' = raced /\ revived' = revived /\ strayed' = strayed
    BY <1>1 DEF MergeCommit, history
  <2>2. QED  BY <1>0, <1>1, <2>1, MergeExtends DEF Chained
<1>2. ASSUME NEW r \in Requests, UnmergeCommit(r) PROVE Chained'
  <2>1. raced' = raced /\ revived' = revived /\ strayed \subseteq strayed'
    BY <1>2 DEF UnmergeCommit, Stray
  <2>2. QED  BY <1>0, <1>2, <2>1, UnmergeShortens DEF Chained
\* A step that keeps the ledgers, after which some rows have a new home and are carried
\* by no merge, and the others that are still followed were left alone.
<1>3. ASSUME NEW xs \in SUBSET Rows,
             ledger' = ledger, raced => raced', revived => revived', strayed \subseteq strayed',
             \A x \in xs : at'[x] = home'[x] /\ Carriers(x) = {},
             \A x \in Rows \ (strayed' \union xs) : at'[x] = at[x] /\ home'[x] = home[x]
      PROVE Chained'
  <2> SUFFICES ASSUME ~raced', ~revived', NEW x \in Rows \ strayed' PROVE HasChain(x)'
    BY DEF Chained
  <2>1. HasChain(x)  BY <1>0, <1>3 DEF Chained
  <2>2. Carriers(x)' = Carriers(x)  BY <1>3 DEF Carriers, Live, Names
  <2>3. CASE x \notin xs
    <3>1. at'[x] = at[x] /\ home'[x] = home[x]  BY <1>3, <2>3
    <3>2. PICK n \in Nat : \E p \in [1 .. n -> Merges] : IsChain(x, n, p)
      BY <2>1 DEF HasChain
    <3>3. PICK p \in [1 .. n -> Merges] : IsChain(x, n, p)  BY <3>2
    <3>4. IsChain(x, n, p)'  BY <1>3, <2>2, <3>1, <3>3 DEF IsChain
    <3>5. QED  BY <3>4 DEF HasChain
  <2>4. CASE x \in xs
    <3> DEFINE p == [i \in 1 .. 0 |-> NoMerge]
    <3>1. p \in [1 .. 0 -> Merges]  OBVIOUS
    <3>2. at'[x] = home'[x] /\ Carriers(x)' = {}  BY <1>3, <2>2, <2>4
    <3>3. IsChain(x, 0, p)'  BY <3>2 DEF IsChain
    <3>4. QED  BY <3>1, <3>3 DEF HasChain
  <2>5. QED  BY <2>3, <2>4
<1>4. ASSUME NEW x \in Rows, NEW c \in Cigars, Settle(x, c) PROVE Chained'
  <2> DEFINE xs == {x} \ strayed'
  <2>1. \A y \in Rows : /\ at'[y] = IF y = x THEN c ELSE at[y]
                        /\ y # x => home'[y] = home[y]
    BY <1>0, <1>4 DEF Settle
  <2>2. \A y \in xs : at'[y] = home'[y] /\ Carriers(y) = {}
    BY <1>0, <1>4 DEF Settle, Carriers
  <2>3. ledger' = ledger /\ raced' = raced /\ revived' = revived /\ strayed \subseteq strayed'
    BY <1>4 DEF Settle
  <2>4. \A y \in Rows \ (strayed' \union xs) : at'[y] = at[y] /\ home'[y] = home[y]
    BY <2>1
  <2>5. xs \in SUBSET Rows  OBVIOUS
  <2> HIDE DEF xs
  <2>6. QED  BY <1>3, <2>2, <2>3, <2>4, <2>5
<1>5. ASSUME NEW xs \in SUBSET Rows, Stray(xs), \A y \in Rows \ xs : at'[y] = at[y],
             UNCHANGED <<ledger, raced, revived>>
      PROVE Chained'
  <2>1. /\ strayed \subseteq strayed'
        /\ \A y \in Rows \ (strayed' \union {}) : at'[y] = at[y] /\ home'[y] = home[y]
    BY <1>5 DEF Stray
  <2>2. \A y \in {} : at'[y] = home'[y] /\ Carriers(y) = {}  OBVIOUS
  <2>3. {} \in SUBSET Rows  OBVIOUS
  <2>4. QED  BY <1>3, <1>5, <2>1, <2>2, <2>3
<1>6. ASSUME NEW x \in Rows, Unmark(x) PROVE Chained'
  BY <1>0, <1>5, <1>6 DEF Unmark
<1>7. ASSUME NEW r \in Requests, ExcludeCommit(r) PROVE Chained'
  BY <1>0, <1>5, <1>7 DEF ExcludeCommit, RowsOf
<1>8. ASSUME UNCHANGED <<ledger, at, home, strayed>>, raced => raced', revived => revived'
      PROVE Chained'
  <2>1. \A x \in Rows \ (strayed' \union {}) : at'[x] = at[x] /\ home'[x] = home[x]
    BY <1>8
  <2>2. \A y \in {} : at'[y] = home'[y] /\ Carriers(y) = {}  OBVIOUS
  <2>3. {} \in SUBSET Rows  OBVIOUS
  <2>4. strayed \subseteq strayed' /\ ledger' = ledger  BY <1>8
  <2>5. QED  BY <1>3, <1>8, <2>1, <2>2, <2>3, <2>4
<1>9. ASSUME NEW r \in Requests, UnmergeRefused(r) \/ RestoreCommit(r) \/ Fail(r) PROVE Chained'
  BY <1>8, <1>9 DEF UnmergeRefused, RestoreCommit, Fail, tables, history
<1>10. ASSUME NEW r \in Requests, NEW new, Start(r, new), UNCHANGED <<tables, history>>
       PROVE Chained'
  BY <1>8, <1>10 DEF Start, tables, history
<1>11. ASSUME NEW i \in DOMAIN excludes, UndoExclude(i) PROVE Chained'
  BY <1>8, <1>11 DEF UndoExclude
<1>12. ASSUME NEW s \in Smokes, Attribute(s) PROVE Chained'
  BY <1>8, <1>12 DEF Attribute, history
<1>13. CASE UNCHANGED vars  BY <1>8, <1>13 DEF vars
<1>14. QED
  BY <1>1, <1>2, <1>4, <1>6, <1>7, <1>9, <1>10, <1>11, <1>12, <1>13
  DEF Next, Step, Merge, Unmerge, Exclude, Restore, Create, Move

-----------------------------------------------------------------------------
\* The invariant holds in every reachable state: the lots of smokes are where they are
\* unless an unmerge parted them; and while the calls on a cigar come one after another,
\* lots keep off hidden cigars, a live ledger is its source's tombstone, and what the
\* merges did to a row that is still followed is a chain from its home.
THEOREM InvHolds == Spec => []Inv
<1>1. Inv /\ [Next]_vars => Inv'
  BY TypeStep, ShapeStep, TogetherStep, OneByOneStep, TombsStep, LotsStep, ChainStep DEF Inv
<1>2. QED  BY InvInit, <1>1, PTL DEF Spec

\* The tables and the calls in flight keep their types; in particular no exclusion
\* records "merged" as the status that its undo will write.
THEOREM TypeCorrect == Spec => []TypeOK
<1>1. Inv => TypeOK  BY DEF Inv
<1>2. QED  BY InvHolds, <1>1, PTL

\* A lot that a user put on a visible cigar is never on an excluded one, through merges,
\* unmerges, exclusions, restores and undos in any order and with writes in between, as
\* long as no two calls overlap on a cigar, nobody put the lot on a cigar that was hidden
\* or being hidden (`late`), and no undo wrote "excluded" over the cigar that held it
\* (`rehidden`: the undo of an exclusion that had found the cigar excluded already).
THEOREM CurationHidesNoSticks == Spec => []HeldIsVisible
<1>1. Inv => HeldIsVisible  BY DEF Inv, LotsVisible, HeldIsVisible, Status
<1>2. QED  BY InvHolds, <1>1, PTL

\* However merges, unmerges in any order, purchases, smokes, re-pointings and deletions
\* are interleaved, even on one cigar, the lot of a smoke is of the smoke's cigar, unless
\* an unmerge parted them: what it holds back at the survivor, and what it sends home,
\* keeps the sticks of a cigar and what was smoked of them on one cigar.
THEOREM LotsStayWithSmokes == Spec => []LotsKeepTheirSmokes
<1>1. Inv => LotsKeepTheirSmokes  BY DEF Inv, Together
<1>2. QED  BY InvHolds, <1>1, PTL

\* Unmerge is an inverse, however deep the merges nest: every row is where the merges
\* that stand put it, and at home when none does, but for the rows a curation or an
\* unmerge left behind (`strayed`: rows written by hand while a merge carried them, rows
\* whose slot was taken, lots smoked from at the survivor alone), as long as no two calls
\* overlap on a cigar and no undo of an exclusion took a tombstone's flag.
THEOREM UnmergeIsInverse == Spec => []UnmergeRestores
<1>1. ASSUME Inv PROVE UnmergeRestores
  <2> SUFFICES ASSUME ~raced, ~revived, NEW x \in Rows \ strayed PROVE Belongs(x, at[x])
    BY DEF UnmergeRestores
  <2>1. NoCigar \notin Cigars /\ LedgersFit  BY <1>1, SentinelAssumption DEF Inv
  <2>2. PICK n \in Nat : \E p \in [1 .. n -> Merges] : IsChain(x, n, p)
    BY <1>1 DEF Inv, Chained, HasChain
  <2>3. PICK p \in [1 .. n -> Merges] : IsChain(x, n, p)  BY <2>2
  <2>4. \A i \in 1 .. n : ledger[p[i]].source # at[x]  BY <2>3 DEF IsChain
  <2>5. \A m \in Carriers(x) : \E i \in 1 .. n : p[i] = m
    BY <2>3 DEF IsChain, Carriers
  <2>6. CASE n = 0
    <3>1. Carriers(x) = {}  BY <2>5, <2>6
    <3>2. at[x] = home[x]  BY <2>3, <2>6 DEF IsChain
    <3>3. QED  BY <3>1, <3>2 DEF Belongs
  <2>7. CASE n > 0
    <3>1. p[n] \in Carriers(x)  BY <2>3, <2>7 DEF IsChain
    <3>2. ASSUME NEW i \in 1 .. n, x \in ledger[p[i]].dropped PROVE i = n
      <4> SUFFICES ASSUME i # n PROVE FALSE  OBVIOUS
      <4>1. i \in 1 .. n - 1  OBVIOUS
      <4>2. x \in ledger[p[i]].moved  BY <2>3, <4>1 DEF IsChain
      <4>3. QED  BY <2>1, <3>2, <4>2 DEF LedgersFit
    <3>3. CASE x \in ledger[p[n]].dropped /\ at[x] = NoCigar
      BY <3>1, <3>3 DEF Belongs
    <3>4. CASE x \in ledger[p[n]].moved /\ at[x] = ledger[p[n]].target
      <4>1. x \notin ledger[p[n]].dropped  BY <2>1, <2>7, <3>4 DEF LedgersFit
      <4>2. \A m \in Carriers(x) : x \notin ledger[m].dropped
        BY <2>5, <3>2, <4>1
      <4>3. \A m \in Carriers(x) : ledger[m].source # at[x]  BY <2>4, <2>5
      <4>4. QED  BY <3>1, <3>4, <4>2, <4>3 DEF Belongs
    <3>5. QED  BY <2>3, <2>7, <3>3, <3>4 DEF IsChain
  <2>8. QED  BY <2>6, <2>7
<1>2. QED  BY InvHolds, <1>1, PTL
=============================================================================
