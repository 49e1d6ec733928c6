--------------------------- MODULE Taxonomy_proofs ---------------------------
(***************************************************************************)
(* Taxonomy, for every set of rows, cigars, names, keys, plans and calls in *)
(* flight, and every catalogue in order to begin with.                      *)
(***************************************************************************)
EXTENDS Taxonomy, WellFoundedInduction, TLAPS

-----------------------------------------------------------------------------
CallRow ==
  [pc : {"idle", "find", "claim", "free", "compose", "leaf", "assign", "assigned"},
   plan : Seq(PlanItem), row : Rows \union {NoRow}, name : Names \union {NoName},
   keys : SUBSET Keys, add : SUBSET Keys, claim : SUBSET Keys,
   locks : SUBSET (Levels \X Keys),
   leaves : SUBSET Cigars, leaf : {<<>>} \union (Cigars \X Parts), wrote : SUBSET (Cigars \X Parts),
   cigar : Cigars \union {NoCigar}, next : CigarRow, sets : SUBSET DOMAIN Unfiled]

Typed ==
  /\ reg \in [Rows -> RegistryRow]
  /\ cigar \in [Cigars -> CigarRow]
  /\ call \in [Requests -> CallRow]
  /\ raced \subseteq Rows /\ torn \subseteq Cigars

\* A call at each of its steps: what a registration, an edit or rename of a row, and a
\* change of a cigar hold.
Registers(r) == At(r, "find") \/ (At(r, "claim") /\ call[r].plan # <<>>)
Editing(r) ==
  call[r].pc \in {"claim", "free", "compose", "leaf"} /\ call[r].plan = <<>>

\* A cigar's brand and line are rows that are committed, of their level.
PartsStored(row) ==
  row.brand \in StoredAt("brand") \union {NoRow} /\ row.line \in StoredAt("line") \union {NoRow}

\* What a call holds at each of its steps.
Shape(r) ==
  /\ At(r, "idle") => call[r] = Idle
  /\ ~At(r, "claim") => call[r].claim = {}
  /\ call[r].pc \in {"free", "compose", "leaf"} => call[r].plan = <<>>
  /\ Editing(r) => call[r].row \in Stored
  /\ call[r].pc \in {"compose", "leaf"} => call[r].name \in Names
  /\ At(r, "leaf") => call[r].leaf \in Cigars \X Parts
  /\ call[r].pc \in {"assign", "assigned"} <=> call[r].cigar # NoCigar
  /\ call[r].cigar # NoCigar => PartsStored(call[r].next)
CallsFit == \A r \in Requests : Shape(r)
CigarsFiled == \A c \in Cigars : PartsStored(cigar[c])

\* The histories have every overlap that is going on.
Noticed == Racing \subseteq raced /\ Tearing \subseteq torn

\* The keys that a claim is about.
Claims(r) == IF call[r].plan # <<>> THEN ItemKeys(r) ELSE call[r].add
\* A key's lock has one holder ...
LocksApart ==
  \A q, r \in Requests : q # r => call[q].locks \intersect call[r].locks = {}
\* ... and a claim holds those of the keys it is through with.
LocksCover ==
  \A r \in Requests : call[r].pc \in {"claim", "free", "compose", "leaf"} =>
    \A k \in Claims(r) \ call[r].claim : <<LevelOf(r), k>> \in call[r].locks
\* A row that is not committed is its registration's, which holds the locks of its keys.
MintsLocked ==
  \A x \in Rows, r \in Requests : reg[x].by = r =>
    Registers(r) /\ \A k \in reg[x].keys : <<reg[x].level, k>> \in call[r].locks

\* Rows in which a spelling must tell one from another.
SameScope(x, y) ==
  reg[x].level # "none" /\ reg[x].level = reg[y].level /\ reg[x].under = reg[y].under
\* A row is found under its own name.
OwnKeyKept ==
  \A x \in Rows \ raced : reg[x].level # "none" => Fold[reg[x].name] \in reg[x].keys
\* Rows of a scope share no key.
KeysApart ==
  \A x, y \in Rows \ raced :
    x # y /\ SameScope(x, y) => reg[x].keys \intersect reg[y].keys = {}
\* An edit goes by keys that its row still has, and keeps those of the old name and the new.
EditsCurrent ==
  \A r \in Requests : LET x == call[r].row IN
    Editing(r) /\ x \notin raced =>
      /\ call[r].keys \subseteq reg[x].keys \union call[r].add
      /\ Fold[reg[x].name] \in call[r].keys
      /\ call[r].name # NoName => Fold[call[r].name] \in call[r].keys
\* What an edit found free stays free until it writes.
FreeStays ==
  \A r \in Requests : LET x == call[r].row IN
    call[r].pc \in {"free", "compose", "leaf"} =>
      \A y \in Rows \ (raced \union {x}) :
        SameScope(x, y) => reg[y].keys \intersect call[r].add = {}

\* A call holds no lock that comes after one it still has to take: down the levels of its
\* plan, and upwards through the keys of an item; blenders apart.
LocksInOrder ==
  \A r \in Requests :
    /\ Registers(r) => FromTheTop(call[r].plan)
    /\ Registers(r) => \A l \in call[r].locks, i \in DOMAIN call[r].plan :
         \/ Rank[l[1]] < Rank[call[r].plan[i].level]
         \/ l[1] = "blender" /\ call[r].plan[i].level = "blender"
         \/ i = 1 /\ At(r, "claim") /\ l[1] = LevelOf(r) /\ \A k \in call[r].claim : l[2] < k
    /\ Editing(r) => \A l \in call[r].locks :
         l[1] = LevelOf(r) /\ \A k \in call[r].claim : l[2] < k

\* A cigar as it should be: its line of its brand, its name that of its parts.
Agrees(row) ==
  /\ row.line # NoRow => row.brand = reg[row.line].under
  /\ row.composed /\ Called(reg, row) # NoParts => row.name = Called(reg, row)
\* What an assignment is about to write of a cigar follows from what the cigar is now.
Moved ==
  \A r \in Requests : LET c == call[r].cigar IN
    c # NoCigar /\ c \notin torn =>
      /\ At(r, "assign") => /\ Ancestry(call[r].next)
                            /\ \A f \in DOMAIN Unfiled \ call[r].sets : call[r].next[f] = cigar[c][f]
      /\ At(r, "assigned") => Agrees(call[r].next)

\* What a rename will have a cigar called.
View(r, row) ==
  [brand |-> IF row.brand = NoRow THEN row.text
             ELSE IF row.brand = call[r].row THEN call[r].name ELSE reg[row.brand].name,
   line |-> IF row.line = NoRow THEN NoName
            ELSE IF row.line = call[r].row THEN call[r].name ELSE reg[row.line].name]
Renaming(r) == call[r].pc \in {"compose", "leaf"}
\* The cigars a rename has named anew, the one it is waiting for included.
Done(r) == call[r].wrote \union (IF At(r, "leaf") THEN {call[r].leaf} ELSE {})
Below(r, c) == call[r].row \in {cigar[c].brand, cigar[c].line}
\* A rename has yet to visit, has renamed, or need not rename each cigar below its row.
RenamesReach ==
  \A r \in Requests, c \in Cigars \ torn : Renaming(r) =>
    /\ c \in call[r].leaves => Below(r, c)
    /\ \A w \in Done(r) : w[1] = c => Below(r, c) /\ w[2] = View(r, cigar[c])
    /\ Below(r, c) /\ cigar[c].composed =>
         \/ c \in call[r].leaves
         \/ \E w \in Done(r) : w[1] = c
         \/ cigar[c].name = View(r, cigar[c])

-----------------------------------------------------------------------------
\* The least of some keys is one of them.
LEMMA MinOfKeys ==
  ASSUME NEW S \in SUBSET Keys, S # {}
  PROVE  Min(S) \in S /\ \A k \in S : Min(S) \leq k
<1>1. S \subseteq Nat  BY KeysAssumption
<1>2. PICK m \in S : \A k \in S : ~(<<k, m>> \in OpToRel(<, Nat))
  BY <1>1, NatLessThanWellFounded, WFMin
<1>3. \A k \in S : ~(k < m)
  BY <1>1, <1>2 DEF OpToRel
<1>4. \A k \in S : m \leq k
  BY <1>1, <1>3
<1>5. QED  BY <1>4 DEF Min

\* A seeded catalogue and no calls have their types.
LEMMA TypeInit == Init => Typed /\ CallsFit /\ CigarsFiled
<1> SUFFICES ASSUME Init PROVE Typed /\ CallsFit /\ CigarsFiled  OBVIOUS
<1>1. PICK seed \in Seeds : reg = seed.reg /\ cigar = seed.cigar  BY DEF Init
<1>2. InOrder(reg, cigar)  BY <1>1, SeedsAssumption
<1>3. Idle \in CallRow
  BY DEF Idle, CallRow, Unfiled, NoParts, CigarRow, Parts
<1>4. Typed  BY <1>2, <1>3 DEF Init, Typed, InOrder
<1>5. CallsFit  BY SentinelAssumption DEF Init, CallsFit, Shape, At, Editing, Idle
<1>6. CigarsFiled
  <2> SUFFICES ASSUME NEW c \in Cigars PROVE PartsStored(cigar[c])  BY DEF CigarsFiled
  <2>1. \A x \in Rows : reg[x].level # "none" => x \in Stored
    BY <1>2 DEF InOrder, Stored, Blank
  <2>2. cigar[c].brand \in Rows \union {NoRow} /\ cigar[c].line \in Rows \union {NoRow}
    BY <1>4 DEF Typed, CigarRow
  <2>3. /\ cigar[c].brand # NoRow => reg[cigar[c].brand].level = "brand"
        /\ cigar[c].line # NoRow => reg[cigar[c].line].level = "line"
    BY <1>2 DEF InOrder
  <2>4. QED  BY <2>1, <2>2, <2>3 DEF PartsStored, StoredAt
<1>7. QED  BY <1>4, <1>5, <1>6

-----------------------------------------------------------------------------
\* Committed rows stay, where they are.
RowsKept ==
  \A x \in Stored : x \in Stored' /\ reg'[x].level = reg[x].level /\ reg'[x].under = reg[x].under

\* Only the call that takes the step changes.
Alone(r) == call' = [call EXCEPT ![r] = call'[r]]

\* What a claim locks next.
LEMMA WantedTyped ==
  ASSUME Typed, CallsFit, NEW r \in Requests, At(r, "claim"), call[r].claim # {}
  PROVE  /\ LevelOf(r) \in Levels /\ Wanted(r) = <<LevelOf(r), Min(call[r].claim)>>
         /\ Min(call[r].claim) \in call[r].claim
         /\ \A k \in call[r].claim : Min(call[r].claim) \leq k
<1>1. call[r].claim \in SUBSET Keys /\ call[r].plan \in Seq(PlanItem)
  BY DEF Typed, CallRow
<1>2. LevelOf(r) \in Levels
  <2>1. CASE call[r].plan # <<>>
    <3>1. Head(call[r].plan) \in PlanItem  BY <1>1, <2>1
    <3>2. QED  BY <2>1, <3>1 DEF LevelOf, PlanItem
  <2>2. CASE call[r].plan = <<>>
    <3>1. call[r].row \in Stored  BY <2>2 DEF CallsFit, Shape, Editing, At
    <3>2. QED  BY <2>2, <3>1 DEF LevelOf, Stored, Typed, RegistryRow
  <2>3. QED  BY <2>1, <2>2
<1>3. QED  BY <1>1, <1>2, MinOfKeys DEF Wanted

\* What a registration works on.
LEMMA PlanTyped ==
  ASSUME Typed, NEW r \in Requests, call[r].plan # <<>>
  PROVE  /\ Head(call[r].plan).level \in Levels /\ Head(call[r].plan).name \in Names
         /\ ItemKeys(r) \in SUBSET Keys /\ Tail(call[r].plan) \in Seq(PlanItem)
         /\ Fold[Head(call[r].plan).name] \in Keys
         /\ Under(r) \in Rows \union {NoRow}
<1>1. call[r].plan \in Seq(PlanItem) /\ call[r].row \in Rows \union {NoRow}
  BY DEF Typed, CallRow
<1>2. Head(call[r].plan) \in PlanItem /\ Tail(call[r].plan) \in Seq(PlanItem)  BY <1>1
<1>3. QED  BY <1>1, <1>2, KeysAssumption DEF PlanItem, ItemKeys, Under

\* A call only reads when it starts.
LEMMA StartKeeps ==
  ASSUME NEW r \in Requests, Start(r)
  PROVE  UNCHANGED <<reg, cigar>>
<1>1. CASE \E plan \in Plans, b \in StoredAt("brand") \union {NoRow} : Register(r, plan, b)
  BY <1>1 DEF Register
<1>2. CASE \E x \in Stored, add, drop \in SUBSET Keys : Edit(r, x, add, drop)
  BY <1>2 DEF Edit
<1>3. CASE \E x \in Stored, n \in Names : Rename(r, x, n)
  BY <1>3 DEF Rename
<1>4. CASE \E c \in Cigars, brand \in StoredAt("brand") \union {NoRow},
             line \in StoredAt("line") \union {NoRow}, text \in Names \union {NoName},
             composed \in BOOLEAN : Assign(r, c, brand, line, text, composed)
  BY <1>4 DEF Assign, Apply
<1>5. CASE \E c \in Cigars, text \in Names \union {NoName} : SetFacts(r, c, text) \/ Fill(r, c, text)
  BY <1>5 DEF SetFacts, Fill, Apply
<1>6. QED  BY <1>1, <1>2, <1>3, <1>4, <1>5 DEF Start

\* Registry rows keep their types, and committed ones stay.
LEMMA RowsStep ==
  ASSUME Typed, CallsFit, NEW r \in Requests, Step(r)
  PROVE  reg' \in [Rows -> RegistryRow] /\ RowsKept
<1> USE DEF Become, At
<1>0. reg \in [Rows -> RegistryRow] /\ call[r] \in CallRow /\ r # NoCall
  BY SentinelAssumption DEF Typed
<1>1. CASE UNCHANGED reg  BY <1>0, <1>1 DEF RowsKept, Stored
<1>2. CASE Fail(r)
  <2>1. Blank \in RegistryRow  BY DEF Blank, RegistryRow
  <2>2. QED  BY <1>0, <1>2, <2>1 DEF Fail, RowsKept, Stored, Levels
<1>3. CASE Mint(r)
  <2> DEFINE x == CHOOSE y \in Unused : TRUE
             new == [level |-> Head(call[r].plan).level, under |-> Under(r),
                     name |-> Head(call[r].plan).name, slug |-> Fold[Head(call[r].plan).name],
                     keys |-> ItemKeys(r), by |-> r]
  <2>1. reg' = [reg EXCEPT ![x] = new] /\ call[r].plan # <<>> /\ Unused # {}
    BY <1>3 DEF Mint
  <2>2. x \in Rows /\ reg[x] = Blank  BY <2>1 DEF Unused
  <2>3. new \in RegistryRow  BY <2>1, PlanTyped DEF RegistryRow
  <2>4. x \notin Stored  BY <2>2 DEF Stored, Blank
  <2> HIDE DEF x, new
  <2>5. QED  BY <1>0, <2>1, <2>2, <2>3, <2>4 DEF RowsKept, Stored
<1>4. CASE Registered(r)
  BY <1>0, <1>4 DEF Registered, RowsKept, Stored, RegistryRow
<1>5. ASSUME NEW x \in Rows, NEW new \in RegistryRow, reg' = [reg EXCEPT ![x] = new],
             new.level = reg[x].level, new.under = reg[x].under, new.by = reg[x].by
      PROVE  reg' \in [Rows -> RegistryRow] /\ RowsKept
  BY <1>0, <1>5 DEF RowsKept, Stored
<1>6. CASE WriteKeys(r) \/ Renamed(r)
  <2> DEFINE x == call[r].row
             keyed == [reg[x] EXCEPT !.keys = call[r].keys]
             named == [reg[x] EXCEPT !.name = call[r].name, !.keys = call[r].keys]
  <2>1. call[r].keys \in SUBSET Keys /\ call[r].name \in Names \union {NoName}
    BY <1>0 DEF CallRow
  <2>2. x \in Stored
    BY <1>6 DEF WriteKeys, Renamed, CallsFit, Shape, Editing
  <2>3. x \in Rows /\ reg[x] \in RegistryRow  BY <1>0, <2>2 DEF Stored
  <2>4. keyed \in RegistryRow /\ named \in RegistryRow  BY <2>1, <2>3 DEF RegistryRow
  <2>5. reg' = [reg EXCEPT ![x] = keyed] \/ reg' = [reg EXCEPT ![x] = named]
    BY <1>6, <2>3, <1>0 DEF WriteKeys, Renamed
  <2>6. QED  BY <1>5, <2>3, <2>4, <2>5 DEF RegistryRow
<1>7. CASE \/ Start(r) \/ Lock(r) \/ Find(r) \/ Check(r) \/ WriteName(r) \/ WriteLeaf(r) \/ Write(r)
           \/ Assigned(r) \/ \E c \in Cigars : ReadLeaf(r, c)
  <2>1. Start(r) => UNCHANGED reg  BY StartKeeps
  <2>2. (\E c \in Cigars : ReadLeaf(r, c)) => UNCHANGED reg  BY DEF ReadLeaf
  <2>3. UNCHANGED reg
    BY <1>7, <2>1, <2>2 DEF Lock, Find, Check, WriteName, WriteLeaf, Write, Assigned
  <2>4. QED  BY <1>1, <2>3
<1>8. QED  BY <1>2, <1>3, <1>4, <1>6, <1>7 DEF Step

\* The names that a call sees are names.
LEMMA PartsTyped ==
  ASSUME Typed, NEW r \in Requests, NEW row \in CigarRow
  PROVE  PartsOf(r, row) \in Parts /\ Recomposed(r, row) \in CigarRow
<1>1. \A x \in Rows : NameOf(r, x) \in Names \union {NoName}
  BY DEF NameOf, Typed, RegistryRow, CallRow
<1>2. PartsOf(r, row) \in Parts
  BY <1>1 DEF PartsOf, Parts, CigarRow
<1>3. QED  BY <1>2 DEF Recomposed, CigarRow

\* What each step makes of its call.
LEMMA CallStep ==
  ASSUME Typed, CallsFit, CigarsFiled, NEW r \in Requests, Step(r)
  PROVE  Alone(r) /\ call'[r] \in CallRow
<1> USE DEF Alone, Become, At, Begin
<1>0. call \in [Requests -> CallRow] /\ call[r] \in CallRow /\ DOMAIN call = Requests
  BY DEF Typed
<1>1. ASSUME NEW new \in CallRow, call' = [call EXCEPT ![r] = new]
      PROVE  Alone(r) /\ call'[r] \in CallRow
  BY <1>0, <1>1
<1>2. Idle \in CallRow
  BY DEF Idle, CallRow, Unfiled, NoParts, CigarRow, Parts
<1>3. ASSUME NEW plan \in Plans, NEW b \in StoredAt("brand") \union {NoRow}, Register(r, plan, b)
      PROVE  Alone(r) /\ call'[r] \in CallRow
  <2>1. plan \in Seq(PlanItem) /\ b \in Rows \union {NoRow}
    BY PlansAssumption DEF StoredAt, Stored
  <2>2. [Idle EXCEPT !.pc = "find", !.plan = plan, !.row = b] \in CallRow
    BY <1>2, <2>1 DEF CallRow
  <2>3. QED  BY <1>1, <1>3, <2>2 DEF Register
<1>4. ASSUME NEW x \in Stored, NEW add \in SUBSET Keys, NEW drop \in SUBSET Keys,
             Edit(r, x, add, drop)
      PROVE  Alone(r) /\ call'[r] \in CallRow
  <2> DEFINE added == add \ reg[x].keys
             next == (reg[x].keys \union added) \ (drop \intersect reg[x].keys)
  <2>1. x \in Rows /\ added \in SUBSET Keys /\ next \in SUBSET Keys
    BY DEF Stored, Typed, RegistryRow
  <2>2. [Idle EXCEPT !.pc = "claim", !.row = x, !.add = added, !.claim = added, !.keys = next]
          \in CallRow
    BY <1>2, <2>1 DEF CallRow
  <2>3. QED  BY <1>1, <1>4, <2>2 DEF Edit
<1>5. ASSUME NEW x \in Stored, NEW n \in Names, Rename(r, x, n)
      PROVE  Alone(r) /\ call'[r] \in CallRow
  <2> DEFINE added == {Fold[n]} \ reg[x].keys
             keys == reg[x].keys \union added
  <2>1. x \in Rows /\ added \in SUBSET Keys /\ keys \in SUBSET Keys
    BY KeysAssumption DEF Stored, Typed, RegistryRow
  <2>2. [Idle EXCEPT !.pc = "claim", !.row = x, !.name = n, !.add = added, !.claim = added,
                     !.keys = keys] \in CallRow
    BY <1>2, <2>1 DEF CallRow
  <2>3. QED  BY <1>1, <1>5, <2>2 DEF Rename
<1>6. ASSUME NEW c \in Cigars, NEW next \in CigarRow, NEW sets \in SUBSET DOMAIN Unfiled,
             Apply(r, c, next, sets)
      PROVE  Alone(r) /\ call'[r] \in CallRow
  <2>1. [Idle EXCEPT !.pc = "assign", !.cigar = c, !.next = next, !.sets = sets] \in CallRow
    BY <1>2 DEF CallRow
  <2>2. QED  BY <1>1, <1>6, <2>1 DEF Apply
<1>7. CASE Lock(r)
  <2>1. [call[r] EXCEPT !.claim = @ \ {Wanted(r)[2]}, !.locks = @ \union {Wanted(r)}] \in CallRow
    <3>1. /\ call[r].claim \ {Wanted(r)[2]} \in SUBSET Keys
          /\ call[r].locks \union {Wanted(r)} \in SUBSET (Levels \X Keys)
      BY <1>0, <1>7, WantedTyped DEF Lock, CallRow
    <3>2. QED  BY <1>0, <3>1, ZenonT(60) DEF CallRow
  <2>2. QED  BY <1>1, <1>7, <2>1 DEF Lock
<1>8. ASSUME NEW x \in Rows, call[r].plan # <<>> PROVE Rest(r, x) \in CallRow
  <2> DEFINE plan == Tail(call[r].plan)
             row == IF Head(call[r].plan).level = "brand" THEN x ELSE call[r].row
  <2>1. plan \in Seq(PlanItem)  BY <1>8, PlanTyped
  <2>2. row \in Rows \union {NoRow}  BY <1>0 DEF CallRow
  <2>3. Rest(r, x) = [call[r] EXCEPT !.pc = "find", !.plan = plan, !.row = row]
    BY DEF Rest
  <2> HIDE DEF plan, row
  <2>4. QED  BY <1>0, <2>1, <2>2, <2>3, ZenonT(60) DEF CallRow
<1>9. CASE Find(r)
  <2>1. \A x \in Hits(r) : x \in Rows  BY DEF Hits, InScope, Visible
  <2>2. [call[r] EXCEPT !.pc = "claim", !.claim = ItemKeys(r)] \in CallRow
    BY <1>0, <1>9, PlanTyped DEF Find, CallRow
  <2>3. QED  BY <1>1, <1>8, <1>9, <2>1, <2>2 DEF Find
<1>10. CASE Mint(r)
  <2>1. (CHOOSE y \in Unused : TRUE) \in Rows  BY <1>10 DEF Mint, Unused
  <2>2. QED  BY <1>1, <1>8, <1>10, <2>1 DEF Mint
<1>11. CASE Fail(r) \/ Registered(r) \/ WriteKeys(r) \/ Renamed(r) \/ Assigned(r)
  BY <1>1, <1>2, <1>11 DEF Fail, Registered, WriteKeys, Renamed, Assigned
<1>12. CASE Check(r)
  <2>1. [call[r] EXCEPT !.pc = "free"] \in CallRow  BY <1>0 DEF CallRow
  <2>2. QED  BY <1>1, <1>12, <2>1 DEF Check
<1>13. CASE WriteName(r)
  <2>1. [call[r] EXCEPT !.pc = "compose", !.leaves = LeavesOf(call[r].row)] \in CallRow
    BY <1>0 DEF CallRow, LeavesOf
  <2>2. QED  BY <1>1, <1>13, <2>1 DEF WriteName
<1>14. ASSUME NEW c \in Cigars, ReadLeaf(r, c) PROVE Alone(r) /\ call'[r] \in CallRow
  <2> DEFINE new == Recomposed(r, cigar[c])
  <2>1. new \in CigarRow  BY PartsTyped DEF Typed
  <2>2. new.name \in Parts  BY <2>1 DEF CigarRow
  <2>3. /\ [call[r] EXCEPT !.leaves = @ \ {c}] \in CallRow
        /\ [call[r] EXCEPT !.pc = "leaf", !.leaves = @ \ {c}, !.leaf = <<c, new.name>>] \in CallRow
    BY <1>0, <2>2, ZenonT(60) DEF CallRow
  <2>4. QED  BY <1>1, <1>14, <2>3 DEF ReadLeaf
<1>15. CASE WriteLeaf(r)
  <2>1. call[r].leaf \in Cigars \X Parts  BY <1>15 DEF WriteLeaf, CallsFit, Shape
  <2>2. [call[r] EXCEPT !.pc = "compose", !.wrote = @ \union {call[r].leaf}, !.leaf = <<>>] \in CallRow
    BY <1>0, <2>1, ZenonT(60) DEF CallRow
  <2>3. QED  BY <1>1, <1>15, <2>2 DEF WriteLeaf
<1>16. CASE Write(r)
  <2> DEFINE c == call[r].cigar
             row == [f \in DOMAIN Unfiled |-> IF f \in call[r].sets THEN call[r].next[f] ELSE cigar[c][f]]
  <2>1. c \in Cigars
    BY <1>0, <1>16 DEF Write, CallsFit, Shape, CallRow
  <2>2. call[r].next \in CigarRow /\ cigar[c] \in CigarRow
    BY <1>0, <2>1 DEF CallRow, Typed
  <2>3. row \in CigarRow  BY <2>2 DEF CigarRow, Unfiled
  <2>4. Recomposed(r, row) \in CigarRow  BY <2>3, PartsTyped
  <2>5. [call[r] EXCEPT !.pc = "assigned", !.next = Recomposed(r, row)] \in CallRow
    BY <1>0, <2>4 DEF CallRow
  <2>6. QED  BY <1>1, <1>16, <2>5 DEF Write
<1>17. ASSUME NEW c \in Cigars, NEW brand \in StoredAt("brand") \union {NoRow},
              NEW line \in StoredAt("line") \union {NoRow}, NEW text \in Names \union {NoName},
              NEW composed \in BOOLEAN, Assign(r, c, brand, line, text, composed)
       PROVE  Alone(r) /\ call'[r] \in CallRow
  <2> DEFINE next == [cigar[c] EXCEPT !.brand = brand, !.line = line, !.text = text,
                                      !.composed = composed]
             sets == {f \in DOMAIN next : next[f] # cigar[c][f]}
  <2>1. cigar[c] \in CigarRow /\ brand \in Rows \union {NoRow} /\ line \in Rows \union {NoRow}
    BY DEF Typed, StoredAt, Stored
  <2>2. next \in CigarRow  BY <2>1 DEF CigarRow
  <2>3. DOMAIN next = DOMAIN Unfiled  BY <2>2 DEF CigarRow, Unfiled
  <2>4. sets \in SUBSET DOMAIN Unfiled  BY <2>3
  <2> HIDE DEF next, sets
  <2>5. Apply(r, c, next, sets)  BY <1>17 DEF Assign, next, sets
  <2>6. QED  BY <1>6, <2>2, <2>4, <2>5
<1>18. ASSUME NEW c \in Cigars, NEW text \in Names \union {NoName},
              SetFacts(r, c, text) \/ Fill(r, c, text)
       PROVE  Alone(r) /\ call'[r] \in CallRow
  <2> DEFINE next == [cigar[c] EXCEPT !.text = text, !.brand = DeriveBrandId(text)]
  <2>1. cigar[c] \in CigarRow /\ DeriveBrandId(text) \in Rows \union {NoRow}
    BY DEF Typed, DeriveBrandId, BrandOf, StoredAt, Stored
  <2>2. next \in CigarRow  BY <2>1 DEF CigarRow
  <2>3. {"text", "brand"} \in SUBSET DOMAIN Unfiled  BY DEF Unfiled
  <2> HIDE DEF next
  <2>4. Apply(r, c, next, {"text", "brand"})  BY <1>18 DEF SetFacts, Fill, next
  <2>5. QED  BY <1>6, <2>2, <2>3, <2>4
<1>19. CASE Start(r)
  <2>1. CASE \E plan \in Plans, b \in StoredAt("brand") \union {NoRow} : Register(r, plan, b)
    BY <1>3, <2>1
  <2>2. CASE \E x \in Stored, add, drop \in SUBSET Keys : Edit(r, x, add, drop)
    BY <1>4, <2>2
  <2>3. CASE \E x \in Stored, n \in Names : Rename(r, x, n)
    BY <1>5, <2>3
  <2>4. CASE \E c \in Cigars, brand \in StoredAt("brand") \union {NoRow},
               line \in StoredAt("line") \union {NoRow}, text \in Names \union {NoName},
               composed \in BOOLEAN : Assign(r, c, brand, line, text, composed)
    BY <1>17, <2>4
  <2>5. CASE \E c \in Cigars, text \in Names \union {NoName} :
               SetFacts(r, c, text) \/ Fill(r, c, text)
    BY <1>18, <2>5
  <2>6. QED  BY <1>19, <2>1, <2>2, <2>3, <2>4, <2>5 DEF Start
<1>20. QED
  BY <1>7, <1>9, <1>10, <1>11, <1>12, <1>13, <1>14, <1>15, <1>16, <1>19 DEF Step

\* A call that stands by itself keeps its shape, whatever another does.
LEMMA ShapeStep ==
  ASSUME Typed, CallsFit, CigarsFiled, NEW r \in Requests, Step(r)
  PROVE  CallsFit'
<1> USE DEF Become, At, Begin
<1>0. /\ call \in [Requests -> CallRow] /\ RowsKept /\ Alone(r) /\ call'[r] \in CallRow
      /\ NoCigar \notin Cigars /\ NoName \notin Names
  BY RowsStep, CallStep, SentinelAssumption DEF Typed
<1>1. \A row \in CigarRow : PartsStored(row) => PartsStored(row)'
  BY <1>0 DEF PartsStored, StoredAt, RowsKept
<1>2. ASSUME NEW q \in Requests, q # r PROVE Shape(q)'
  <2>1. call'[q] = call[q]  BY <1>0, <1>2 DEF Alone
  <2>2. call[q].next \in CigarRow  BY <1>0 DEF CallRow
  <2>3. QED  BY <1>0, <1>1, <2>1, <2>2 DEF CallsFit, Shape, Editing, RowsKept
<1>3. Shape(r)' => CallsFit'  BY <1>2 DEF CallsFit
<1>4. Shape(r) /\ call[r] \in CallRow  BY <1>0 DEF CallsFit
<1>5. ASSUME call' = [call EXCEPT ![r] = Idle] PROVE CallsFit'
  BY <1>0, <1>3, <1>5 DEF Shape, Editing, Idle
<1>6. ASSUME NEW plan \in Plans, NEW b \in StoredAt("brand") \union {NoRow}, Register(r, plan, b)
      PROVE  CallsFit'
  BY <1>0, <1>3, <1>6 DEF Register, Shape, Editing, Idle
<1>7. ASSUME NEW x \in Stored, NEW add \in SUBSET Keys, NEW drop \in SUBSET Keys,
             Edit(r, x, add, drop)
      PROVE  CallsFit'
  <2>1. /\ call'[r].pc = "claim" /\ call'[r].row = x /\ call'[r].cigar = NoCigar
    BY <1>0, <1>7 DEF Edit, Idle
  <2>2. QED  BY <1>0, <1>3, <2>1 DEF Shape, Editing, RowsKept
<1>8. ASSUME NEW x \in Stored, NEW n \in Names, Rename(r, x, n)
      PROVE  CallsFit'
  <2>1. /\ call'[r].pc = "claim" /\ call'[r].row = x /\ call'[r].cigar = NoCigar
    BY <1>0, <1>8 DEF Rename, Idle
  <2>2. QED  BY <1>0, <1>3, <2>1 DEF Shape, Editing, RowsKept
<1>9. ASSUME NEW c \in Cigars, NEW next \in CigarRow, NEW sets, Apply(r, c, next, sets),
             PartsStored(next)
      PROVE  CallsFit'
  <2>1. /\ call'[r].pc = "assign" /\ call'[r].cigar = c /\ call'[r].next = next
        /\ call'[r].claim = {}
    BY <1>0, <1>9 DEF Apply, Idle
  <2>2. QED  BY <1>0, <1>1, <1>3, <1>9, <2>1 DEF Shape, Editing
<1>10. ASSUME NEW c \in Cigars, NEW brand \in StoredAt("brand") \union {NoRow},
              NEW line \in StoredAt("line") \union {NoRow}, NEW text \in Names \union {NoName},
              NEW composed \in BOOLEAN, Assign(r, c, brand, line, text, composed)
       PROVE  CallsFit'
  <2> DEFINE next == [cigar[c] EXCEPT !.brand = brand, !.line = line, !.text = text,
                                      !.composed = composed]
             sets == {f \in DOMAIN next : next[f] # cigar[c][f]}
  <2>1. cigar[c] \in CigarRow /\ brand \in Rows \union {NoRow} /\ line \in Rows \union {NoRow}
    BY DEF Typed, StoredAt, Stored
  <2>2. next \in CigarRow /\ PartsStored(next)  BY <2>1 DEF CigarRow, PartsStored
  <2> HIDE DEF next, sets
  <2>3. Apply(r, c, next, sets)  BY <1>10 DEF Assign, next, sets
  <2>4. QED  BY <1>9, <2>2, <2>3
<1>11. ASSUME NEW c \in Cigars, NEW text \in Names \union {NoName},
              SetFacts(r, c, text) \/ Fill(r, c, text)
       PROVE  CallsFit'
  <2> DEFINE next == [cigar[c] EXCEPT !.text = text, !.brand = DeriveBrandId(text)]
  <2>1. cigar[c] \in CigarRow /\ DeriveBrandId(text) \in StoredAt("brand") \union {NoRow}
    BY DEF Typed, DeriveBrandId, BrandOf
  <2>2. DeriveBrandId(text) \in Rows \union {NoRow}  BY <2>1 DEF StoredAt, Stored
  <2>3. next \in CigarRow /\ PartsStored(next)
    BY <2>1, <2>2 DEF CigarRow, PartsStored, CigarsFiled
  <2> HIDE DEF next
  <2>4. Apply(r, c, next, {"text", "brand"})  BY <1>11 DEF SetFacts, Fill, next
  <2>5. QED  BY <1>9, <2>3, <2>4
<1>12. CASE Start(r)
  <2>1. CASE \E plan \in Plans, b \in StoredAt("brand") \union {NoRow} : Register(r, plan, b)
    BY <1>6, <2>1
  <2>2. CASE \E x \in Stored, add, drop \in SUBSET Keys : Edit(r, x, add, drop)
    BY <1>7, <2>2
  <2>3. CASE \E x \in Stored, n \in Names : Rename(r, x, n)
    BY <1>8, <2>3
  <2>4. CASE \E c \in Cigars, brand \in StoredAt("brand") \union {NoRow},
               line \in StoredAt("line") \union {NoRow}, text \in Names \union {NoName},
               composed \in BOOLEAN : Assign(r, c, brand, line, text, composed)
    BY <1>10, <2>4
  <2>5. CASE \E c \in Cigars, text \in Names \union {NoName} :
               SetFacts(r, c, text) \/ Fill(r, c, text)
    BY <1>11, <2>5
  <2>6. QED  BY <1>12, <2>1, <2>2, <2>3, <2>4, <2>5 DEF Start
\* The steps of a claim, an edit and a rename.
<1>13. ASSUME {call[r].pc, call'[r].pc} \subseteq {"claim", "free", "compose", "leaf"},
              call'[r].plan = call[r].plan, call'[r].row = call[r].row,
              call'[r].name = call[r].name, call'[r].cigar = call[r].cigar,
              call'[r].pc # "claim" => call'[r].claim = {} /\ call'[r].plan = <<>>,
              call'[r].pc \in {"compose", "leaf"} => call'[r].name \in Names,
              call'[r].pc = "leaf" => call'[r].leaf \in Cigars \X Parts
       PROVE  CallsFit'
  <2>1. call[r].cigar = NoCigar /\ (call[r].plan = <<>> => call[r].row \in Stored)
    BY <1>4, <1>13 DEF Shape, Editing
  <2>2. Shape(r)'  BY <1>0, <1>13, <2>1 DEF Shape, Editing, RowsKept
  <2>3. QED  BY <1>3, <2>2
<1>14. CASE Lock(r)
  <2>1. /\ call'[r] = [call[r] EXCEPT !.claim = @ \ {Wanted(r)[2]}, !.locks = @ \union {Wanted(r)}]
        /\ call[r].pc = "claim"
    BY <1>0, <1>14 DEF Lock
  <2>2. /\ call'[r].pc = "claim" /\ call'[r].plan = call[r].plan /\ call'[r].row = call[r].row
        /\ call'[r].name = call[r].name /\ call'[r].cigar = call[r].cigar
    BY <1>4, <2>1 DEF CallRow
  <2>3. QED  BY <1>13, <2>1, <2>2
<1>15. CASE Check(r)
  <2>1. /\ call[r].pc = "claim" /\ call[r].claim = {} /\ call[r].plan = <<>>
        /\ call'[r] = [call[r] EXCEPT !.pc = "free"]
    BY <1>0, <1>15 DEF Check, Locked
  <2>2. /\ call'[r].pc = "free" /\ call'[r].plan = call[r].plan /\ call'[r].row = call[r].row
        /\ call'[r].name = call[r].name /\ call'[r].cigar = call[r].cigar
        /\ call'[r].claim = call[r].claim
    BY <1>4, <2>1 DEF CallRow
  <2>3. QED  BY <1>13, <2>1, <2>2
<1>16. CASE WriteName(r)
  <2>1. /\ call[r].pc = "free" /\ call[r].name # NoName
        /\ call'[r] = [call[r] EXCEPT !.pc = "compose", !.leaves = LeavesOf(call[r].row)]
    BY <1>0, <1>16 DEF WriteName
  <2>2. /\ call'[r].pc = "compose" /\ call'[r].plan = call[r].plan /\ call'[r].row = call[r].row
        /\ call'[r].name = call[r].name /\ call'[r].cigar = call[r].cigar
        /\ call'[r].claim = call[r].claim
    BY <1>4, <2>1 DEF CallRow
  <2>3. call[r].claim = {} /\ call[r].plan = <<>> /\ call[r].name \in Names
    BY <1>4, <2>1 DEF Shape, CallRow
  <2>4. QED  BY <1>13, <2>1, <2>2, <2>3
<1>17. ASSUME NEW c \in Cigars, ReadLeaf(r, c) PROVE CallsFit'
  <2> DEFINE leaf == <<c, Recomposed(r, cigar[c]).name>>
  <2>1. Recomposed(r, cigar[c]) \in CigarRow  BY PartsTyped DEF Typed
  <2>2. leaf \in Cigars \X Parts  BY <2>1 DEF CigarRow
  <2> HIDE DEF leaf
  <2>3. /\ call[r].pc = "compose"
        /\ \/ call'[r] = [call[r] EXCEPT !.leaves = @ \ {c}]
           \/ call'[r] = [call[r] EXCEPT !.pc = "leaf", !.leaves = @ \ {c}, !.leaf = leaf]
    BY <1>0, <1>17 DEF ReadLeaf, leaf
  <2>4. /\ call'[r].plan = call[r].plan /\ call'[r].row = call[r].row
        /\ call'[r].name = call[r].name /\ call'[r].cigar = call[r].cigar
        /\ call'[r].claim = call[r].claim
        /\ call'[r].pc = "compose" \/ (call'[r].pc = "leaf" /\ call'[r].leaf = leaf)
    BY <1>4, <2>3 DEF CallRow
  <2>5. call[r].claim = {} /\ call[r].plan = <<>> /\ call[r].name \in Names
    BY <1>4, <2>3 DEF Shape
  <2>6. QED  BY <1>13, <2>2, <2>3, <2>4, <2>5
<1>18. CASE WriteLeaf(r)
  <2>1. /\ call[r].pc = "leaf"
        /\ call'[r] = [call[r] EXCEPT !.pc = "compose", !.wrote = @ \union {call[r].leaf}, !.leaf = <<>>]
    BY <1>0, <1>18 DEF WriteLeaf
  <2>2. /\ call'[r].pc = "compose" /\ call'[r].plan = call[r].plan /\ call'[r].row = call[r].row
        /\ call'[r].name = call[r].name /\ call'[r].cigar = call[r].cigar
        /\ call'[r].claim = call[r].claim
    BY <1>4, <2>1 DEF CallRow
  <2>3. call[r].claim = {} /\ call[r].plan = <<>> /\ call[r].name \in Names
    BY <1>4, <2>1 DEF Shape
  <2>4. QED  BY <1>13, <2>1, <2>2, <2>3
\* A registration that goes on to its next row, or to a claim.
<1>19. ASSUME call'[r].pc = "find" \/ (call'[r].pc = "claim" /\ call'[r].plan # <<>>),
              call[r].cigar = NoCigar, call'[r].cigar = NoCigar,
              call'[r].pc # "claim" => call'[r].claim = {}
       PROVE  CallsFit'
  <2>1. Shape(r)'  BY <1>0, <1>19 DEF Shape, Editing
  <2>2. QED  BY <1>3, <2>1
<1>20. CASE Find(r) \/ Mint(r)
  <2>1. call[r].cigar = NoCigar /\ call[r].claim = {} /\ call[r].plan # <<>>
    BY <1>4, <1>20 DEF Find, Mint, Locked, Shape
  <2>2. \/ \E x \in Rows : call'[r] = Rest(r, x)
        \/ call'[r] = [call[r] EXCEPT !.pc = "claim", !.claim = ItemKeys(r)]
    BY <1>0, <1>20 DEF Find, Mint, Hits, InScope, Visible, Unused
  <2>3. ASSUME NEW x \in Rows
        PROVE  Rest(r, x).pc = "find" /\ Rest(r, x).cigar = NoCigar /\ Rest(r, x).claim = {}
    BY <1>4, <2>1 DEF Rest, CallRow
  <2>4. CASE \E x \in Rows : call'[r] = Rest(r, x)  BY <1>19, <2>1, <2>3, <2>4
  <2>5. CASE call'[r] = [call[r] EXCEPT !.pc = "claim", !.claim = ItemKeys(r)]
    <3>1. call'[r].pc = "claim" /\ call'[r].plan # <<>> /\ call'[r].cigar = NoCigar
      BY <1>4, <2>1, <2>5 DEF CallRow
    <3>2. QED  BY <1>19, <2>1, <3>1
  <2>6. QED  BY <2>2, <2>4, <2>5
<1>21. CASE Write(r)
  <2> DEFINE c == call[r].cigar
             row == [f \in DOMAIN Unfiled |-> IF f \in call[r].sets THEN call[r].next[f] ELSE cigar[c][f]]
             new == Recomposed(r, row)
  <2>1. c \in Cigars /\ call[r].pc = "assign" /\ PartsStored(call[r].next) /\ call[r].claim = {}
    BY <1>0, <1>4, <1>21 DEF Write, Shape, CallRow
  <2>2. PartsStored(cigar[c]) /\ cigar[c] \in CigarRow /\ call[r].next \in CigarRow
    BY <1>0, <2>1 DEF CigarsFiled, Typed, CallRow
  <2>3. PartsStored(row) /\ row \in CigarRow
    BY <2>1, <2>2 DEF PartsStored, Unfiled, CigarRow
  <2>4. new.brand = row.brand /\ new.line = row.line /\ new \in CigarRow
    BY <2>3, PartsTyped, ZenonT(60) DEF Recomposed, CigarRow
  <2>5. PartsStored(new)  BY <2>3, <2>4 DEF PartsStored
  <2> HIDE DEF new, row
  <2>6. call'[r] = [call[r] EXCEPT !.pc = "assigned", !.next = new]
    BY <1>0, <1>21 DEF Write, new, row
  <2>7. /\ call'[r].pc = "assigned" /\ call'[r].cigar = c /\ call'[r].next = new
        /\ call'[r].claim = {}
    BY <1>4, <2>1, <2>6 DEF CallRow
  <2>8. Shape(r)'  BY <1>0, <1>1, <2>1, <2>4, <2>5, <2>7 DEF Shape, Editing
  <2>9. QED  BY <1>3, <2>8
<1>22. CASE Fail(r) \/ Registered(r) \/ WriteKeys(r) \/ Renamed(r) \/ Assigned(r)
  BY <1>5, <1>22 DEF Fail, Registered, WriteKeys, Renamed, Assigned
<1>23. QED
  BY <1>12, <1>14, <1>15, <1>16, <1>17, <1>18, <1>20, <1>21, <1>22 DEF Step

\* A step, and what the histories make of it.
Noting(r) == Step(r) /\ raced' = raced \union Racing' /\ torn' = torn \union Tearing'

\* A step keeps every type, and the histories notice what it starts.
LEMMA TypeStep ==
  ASSUME Typed, CallsFit, CigarsFiled, NEW r \in Requests, Noting(r)
  PROVE  Typed' /\ CallsFit' /\ CigarsFiled' /\ Noticed'
<1>0. Step(r) /\ raced' = raced \union Racing' /\ torn' = torn \union Tearing'  BY DEF Noting
<1>1. /\ reg' \in [Rows -> RegistryRow] /\ RowsKept /\ Alone(r) /\ call'[r] \in CallRow
      /\ CallsFit'
  BY <1>0, RowsStep, CallStep, ShapeStep
<1>2. call' \in [Requests -> CallRow]
  <2>1. call \in [Requests -> CallRow]  BY DEF Typed
  <2>2. QED  BY <1>1, <2>1 DEF Alone
<1>3. raced' \subseteq Rows /\ torn' \subseteq Cigars /\ Noticed'
  <2>1. Racing' \subseteq Rows /\ Tearing' \subseteq Cigars  BY DEF Racing, Tearing
  <2>2. QED  BY <1>0, <2>1 DEF Typed, Noticed
<1>4. cigar' \in [Cigars -> CigarRow] /\ CigarsFiled'
  <2>0. cigar \in [Cigars -> CigarRow] /\ call[r] \in CallRow  BY DEF Typed
  <2>1. \A row \in CigarRow : PartsStored(row) => PartsStored(row)'
    BY <1>1 DEF PartsStored, StoredAt, RowsKept
  <2>2. CASE UNCHANGED cigar  BY <2>0, <2>1, <2>2 DEF CigarsFiled
  <2>3. CASE Assigned(r)
    <3> DEFINE c == call[r].cigar
               new == call[r].next
    <3>1. c \in Cigars /\ new \in CigarRow /\ PartsStored(new) /\ cigar' = [cigar EXCEPT ![c] = new]
      BY <2>0, <2>3 DEF Assigned, CallsFit, Shape, CallRow, At
    <3> HIDE DEF c, new
    <3>2. QED  BY <2>0, <2>1, <3>1 DEF CigarsFiled
  <2>4. CASE Renamed(r)
    <3>1. ASSUME NEW c \in Cigars
          PROVE  /\ cigar'[c] \in CigarRow
                 /\ cigar'[c].brand = cigar[c].brand /\ cigar'[c].line = cigar[c].line
      <4> DEFINE w == CHOOSE v \in call[r].wrote : v[1] = c
      <4>1. CASE \E v \in call[r].wrote : v[1] = c
        <5>1. w \in call[r].wrote  BY <4>1
        <5>2. w[2] \in Parts  BY <2>0, <5>1 DEF CallRow
        <5> HIDE DEF w
        <5>3. cigar'[c] = [cigar[c] EXCEPT !.name = w[2]]  BY <2>4, <4>1 DEF Renamed, w
        <5>4. QED  BY <2>0, <5>2, <5>3 DEF CigarRow
      <4>2. CASE ~\E v \in call[r].wrote : v[1] = c
        BY <2>0, <2>4, <4>2 DEF Renamed
      <4>3. QED  BY <4>1, <4>2
    <3>2. cigar' \in [Cigars -> CigarRow]
      <4>1. DOMAIN cigar' = Cigars /\ cigar' = [c \in Cigars |-> cigar'[c]]
        BY <2>4 DEF Renamed
      <4>2. QED  BY <3>1, <4>1
    <3>3. QED  BY <2>0, <2>1, <3>1, <3>2 DEF CigarsFiled, PartsStored, StoredAt
  <2>5. Start(r) => UNCHANGED cigar  BY StartKeeps
  <2>6. (\E c \in Cigars : ReadLeaf(r, c)) => UNCHANGED cigar  BY DEF ReadLeaf
  <2>7. UNCHANGED cigar \/ Assigned(r) \/ Renamed(r)
    BY <1>0, <2>5, <2>6
    DEF Step, Lock, Find, Mint, Registered, Check, WriteKeys, WriteName, WriteLeaf, Write, Fail
  <2>8. QED  BY <2>2, <2>3, <2>4, <2>7
<1>5. QED  BY <1>1, <1>2, <1>3, <1>4 DEF Typed

-----------------------------------------------------------------------------
(* The steps of a call, by what they do to the registry and to what the     *)
(* call holds.                                                              *)

\* Locks are taken one at a time and let go at the end.
LEMMA LocksStep ==
  ASSUME Typed, CallsFit, NEW r \in Requests, Step(r)
  PROVE  Lock(r) \/ call'[r].locks = {} \/ call'[r].locks = call[r].locks
<1> USE DEF Become, At, Begin, Alone
<1>0. /\ call \in [Requests -> CallRow] /\ call[r] \in CallRow
  BY DEF Typed
<1>1. CASE Start(r)
  <2>1. CASE \E plan \in Plans, b \in StoredAt("brand") \union {NoRow} : Register(r, plan, b)
    BY <1>0, <2>1 DEF Register, Idle
  <2>2. CASE \E x \in Stored, add, drop \in SUBSET Keys : Edit(r, x, add, drop)
    BY <1>0, <2>2 DEF Edit, Idle
  <2>3. CASE \E x \in Stored, n \in Names : Rename(r, x, n)
    BY <1>0, <2>3 DEF Rename, Idle
  <2>4. ASSUME NEW c, NEW next, NEW sets, Apply(r, c, next, sets)
        PROVE  call'[r].locks = {}
    BY <1>0, <2>4 DEF Apply, Idle
  <2>5. CASE \E c \in Cigars, brand \in StoredAt("brand") \union {NoRow},
               line \in StoredAt("line") \union {NoRow}, text \in Names \union {NoName},
               composed \in BOOLEAN : Assign(r, c, brand, line, text, composed)
    BY <2>4, <2>5 DEF Assign
  <2>6. CASE \E c \in Cigars, text \in Names \union {NoName} :
               SetFacts(r, c, text) \/ Fill(r, c, text)
    BY <2>4, <2>6 DEF SetFacts, Fill
  <2>7. QED  BY <1>1, <2>1, <2>2, <2>3, <2>5, <2>6 DEF Start
<1>2. CASE Find(r) \/ Mint(r)
  <2>1. \/ \E x : call'[r] = Rest(r, x)
        \/ call'[r] = [call[r] EXCEPT !.pc = "claim", !.claim = ItemKeys(r)]
    BY <1>0, <1>2 DEF Find, Mint
  <2>2. \A x : Rest(r, x).locks = call[r].locks  BY <1>0 DEF Rest, CallRow
  <2>3. QED  BY <1>0, <2>1, <2>2 DEF CallRow
<1>3. CASE Fail(r) \/ Registered(r) \/ WriteKeys(r) \/ Renamed(r) \/ Assigned(r)
  <2>1. call'[r] = Idle  BY <1>0, <1>3 DEF Fail, Registered, WriteKeys, Renamed, Assigned
  <2>2. QED  BY <2>1 DEF Idle
<1>4. CASE Check(r)  BY <1>0, <1>4 DEF Check, CallRow
<1>5. CASE WriteName(r)  BY <1>0, <1>5 DEF WriteName, CallRow
<1>6. ASSUME NEW c \in Cigars, ReadLeaf(r, c) PROVE call'[r].locks = call[r].locks
  BY <1>0, <1>6 DEF ReadLeaf, CallRow
<1>7. CASE WriteLeaf(r)  BY <1>0, <1>7 DEF WriteLeaf, CallRow
<1>8. CASE Write(r)  BY <1>0, <1>8 DEF Write, CallRow
<1>9. QED  BY <1>1, <1>2, <1>3, <1>4, <1>5, <1>6, <1>7, <1>8 DEF Step

\* A key has one holder.
LEMMA LocksApartStep ==
  ASSUME Typed, CallsFit, CigarsFiled, LocksApart, NEW r \in Requests, Step(r)
  PROVE  LocksApart'
<1>1. Alone(r) /\ \A q \in Requests \ {r} : call'[q] = call[q]
  BY CallStep DEF Alone, Typed
<1>2. CASE Lock(r)
  <2>1. /\ call'[r].locks = call[r].locks \union {Wanted(r)}
        /\ \A q \in Requests \ {r} : Wanted(r) \notin call[q].locks
    BY <1>2 DEF Lock, Become, Holder, Typed, CallRow
  <2>2. QED  BY <1>1, <2>1 DEF LocksApart
<1>3. CASE call'[r].locks = {} \/ call'[r].locks = call[r].locks
  BY <1>1, <1>3 DEF LocksApart
<1>4. QED  BY <1>2, <1>3, LocksStep

TypedInv == Typed /\ CallsFit /\ CigarsFiled /\ LocksApart /\ Noticed

\* Rows, cigars and calls keep their types and shapes, a lock has one holder, and every
\* overlap that the code does not order is noticed.
THEOREM TypesHold == Spec => []TypedInv
<1>1. Init => TypedInv
  <2>1. Init => Noticed
    BY SentinelAssumption DEF Init, Noticed, Racing, Tearing, Edits, Near, Moves, Renames, Idle
  <2>2. Init => LocksApart  BY DEF Init, LocksApart, Idle
  <2>3. QED  BY <2>1, <2>2, TypeInit DEF TypedInv
<1>2. ASSUME TypedInv, [Next]_vars PROVE TypedInv'
  <2>1. CASE UNCHANGED vars
    BY <1>2, <2>1 DEF vars, TypedInv, Typed, CallsFit, CigarsFiled, LocksApart, Noticed, Shape,
       PartsStored, StoredAt, Stored, Editing, At, Racing, Tearing, Edits, Near, Moves, Renames,
       PartsInPlay
  <2>2. CASE Next
    <3>1. PICK r \in Requests : Noting(r)  BY <2>2 DEF Next, Noting
    <3>2. Step(r)  BY <3>1 DEF Noting
    <3>3. QED  BY <1>2, <3>1, <3>2, TypeStep, LocksApartStep DEF TypedInv
  <2>3. QED  BY <1>2, <2>1, <2>2
<1>3. QED  BY <1>1, <1>2, PTL DEF Spec

\* The registry, the cigars' parts and the claims keep their types, and a key of a level
\* is locked by one call at a time: a committed row is never lost under a cigar.
THEOREM TypeCorrect == Spec => []TypeOK
<1>1. TypedInv => TypeOK
  BY DEF TypedInv, Typed, CallsFit, CigarsFiled, LocksApart, Shape, PartsStored, TypeOK, CigarRow
<1>2. QED  BY TypesHold, <1>1, PTL

-----------------------------------------------------------------------------
(* The steps of a call, by what they leave of it in hand.                   *)

Ends(r) == Fail(r) \/ Registered(r) \/ WriteKeys(r) \/ Renamed(r) \/ Assigned(r)
StartsPlan(r) ==
  /\ call[r].pc = "idle" /\ call'[r].pc = "find"
  /\ call'[r].plan \in Plans /\ call'[r].locks = {} /\ call'[r].claim = {} /\ call'[r].wrote = {}
StartsEdit(r) ==
  /\ call[r].pc = "idle" /\ call'[r].pc = "claim" /\ call'[r].plan = <<>>
  /\ call'[r].row \in Stored /\ call'[r].locks = {} /\ call'[r].claim = call'[r].add
  /\ call'[r].wrote = {}
  /\ LET row == reg[call'[r].row] IN
     /\ call'[r].keys \subseteq row.keys \union call'[r].add
     /\ Fold[row.name] \in row.keys => Fold[row.name] \in call'[r].keys
     /\ call'[r].name # NoName => Fold[call'[r].name] \in call'[r].keys
GoesOn(r) ==
  /\ call[r].pc = "find" \/ (call[r].pc = "claim" /\ call[r].claim = {})
  /\ call[r].plan # <<>>
  /\ call'[r].pc = "find" /\ call'[r].plan = Tail(call[r].plan) /\ call'[r].locks = call[r].locks
  /\ call'[r].claim = {} /\ call'[r].wrote = call[r].wrote
FindsNone(r) ==
  /\ call[r].pc = "find" /\ call[r].plan # <<>> /\ call'[r].pc = "claim"
  /\ call'[r].plan = call[r].plan /\ call'[r].row = call[r].row
  /\ call'[r].claim = ItemKeys(r) /\ call'[r].locks = call[r].locks
  /\ call'[r].wrote = call[r].wrote
EditGoesOn(r) ==
  /\ \/ Check(r)
     \/ call[r].pc \in {"free", "compose", "leaf"} /\ call'[r].pc \in {"compose", "leaf"}
  /\ call[r].plan = <<>> /\ call'[r].plan = <<>>
  /\ call[r].claim = {} /\ call'[r].claim = {}
  /\ call'[r].row = call[r].row /\ call'[r].add = call[r].add /\ call'[r].keys = call[r].keys
  /\ call'[r].name = call[r].name /\ call'[r].locks = call[r].locks
CigarGoesOn(r) ==
  /\ call[r].pc \in {"idle", "assign"} /\ call'[r].pc \in {"assign", "assigned"}
  /\ call'[r].wrote \in {{}, call[r].wrote}

\* What a step can do to its call.
LEMMA CallCases ==
  ASSUME Typed, CallsFit, CigarsFiled, NEW r \in Requests, Step(r)
  PROVE  \/ Ends(r) /\ call'[r] = Idle
         \/ Mint(r) /\ GoesOn(r)
         \/ /\ UNCHANGED reg
            /\ \/ StartsPlan(r) \/ StartsEdit(r) \/ Lock(r) \/ GoesOn(r) \/ FindsNone(r)
               \/ EditGoesOn(r) \/ CigarGoesOn(r)
<1> USE DEF Become, At, Begin
<1>0. /\ call \in [Requests -> CallRow] /\ call[r] \in CallRow /\ Shape(r)
  BY DEF Typed, CallsFit
<1>1. ASSUME MayBegin(r), Start(r)
      PROVE  UNCHANGED reg /\ (StartsPlan(r) \/ StartsEdit(r) \/ CigarGoesOn(r))
  <2> SUFFICES StartsPlan(r) \/ StartsEdit(r) \/ CigarGoesOn(r)  BY <1>1, StartKeeps
  <2>0. call[r].pc = "idle"  BY <1>1 DEF MayBegin
  <2>1. CASE \E plan \in Plans, b \in StoredAt("brand") \union {NoRow} : Register(r, plan, b)
    BY <1>0, <2>0, <2>1 DEF Register, Idle, StartsPlan
  <2>2. ASSUME NEW x \in Stored, NEW add \in SUBSET Keys, NEW drop \in SUBSET Keys,
               Edit(r, x, add, drop)
        PROVE  StartsEdit(r)
    <3> DEFINE added == add \ reg[x].keys
               next == (reg[x].keys \union added) \ (drop \intersect reg[x].keys)
    <3>1. /\ call' = [call EXCEPT ![r] = [Idle EXCEPT !.pc = "claim", !.row = x, !.add = added,
                                                      !.claim = added, !.keys = next]]
          /\ Fold[reg[x].name] \notin drop
      BY <2>2 DEF Edit
    <3>2. /\ next \subseteq reg[x].keys \union added
          /\ Fold[reg[x].name] \in reg[x].keys => Fold[reg[x].name] \in next
      BY <3>1
    <3> HIDE DEF added, next
    <3>3. /\ call'[r].pc = "claim" /\ call'[r].plan = <<>> /\ call'[r].row = x
          /\ call'[r].locks = {} /\ call'[r].claim = added /\ call'[r].add = added
          /\ call'[r].keys = next /\ call'[r].name = NoName /\ call'[r].wrote = {}
      BY <1>0, <3>1 DEF Idle
    <3>4. QED  BY <2>0, <3>2, <3>3 DEF StartsEdit
  <2>3. ASSUME NEW x \in Stored, NEW n \in Names, Rename(r, x, n)
        PROVE  StartsEdit(r)
    <3> DEFINE added == {Fold[n]} \ reg[x].keys
               next == reg[x].keys \union added
    <3>1. call' = [call EXCEPT ![r] = [Idle EXCEPT !.pc = "claim", !.row = x, !.name = n,
                                           !.add = added, !.claim = added, !.keys = next]]
      BY <2>3 DEF Rename
    <3>2. /\ next \subseteq reg[x].keys \union added /\ reg[x].keys \subseteq next
          /\ Fold[n] \in next
      OBVIOUS
    <3> HIDE DEF added, next
    <3>3. /\ call'[r].pc = "claim" /\ call'[r].plan = <<>> /\ call'[r].row = x
          /\ call'[r].locks = {} /\ call'[r].claim = added /\ call'[r].add = added
          /\ call'[r].keys = next /\ call'[r].name = n /\ call'[r].wrote = {}
      BY <1>0, <3>1 DEF Idle
    <3>4. QED  BY <2>0, <3>2, <3>3 DEF StartsEdit
  <2>4. ASSUME NEW c, NEW next, NEW sets, Apply(r, c, next, sets)
        PROVE  CigarGoesOn(r)
    BY <1>0, <2>0, <2>4 DEF Apply, Idle, CigarGoesOn
  <2>5. CASE \E c \in Cigars, brand \in StoredAt("brand") \union {NoRow},
               line \in StoredAt("line") \union {NoRow}, text \in Names \union {NoName},
               composed \in BOOLEAN : Assign(r, c, brand, line, text, composed)
    BY <2>4, <2>5 DEF Assign
  <2>6. CASE \E c \in Cigars, text \in Names \union {NoName} :
               SetFacts(r, c, text) \/ Fill(r, c, text)
    BY <2>4, <2>6 DEF SetFacts, Fill
  <2>7. CASE \E x \in Stored, add, drop \in SUBSET Keys : Edit(r, x, add, drop)
    BY <2>2, <2>7
  <2>8. CASE \E x \in Stored, n \in Names : Rename(r, x, n)
    BY <2>3, <2>8
  <2>9. QED  BY <1>1, <2>1, <2>5, <2>6, <2>7, <2>8 DEF Start
<1>2. CASE Find(r) \/ Mint(r)
  <2>1. /\ call[r].plan # <<>>
        /\ call[r].pc = "find" \/ (call[r].pc = "claim" /\ call[r].claim = {})
    BY <1>2 DEF Find, Mint, Locked
  <2>2. \/ \E x : call'[r] = Rest(r, x)
        \/ At(r, "find") /\ call'[r] = [call[r] EXCEPT !.pc = "claim", !.claim = ItemKeys(r)]
    BY <1>0, <1>2 DEF Find, Mint
  <2>3. ASSUME NEW x, call'[r] = Rest(r, x) PROVE GoesOn(r)
    <3>1. /\ call'[r].pc = "find" /\ call'[r].plan = Tail(call[r].plan)
          /\ call'[r].locks = call[r].locks /\ call'[r].claim = call[r].claim
          /\ call'[r].wrote = call[r].wrote
      BY <1>0, <2>3 DEF Rest, CallRow
    <3>2. QED  BY <1>0, <2>1, <3>1 DEF GoesOn, Shape
  <2>4. ASSUME At(r, "find"), call'[r] = [call[r] EXCEPT !.pc = "claim", !.claim = ItemKeys(r)]
        PROVE  FindsNone(r)
    BY <1>0, <2>1, <2>4 DEF FindsNone, CallRow
  <2>5. QED  BY <1>2, <2>2, <2>3, <2>4 DEF Find, Mint, Locked
<1>3. CASE Ends(r)
  BY <1>0, <1>3 DEF Ends, Fail, Registered, WriteKeys, Renamed, Assigned
<1>4. CASE Check(r)
  BY <1>0, <1>4 DEF Check, Locked, EditGoesOn, CallRow
<1>5. CASE WriteName(r)
  BY <1>0, <1>5 DEF WriteName, EditGoesOn, CallRow, Shape
<1>6. ASSUME NEW c \in Cigars, ReadLeaf(r, c) PROVE EditGoesOn(r) /\ UNCHANGED reg
  BY <1>0, <1>6 DEF ReadLeaf, EditGoesOn, CallRow, Shape
<1>7. CASE WriteLeaf(r)
  BY <1>0, <1>7 DEF WriteLeaf, EditGoesOn, CallRow, Shape
<1>8. CASE Write(r)
  BY <1>0, <1>8 DEF Write, CigarGoesOn, CallRow
<1>9. UNCHANGED reg \/ ~(Check(r) \/ WriteName(r) \/ WriteLeaf(r) \/ Write(r) \/ Lock(r))
  BY DEF Check, WriteName, WriteLeaf, Write, Lock
<1>10. QED  BY <1>1, <1>2, <1>3, <1>4, <1>5, <1>6, <1>7, <1>8, <1>9 DEF Step, Ends

\* The level at which a call claims stays.
LEMMA LevelKept ==
  ASSUME Typed, CallsFit, NEW r \in Requests, Step(r), NEW q \in Requests,
         call[q].plan # <<>> \/ Editing(q),
         call'[q].plan = call[q].plan, call'[q].row = call[q].row
  PROVE  LevelOf(q)' = LevelOf(q)
<1>1. RowsKept  BY RowsStep
<1>2. CASE call[q].plan # <<>>  BY <1>2 DEF LevelOf
<1>3. CASE Editing(q)
  <2>1. call[q].row \in Stored /\ call[q].plan = <<>>  BY <1>3 DEF CallsFit, Shape, Editing
  <2>2. QED  BY <1>1, <2>1 DEF LevelOf, RowsKept
<1>4. QED  BY <1>2, <1>3

\* What stays of a path is from the top as well.
LEMMA TailFromTheTop ==
  ASSUME NEW plan \in Seq(PlanItem), plan # <<>>
  PROVE  /\ \A i \in DOMAIN Tail(plan) : i + 1 \in DOMAIN plan /\ Tail(plan)[i] = plan[i + 1]
         /\ FromTheTop(plan) => FromTheTop(Tail(plan))
<1>1. /\ DOMAIN plan = 1..Len(plan) /\ DOMAIN Tail(plan) = 1..Len(Tail(plan))
      /\ Len(Tail(plan)) = Len(plan) - 1 /\ Len(plan) \in Nat
  OBVIOUS
<1>2. \A i \in DOMAIN Tail(plan) : i + 1 \in DOMAIN plan /\ Tail(plan)[i] = plan[i + 1]
  BY <1>1
<1>3. ASSUME FromTheTop(plan), NEW i \in DOMAIN Tail(plan), NEW j \in DOMAIN Tail(plan), i < j
      PROVE  \/ Rank[Tail(plan)[i].level] < Rank[Tail(plan)[j].level]
             \/ Tail(plan)[i].level = "blender" /\ Tail(plan)[j].level = "blender"
  BY <1>1, <1>2, <1>3 DEF FromTheTop
<1>4. QED  BY <1>2, <1>3 DEF FromTheTop

\* A step takes its locks in order.
LEMMA LocksInOrderStep ==
  ASSUME Typed, CallsFit, CigarsFiled, LocksInOrder, NEW r \in Requests, Step(r)
  PROVE  LocksInOrder'
<1> DEFINE PlanOrder(plan, locks, claim, pc) ==
             /\ FromTheTop(plan)
             /\ \A l \in locks, i \in DOMAIN plan :
                  \/ Rank[l[1]] < Rank[plan[i].level]
                  \/ l[1] = "blender" /\ plan[i].level = "blender"
                  \/ i = 1 /\ pc = "claim" /\ l[1] = Head(plan).level /\ \A k \in claim : l[2] < k
<1>0. /\ call \in [Requests -> CallRow] /\ call[r] \in CallRow /\ call'[r] \in CallRow
      /\ Shape(r) /\ Alone(r) /\ CallsFit'
  BY CallStep, ShapeStep DEF Typed, CallsFit
<1>1. \A q \in Requests \ {r} : call'[q] = call[q]  BY <1>0 DEF Alone
<1>2. ASSUME NEW q \in Requests, q # r
      PROVE  call[q].plan # <<>> \/ Editing(q) => LevelOf(q)' = LevelOf(q)
  BY <1>1, <1>2, LevelKept
<1>3. ASSUME NEW q \in Requests, q # r
      PROVE  /\ (Registers(q))' => FromTheTop(call'[q].plan)
             /\ (Registers(q))' => \A l \in call'[q].locks, i \in DOMAIN call'[q].plan :
                  \/ Rank[l[1]] < Rank[call'[q].plan[i].level]
                  \/ l[1] = "blender" /\ call'[q].plan[i].level = "blender"
                  \/ i = 1 /\ At(q, "claim")' /\ l[1] = LevelOf(q)' /\ \A k \in call'[q].claim : l[2] < k
             /\ (Editing(q))' => \A l \in call'[q].locks :
                  l[1] = LevelOf(q)' /\ \A k \in call'[q].claim : l[2] < k
  BY <1>1, <1>2, <1>3 DEF LocksInOrder, Registers, Editing, At
<1>4. ASSUME ~(Registers(r))', ~(Editing(r))'
      PROVE  LocksInOrder'
  BY <1>3, <1>4 DEF LocksInOrder
<1>5. ASSUME PlanOrder(call'[r].plan, call'[r].locks, call'[r].claim, call'[r].pc),
             call'[r].plan # <<>> \/ ~(Editing(r))'
      PROVE  LocksInOrder'
  <2>1. ~(Editing(r))'  BY <1>5 DEF Editing
  <2>2. CASE call'[r].plan = <<>>
    BY <1>0, <1>3, <1>5, <2>1, <2>2 DEF LocksInOrder
  <2>3. CASE call'[r].plan # <<>>
    <3>1. LevelOf(r)' = Head(call'[r].plan).level  BY <2>3 DEF LevelOf
    <3>2. QED  BY <1>3, <1>5, <2>1, <3>1 DEF LocksInOrder, At
  <2>4. QED  BY <2>2, <2>3
<1>6. ASSUME call'[r].plan = <<>>, call'[r].pc # "find",
             \A l \in call'[r].locks : l[1] = LevelOf(r)' /\ \A k \in call'[r].claim : l[2] < k
      PROVE  LocksInOrder'
  <2>1. ~(Registers(r))'  BY <1>6 DEF Registers, At
  <2>2. QED  BY <1>3, <1>6, <2>1 DEF LocksInOrder
<1>7. ASSUME Registers(r)
      PROVE  PlanOrder(call[r].plan, call[r].locks, call[r].claim, call[r].pc)
  <2>1. CASE call[r].plan = <<>>  BY <1>7, <2>1 DEF LocksInOrder
  <2>2. CASE call[r].plan # <<>>  BY <1>7, <2>2 DEF LocksInOrder, LevelOf, At
  <2>3. QED  BY <2>1, <2>2
<1>8. CASE call'[r] = Idle  BY <1>4, <1>8 DEF Registers, Editing, At, Idle
<1>9. CASE StartsPlan(r)
  BY <1>5, <1>9, PlansAssumption DEF StartsPlan, Editing
<1>10. CASE StartsEdit(r)
  BY <1>6, <1>10 DEF StartsEdit
<1>11. CASE Lock(r)
  <2> DEFINE m == Min(call[r].claim)
  <2>1. /\ call[r].pc = "claim" /\ call'[r].pc = "claim" /\ call'[r].plan = call[r].plan
        /\ call'[r].row = call[r].row
        /\ call'[r].claim = call[r].claim \ {Wanted(r)[2]}
        /\ call'[r].locks = call[r].locks \union {Wanted(r)}
    BY <1>0, <1>11 DEF Lock, Become, At, CallRow
  <2>2. Wanted(r) = <<LevelOf(r), m>> /\ m \in call[r].claim /\ \A k \in call[r].claim : m \leq k
    BY <1>11, WantedTyped DEF Lock
  <2>3. call[r].claim \subseteq Nat  BY <1>0, KeysAssumption DEF CallRow
  <2> HIDE DEF m
  <2>4. \A k \in call'[r].claim : k \in call[r].claim /\ m < k  BY <2>1, <2>2, <2>3
  <2>5. CASE call[r].plan = <<>>
    <3>1. Editing(r)  BY <2>1, <2>5 DEF Editing
    <3>2. LevelOf(r)' = LevelOf(r)  BY <2>1, <3>1, LevelKept
    <3>3. \A l \in call[r].locks : l[1] = LevelOf(r) /\ \A k \in call[r].claim : l[2] < k
      BY <3>1 DEF LocksInOrder
    <3>4. ASSUME NEW l \in call'[r].locks
          PROVE  l[1] = LevelOf(r)' /\ \A k \in call'[r].claim : l[2] < k
      BY <2>1, <2>2, <2>4, <3>2, <3>3
    <3>5. QED  BY <1>6, <2>1, <2>5, <3>4
  <2>6. CASE call[r].plan # <<>>
    <3>1. PlanOrder(call[r].plan, call[r].locks, call[r].claim, call[r].pc)
      BY <1>7, <2>1, <2>6 DEF Registers, At
    <3>2. LevelOf(r) = Head(call[r].plan).level  BY <2>6 DEF LevelOf
    <3>3. call[r].plan \in Seq(PlanItem)  BY <1>0 DEF CallRow
    <3>4. 1 \in DOMAIN call[r].plan /\ Head(call[r].plan) = call[r].plan[1]
      BY <2>6, <3>3
    <3>5. ASSUME NEW i \in DOMAIN call[r].plan
          PROVE  \/ Rank[LevelOf(r)] < Rank[call[r].plan[i].level]
                 \/ LevelOf(r) = "blender" /\ call[r].plan[i].level = "blender"
                 \/ i = 1
      <4>1. i \in Nat /\ i >= 1  BY <3>3
      <4>2. FromTheTop(call[r].plan)  BY <3>1
      <4>3. CASE i = 1  BY <4>3
      <4>4. CASE 1 < i  BY <3>2, <3>4, <4>2, <4>4 DEF FromTheTop
      <4>5. QED  BY <4>1, <4>3, <4>4
    <3>6. ASSUME NEW l \in call'[r].locks, NEW i \in DOMAIN call'[r].plan
          PROVE  \/ Rank[l[1]] < Rank[call'[r].plan[i].level]
                 \/ l[1] = "blender" /\ call'[r].plan[i].level = "blender"
                 \/ i = 1 /\ call'[r].pc = "claim" /\ l[1] = Head(call'[r].plan).level
                      /\ \A k \in call'[r].claim : l[2] < k
      <4>1. CASE l = Wanted(r)  BY <2>1, <2>2, <2>4, <3>2, <3>5, <4>1
      <4>2. CASE l \in call[r].locks  BY <2>1, <2>4, <3>1, <4>2
      <4>3. QED  BY <2>1, <4>1, <4>2
    <3>7. QED  BY <1>5, <2>1, <2>6, <3>1, <3>6
  <2>7. QED  BY <2>5, <2>6
<1>12. CASE GoesOn(r)
  <2>1. /\ Registers(r) /\ call[r].plan \in Seq(PlanItem) /\ call[r].plan # <<>>
        /\ call'[r].plan = Tail(call[r].plan) /\ call'[r].locks = call[r].locks
        /\ call'[r].pc = "find"
    BY <1>0, <1>12 DEF GoesOn, Registers, At, CallRow
  <2>2. PlanOrder(call[r].plan, call[r].locks, call[r].claim, call[r].pc)  BY <1>7, <2>1
  <2>3. FromTheTop(call'[r].plan)  BY <2>1, <2>2, TailFromTheTop
  <2>4. ASSUME NEW l \in call'[r].locks, NEW i \in DOMAIN call'[r].plan
        PROVE  \/ Rank[l[1]] < Rank[call'[r].plan[i].level]
               \/ l[1] = "blender" /\ call'[r].plan[i].level = "blender"
    <3>1. i + 1 \in DOMAIN call[r].plan /\ call'[r].plan[i] = call[r].plan[i + 1]
      BY <2>1, TailFromTheTop
    <3>2. i + 1 # 1  BY <1>0 DEF CallRow
    <3>3. QED  BY <2>1, <2>2, <3>1, <3>2
  <2>5. QED  BY <1>5, <2>1, <2>3, <2>4 DEF Editing
<1>13. CASE FindsNone(r)
  <2>1. /\ Registers(r) /\ call[r].plan # <<>> /\ call[r].pc = "find"
        /\ call'[r].plan = call[r].plan /\ call'[r].locks = call[r].locks
    BY <1>13 DEF FindsNone, Registers, At
  <2>2. QED  BY <1>5, <1>7, <2>1
<1>14. CASE EditGoesOn(r)
  <2>1. /\ Editing(r) /\ call'[r].plan = <<>> /\ call[r].plan = <<>> /\ call'[r].claim = {}
        /\ call'[r].locks = call[r].locks /\ call'[r].row = call[r].row /\ call'[r].pc # "find"
    BY <1>0, <1>14 DEF EditGoesOn, Editing, Check, Locked, At, Become, CallRow
  <2>2. LevelOf(r)' = LevelOf(r)  BY <2>1, LevelKept
  <2>3. QED  BY <1>6, <2>1, <2>2 DEF LocksInOrder
<1>15. CASE CigarGoesOn(r)
  BY <1>4, <1>15 DEF CigarGoesOn, Registers, Editing, At
<1>16. QED
  BY <1>8, <1>9, <1>10, <1>11, <1>12, <1>13, <1>14, <1>15, CallCases

\* Every call of register_taxonomy and every edit takes its key locks in one order, blenders
\* apart.
THEOREM OrderHolds == Spec => []LocksInOrder
<1>1. Init => LocksInOrder
  BY DEF Init, LocksInOrder, Registers, Editing, At, Idle
<1>2. ASSUME TypedInv, LocksInOrder, [Next]_vars PROVE LocksInOrder'
  <2>1. CASE UNCHANGED vars
    BY <1>2, <2>1 DEF vars, LocksInOrder, Registers, Editing, At, LevelOf
  <2>2. CASE Next
    <3>1. PICK r \in Requests : Noting(r)  BY <2>2 DEF Next, Noting
    <3>2. QED  BY <1>2, <3>1, LocksInOrderStep DEF TypedInv, Noting
  <2>3. QED  BY <1>2, <2>1, <2>2
<1>3. QED  BY <1>1, <1>2, TypesHold, PTL DEF Spec

\* Of two calls that wait for each other both register blenders: elsewhere each would hold
\* a lower rank, or a lower key of one rank, than the other.
THEOREM ClaimsInOrder == Spec => []ClaimsDoNotDeadlock
<1>1. ASSUME TypedInv, LocksInOrder, NEW p \in Requests, NEW q \in Requests, WaitsFor(p, q)
      PROVE  /\ LevelOf(p) \in Levels /\ Min(call[p].claim) \in Nat
             /\ Min(call[p].claim) \in call[p].claim
             /\ <<LevelOf(p), Min(call[p].claim)>> \in call[q].locks
             /\ Registers(p) \/ Editing(p)
             /\ call[p].pc = "claim"
  <2>1. call[p].pc = "claim" /\ call[p].claim # {} /\ Wanted(p) \in call[q].locks
    BY <1>1 DEF WaitsFor, Holder, At
  <2>2. call[p].claim \subseteq Nat  BY <1>1, KeysAssumption DEF TypedInv, Typed, CallRow
  <2>3. QED  BY <1>1, <2>1, <2>2, WantedTyped DEF TypedInv, At, Registers, Editing
\* The holder of a lock at some level claims at that level's rank or below.
<1>2. ASSUME TypedInv, LocksInOrder, NEW q \in Requests, Registers(q) \/ Editing(q), At(q, "claim"),
             NEW l \in call[q].locks
      PROVE  \/ Rank[l[1]] < Rank[LevelOf(q)]
             \/ l[1] = "blender" /\ LevelOf(q) = "blender"
             \/ l[1] = LevelOf(q) /\ \A k \in call[q].claim : l[2] < k
  <2>1. CASE Editing(q)  BY <1>2, <2>1 DEF LocksInOrder
  <2>2. CASE ~Editing(q)
    <3>1. Registers(q) /\ call[q].plan # <<>> /\ call[q].plan \in Seq(PlanItem)
      BY <1>2, <2>2 DEF Registers, Editing, At, TypedInv, Typed, CallRow
    <3>2. 1 \in DOMAIN call[q].plan /\ call[q].plan[1].level = LevelOf(q)
      BY <3>1 DEF LevelOf
    <3>3. QED  BY <1>2, <3>1, <3>2 DEF LocksInOrder
  <2>3. QED  BY <2>1, <2>2
<1>3. ASSUME TypedInv, LocksInOrder, NEW p \in Requests, NEW q \in Requests,
             WaitsFor(p, q), WaitsFor(q, p)
      PROVE  LevelOf(p) = "blender" /\ LevelOf(q) = "blender"
  <2> DEFINE lp == LevelOf(p)
             lq == LevelOf(q)
             kp == Min(call[p].claim)
             kq == Min(call[q].claim)
  <2>1. /\ lp \in Levels /\ kp \in Nat /\ kp \in call[p].claim /\ <<lp, kp>> \in call[q].locks
        /\ lq \in Levels /\ kq \in Nat /\ kq \in call[q].claim /\ <<lq, kq>> \in call[p].locks
        /\ Registers(p) \/ Editing(p)
        /\ Registers(q) \/ Editing(q)
        /\ At(p, "claim") /\ At(q, "claim")
    BY <1>1, <1>3 DEF At
  <2>2. \/ Rank[lp] < Rank[lq]
        \/ lp = "blender" /\ lq = "blender"
        \/ lp = lq /\ kp < kq
    BY <1>2, <1>3, <2>1
  <2>3. \/ Rank[lq] < Rank[lp]
        \/ lp = "blender" /\ lq = "blender"
        \/ lp = lq /\ kq < kp
    BY <1>2, <1>3, <2>1
  <2>4. Rank[lp] \in Nat /\ Rank[lq] \in Nat  BY <2>1 DEF Rank, Levels
  <2> HIDE DEF lp, lq, kp, kq
  <2>5. lp = "blender" /\ lq = "blender"  BY <2>1, <2>2, <2>3, <2>4
  <2>6. QED  BY <2>5 DEF lp, lq
<1>4. TypedInv /\ LocksInOrder => ClaimsDoNotDeadlock
  BY <1>3 DEF ClaimsDoNotDeadlock
<1>5. QED  BY <1>4, TypesHold, OrderHolds, PTL

-----------------------------------------------------------------------------
(* The steps of the registry, row by row.                                   *)

Kept(y) ==
  /\ reg'[y].level = reg[y].level /\ reg'[y].under = reg[y].under
  /\ reg'[y].name = reg[y].name /\ reg'[y].keys = reg[y].keys
  /\ reg'[y].by \in {reg[y].by, NoCall}
Minted(r, y) ==
  /\ Mint(r) /\ reg[y] = Blank /\ y = CHOOSE x \in Unused : TRUE
  /\ reg'[y].level = LevelOf(r) /\ reg'[y].under = Under(r)
  /\ reg'[y].keys = ItemKeys(r) /\ Fold[reg'[y].name] \in ItemKeys(r) /\ reg'[y].by = r
Written(r, y) ==
  /\ WriteKeys(r) \/ Renamed(r)
  /\ y = call[r].row /\ y \in Stored /\ Editing(r) /\ call[r].pc \in {"free", "compose"}
  /\ reg'[y].level = reg[y].level /\ reg'[y].under = reg[y].under /\ reg'[y].by = reg[y].by
  /\ reg'[y].keys = call[r].keys
  /\ \/ WriteKeys(r) /\ reg'[y].name = reg[y].name
     \/ Renamed(r) /\ reg'[y].name = call[r].name /\ call[r].name # NoName

\* What a step can do to a registry row: nothing, mint it, write it, or take it back.
LEMMA RowCases ==
  ASSUME Typed, CallsFit, CigarsFiled, NEW r \in Requests, Step(r), NEW y \in Rows
  PROVE  reg'[y] = Blank \/ Kept(y) \/ Minted(r, y) \/ Written(r, y)
<1>0. /\ reg \in [Rows -> RegistryRow] /\ reg[y] \in RegistryRow /\ Shape(r)
      /\ call[r] \in CallRow /\ NoName \notin Names
  BY SentinelAssumption DEF Typed, CallsFit
<1>1. CASE UNCHANGED reg  BY <1>1 DEF Kept
<1>2. CASE Fail(r)  BY <1>2 DEF Fail, Kept
<1>3. CASE Registered(r)  BY <1>0, <1>3 DEF Registered, Kept, RegistryRow
<1>4. CASE Mint(r)
  <2> DEFINE x == CHOOSE z \in Unused : TRUE
             new == [level |-> Head(call[r].plan).level, under |-> Under(r),
                     name |-> Head(call[r].plan).name, slug |-> Fold[Head(call[r].plan).name],
                     keys |-> ItemKeys(r), by |-> r]
  <2>1. reg' = [reg EXCEPT ![x] = new] /\ call[r].plan # <<>> /\ Unused # {}
    BY <1>4 DEF Mint
  <2>2. x \in Rows /\ reg[x] = Blank  BY <2>1 DEF Unused
  <2>3. /\ new.level = LevelOf(r) /\ new.under = Under(r) /\ new.keys = ItemKeys(r)
        /\ Fold[new.name] \in ItemKeys(r) /\ new.by = r
    BY <2>1 DEF LevelOf, ItemKeys
  <2> HIDE DEF new
  <2>4. CASE y = x  BY <1>0, <1>4, <2>1, <2>2, <2>3, <2>4 DEF Minted
  <2> HIDE DEF x
  <2>5. CASE y # x  BY <1>0, <2>1, <2>2, <2>5 DEF Kept
  <2>6. QED  BY <2>4, <2>5
<1>5. CASE WriteKeys(r) \/ Renamed(r)
  <2>1. Editing(r) /\ call[r].row \in Stored /\ call[r].pc \in {"free", "compose"}
    BY <1>0, <1>5 DEF WriteKeys, Renamed, Shape, Editing, At
  <2>2. CASE y = call[r].row
    BY <1>0, <1>5, <2>1, <2>2 DEF WriteKeys, Renamed, Written, RegistryRow, Shape, At
  <2>3. CASE y # call[r].row
    BY <1>0, <1>5, <2>1, <2>3 DEF WriteKeys, Renamed, Kept
  <2>4. QED  BY <2>2, <2>3
<1>6. CASE Assigned(r)  BY <1>1, <1>6 DEF Assigned
<1>7. QED  BY <1>1, <1>2, <1>3, <1>4, <1>5, <1>6, CallCases DEF Ends

\* A committed row keeps its keys and its name unless the step is a write of it.
LEMMA StoredCases ==
  ASSUME Typed, CallsFit, CigarsFiled, NEW r \in Requests, Step(r), NEW y \in Stored
  PROVE  Kept(y) \/ Written(r, y)
<1>1. RowsKept /\ y \in Rows  BY RowsStep DEF Stored
<1>2. reg[y].level # "none" /\ reg'[y].level # "none"  BY <1>1 DEF RowsKept, Stored
<1>3. QED  BY <1>1, <1>2, RowCases DEF Minted, Blank

-----------------------------------------------------------------------------
(* Spellings lead to one row.                                               *)

\* A claim keeps the locks it has taken.
LEMMA LocksCoverStep ==
  ASSUME Typed, CallsFit, CigarsFiled, LocksCover, NEW r \in Requests, Step(r)
  PROVE  LocksCover'
<1>0. /\ call \in [Requests -> CallRow] /\ call[r] \in CallRow /\ call'[r] \in CallRow
      /\ Shape(r) /\ Alone(r)
  BY CallStep DEF Typed, CallsFit
<1>1. \A q \in Requests \ {r} : call'[q] = call[q]  BY <1>0 DEF Alone
<1>2. ASSUME NEW q \in Requests, q # r
      PROVE  call'[q].pc \in {"claim", "free", "compose", "leaf"} =>
               \A k \in Claims(q)' \ call'[q].claim : <<LevelOf(q)', k>> \in call'[q].locks
  <2>1. call'[q] = call[q] /\ Claims(q)' = Claims(q)  BY <1>1, <1>2 DEF Claims, ItemKeys
  <2>2. call[q].pc \in {"claim", "free", "compose", "leaf"} => LevelOf(q)' = LevelOf(q)
    BY <2>1, LevelKept DEF Editing
  <2>3. QED  BY <2>1, <2>2 DEF LocksCover
<1>3. ASSUME call'[r].pc \in {"claim", "free", "compose", "leaf"} =>
               \A k \in Claims(r)' \ call'[r].claim : <<LevelOf(r)', k>> \in call'[r].locks
      PROVE  LocksCover'
  BY <1>2, <1>3 DEF LocksCover
<1>4. CASE call'[r] = Idle  BY <1>3, <1>4 DEF Idle
<1>5. CASE StartsPlan(r) \/ GoesOn(r) \/ CigarGoesOn(r)
  BY <1>3, <1>5 DEF StartsPlan, GoesOn, CigarGoesOn
<1>6. CASE StartsEdit(r)  BY <1>3, <1>6 DEF StartsEdit, Claims
<1>7. CASE FindsNone(r)  BY <1>3, <1>7 DEF FindsNone, Claims, ItemKeys
<1>8. CASE Lock(r)
  <2>1. /\ call[r].pc = "claim" /\ call'[r].plan = call[r].plan /\ call'[r].row = call[r].row
        /\ call'[r].add = call[r].add /\ call'[r].claim = call[r].claim \ {Wanted(r)[2]}
        /\ call'[r].locks = call[r].locks \union {Wanted(r)}
    BY <1>0, <1>8 DEF Lock, Become, At, CallRow
  <2>2. Wanted(r) = <<LevelOf(r), Wanted(r)[2]>>  BY DEF Wanted
  <2>3. LevelOf(r)' = LevelOf(r) /\ Claims(r)' = Claims(r)
    BY <2>1, LevelKept DEF Editing, Claims, ItemKeys
  <2>4. \A k \in Claims(r) \ call[r].claim : <<LevelOf(r), k>> \in call[r].locks
    BY <2>1 DEF LocksCover
  <2>5. QED  BY <1>3, <2>1, <2>2, <2>3, <2>4
<1>9. CASE EditGoesOn(r)
  <2>1. /\ call[r].pc \in {"claim", "free", "compose", "leaf"} /\ call[r].plan = <<>>
        /\ call'[r].plan = <<>> /\ call'[r].row = call[r].row /\ call'[r].add = call[r].add
        /\ call'[r].claim = call[r].claim /\ call'[r].locks = call[r].locks
    BY <1>9 DEF EditGoesOn, Check, Locked, At
  <2>2. LevelOf(r)' = LevelOf(r) /\ Claims(r)' = Claims(r)
    BY <2>1, LevelKept DEF Editing, Claims
  <2>3. QED  BY <1>3, <2>1, <2>2 DEF LocksCover
<1>10. QED  BY <1>4, <1>5, <1>6, <1>7, <1>8, <1>9, CallCases

\* A minted row's keys stay locked until it is committed.
LEMMA MintsLockedStep ==
  ASSUME Typed, CallsFit, CigarsFiled, LocksCover, MintsLocked, NEW r \in Requests, Step(r)
  PROVE  MintsLocked'
<1>0. /\ call \in [Requests -> CallRow] /\ call[r] \in CallRow /\ call'[r] \in CallRow
      /\ Shape(r) /\ Alone(r) /\ NoCall \notin Requests
  BY CallStep, SentinelAssumption DEF Typed, CallsFit
<1>1. \A q \in Requests \ {r} : call'[q] = call[q]  BY <1>0 DEF Alone
<1>2. ASSUME NEW y \in Rows, NEW q \in Requests, reg'[y].by = q, Kept(y)
      PROVE  (Registers(q))' /\ \A k \in reg'[y].keys : <<reg'[y].level, k>> \in call'[q].locks
  <2>1. /\ reg[y].by = q /\ reg'[y].keys = reg[y].keys /\ reg'[y].level = reg[y].level
    BY <1>0, <1>2 DEF Kept
  <2>2. Registers(q) /\ \A k \in reg[y].keys : <<reg[y].level, k>> \in call[q].locks
    BY <2>1 DEF MintsLocked
  <2>3. CASE q # r  BY <1>1, <2>1, <2>2, <2>3 DEF Registers, At
  <2>4. CASE q = r
    <3>1. call[r].pc \in {"find", "claim"} /\ (call[r].pc = "claim" => call[r].plan # <<>>)
      BY <2>2, <2>4 DEF Registers, At
    <3>2. ~Fail(r) /\ ~Registered(r)
      <4>1. Fail(r) => reg'[y].by # r  BY <1>0 DEF Fail, Blank
      <4>2. reg[y] \in RegistryRow  BY DEF Typed
      <4>3. Registered(r) => reg'[y].by # r  BY <1>0, <4>2 DEF Registered, RegistryRow
      <4>4. QED  BY <1>2, <2>4, <4>1, <4>3
    <3>3. ~Ends(r)  BY <3>1, <3>2 DEF Ends, WriteKeys, Renamed, Assigned, At
    <3>4. ~StartsPlan(r) /\ ~StartsEdit(r) /\ ~EditGoesOn(r) /\ ~CigarGoesOn(r)
      BY <3>1 DEF StartsPlan, StartsEdit, EditGoesOn, CigarGoesOn, Check, Locked, At
    <3>5. CASE Lock(r)
      <4>1. /\ call'[r].pc = "claim" /\ call[r].pc = "claim" /\ call'[r].plan = call[r].plan
            /\ call'[r].locks = call[r].locks \union {Wanted(r)}
        BY <1>0, <3>5 DEF Lock, Become, At, CallRow
      <4>2. QED  BY <2>1, <2>2, <2>4, <3>1, <4>1 DEF Registers, At
    <3>6. CASE GoesOn(r)  BY <2>1, <2>2, <2>4, <3>6 DEF GoesOn, Registers, At
    <3>7. CASE FindsNone(r)  BY <2>1, <2>2, <2>4, <3>7 DEF FindsNone, Registers, At
    <3>8. QED  BY <3>3, <3>4, <3>5, <3>6, <3>7, CallCases
  <2>5. QED  BY <2>3, <2>4
<1>3. ASSUME NEW y \in Rows, Minted(r, y)
      PROVE  (Registers(r))' /\ \A k \in reg'[y].keys : <<reg'[y].level, k>> \in call'[r].locks
  <2>1. /\ Mint(r) /\ call[r].pc = "claim" /\ call[r].claim = {} /\ call[r].plan # <<>>
        /\ reg'[y].level = LevelOf(r) /\ reg'[y].keys = ItemKeys(r)
    BY <1>3 DEF Minted, Mint, Locked, At
  <2>2. call'[r].pc = "find" /\ call'[r].locks = call[r].locks
    BY <1>0, <2>1, ZenonT(60) DEF Mint, Rest, Become, CallRow
  <2>3. \A k \in ItemKeys(r) : <<LevelOf(r), k>> \in call[r].locks
    BY <2>1 DEF LocksCover, Claims
  <2>4. QED  BY <2>1, <2>2, <2>3 DEF Registers, At
<1>4. ASSUME NEW y \in Rows, NEW q \in Requests, reg'[y].by = q
      PROVE  (Registers(q))' /\ \A k \in reg'[y].keys : <<reg'[y].level, k>> \in call'[q].locks
  <2>1. reg'[y] # Blank  BY <1>0, <1>4 DEF Blank
  <2>2. ~Written(r, y)  BY <1>0, <1>4 DEF Written, Stored
  <2>3. Minted(r, y) => q = r  BY <1>4 DEF Minted
  <2>4. QED  BY <1>2, <1>3, <1>4, <2>1, <2>2, <2>3, RowCases
<1>5. QED  BY <1>4 DEF MintsLocked

\* What is looked up with the locks in hand is free of every row, those of open
\* registrations included.
LEMMA FreeOfAll ==
  ASSUME Typed, LocksApart, LocksCover, MintsLocked, NEW r \in Requests, Locked(r),
         NEW x, NEW under, Free(r, x, LevelOf(r), under, Claims(r)),
         NEW y \in Rows, y # x, reg[y].level = LevelOf(r), reg[y].under = under,
         reg[y].level # "none"
  PROVE  reg[y].keys \intersect Claims(r) = {}
<1>1. CASE y \in Visible(r)
  BY <1>1 DEF Free, InScope
<1>2. CASE y \notin Visible(r)
  <2>1. reg[y].by \in Requests /\ reg[y].by # r
    BY <1>2 DEF Visible, Typed, RegistryRow
  <2>2. \A k \in reg[y].keys : <<LevelOf(r), k>> \in call[reg[y].by].locks
    BY <2>1 DEF MintsLocked
  <2>3. \A k \in Claims(r) : <<LevelOf(r), k>> \in call[r].locks
    BY DEF Locked, At, LocksCover
  <2>4. QED  BY <2>1, <2>2, <2>3 DEF LocksApart
<1>3. QED  BY <1>1, <1>2

KeysInv ==
  LocksCover /\ MintsLocked /\ OwnKeyKept /\ KeysApart /\ EditsCurrent /\ FreeStays

\* A row keeps the key of its name, through edits and renames.
LEMMA OwnKeyStep ==
  ASSUME TypedInv, KeysInv, NEW r \in Requests, Noting(r)
  PROVE  OwnKeyKept'
<1>0. Step(r) /\ raced \subseteq raced'  BY DEF Noting
<1> SUFFICES ASSUME NEW x \in Rows, x \notin raced', reg'[x].level # "none"
             PROVE  Fold[reg'[x].name] \in reg'[x].keys
  BY DEF OwnKeyKept
<1>1. CASE Kept(x)  BY <1>0, <1>1 DEF Kept, KeysInv, OwnKeyKept
<1>2. CASE Minted(r, x)  BY <1>2 DEF Minted
<1>3. CASE Written(r, x)
  <2>1. /\ Fold[reg[x].name] \in call[r].keys
        /\ call[r].name # NoName => Fold[call[r].name] \in call[r].keys
    BY <1>0, <1>3 DEF Written, KeysInv, EditsCurrent
  <2>2. QED  BY <1>3, <2>1 DEF Written
<1>4. QED  BY <1>0, <1>1, <1>2, <1>3, RowCases DEF TypedInv, Blank

\* Unless two edits of a row race, what one has read stays so.
LEMMA EditsCurrentStep ==
  ASSUME TypedInv, KeysInv, NEW r \in Requests, Noting(r)
  PROVE  EditsCurrent'
<1>0. /\ Step(r) /\ raced \subseteq raced' /\ Typed /\ CallsFit /\ CigarsFiled
      /\ Racing \subseteq raced /\ Alone(r) /\ call[r] \in CallRow
      /\ call \in [Requests -> CallRow] /\ CallsFit'
  BY CallStep, ShapeStep DEF Noting, TypedInv, Noticed, Typed
<1> SUFFICES ASSUME NEW q \in Requests, (Editing(q))', call'[q].row \notin raced'
             PROVE  LET x == call'[q].row IN
                    /\ call'[q].keys \subseteq reg'[x].keys \union call'[q].add
                    /\ Fold[reg'[x].name] \in call'[q].keys
                    /\ call'[q].name # NoName => Fold[call'[q].name] \in call'[q].keys
  BY DEF EditsCurrent
<1> DEFINE x == call'[q].row
<1>1. ASSUME x \in Stored, Editing(q), call[q].row = x, reg'[x].keys = reg[x].keys,
             reg'[x].name = reg[x].name,
             call'[q].keys = call[q].keys, call'[q].add = call[q].add, call'[q].name = call[q].name
      PROVE  /\ call'[q].keys \subseteq reg'[x].keys \union call'[q].add
             /\ Fold[reg'[x].name] \in call'[q].keys
             /\ call'[q].name # NoName => Fold[call'[q].name] \in call'[q].keys
  BY <1>0, <1>1 DEF KeysInv, EditsCurrent
<1>2. CASE q # r
  <2>1. call'[q] = call[q]  BY <1>0, <1>2 DEF Alone
  <2>2. Editing(q) /\ x = call[q].row /\ x \in Stored
    BY <1>0, <2>1 DEF Editing, CallsFit, Shape
  <2>3. ~Written(r, x)
    <3>1. ASSUME Written(r, x) PROVE x \in Racing
      <4>1. Editing(r) /\ call[r].row = x  BY <3>1 DEF Written
      <4>2. QED  BY <1>2, <2>2, <4>1 DEF Racing, Edits, Editing, Stored
    <3>2. QED  BY <1>0, <3>1
  <2>4. Kept(x)  BY <1>0, <2>2, <2>3, StoredCases
  <2>5. QED  BY <1>1, <2>1, <2>2, <2>4 DEF Kept
<1>3. CASE q = r
  <2>1. ~(call'[r] = Idle) /\ ~StartsPlan(r) /\ ~GoesOn(r) /\ ~CigarGoesOn(r)
    BY <1>3 DEF Editing, Idle, StartsPlan, GoesOn, CigarGoesOn
  <2>2. CASE StartsEdit(r) /\ UNCHANGED reg
    <3>1. x \in Stored /\ x \in Rows \ raced  BY <1>0, <1>3, <2>2 DEF StartsEdit, Stored
    <3>2. Fold[reg[x].name] \in reg[x].keys
      BY <3>1 DEF KeysInv, OwnKeyKept, Stored
    <3>3. QED  BY <1>3, <2>2, <3>2 DEF StartsEdit
  <2>3. CASE Lock(r) /\ UNCHANGED reg
    <3>1. /\ call[r].pc = "claim" /\ call'[r].plan = call[r].plan /\ call'[r].row = call[r].row
          /\ call'[r].keys = call[r].keys /\ call'[r].add = call[r].add
          /\ call'[r].name = call[r].name
      BY <1>0, <2>3 DEF Lock, Become, At, CallRow
    <3>2. Editing(r)  BY <1>3, <3>1 DEF Editing
    <3>3. x \in Stored  BY <1>0, <1>3, <3>1, <3>2 DEF CallsFit, Shape
    <3>4. QED  BY <1>1, <1>3, <2>3, <3>1, <3>2, <3>3
  <2>4. CASE FindsNone(r)
    BY <1>3, <2>4 DEF FindsNone, Editing
  <2>5. CASE EditGoesOn(r) /\ UNCHANGED reg
    <3>1. Editing(r) /\ call[r].row = x
      BY <1>3, <2>5 DEF EditGoesOn, Check, Locked, At, Editing
    <3>2. x \in Stored  BY <1>0, <3>1 DEF CallsFit, Shape
    <3>3. QED  BY <1>1, <1>3, <2>5, <3>1, <3>2 DEF EditGoesOn
  <2>6. QED  BY <1>0, <2>1, <2>2, <2>3, <2>4, <2>5, CallCases
<1>4. QED  BY <1>2, <1>3

\* Nobody claims a key under another's lock.
LEMMA FreeStaysStep ==
  ASSUME TypedInv, KeysInv, NEW r \in Requests, Noting(r)
  PROVE  FreeStays'
<1>0. /\ Step(r) /\ raced \subseteq raced' /\ Typed /\ CallsFit /\ CigarsFiled /\ LocksApart
      /\ Alone(r) /\ call[r] \in CallRow /\ call \in [Requests -> CallRow]
      /\ LocksCover /\ MintsLocked /\ RowsKept
  BY CallStep, RowsStep DEF Noting, TypedInv, Typed, KeysInv
<1> SUFFICES ASSUME NEW q \in Requests, call'[q].pc \in {"free", "compose", "leaf"},
                    NEW y \in Rows, y \notin raced', y # call'[q].row,
                    SameScope(call[q].row, y)'
             PROVE  reg'[y].keys \intersect call'[q].add = {}
  BY DEF FreeStays
<1> DEFINE x == call'[q].row
\* The call before the step.
<1>1. /\ call[q].pc \in {"claim", "free", "compose", "leaf"} /\ call[q].plan = <<>>
      /\ call[q].row = x /\ call[q].add = call'[q].add /\ call[q].claim = {}
      /\ call[q].pc = "claim" => q = r /\ Check(r) /\ UNCHANGED reg
  <2>1. CASE q # r
    <3>1. call'[q] = call[q]  BY <1>0, <2>1 DEF Alone
    <3>2. QED  BY <1>0, <3>1 DEF CallsFit, Shape, At
  <2>2. CASE q = r
    <3>1. EditGoesOn(r) /\ UNCHANGED reg
      <4>1. Lock(r) => call'[r].pc = "claim"  BY <1>0 DEF Lock, Become, At, CallRow
      <4>2. QED
        BY <1>0, <2>2, <4>1, CallCases DEF Idle, StartsPlan, StartsEdit, GoesOn, FindsNone, CigarGoesOn
    <3>2. QED  BY <2>2, <3>1 DEF EditGoesOn, Check, Locked, At
  <2>3. QED  BY <2>1, <2>2
<1>2. /\ x \in Stored /\ LevelOf(q) = reg[x].level /\ Claims(q) = call'[q].add
      /\ reg'[x].level = reg[x].level /\ reg'[x].under = reg[x].under /\ x \in Rows
  BY <1>0, <1>1 DEF CallsFit, Shape, Editing, LevelOf, Claims, RowsKept, Stored
<1>3. \A k \in call'[q].add : <<reg[x].level, k>> \in call[q].locks
  BY <1>0, <1>1, <1>2 DEF LocksCover
<1>4. reg'[y].level = reg[x].level /\ reg'[y].under = reg[x].under /\ reg[x].level # "none"
  BY <1>2 DEF SameScope, Stored
<1>5. ASSUME reg[y].level = reg[x].level, reg[y].under = reg[x].under
      PROVE  reg[y].keys \intersect call'[q].add = {}
  <2>1. CASE call[q].pc = "claim"
    <3>1. Locked(q) /\ Free(q, x, LevelOf(q), reg[x].under, Claims(q))
      BY <1>1, <1>2, <2>1 DEF Check
    <3>2. QED  BY <1>0, <1>2, <1>4, <1>5, <3>1, FreeOfAll
  <2>2. CASE call[q].pc # "claim"
    <3>1. SameScope(x, y)  BY <1>4, <1>5 DEF SameScope
    <3>2. QED  BY <1>0, <1>1, <2>2, <3>1 DEF KeysInv, FreeStays
  <2>3. QED  BY <2>1, <2>2
<1>6. CASE Kept(y)  BY <1>4, <1>5, <1>6 DEF Kept
<1>7. CASE Minted(r, y)
  <2>1. q # r  BY <1>1, <1>7 DEF Minted, Mint
  <2>2. reg'[y].keys = Claims(r) /\ LevelOf(r) = reg[x].level
    BY <1>4, <1>7 DEF Minted, Mint, Claims
  <2>3. \A k \in Claims(r) : <<reg[x].level, k>> \in call[r].locks
    BY <1>0, <1>7, <2>2 DEF Minted, Mint, Locked, At, LocksCover
  <2>4. QED  BY <1>0, <1>3, <2>1, <2>2, <2>3 DEF LocksApart
<1>8. CASE Written(r, y)
  <2>1. /\ q # r /\ reg[y].level = reg[x].level /\ reg[y].under = reg[x].under
        /\ Editing(r) /\ call[r].row = y /\ call[r].pc \in {"free", "compose"}
        /\ reg'[y].keys = call[r].keys /\ y \notin raced
    BY <1>0, <1>1, <1>4, <1>8 DEF Written
  <2>2. call[r].keys \subseteq reg[y].keys \union call[r].add
    BY <2>1 DEF KeysInv, EditsCurrent
  <2>3. \A k \in call[r].add : <<reg[x].level, k>> \in call[r].locks
    <3>1. /\ Claims(r) = call[r].add /\ call[r].claim = {} /\ LevelOf(r) = reg[x].level
      BY <1>0, <2>1 DEF Claims, CallsFit, Shape, At, Editing, LevelOf
    <3>2. QED  BY <1>0, <2>1, <3>1 DEF LocksCover
  <2>4. call'[q].add \intersect call[r].add = {}  BY <1>0, <1>3, <2>1, <2>3 DEF LocksApart
  <2>5. QED  BY <1>5, <2>1, <2>2, <2>4
<1>9. reg'[y] # Blank  BY <1>4 DEF Blank
<1>10. QED  BY <1>0, <1>6, <1>7, <1>8, <1>9, RowCases

\* So no two rows of a scope come to share a key.
LEMMA KeysApartStep ==
  ASSUME TypedInv, KeysInv, NEW r \in Requests, Noting(r)
  PROVE  KeysApart'
<1>0. /\ Step(r) /\ raced \subseteq raced' /\ Typed /\ CallsFit /\ CigarsFiled /\ LocksApart
      /\ LocksCover /\ MintsLocked
  BY DEF Noting, TypedInv, KeysInv
\* One of the two rows is minted or written, and the other stays.
<1>1. ASSUME NEW x \in Rows, NEW y \in Rows, x \notin raced, y \notin raced, x # y,
             SameScope(x, y)', Minted(r, x), Kept(y)
      PROVE  reg'[x].keys \intersect reg'[y].keys = {}
  <2> DEFINE z == CHOOSE u \in Unused : TRUE
  <2>1. /\ Locked(r) /\ call[r].plan # <<>> /\ x = z /\ reg'[x].keys = Claims(r)
        /\ reg'[x].level = LevelOf(r) /\ reg'[x].under = Under(r)
        /\ Free(r, z, LevelOf(r), Under(r), Claims(r))
    BY <1>1 DEF Minted, Mint, Claims, LevelOf
  <2> HIDE DEF z
  <2>2. /\ reg[y].level = LevelOf(r) /\ reg[y].under = Under(r) /\ reg[y].level # "none"
        /\ reg'[y].keys = reg[y].keys
    BY <1>1, <2>1 DEF SameScope, Kept
  <2>3. reg[y].keys \intersect Claims(r) = {}
    BY <1>0, <1>1, <2>1, <2>2, FreeOfAll
  <2>4. QED  BY <2>1, <2>2, <2>3
<1>2. ASSUME NEW x \in Rows, NEW y \in Rows, x \notin raced, y \notin raced, x # y,
             SameScope(x, y)', Written(r, x), Kept(y)
      PROVE  reg'[x].keys \intersect reg'[y].keys = {}
  <2>1. /\ x = call[r].row /\ Editing(r) /\ call[r].pc \in {"free", "compose"}
        /\ reg'[x].keys = call[r].keys /\ reg'[y].keys = reg[y].keys /\ SameScope(x, y)
    BY <1>2 DEF Written, Kept, SameScope
  <2>2. call[r].keys \subseteq reg[x].keys \union call[r].add
    BY <1>2, <2>1 DEF KeysInv, EditsCurrent
  <2>3. reg[y].keys \intersect call[r].add = {}
    BY <1>2, <2>1 DEF KeysInv, FreeStays
  <2>4. reg[x].keys \intersect reg[y].keys = {}
    BY <1>2, <2>1 DEF KeysInv, KeysApart
  <2>5. QED  BY <2>1, <2>2, <2>3, <2>4
<1>3. ASSUME NEW x \in Rows, NEW y \in Rows, x \notin raced, y \notin raced, x # y,
             SameScope(x, y)', Kept(x), Kept(y)
      PROVE  reg'[x].keys \intersect reg'[y].keys = {}
  BY <1>3 DEF Kept, SameScope, KeysInv, KeysApart
<1>4. ASSUME NEW x \in Rows, NEW y \in Rows, x \notin raced', y \notin raced', x # y,
             SameScope(x, y)'
      PROVE  reg'[x].keys \intersect reg'[y].keys = {}
  <2>1. reg'[x] # Blank /\ reg'[y] # Blank /\ SameScope(y, x)'
    BY <1>4 DEF SameScope, Blank
  <2>2. /\ Kept(x) \/ Minted(r, x) \/ Written(r, x)
        /\ Kept(y) \/ Minted(r, y) \/ Written(r, y)
    BY <1>0, <2>1, RowCases
  <2>3. ~(Minted(r, x) /\ Minted(r, y)) /\ ~(Written(r, x) /\ Written(r, y))
    BY <1>4 DEF Minted, Written
  <2>4. ~(Minted(r, x) /\ Written(r, y)) /\ ~(Written(r, x) /\ Minted(r, y))
    BY DEF Minted, Written, Mint, Editing
  <2>5. x \notin raced /\ y \notin raced  BY <1>0, <1>4
  <2>6. CASE Kept(y)
    BY <1>1, <1>2, <1>3, <1>4, <2>2, <2>5, <2>6
  <2>7. CASE ~Kept(y)
    <3>1. Kept(x) /\ (Minted(r, y) \/ Written(r, y))  BY <2>2, <2>3, <2>4, <2>7
    <3>2. reg'[y].keys \intersect reg'[x].keys = {}
      BY <1>1, <1>2, <1>4, <2>1, <2>5, <3>1
    <3>3. QED  BY <3>2
  <2>8. QED  BY <2>6, <2>7
<1>5. QED  BY <1>4 DEF KeysApart

\* The inductive invariant of matching keys: a claim's locks stand between its check and its
\* write.
THEOREM KeysHold == Spec => []KeysInv
<1>1. Init => KeysInv
  <2> SUFFICES ASSUME Init PROVE KeysInv  OBVIOUS
  <2>1. PICK seed \in Seeds : reg = seed.reg /\ cigar = seed.cigar  BY DEF Init
  <2>2. InOrder(reg, cigar)  BY <2>1, SeedsAssumption
  <2>3. \A q \in Requests : call[q].pc = "idle" /\ call[q] = Idle  BY DEF Init, Idle
  <2>4. LocksCover /\ EditsCurrent /\ FreeStays
    BY <2>3 DEF LocksCover, EditsCurrent, FreeStays, Editing
  <2>5. MintsLocked
    BY <2>2, SentinelAssumption DEF InOrder, Blank, MintsLocked
  <2>6. OwnKeyKept  BY <2>2 DEF InOrder, Blank, OwnKeyKept
  <2>7. KeysApart  BY <2>2 DEF InOrder, KeysApart, SameScope
  <2>8. QED  BY <2>4, <2>5, <2>6, <2>7 DEF KeysInv
<1>2. ASSUME TypedInv, KeysInv, [Next]_vars PROVE KeysInv'
  <2>1. CASE UNCHANGED vars
    BY <1>2, <2>1 DEF vars, KeysInv, LocksCover, MintsLocked, OwnKeyKept, KeysApart, EditsCurrent,
       FreeStays, Claims, ItemKeys, LevelOf, Registers, Editing, At, SameScope
  <2>2. CASE Next
    <3>1. PICK r \in Requests : Noting(r)  BY <2>2 DEF Next, Noting
    <3>2. Step(r) /\ Typed /\ CallsFit /\ CigarsFiled /\ LocksCover /\ MintsLocked
      BY <1>2, <3>1 DEF Noting, TypedInv, KeysInv
    <3>3. LocksCover' /\ MintsLocked'  BY <3>2, LocksCoverStep, MintsLockedStep
    <3>4. OwnKeyKept' /\ KeysApart' /\ EditsCurrent' /\ FreeStays'
      BY <1>2, <3>1, OwnKeyStep, KeysApartStep, EditsCurrentStep, FreeStaysStep
    <3>5. QED  BY <3>3, <3>4 DEF KeysInv
  <2>3. QED  BY <1>2, <2>1, <2>2
<1>3. QED  BY <1>1, <1>2, TypesHold, PTL DEF Spec

\* A spelling leads to one row of its scope, whatever registrations, edits and renames
\* overlap, but for rows that two edits were at.
THEOREM SpellingsLeadToOneRow == Spec => []KeysResolve
<1>1. KeysInv => KeysResolve
  BY DEF KeysInv, OwnKeyKept, KeysApart, SameScope, KeysResolve, Stored
<1>2. QED  BY KeysHold, <1>1, PTL

-----------------------------------------------------------------------------
(* The cigars agree with the registry.                                      *)

\* A rename has written nothing before it has its row.
NoneWritten == \A r \in Requests : ~Renaming(r) => call[r].wrote = {}
LeavesInv == NoneWritten /\ Moved /\ RenamesReach /\ LeavesAgree

\* Two calls that are near a cigar tear it.
LEMMA NotBothNear ==
  ASSUME TypedInv, NEW p \in Requests, NEW q \in Requests, p # q, NEW c \in Cigars \ torn
  PROVE  ~(Near(p, c) /\ Near(q, c))
BY DEF TypedInv, Noticed, Tearing

\* A rename is near the cigars below its row, and those that a call would put there.
LEMMA RenameNear ==
  ASSUME TypedInv, NEW q \in Requests, Renaming(q), NEW c \in Cigars
  PROVE  /\ Below(q, c) => Near(q, c)
         /\ \A p \in Requests :
              call[p].cigar = c /\ call[q].row \in {call[p].next.brand, call[p].next.line} => Near(q, c)
<1> DEFINE x == call[q].row
<1>1. /\ x \in Rows /\ Renames(q, x)
  BY SentinelAssumption DEF TypedInv, CallsFit, Shape, Renaming, Editing, Renames, Edits, Stored
<1>2. Below(q, c) => x \in PartsInPlay(c)  BY DEF Below, PartsInPlay
<1>3. \A p \in Requests : call[p].cigar = c /\ x \in {call[p].next.brand, call[p].next.line}
        => x \in PartsInPlay(c)
  BY DEF PartsInPlay, Moves
<1> HIDE DEF x
<1>4. x \in PartsInPlay(c) => Near(q, c)  BY <1>1 DEF Near
<1>5. QED  BY <1>2, <1>3, <1>4 DEF x

\* Names change by a rename alone.
LEMMA NamesStep ==
  ASSUME TypedInv, NEW r \in Requests, Step(r), NEW x \in Stored
  PROVE  /\ reg'[x].under = reg[x].under
         /\ \/ reg'[x].name = reg[x].name
            \/ Renamed(r) /\ x = call[r].row /\ reg'[x].name = call[r].name
<1>1. Kept(x) \/ Written(r, x)  BY StoredCases DEF TypedInv
<1>2. QED  BY <1>1 DEF Kept, Written

\* What a step can do to a cigar.
LEMMA CigarCases ==
  ASSUME TypedInv, NEW r \in Requests, Step(r), NEW c \in Cigars
  PROVE  \/ cigar'[c] = cigar[c]
         \/ /\ Assigned(r) /\ c = call[r].cigar /\ cigar'[c] = call[r].next
            /\ UNCHANGED reg
         \/ /\ Renamed(r)
            /\ \E w \in call[r].wrote : w[1] = c /\ cigar'[c] = [cigar[c] EXCEPT !.name = w[2]]
<1>0. cigar \in [Cigars -> CigarRow]  BY DEF TypedInv, Typed
<1>1. CASE Assigned(r)  BY <1>0, <1>1 DEF Assigned
<1>2. CASE Renamed(r)
  <2> DEFINE w == CHOOSE v \in call[r].wrote : v[1] = c
  <2>1. CASE \E v \in call[r].wrote : v[1] = c
    <3>1. w \in call[r].wrote /\ w[1] = c  BY <2>1
    <3> HIDE DEF w
    <3>2. cigar'[c] = [cigar[c] EXCEPT !.name = w[2]]  BY <1>2, <2>1 DEF Renamed, w
    <3>3. QED  BY <1>2, <3>1, <3>2
  <2>2. CASE ~\E v \in call[r].wrote : v[1] = c  BY <1>2, <2>2 DEF Renamed
  <2>3. QED  BY <2>1, <2>2
<1>3. Start(r) => UNCHANGED cigar  BY StartKeeps
<1>4. (\E d \in Cigars : ReadLeaf(r, d)) => UNCHANGED cigar  BY DEF ReadLeaf
<1>5. UNCHANGED cigar \/ Assigned(r) \/ Renamed(r)
  BY <1>3, <1>4
  DEF Step, Lock, Find, Mint, Registered, Check, WriteKeys, WriteName, WriteLeaf, Write, Fail
<1>6. QED  BY <1>1, <1>2, <1>5

\* What a row is called stays unless one of its parts is renamed.
LEMMA CalledKept ==
  ASSUME TypedInv, NEW r \in Requests, Step(r), NEW row \in CigarRow, PartsStored(row)
  PROVE  /\ row.line # NoRow => reg'[row.line].under = reg[row.line].under
         /\ \/ Called(reg', row) = Called(reg, row)
            \/ Renamed(r) /\ call[r].row \in {row.brand, row.line}
<1>1. /\ row.brand # NoRow => row.brand \in Stored
      /\ row.line # NoRow => row.line \in Stored
  BY DEF PartsStored, StoredAt
<1>2. QED  BY <1>1, NamesStep DEF Called

\* With the rename of a part, a row is called what the rename saw it as.
LEMMA CalledRenamed ==
  ASSUME TypedInv, NEW r \in Requests, Step(r), Renamed(r), NEW row \in CigarRow, PartsStored(row)
  PROVE  Called(reg', row) = View(r, row)
<1>1. /\ row.brand # NoRow => row.brand \in Stored
      /\ row.line # NoRow => row.line \in Stored
  BY DEF PartsStored, StoredAt
<1>2. \A x \in Stored : reg'[x].name = IF x = call[r].row THEN call[r].name ELSE reg[x].name
  BY NamesStep DEF Renamed, TypedInv, Typed, RegistryRow, Stored
<1>3. QED  BY <1>1, <1>2 DEF Called, View

\* Only a rename writes names.
LEMMA NoneWrittenStep ==
  ASSUME TypedInv, NoneWritten, NEW r \in Requests, Step(r)
  PROVE  NoneWritten'
<1>0. /\ Alone(r) /\ call[r] \in CallRow /\ call \in [Requests -> CallRow]
      /\ Typed /\ CallsFit /\ CigarsFiled
  BY CallStep DEF TypedInv, Typed
<1>1. \A q \in Requests \ {r} : call'[q] = call[q]  BY <1>0 DEF Alone
<1>2. call'[r].pc \notin {"compose", "leaf"} => call'[r].wrote = {}
  <2>1. CASE call'[r] = Idle  BY <2>1 DEF Idle
  <2>2. CASE StartsPlan(r) \/ StartsEdit(r)  BY <2>2 DEF StartsPlan, StartsEdit
  <2>3. CASE GoesOn(r) \/ FindsNone(r) \/ CigarGoesOn(r)
    <3>1. call[r].pc \notin {"compose", "leaf"}  BY <2>3 DEF GoesOn, FindsNone, CigarGoesOn
    <3>2. call[r].wrote = {}  BY <3>1 DEF NoneWritten, Renaming
    <3>3. QED  BY <2>3, <3>2 DEF GoesOn, FindsNone, CigarGoesOn
  <2>4. CASE Lock(r) \/ Check(r)
    <3>1. call[r].pc = "claim" /\ call'[r].wrote = call[r].wrote
      <4>1. CASE Lock(r)  BY <1>0, <4>1 DEF Lock, Become, At, CallRow
      <4>2. CASE Check(r)  BY <1>0, <4>2 DEF Check, Locked, Become, At, CallRow
      <4>3. QED  BY <2>4, <4>1, <4>2
    <3>2. QED  BY <3>1 DEF NoneWritten, Renaming
  <2>5. CASE EditGoesOn(r)  BY <2>4, <2>5 DEF EditGoesOn
  <2>6. QED  BY <1>0, <2>1, <2>2, <2>3, <2>4, <2>5, CallCases
<1>3. QED  BY <1>1, <1>2 DEF NoneWritten, Renaming

\* Cigars agree with the registry after each commit.
LEMMA AgreeStep ==
  ASSUME TypedInv, LeavesInv, NEW r \in Requests, Noting(r)
  PROVE  LeavesAgree'
<1>0. /\ Step(r) /\ torn \subseteq torn' /\ Shape(r) /\ cigar \in [Cigars -> CigarRow]
  BY DEF Noting, TypedInv, CallsFit, Typed
<1> SUFFICES ASSUME NEW c \in Cigars, c \notin torn'
             PROVE  /\ cigar'[c].line # NoRow => cigar'[c].brand = reg'[cigar'[c].line].under
                    /\ cigar'[c].composed /\ Called(reg', cigar'[c]) # NoParts =>
                         cigar'[c].name = Called(reg', cigar'[c])
  BY DEF LeavesAgree
<1>1. /\ c \notin torn /\ cigar[c] \in CigarRow /\ PartsStored(cigar[c])
      /\ cigar[c].line # NoRow => cigar[c].brand = reg[cigar[c].line].under
      /\ cigar[c].composed /\ Called(reg, cigar[c]) # NoParts =>
           cigar[c].name = Called(reg, cigar[c])
  BY <1>0 DEF LeavesInv, LeavesAgree, TypedInv, CigarsFiled
<1>2. cigar[c].line # NoRow => reg'[cigar[c].line].under = reg[cigar[c].line].under
  BY <1>0, <1>1, CalledKept
<1>3. CASE Assigned(r) /\ c = call[r].cigar /\ cigar'[c] = call[r].next /\ UNCHANGED reg
  <2>1. Agrees(call[r].next)
    BY <1>1, <1>3, SentinelAssumption DEF LeavesInv, Moved, Assigned
  <2>2. QED  BY <1>3, <2>1 DEF Agrees
<1>4. ASSUME Renamed(r), NEW w \in call[r].wrote, w[1] = c,
             cigar'[c] = [cigar[c] EXCEPT !.name = w[2]]
      PROVE  /\ cigar'[c].line # NoRow => cigar'[c].brand = reg'[cigar'[c].line].under
             /\ cigar'[c].name = Called(reg', cigar'[c])
  <2>1. /\ cigar'[c].brand = cigar[c].brand /\ cigar'[c].line = cigar[c].line
        /\ cigar'[c].text = cigar[c].text /\ cigar'[c].name = w[2]
    BY <1>1, <1>4 DEF CigarRow
  <2>2. w[2] = View(r, cigar[c])
    BY <1>1, <1>4 DEF LeavesInv, RenamesReach, Done, Renaming, Renamed, At
  <2>3. Called(reg', cigar[c]) = View(r, cigar[c])  BY <1>0, <1>1, <1>4, CalledRenamed
  <2>4. Called(reg', cigar'[c]) = Called(reg', cigar[c])  BY <2>1 DEF Called
  <2>5. QED  BY <1>1, <1>2, <2>1, <2>2, <2>3, <2>4
<1>5. CASE cigar'[c] = cigar[c]
  <2>1. CASE Called(reg', cigar[c]) = Called(reg, cigar[c])
    BY <1>1, <1>2, <1>5, <2>1
  <2>2. CASE Renamed(r) /\ call[r].row \in {cigar[c].brand, cigar[c].line}
    <3>1. Called(reg', cigar[c]) = View(r, cigar[c])  BY <1>0, <1>1, <2>2, CalledRenamed
    <3>2. /\ Renaming(r) /\ Below(r, c) /\ call[r].leaves = {} /\ ~At(r, "leaf")
      BY <2>2 DEF Renamed, Renaming, Below, At
    <3>3. CASE \E w \in Done(r) : w[1] = c
      <4>1. PICK w \in call[r].wrote : w[1] = c  BY <3>2, <3>3 DEF Done
      <4>2. w[2] = View(r, cigar[c])  BY <1>1, <3>2, <4>1 DEF LeavesInv, RenamesReach, Done
      <4>3. \A v \in call[r].wrote : v[1] = c => v[2] = View(r, cigar[c])
        BY <1>1, <3>2 DEF LeavesInv, RenamesReach, Done
      <4>4. cigar'[c] = [cigar[c] EXCEPT !.name = (CHOOSE v \in call[r].wrote : v[1] = c)[2]]
        BY <2>2, <4>1 DEF Renamed
      <4>5. (CHOOSE v \in call[r].wrote : v[1] = c) \in call[r].wrote
            /\ (CHOOSE v \in call[r].wrote : v[1] = c)[1] = c
        BY <4>1
      <4>6. cigar'[c].name = View(r, cigar[c])  BY <1>1, <4>3, <4>4, <4>5 DEF CigarRow
      <4>7. QED  BY <1>1, <1>2, <1>5, <3>1, <4>6
    <3>4. CASE ~\E w \in Done(r) : w[1] = c
      <4>1. cigar[c].composed => cigar[c].name = View(r, cigar[c])
        BY <1>1, <3>2, <3>4 DEF LeavesInv, RenamesReach
      <4>2. QED  BY <1>1, <1>2, <1>5, <3>1, <4>1
    <3>5. QED  BY <3>3, <3>4
  <2>3. QED  BY <1>0, <1>1, <2>1, <2>2, CalledKept
<1>6. CASE /\ Renamed(r)
           /\ \E w \in call[r].wrote : w[1] = c /\ cigar'[c] = [cigar[c] EXCEPT !.name = w[2]]
  <2>1. PICK w \in call[r].wrote : w[1] = c /\ cigar'[c] = [cigar[c] EXCEPT !.name = w[2]]
    BY <1>6
  <2>2. QED  BY <1>4, <1>6, <2>1
<1>7. QED  BY <1>0, <1>3, <1>5, <1>6, CigarCases

\* What a call that has begun to change a cigar does next.
StartsMove(r) ==
  LET c == call'[r].cigar
      next == call'[r].next
  IN
  /\ call'[r].pc = "assign" /\ Ancestry(next)
  /\ \A f \in DOMAIN Unfiled \ call'[r].sets : next[f] = cigar[c][f]

\* What a call that moves a cigar can do before its commit.
LEMMA MoveCases ==
  ASSUME TypedInv, NEW r \in Requests, Step(r), call'[r].cigar # NoCigar
  PROVE  UNCHANGED <<reg, cigar>> /\ (StartsMove(r) \/ Write(r))
<1>0. /\ Alone(r) /\ call[r] \in CallRow /\ call \in [Requests -> CallRow]
      /\ Typed /\ CallsFit /\ CigarsFiled /\ CallsFit' /\ cigar \in [Cigars -> CigarRow]
  BY CallStep, ShapeStep DEF TypedInv, Typed
<1>1. call'[r].pc \in {"assign", "assigned"}  BY <1>0 DEF CallsFit, Shape
<1>2. CigarGoesOn(r)
  <2>1. Lock(r) => call'[r].pc = "claim"  BY <1>0 DEF Lock, Become, At, CallRow
  <2>2. EditGoesOn(r) => call'[r].pc \notin {"assign", "assigned"}
    BY <1>0 DEF EditGoesOn, Check, Become, CallRow
  <2>3. QED
    BY <1>0, <1>1, <2>1, <2>2, CallCases DEF Idle, StartsPlan, StartsEdit, GoesOn, FindsNone
<1>3. Start(r) \/ Write(r)
  <2>1. call[r].pc \in {"idle", "assign"}  BY <1>2 DEF CigarGoesOn
  <2>2. ~Fail(r)
    BY <1>0, <1>1 DEF Fail, Become, Idle
  <2>3. \A c \in Cigars : ~ReadLeaf(r, c)  BY <2>1 DEF ReadLeaf, At
  <2>4. QED
    BY <2>1, <2>2, <2>3 DEF Step, Lock, Find, Mint, Registered, Check, WriteKeys, WriteName, WriteLeaf,
       Renamed, Assigned, Locked, At
<1>4. ASSUME NEW c \in Cigars, NEW next \in CigarRow, NEW sets, Apply(r, c, next, sets),
             \A f \in DOMAIN Unfiled \ sets : next[f] = cigar[c][f]
      PROVE  StartsMove(r)
  <2>1. /\ call'[r].pc = "assign" /\ call'[r].cigar = c /\ call'[r].next = next
        /\ call'[r].sets = sets /\ Ancestry(next)
    BY <1>0, <1>4 DEF Apply, Begin, Idle
  <2>2. QED  BY <1>4, <2>1 DEF StartsMove
<1>5. ASSUME NEW c \in Cigars, NEW brand \in StoredAt("brand") \union {NoRow},
             NEW line \in StoredAt("line") \union {NoRow}, NEW text \in Names \union {NoName},
             NEW composed \in BOOLEAN, Assign(r, c, brand, line, text, composed)
      PROVE  StartsMove(r)
  <2> DEFINE next == [cigar[c] EXCEPT !.brand = brand, !.line = line, !.text = text,
                                      !.composed = composed]
             sets == {f \in DOMAIN next : next[f] # cigar[c][f]}
  <2>1. cigar[c] \in CigarRow /\ brand \in Rows \union {NoRow} /\ line \in Rows \union {NoRow}
    BY <1>0 DEF StoredAt, Stored
  <2>2. next \in CigarRow  BY <2>1 DEF CigarRow
  <2>3. DOMAIN next = DOMAIN Unfiled  BY <2>2 DEF CigarRow, Unfiled
  <2> HIDE DEF next
  <2>4. \A f \in DOMAIN Unfiled \ sets : next[f] = cigar[c][f]  BY <2>3
  <2> HIDE DEF sets
  <2>5. Apply(r, c, next, sets)  BY <1>5 DEF Assign, next, sets
  <2>6. QED  BY <1>4, <2>2, <2>4, <2>5
<1>6. ASSUME NEW c \in Cigars, NEW text \in Names \union {NoName},
             SetFacts(r, c, text) \/ Fill(r, c, text)
      PROVE  StartsMove(r)
  <2> DEFINE next == [cigar[c] EXCEPT !.text = text, !.brand = DeriveBrandId(text)]
  <2>1. cigar[c] \in CigarRow /\ DeriveBrandId(text) \in Rows \union {NoRow}
    BY <1>0 DEF DeriveBrandId, BrandOf, StoredAt, Stored
  <2>2. next \in CigarRow  BY <2>1 DEF CigarRow
  <2>3. \A f \in DOMAIN Unfiled \ {"text", "brand"} : next[f] = cigar[c][f]
    BY <2>1 DEF Unfiled, CigarRow
  <2> HIDE DEF next
  <2>4. Apply(r, c, next, {"text", "brand"})  BY <1>6 DEF SetFacts, Fill, next
  <2>5. QED  BY <1>4, <2>2, <2>3, <2>4
<1>7. CASE Start(r)
  <2>0. UNCHANGED <<reg, cigar>>  BY <1>7, StartKeeps
  <2>1. ASSUME NEW plan \in Plans, NEW b, Register(r, plan, b) PROVE StartsMove(r)
    BY <1>0, <1>1, <2>1 DEF Register, Begin, Idle
  <2>2. ASSUME NEW x, NEW add, NEW drop, Edit(r, x, add, drop) PROVE StartsMove(r)
    BY <1>0, <1>1, <2>2 DEF Edit, Begin, Idle
  <2>3. ASSUME NEW x, NEW n, Rename(r, x, n) PROVE StartsMove(r)
    BY <1>0, <1>1, <2>3 DEF Rename, Begin, Idle
  <2>4. StartsMove(r)
    <3>1. CASE \E plan \in Plans, b \in StoredAt("brand") \union {NoRow} : Register(r, plan, b)
      BY <2>1, <3>1
    <3>2. CASE \E x \in Stored, add, drop \in SUBSET Keys : Edit(r, x, add, drop)
      BY <2>2, <3>2
    <3>3. CASE \E x \in Stored, n \in Names : Rename(r, x, n)
      BY <2>3, <3>3
    <3>4. CASE \E c \in Cigars, brand \in StoredAt("brand") \union {NoRow},
                 line \in StoredAt("line") \union {NoRow}, text \in Names \union {NoName},
                 composed \in BOOLEAN : Assign(r, c, brand, line, text, composed)
      BY <1>5, <3>4
    <3>5. CASE \E c \in Cigars, text \in Names \union {NoName} :
                 SetFacts(r, c, text) \/ Fill(r, c, text)
      BY <1>6, <3>5
    <3>6. QED  BY <1>7, <3>1, <3>2, <3>3, <3>4, <3>5 DEF Start
  <2>5. QED  BY <2>0, <2>4
<1>8. CASE Write(r)  BY <1>8 DEF Write
<1>9. QED  BY <1>3, <1>7, <1>8

\* What it is about to write stays right, unless another call tears the cigar.
LEMMA MovedStep ==
  ASSUME TypedInv, LeavesInv, NEW r \in Requests, Noting(r)
  PROVE  Moved'
<1>0. /\ Step(r) /\ torn \subseteq torn' /\ Alone(r) /\ call \in [Requests -> CallRow]
      /\ Typed /\ CallsFit /\ CigarsFiled /\ CallsFit' /\ cigar \in [Cigars -> CigarRow]
      /\ call'[r] \in CallRow
  BY CallStep, ShapeStep DEF Noting, TypedInv, Typed
<1> SUFFICES ASSUME NEW q \in Requests, call'[q].cigar # NoCigar, call'[q].cigar \notin torn'
             PROVE  /\ call'[q].pc = "assign" =>
                         /\ Ancestry(call[q].next)'
                         /\ \A f \in DOMAIN Unfiled \ call'[q].sets :
                              call'[q].next[f] = cigar'[call'[q].cigar][f]
                    /\ call'[q].pc = "assigned" => Agrees(call[q].next)'
  BY DEF Moved, At
<1> DEFINE c == call'[q].cigar
<1>1. CASE q # r
  <2>1. call'[q] = call[q]  BY <1>0, <1>1 DEF Alone
  <2>2. /\ c \in Cigars \ torn /\ call[q].cigar = c /\ Near(q, c)
        /\ call[q].next \in CigarRow /\ PartsStored(call[q].next)
    BY <1>0, <2>1 DEF CallRow, CallsFit, Shape, Near, Moves
  <2>3. ~Near(r, c)  BY <1>1, <2>2, NotBothNear
  <2>4. cigar'[c] = cigar[c]
    <3>1. ~(Assigned(r) /\ c = call[r].cigar)  BY <2>3 DEF Near, Moves
    <3>2. ASSUME Renamed(r), NEW w \in call[r].wrote, w[1] = c PROVE FALSE
      <4>1. Renaming(r) /\ w \in Done(r)  BY <3>2 DEF Renamed, Renaming, Done, At
      <4>2. Below(r, c)  BY <2>2, <3>2, <4>1 DEF LeavesInv, RenamesReach
      <4>3. QED  BY <2>2, <2>3, <4>1, <4>2, RenameNear
    <3>3. QED  BY <1>0, <2>2, <3>1, <3>2, CigarCases
  <2>5. /\ call[q].next.line # NoRow => reg'[call[q].next.line].under = reg[call[q].next.line].under
        /\ Called(reg', call[q].next) = Called(reg, call[q].next)
    <3>1. ~(Renamed(r) /\ call[r].row \in {call[q].next.brand, call[q].next.line})
      <4>1. Renamed(r) => Renaming(r)  BY DEF Renamed, Renaming, At
      <4>2. QED  BY <2>2, <2>3, <4>1, RenameNear
    <3>2. QED  BY <1>0, <2>2, <3>1, CalledKept
  <2>6. /\ At(q, "assign") => /\ Ancestry(call[q].next)
                              /\ \A f \in DOMAIN Unfiled \ call[q].sets : call[q].next[f] = cigar[c][f]
        /\ At(q, "assigned") => Agrees(call[q].next)
    BY <2>2, SentinelAssumption DEF LeavesInv, Moved
  <2>7. QED  BY <2>1, <2>4, <2>5, <2>6 DEF Ancestry, Agrees, At
<1>2. CASE q = r
  <2>1. UNCHANGED <<reg, cigar>> /\ (StartsMove(r) \/ Write(r))  BY <1>0, <1>2, MoveCases
  <2>2. CASE StartsMove(r)
    BY <1>2, <2>1, <2>2 DEF StartsMove, Ancestry
  <2>3. CASE Write(r)
    <3> DEFINE next == call[r].next
               row == [f \in DOMAIN Unfiled |-> IF f \in call[r].sets THEN next[f] ELSE cigar[call[r].cigar][f]]
               new == Recomposed(r, row)
    <3>1. call'[r] = [call[r] EXCEPT !.pc = "assigned", !.next = new] /\ At(r, "assign")
      BY <1>0, <2>3 DEF Write, Become
    <3>2. call[r].cigar = c /\ c \in Cigars \ torn /\ next \in CigarRow /\ call[r] \in CallRow
      BY <1>0, <1>2, <3>1 DEF CallRow
    <3>3. /\ Ancestry(next)
          /\ \A f \in DOMAIN Unfiled \ call[r].sets : next[f] = cigar[c][f]
      BY <1>2, <3>1, <3>2, SentinelAssumption DEF LeavesInv, Moved
    <3>4. row = next
      <4>1. row = [f \in DOMAIN Unfiled |-> next[f]]  BY <3>2, <3>3
      <4>2. DOMAIN next = DOMAIN Unfiled /\ next = [f \in DOMAIN next |-> next[f]]
        BY <3>2 DEF CigarRow, Unfiled
      <4>3. QED  BY <4>1, <4>2
    <3>5. new = Recomposed(r, next)  BY <3>4
    <3> HIDE DEF new, row
    <3>6. call'[r].pc = "assigned" /\ call'[r].next = new  BY <3>1, <3>2 DEF CallRow
    <3>7. PartsOf(r, next) = Called(reg, next)
      BY <3>1 DEF PartsOf, Called, NameOf, At
    <3>8. new = IF next.composed /\ Called(reg, next) # NoParts
                THEN [next EXCEPT !.name = Called(reg, next)] ELSE next
      BY <3>5, <3>7 DEF Recomposed
    <3>9. /\ new.brand = next.brand /\ new.line = next.line /\ new.text = next.text
          /\ new.composed = next.composed
          /\ next.composed /\ Called(reg, next) # NoParts => new.name = Called(reg, next)
      BY <3>2, <3>8 DEF CigarRow
    <3>10. Called(reg, new) = Called(reg, next)  BY <3>9 DEF Called
    <3>11. Agrees(new)  BY <3>3, <3>9, <3>10 DEF Agrees, Ancestry
    <3>12. QED  BY <1>2, <2>1, <3>6, <3>11 DEF Agrees
  <2>4. QED  BY <2>1, <2>2, <2>3
<1>3. QED  BY <1>1, <1>2

\* A rename with its row in hand, from one step to the next.
LEMMA RenameCases ==
  ASSUME TypedInv, NEW r \in Requests, Step(r), call'[r].pc \in {"compose", "leaf"}
  PROVE  /\ UNCHANGED <<reg, cigar>>
         /\ call'[r].row = call[r].row /\ call'[r].name = call[r].name
         /\ WriteName(r) \/ WriteLeaf(r) \/ \E d \in Cigars : ReadLeaf(r, d)
<1>0. /\ Alone(r) /\ call[r] \in CallRow /\ call \in [Requests -> CallRow]
      /\ Typed /\ CallsFit /\ CigarsFiled
  BY CallStep DEF TypedInv, Typed
<1>1. EditGoesOn(r) /\ ~Check(r)
  <2>1. Lock(r) => call'[r].pc = "claim"  BY <1>0 DEF Lock, Become, At, CallRow
  <2>2. Check(r) => call'[r].pc = "free"  BY <1>0 DEF Check, Become, CallRow
  <2>3. QED
    BY <1>0, <2>1, <2>2, CallCases DEF Idle, StartsPlan, StartsEdit, GoesOn, FindsNone, CigarGoesOn
<1>2. call[r].pc \in {"free", "compose", "leaf"}  BY <1>1 DEF EditGoesOn
<1>3. ~Ends(r)
  BY <1>0 DEF Ends, Fail, Registered, WriteKeys, Renamed, Assigned, Become, Idle
<1>4. WriteName(r) \/ WriteLeaf(r) \/ \E d \in Cigars : ReadLeaf(r, d)
  BY <1>1, <1>2, <1>3 DEF Step, MayBegin, Lock, Find, Mint, Write, Ends, Locked, At
<1>5. UNCHANGED <<reg, cigar>>  BY <1>4 DEF WriteName, WriteLeaf, ReadLeaf
<1>6. QED  BY <1>1, <1>4, <1>5 DEF EditGoesOn

\* A rename misses no cigar below its row, unless another call tears it.
LEMMA ReachStep ==
  ASSUME TypedInv, LeavesInv, NEW r \in Requests, Noting(r)
  PROVE  RenamesReach'
<1>0. /\ Step(r) /\ torn \subseteq torn' /\ Alone(r) /\ call \in [Requests -> CallRow]
      /\ Typed /\ CallsFit /\ CigarsFiled /\ cigar \in [Cigars -> CigarRow]
      /\ call[r] \in CallRow
  BY CallStep DEF Noting, TypedInv, Typed
<1> SUFFICES ASSUME NEW q \in Requests, NEW c \in Cigars, c \notin torn', Renaming(q)'
             PROVE  /\ c \in call'[q].leaves => Below(q, c)'
                    /\ \A w \in Done(q)' : w[1] = c => Below(q, c)' /\ w[2] = View(q, cigar[c])'
                    /\ Below(q, c)' /\ cigar'[c].composed =>
                         \/ c \in call'[q].leaves
                         \/ \E w \in Done(q)' : w[1] = c
                         \/ cigar'[c].name = View(q, cigar[c])'
  BY DEF RenamesReach
<1>1. c \in Cigars \ torn /\ cigar[c] \in CigarRow /\ PartsStored(cigar[c])
  BY <1>0 DEF CigarsFiled
<1>2. ASSUME Renaming(q)
      PROVE  /\ c \in call[q].leaves => Below(q, c)
             /\ \A w \in Done(q) : w[1] = c => Below(q, c) /\ w[2] = View(q, cigar[c])
             /\ Below(q, c) /\ cigar[c].composed =>
                  \/ c \in call[q].leaves
                  \/ \E w \in Done(q) : w[1] = c
                  \/ cigar[c].name = View(q, cigar[c])
  BY <1>1, <1>2 DEF LeavesInv, RenamesReach
<1>3. CASE q # r
  <2>1. call'[q] = call[q]  BY <1>0, <1>3 DEF Alone
  <2>2. Renaming(q) /\ Done(q)' = Done(q)  BY <2>1 DEF Renaming, Done, At
  <2>3. CASE cigar'[c] = cigar[c]
    <3>1. Below(q, c)' <=> Below(q, c)  BY <2>1, <2>3 DEF Below
    <3>2. CASE ~Below(q, c)  BY <1>2, <2>1, <2>2, <3>1, <3>2
    <3>3. CASE Below(q, c)
      <4>1. ~Near(r, c)  BY <1>1, <1>3, <2>2, <3>3, RenameNear, NotBothNear
      <4>2. ~(Renamed(r) /\ call[r].row \in {cigar[c].brand, cigar[c].line})
        <5>1. Renamed(r) => Renaming(r)  BY DEF Renamed, Renaming, At
        <5>2. QED  BY <1>1, <4>1, <5>1, RenameNear DEF Below
      <4>3. View(q, cigar[c])' = View(q, cigar[c])
        <5>1. /\ cigar[c].brand # NoRow => cigar[c].brand \in Stored
              /\ cigar[c].line # NoRow => cigar[c].line \in Stored
          BY <1>1 DEF PartsStored, StoredAt
        <5>2. /\ cigar[c].brand # NoRow => reg'[cigar[c].brand].name = reg[cigar[c].brand].name
              /\ cigar[c].line # NoRow => reg'[cigar[c].line].name = reg[cigar[c].line].name
          BY <1>0, <4>2, <5>1, NamesStep
        <5>3. QED  BY <2>1, <2>3, <5>2 DEF View
      <4>4. QED  BY <1>2, <2>1, <2>2, <2>3, <3>1, <4>3
    <3>4. QED  BY <3>2, <3>3
  <2>4. CASE Assigned(r) /\ c = call[r].cigar /\ cigar'[c] = call[r].next
    <3>1. Near(r, c) /\ ~Near(q, c)
      BY <1>1, <1>3, <2>4, NotBothNear DEF Near, Moves
    <3>2. ~Below(q, c)  BY <1>1, <2>2, <3>1, RenameNear
    <3>3. ~Below(q, c)'
      <4>1. call[q].row \notin {call[r].next.brand, call[r].next.line}
        BY <1>1, <2>2, <2>4, <3>1, RenameNear
      <4>2. QED  BY <2>1, <2>4, <4>1 DEF Below
    <3>4. QED  BY <1>2, <2>1, <2>2, <3>2, <3>3
  <2>5. CASE /\ Renamed(r)
             /\ \E w \in call[r].wrote : w[1] = c /\ cigar'[c] = [cigar[c] EXCEPT !.name = w[2]]
    <3>1. PICK w \in call[r].wrote : w[1] = c /\ cigar'[c] = [cigar[c] EXCEPT !.name = w[2]]
      BY <2>5
    <3>2. Renaming(r) /\ w \in Done(r)  BY <2>5 DEF Renamed, Renaming, Done, At
    <3>3. Below(r, c)  BY <1>1, <3>1, <3>2 DEF LeavesInv, RenamesReach
    <3>4. ~Below(q, c)  BY <1>1, <1>3, <2>2, <3>2, <3>3, RenameNear, NotBothNear
    <3>5. ~Below(q, c)'
      <4>1. cigar'[c].brand = cigar[c].brand /\ cigar'[c].line = cigar[c].line
        BY <1>1, <3>1 DEF CigarRow
      <4>2. QED  BY <2>1, <3>4, <4>1 DEF Below
    <3>6. QED  BY <1>2, <2>1, <2>2, <3>4, <3>5
  <2>6. QED  BY <1>0, <1>1, <2>3, <2>4, <2>5, CigarCases
<1>4. CASE q = r
  <2>1. /\ UNCHANGED <<reg, cigar>> /\ call'[r].row = call[r].row /\ call'[r].name = call[r].name
        /\ WriteName(r) \/ WriteLeaf(r) \/ \E d \in Cigars : ReadLeaf(r, d)
    BY <1>0, <1>4, RenameCases DEF Renaming
  <2>2. /\ Below(r, c)' <=> Below(r, c)
        /\ View(r, cigar[c])' = View(r, cigar[c])
        /\ cigar'[c] = cigar[c]
    BY <2>1 DEF Below, View
  <2>3. CASE WriteName(r)
    <3>1. /\ call'[r].leaves = LeavesOf(call[r].row) /\ call'[r].pc = "compose"
          /\ call'[r].wrote = call[r].wrote /\ call[r].pc = "free"
      BY <1>0, <2>3 DEF WriteName, Become, At, CallRow
    <3>2. Done(r)' = {}
      BY <3>1 DEF LeavesInv, NoneWritten, Renaming, Done, At
    <3>3. c \in call'[r].leaves <=> Below(r, c) /\ cigar[c].composed
      BY <1>1, <3>1 DEF LeavesOf, Below, CigarRow
    <3>4. QED  BY <1>4, <2>2, <3>2, <3>3
  <2>4. CASE WriteLeaf(r)
    <3>1. /\ call[r].pc = "leaf" /\ call'[r].pc = "compose" /\ call'[r].leaves = call[r].leaves
          /\ call'[r].wrote = call[r].wrote \union {call[r].leaf}
      BY <1>0, <2>4 DEF WriteLeaf, Become, At, CallRow
    <3>2. Done(r)' = Done(r) /\ Renaming(r)  BY <3>1 DEF Done, Renaming, At
    <3>3. QED  BY <1>2, <1>4, <2>2, <3>1, <3>2
  <2>5. ASSUME NEW d \in Cigars, ReadLeaf(r, d)
        PROVE  /\ c \in call'[r].leaves => Below(r, c)
               /\ \A w \in Done(r)' : w[1] = c => Below(r, c) /\ w[2] = View(r, cigar[c])
               /\ Below(r, c) /\ cigar[c].composed =>
                    \/ c \in call'[r].leaves
                    \/ \E w \in Done(r)' : w[1] = c
                    \/ cigar[c].name = View(r, cigar[c])
    <3> DEFINE new == Recomposed(r, cigar[d])
    <3>1. /\ call[r].pc = "compose" /\ d \in call[r].leaves
          /\ call'[r] = IF new = cigar[d] THEN [call[r] EXCEPT !.leaves = @ \ {d}]
                        ELSE [call[r] EXCEPT !.pc = "leaf", !.leaves = @ \ {d}, !.leaf = <<d, new.name>>]
      BY <1>0, <2>5 DEF ReadLeaf, Become, At
    <3>2. Renaming(r) /\ Done(r) = call[r].wrote  BY <3>1 DEF Renaming, Done, At
    <3>3. PartsOf(r, cigar[c]) = View(r, cigar[c])
      BY <3>1 DEF PartsOf, View, NameOf
    <3>4. Below(r, c) => View(r, cigar[c]) # NoParts
      <4>1. call[r].name \in Names /\ call[r].row \in Stored
        BY <1>0, <3>1 DEF CallsFit, Shape, Editing
      <4>2. call[r].name # NoName /\ call[r].row # NoRow
        BY <4>1, SentinelAssumption DEF Stored
      <4>3. QED  BY <4>2 DEF Below, View, NoParts
    <3> HIDE DEF new
    <3>5. CASE c # d
      <4>1. c \in call'[r].leaves <=> c \in call[r].leaves
        BY <1>0, <3>1, <3>5 DEF CallRow
      <4>2. \A w : w[1] = c => (w \in Done(r)' <=> w \in Done(r))
        <5>1. call'[r].wrote = call[r].wrote  BY <1>0, <3>1 DEF CallRow
        <5>2. call'[r].pc = "leaf" => call'[r].leaf = <<d, new.name>>  BY <1>0, <3>1 DEF CallRow
        <5>3. QED  BY <3>2, <3>5, <5>1, <5>2 DEF Done, At
      <4>3. QED  BY <1>2, <1>4, <3>2, <4>1, <4>2
    <3>6. CASE c = d /\ new = cigar[d]
      <4>1. call'[r].leaves = call[r].leaves \ {d} /\ Done(r)' = Done(r)
        BY <1>0, <3>1, <3>2, <3>6 DEF CallRow, Done, At
      <4>2. Below(r, c) /\ cigar[c].composed => cigar[c].name = View(r, cigar[c])
        <5>1. ASSUME Below(r, c), cigar[c].composed PROVE cigar[c].name = View(r, cigar[c])
          <6>1. new = [cigar[c] EXCEPT !.name = View(r, cigar[c])]
            BY <3>3, <3>4, <3>6, <5>1 DEF new, Recomposed
          <6>2. QED  BY <1>1, <3>6, <6>1 DEF CigarRow
        <5>2. QED  BY <5>1
      <4>3. QED  BY <1>2, <1>4, <3>2, <3>6, <4>1, <4>2
    <3>7. CASE c = d /\ new # cigar[d]
      <4>1. /\ call'[r].pc = "leaf" /\ call'[r].leaves = call[r].leaves \ {d}
            /\ call'[r].wrote = call[r].wrote /\ call'[r].leaf = <<d, new.name>>
        BY <1>0, <3>1, <3>7 DEF CallRow
      <4>2. Done(r)' = Done(r) \union {<<c, new.name>>}
        BY <3>2, <3>7, <4>1 DEF Done, At
      <4>3. Below(r, c)  BY <1>2, <1>4, <3>1, <3>2, <3>7
      <4>4. new = [cigar[c] EXCEPT !.name = View(r, cigar[c])]
        BY <3>3, <3>7 DEF new, Recomposed
      <4>5. new.name = View(r, cigar[c])  BY <1>1, <4>4 DEF CigarRow
      <4>6. \A w \in Done(r)' : w[1] = c => w[2] = View(r, cigar[c])
        BY <1>2, <1>4, <3>2, <4>2, <4>5
      <4>7. <<c, new.name>> \in Done(r)' /\ <<c, new.name>>[1] = c /\ c \notin call'[r].leaves
        BY <3>7, <4>1, <4>2
      <4>8. QED  BY <4>3, <4>6, <4>7
    <3>8. QED  BY <3>5, <3>6, <3>7
  <2>6. CASE \E d \in Cigars : ReadLeaf(r, d)
    BY <1>4, <2>2, <2>5, <2>6
  <2>7. QED  BY <2>1, <2>3, <2>4, <2>6
<1>5. QED  BY <1>3, <1>4

\* The inductive invariant of the names below the registry: renames reach every cigar below
\* their row, and assignments write what agrees with it.
THEOREM LeavesHold == Spec => []LeavesInv
<1>1. Init => LeavesInv
  <2> SUFFICES ASSUME Init PROVE LeavesInv  OBVIOUS
  <2>1. PICK seed \in Seeds : reg = seed.reg /\ cigar = seed.cigar  BY DEF Init
  <2>2. InOrder(reg, cigar)  BY <2>1, SeedsAssumption
  <2>3. \A q \in Requests : /\ call[q].pc = "idle" /\ call[q].wrote = {}
                            /\ call[q].cigar = NoCigar
    BY DEF Init, Idle
  <2>4. NoneWritten /\ Moved /\ RenamesReach
    BY <2>3 DEF NoneWritten, Moved, RenamesReach, Renaming
  <2>5. LeavesAgree  BY <2>2 DEF InOrder, LeavesAgree
  <2>6. QED  BY <2>4, <2>5 DEF LeavesInv
<1>2. ASSUME TypedInv, LeavesInv, [Next]_vars PROVE LeavesInv'
  <2>1. CASE UNCHANGED vars
    BY <1>2, <2>1 DEF vars, LeavesInv, NoneWritten, Moved, RenamesReach, LeavesAgree, Renaming, Done,
       Below, View, Ancestry, Agrees, At
  <2>2. CASE Next
    <3>1. PICK r \in Requests : Noting(r)  BY <2>2 DEF Next, Noting
    <3>2. NoneWritten'  BY <1>2, <3>1, NoneWrittenStep DEF Noting, LeavesInv
    <3>3. QED  BY <1>2, <3>1, <3>2, AgreeStep, MovedStep, ReachStep DEF LeavesInv
  <2>3. QED  BY <1>2, <2>1, <2>2
<1>3. QED  BY <1>1, <1>2, TypesHold, PTL DEF Spec

\* A cigar's line is its brand's, and a composed cigar is called by the names its parts
\* have now, but for cigars that two calls were at.
THEOREM CigarsAgree == Spec => []LeavesAgree
<1>1. LeavesInv => LeavesAgree  BY DEF LeavesInv
<1>2. QED  BY LeavesHold, <1>1, PTL
=============================================================================
