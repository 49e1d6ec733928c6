------------------------------- MODULE Taxonomy -------------------------------
(***************************************************************************)
(* The registry of the catalogue (brands, their lines, blenders) and the    *)
(* cigars that hang off it.  A registry row is found by its matching keys,  *)
(* which are folded spellings; a cigar names its brand and its line, and a  *)
(* composed cigar is called by their names.                                 *)
(*                                                                          *)
(* Keys sit in an array with no unique index: a writer takes an advisory    *)
(* lock on each key it claims, looks whether another row has it, and holds  *)
(* the lock until its transaction ends.  An edit and a rename write back    *)
(* the array they read before that.  A rename composes the names of the     *)
(* cigars below it anew, an assignment that of its own cigar.               *)
(*                                                                          *)
(* A blend is to its line what a line is to its brand, and is left out; so  *)
(* are a cigar's vitola, edition and text of a line.  The idempotency key   *)
(* that a call writes last is SmokeStore's.                                 *)
(***************************************************************************)
EXTENDS Integers, Sequences, FiniteSets, FiniteSetsExt

CONSTANTS
  Rows,       \* ids of brands, lines and blenders
  Cigars, Requests,
  Names, Keys,
  Fold,       \* the key of a name
  Plans,      \* what calls of register_taxonomy ask for
  Seeds,      \* what the registry and the cigars may be to begin with
  MaxCalls,   \* bound: calls that may begin
  NoRow, NoName, NoCall, NoCigar

Levels == {"brand", "line", "blender"}

Blank == [level |-> "none", under |-> NoRow, name |-> NoName, slug |-> 0, keys |-> {},
          by |-> NoCall]
NoParts == [brand |-> NoName, line |-> NoName]
Unfiled == [brand |-> NoRow, line |-> NoRow, text |-> NoName, composed |-> FALSE,
            name |-> NoParts]
Idle == [pc |-> "idle", plan |-> <<>>, row |-> NoRow, name |-> NoName,
         keys |-> {}, add |-> {}, claim |-> {}, locks |-> {},
         leaves |-> {}, leaf |-> <<>>, wrote |-> {},
         cigar |-> NoCigar, next |-> Unfiled, sets |-> {}]

ASSUME SentinelAssumption ==
  NoRow \notin Rows /\ NoName \notin Names /\ NoCall \notin Requests /\ NoCigar \notin Cigars

\* Keys are numbered in the order of their spellings.
ASSUME KeysAssumption == Keys \subseteq Nat /\ Fold \in [Names -> Keys]

\* A path is registered from the top: a brand, a line, and then any number of blenders.
PlanItem == [level : Levels, name : Names, also : SUBSET Keys]
Rank == [brand |-> 1, line |-> 2, blender |-> 3]
FromTheTop(plan) ==
  \A i, j \in DOMAIN plan :
    i < j => \/ Rank[plan[i].level] < Rank[plan[j].level]
             \/ plan[i].level = "blender" /\ plan[j].level = "blender"
ASSUME PlansAssumption ==
  Plans \subseteq Seq(PlanItem) /\ \A plan \in Plans : plan # <<>> /\ FromTheTop(plan)

Parts == [brand : Names \union {NoName}, line : Names \union {NoName}]
RegistryRow == [level : Levels \union {"none"}, under : Rows \union {NoRow},
                name : Names \union {NoName}, slug : Keys \union {0}, keys : SUBSET Keys,
                by : Requests \union {NoCall}]
CigarRow == [brand : Rows \union {NoRow}, line : Rows \union {NoRow},
             text : Names \union {NoName}, composed : BOOLEAN, name : Parts]

\* What a cigar's parts are called in a registry.
Called(rows, row) ==
  [brand |-> IF row.brand # NoRow THEN rows[row.brand].name ELSE row.text,
   line |-> IF row.line # NoRow THEN rows[row.line].name ELSE NoName]

\* The catalogue begins in order: rows answer to the key of their name and to none of
\* another row, and the cigars agree with them.
InOrder(rows, cigars) ==
  /\ rows \in [Rows -> RegistryRow] /\ cigars \in [Cigars -> CigarRow]
  /\ \A x \in Rows : \/ rows[x] = Blank
                     \/ /\ rows[x].level # "none" /\ rows[x].by = NoCall
                        /\ Fold[rows[x].name] \in rows[x].keys
  /\ \A x, y \in Rows :
       x # y /\ rows[x].level = rows[y].level /\ rows[x].under = rows[y].under
         => rows[x].keys \intersect rows[y].keys = {}
  /\ \A c \in Cigars :
       LET row == cigars[c] IN
       /\ row.brand # NoRow => rows[row.brand].level = "brand"
       /\ row.line # NoRow => /\ rows[row.line].level = "line"
                              /\ row.brand = rows[row.line].under
       /\ row.composed /\ Called(rows, row) # NoParts => row.name = Called(rows, row)
ASSUME SeedsAssumption == \A seed \in Seeds : InOrder(seed.reg, seed.cigar)

VARIABLES
  reg,    \* brands, lines and blenders; `by` is the call that has not committed the row
  cigar,  \* brand_id, line_id, brand, name_source, and what canonical_name is composed of
  call,   \* the calls in flight
  begun,  \* how many calls have begun
  raced,  \* history: registry rows that two calls were editing at once
  torn    \* history: cigars that two calls were moving or naming at once

vars == <<reg, cigar, call, begun, raced, torn>>

Init ==
  /\ \E seed \in Seeds : reg = seed.reg /\ cigar = seed.cigar
  /\ call = [r \in Requests |-> Idle]
  /\ begun = 0 /\ raced = {} /\ torn = {}

At(r, pc) == call[r].pc = pc
Become(r, new) == call' = [call EXCEPT ![r] = new] /\ UNCHANGED begun
MayBegin(r) == At(r, "idle") /\ begun < MaxCalls
Begin(r, new) == call' = [call EXCEPT ![r] = new] /\ begun' = begun + 1

Visible(r) == {x \in Rows : reg[x].level # "none" /\ reg[x].by \in {NoCall, r}}
Stored == {x \in Rows : reg[x].level # "none" /\ reg[x].by = NoCall}
StoredAt(level) == {x \in Stored : reg[x].level = level}
InScope(r, level, under) == {x \in Visible(r) : reg[x].level = level /\ reg[x].under = under}

\* Whatever a call has minted or written is gone, and its locks are let go.
Fail(r) ==
  /\ ~At(r, "idle")
  /\ reg' = [x \in Rows |-> IF reg[x].by = r THEN Blank ELSE reg[x]]
  /\ Become(r, Idle)
  /\ UNCHANGED cigar

-----------------------------------------------------------------------------
(* assertAliasesFree: the claim of matching keys *)

\* A lock is on a level and a key: two lines of one key wait for each other whatever
\* their brands.
LevelOf(r) == IF call[r].plan # <<>> THEN Head(call[r].plan).level ELSE reg[call[r].row].level

WantedAsGiven(r) ==
  <<LevelOf(r), IF call[r].plan # <<>> THEN Min(call[r].claim) ELSE Max(call[r].claim)>>

\* The keys are locked in order, one at a time; a lock the call has is taken again.
Wanted(r) == <<LevelOf(r), Min(call[r].claim)>>
Holder(lock) == {q \in Requests : lock \in call[q].locks}

LockAtOnce(r) ==
  /\ At(r, "claim") /\ call[r].claim # {}
  /\ Become(r, [call[r] EXCEPT !.claim = @ \ {Wanted(r)[2]}, !.locks = @ \union {Wanted(r)}])
  /\ UNCHANGED <<reg, cigar>>

Lock(r) ==
  /\ At(r, "claim") /\ call[r].claim # {}
  /\ Holder(Wanted(r)) \subseteq {r}
  /\ Become(r, [call[r] EXCEPT !.claim = @ \ {Wanted(r)[2]}, !.locks = @ \union {Wanted(r)}])
  /\ UNCHANGED <<reg, cigar>>

\* With the locks in hand the committed rows are read, and the call's own.
Locked(r) == At(r, "claim") /\ call[r].claim = {}

FreeOfSlugs(r, x, level, under, keys) ==
  \A y \in InScope(r, level, under) \ {x} : reg[y].slug \notin keys

Free(r, x, level, under, keys) ==
  \A y \in InScope(r, level, under) \ {x} : reg[y].keys \intersect keys = {}

-----------------------------------------------------------------------------
(* registerTaxonomy: find or mint each row of a plan, in one transaction *)

\* A plan with a line begins with its brand, or is given the brand's id; blenders come
\* last, in the order of the call.
Register(r, plan, b) ==
  /\ (b = NoRow) # (Head(plan).level = "line")
  /\ Begin(r, [Idle EXCEPT !.pc = "find", !.plan = plan, !.row = b])
  /\ UNCHANGED <<reg, cigar>>

Under(r) == IF Head(call[r].plan).level = "line" THEN call[r].row ELSE NoRow
Hits(r) ==
  LET item == Head(call[r].plan) IN
  {x \in InScope(r, item.level, Under(r)) : reg[x].slug = Fold[item.name]}

\* The rest of the plan: a line hangs off the brand the plan has found or minted.
Rest(r, x) ==
  [call[r] EXCEPT !.pc = "find", !.plan = Tail(@),
                  !.row = IF Head(call[r].plan).level = "brand" THEN x ELSE @]

\* A row holds the key of its own name and what else it is to answer to.
ItemKeys(r) == {Fold[Head(call[r].plan).name]} \union Head(call[r].plan).also

Find(r) ==
  /\ At(r, "find") /\ call[r].plan # <<>>
  /\ IF Hits(r) # {} THEN \E x \in Hits(r) : Become(r, Rest(r, x))
     ELSE Become(r, [call[r] EXCEPT !.pc = "claim", !.claim = ItemKeys(r)])
  /\ UNCHANGED <<reg, cigar>>

\* The slug is unique in its scope.  Which unused id a row gets makes no difference.
Unused == {x \in Rows : reg[x] = Blank}

Mint(r) ==
  LET item == Head(call[r].plan)
      x == CHOOSE y \in Unused : TRUE
  IN
  /\ Locked(r) /\ call[r].plan # <<>> /\ Unused # {}
  /\ Free(r, x, item.level, Under(r), ItemKeys(r)) /\ Hits(r) = {}
  /\ reg' = [reg EXCEPT ![x] = [level |-> item.level, under |-> Under(r), name |-> item.name,
                                slug |-> Fold[item.name], keys |-> ItemKeys(r), by |-> r]]
  /\ Become(r, Rest(r, x))
  /\ UNCHANGED cigar

Registered(r) ==
  /\ At(r, "find") /\ call[r].plan = <<>>
  /\ reg' = [x \in Rows |-> IF reg[x].by = r THEN [reg[x] EXCEPT !.by = NoCall] ELSE reg[x]]
  /\ Become(r, Idle)
  /\ UNCHANGED cigar

-----------------------------------------------------------------------------
(* editRegistryAliases and editRegistryName: both write back the keys they read *)

\* The key of the row's own name is not dropped, and neither is the last.  A key in both
\* lists is dropped only if the row had it.
Edit(r, x, add, drop) ==
  LET added == add \ reg[x].keys
      removed == drop \intersect reg[x].keys
      next == (reg[x].keys \union added) \ removed
  IN
  /\ Fold[reg[x].name] \notin drop
  /\ added # {} \/ removed # {}
  /\ next # {}
  /\ Begin(r, [Idle EXCEPT !.pc = "claim", !.row = x, !.add = added, !.claim = added, !.keys = next])
  /\ UNCHANGED <<reg, cigar>>

\* The slug and the old keys stay; the key of the new name is added.
Rename(r, x, n) ==
  LET added == {Fold[n]} \ reg[x].keys IN
  /\ reg[x].name # n
  /\ Begin(r, [Idle EXCEPT !.pc = "claim", !.row = x, !.name = n, !.add = added, !.claim = added,
                           !.keys = reg[x].keys \union added])
  /\ UNCHANGED <<reg, cigar>>

\* What was found free when the locks were in hand is not looked at again, however long
\* the row is waited for.
Check(r) ==
  LET x == call[r].row IN
  /\ Locked(r) /\ call[r].plan = <<>>
  /\ Free(r, x, reg[x].level, reg[x].under, call[r].add)
  /\ Become(r, [call[r] EXCEPT !.pc = "free"])
  /\ UNCHANGED <<reg, cigar>>

\* A rename holds its row until it commits.
RowHeld(x) == \E q \in Requests : call[q].pc \in {"compose", "leaf"} /\ call[q].row = x

WriteKeys(r) ==
  /\ At(r, "free") /\ ~RowHeld(call[r].row) /\ call[r].name = NoName
  /\ reg' = [reg EXCEPT ![call[r].row].keys = call[r].keys]
  /\ Become(r, Idle)
  /\ UNCHANGED cigar

\* The composed cigars below the row, as committed.
LeavesOf(x) == {c \in Cigars : cigar[c].composed /\ x \in {cigar[c].brand, cigar[c].line}}

WriteName(r) ==
  /\ At(r, "free") /\ ~RowHeld(call[r].row) /\ call[r].name # NoName
  /\ Become(r, [call[r] EXCEPT !.pc = "compose", !.leaves = LeavesOf(call[r].row)])
  /\ UNCHANGED <<reg, cigar>>

-----------------------------------------------------------------------------
(* recomposeCigarName: the name of a composed cigar from the names of its parts *)

\* A call sees the names that are committed and the one it has written.
NameOf(r, x) ==
  IF call[r].pc = "compose" /\ call[r].row = x THEN call[r].name ELSE reg[x].name

PartsOf(r, row) ==
  [brand |-> IF row.brand # NoRow THEN NameOf(r, row.brand) ELSE row.text,
   line |-> IF row.line # NoRow THEN NameOf(r, row.line) ELSE NoName]

\* A freeform name is left alone, and no name is composed of nothing.
Recomposed(r, row) ==
  IF row.composed /\ PartsOf(r, row) # NoParts THEN [row EXCEPT !.name = PartsOf(r, row)] ELSE row

\* A row that an open transaction has written is waited for.
Held(c) ==
  \E q \in Requests : \/ At(q, "assigned") /\ call[q].cigar = c
                      \/ \E w \in call[q].wrote : w[1] = c

\* A rename takes the cigars one by one: it reads the parts, and then waits for the row.
ReadLeaf(r, c) ==
  LET new == Recomposed(r, cigar[c]) IN
  /\ At(r, "compose") /\ c \in call[r].leaves
  /\ Become(r, IF new = cigar[c] THEN [call[r] EXCEPT !.leaves = @ \ {c}]
               ELSE [call[r] EXCEPT !.pc = "leaf", !.leaves = @ \ {c}, !.leaf = <<c, new.name>>])
  /\ UNCHANGED <<reg, cigar>>

WriteLeaf(r) ==
  /\ At(r, "leaf") /\ ~Held(call[r].leaf[1])
  /\ Become(r, [call[r] EXCEPT !.pc = "compose", !.wrote = @ \union {call[r].leaf}, !.leaf = <<>>])
  /\ UNCHANGED <<reg, cigar>>

RenameOnly(r) ==
  /\ At(r, "compose")
  /\ reg' = [reg EXCEPT ![call[r].row].name = call[r].name, ![call[r].row].keys = call[r].keys]
  /\ Become(r, Idle)
  /\ UNCHANGED cigar

Renamed(r) ==
  /\ At(r, "compose") /\ call[r].leaves = {}
  /\ reg' = [reg EXCEPT ![call[r].row].name = call[r].name, ![call[r].row].keys = call[r].keys]
  /\ cigar' = [c \in Cigars |-> IF \E w \in call[r].wrote : w[1] = c
                                THEN [cigar[c] EXCEPT !.name = (CHOOSE w \in call[r].wrote : w[1] = c)[2]]
                                ELSE cigar[c]]
  /\ Become(r, Idle)

-----------------------------------------------------------------------------
(* assignCigarParts, setCigarFacts and update_cigar: the parts of one cigar *)

\* What a spelling of a brand stands for.
BrandOf(text) ==
  {x \in StoredAt("brand") : text # NoName /\ reg[x].slug = Fold[text]}
DeriveBrandId(text) == IF BrandOf(text) = {} THEN NoRow ELSE CHOOSE x \in BrandOf(text) : TRUE

\* The ancestry is checked on the row that would result, not on what is supplied.
Ancestry(row) == row.line # NoRow => row.brand # NoRow /\ reg[row.line].under = row.brand

Apply(r, c, next, sets) ==
  /\ Ancestry(next)
  /\ Begin(r, [Idle EXCEPT !.pc = "assign", !.cigar = c, !.next = next, !.sets = sets])
  /\ UNCHANGED <<reg, cigar>>

\* The brand is set by id, or by its text, from which the id is derived.
Assign(r, c, brand, line, text, composed) ==
  LET next == [cigar[c] EXCEPT !.brand = brand, !.line = line, !.text = text, !.composed = composed]
      sets == {f \in DOMAIN next : next[f] # cigar[c][f]}
  IN
  /\ sets # {}
  /\ text = cigar[c].text \/ brand = DeriveBrandId(text)
  /\ composed => brand # NoRow
  /\ Apply(r, c, next, sets)

\* The text of the brand alone; its id goes with it.
SetFacts(r, c, text) ==
  /\ text # cigar[c].text
  /\ Apply(r, c, [cigar[c] EXCEPT !.text = text, !.brand = DeriveBrandId(text)], {"text", "brand"})

\* A conversation fills in the text of a brand where there is none.
Fill(r, c, text) ==
  /\ cigar[c].text = NoName /\ text # NoName
  /\ Apply(r, c, [cigar[c] EXCEPT !.text = text, !.brand = DeriveBrandId(text)], {"text", "brand"})

\* Only what changes is written, onto the row as it is by then.
Write(r) ==
  LET c == call[r].cigar
      row == [f \in DOMAIN Unfiled |-> IF f \in call[r].sets THEN call[r].next[f] ELSE cigar[c][f]]
  IN
  /\ At(r, "assign") /\ ~Held(c)
  /\ Become(r, [call[r] EXCEPT !.pc = "assigned", !.next = Recomposed(r, row)])
  /\ UNCHANGED <<reg, cigar>>

Assigned(r) ==
  /\ At(r, "assigned")
  /\ cigar' = [cigar EXCEPT ![call[r].cigar] = call[r].next]
  /\ Become(r, Idle)
  /\ UNCHANGED reg

-----------------------------------------------------------------------------
(* Histories: which calls are at a row or a cigar at the same time *)

Edits(q, x) == call[q].row = x /\ call[q].plan = <<>> /\ call[q].pc \in {"claim", "free", "compose", "leaf"}
Renames(q, x) == Edits(q, x) /\ call[q].name # NoName
Moves(q, c) == call[q].cigar = c

Racing == {x \in Rows : \E p, q \in Requests : p # q /\ Edits(p, x) /\ Edits(q, x)}

\* The rows that a cigar is called by, or would be.
PartsInPlay(c) ==
  UNION {{row.brand, row.line} : row \in {cigar[c]} \union {call[q].next : q \in {p \in Requests : Moves(p, c)}}}
Near(q, c) == Moves(q, c) \/ \E x \in Rows : x \in PartsInPlay(c) /\ Renames(q, x)
Tearing == {c \in Cigars : \E p, q \in Requests : p # q /\ Near(p, c) /\ Near(q, c)}

-----------------------------------------------------------------------------
Start(r) ==
  \/ \E plan \in Plans, b \in StoredAt("brand") \union {NoRow} : Register(r, plan, b)
  \/ \E x \in Stored, add, drop \in SUBSET Keys : Edit(r, x, add, drop)
  \/ \E x \in Stored, n \in Names : Rename(r, x, n)
  \/ \E c \in Cigars, brand \in StoredAt("brand") \union {NoRow},
        line \in StoredAt("line") \union {NoRow}, text \in Names \union {NoName},
        composed \in BOOLEAN : Assign(r, c, brand, line, text, composed)
  \/ \E c \in Cigars, text \in Names \union {NoName} : SetFacts(r, c, text) \/ Fill(r, c, text)

Step(r) ==
  \/ MayBegin(r) /\ Start(r)
  \/ Lock(r) \/ Find(r) \/ Mint(r) \/ Registered(r)
  \/ Check(r) \/ WriteKeys(r) \/ WriteName(r)
  \/ \E c \in Cigars : ReadLeaf(r, c)
  \/ WriteLeaf(r) \/ Renamed(r)
  \/ Write(r) \/ Assigned(r)
  \/ Fail(r)

Next ==
  \E r \in Requests : Step(r) /\ raced' = raced \union Racing' /\ torn' = torn \union Tearing'

Spec == Init /\ [][Next]_vars

-----------------------------------------------------------------------------
TypeOK ==
  /\ reg \in [Rows -> RegistryRow]
  /\ \A c \in Cigars :
       /\ cigar[c].brand \in StoredAt("brand") \union {NoRow}
       /\ cigar[c].line \in StoredAt("line") \union {NoRow}
       /\ cigar[c].composed \in BOOLEAN
  /\ \A r \in Requests :
       /\ ~At(r, "claim") => call[r].claim = {}
       /\ \A q \in Requests \ {r} : call[r].locks \intersect call[q].locks = {}

(* A spelling leads to one row: of two committed rows of one scope none answers to a key of
   the other, and each answers to the key of its own name, whatever registrations, edits
   and renames overlap.  Two edits of one row at a time lose that (the later writes back
   keys it read before the earlier's change), and nothing is said of such a row. *)
KeysResolve ==
  \A x \in Stored \ raced :
    /\ Fold[reg[x].name] \in reg[x].keys
    /\ \A y \in Stored \ (raced \union {x}) :
         reg[x].level = reg[y].level /\ reg[x].under = reg[y].under
           => reg[x].keys \intersect reg[y].keys = {}

(* The leaves agree with the registry: a cigar's line is its brand's, and a composed cigar
   is called by the names its parts have now, after any assignment, change of its brand's
   text and rename above it.  Nothing is said of a cigar that two such calls were at. *)
LeavesAgree ==
  \A c \in Cigars \ torn :
    LET row == cigar[c]
        parts == Called(reg, row)
    IN
    /\ row.line # NoRow => row.brand = reg[row.line].under
    /\ row.composed /\ parts # NoParts => row.name = parts

(* Calls that claim overlapping sets of keys do not wait for each other, but for two that
   register several blenders: those are claimed one after the other, in the order given. *)
WaitsFor(q, p) ==
  /\ At(q, "claim") /\ call[q].claim # {}
  /\ p \in Holder(Wanted(q)) \ {q}

ClaimsDoNotDeadlock ==
  \A p, q \in Requests :
    WaitsFor(p, q) /\ WaitsFor(q, p) => {LevelOf(p), LevelOf(q)} = {"blender"}
=============================================================================
