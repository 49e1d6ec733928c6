---------------------------- MODULE HumidorLedger ----------------------------
(***************************************************************************)
(* The humidor: purchase lots, smokes, and the consumption link that says   *)
(* which lot a smoke was taken from.  save_smoke and update_smoke check the *)
(* lot against the smoke's cigar, update_purchase checks the smokes against *)
(* the lot's new cigar, each in its own transaction at READ COMMITTED.      *)
(*                                                                          *)
(* One user; the mutation envelope around these calls is SmokeStore's.      *)
(***************************************************************************)
EXTENDS Naturals, FiniteSets

CONSTANTS
  Smokes,    \* ids of smokes rows
  Lots,      \* ids of purchases rows
  Cigars,    \* ids of cigars rows
  Requests,  \* slots for calls in flight
  Faults,    \* "db" when a transaction may fail
  NoSmoke, NoLot, NoCigar,
  NoLink,    \* the stick came from elsewhere: no smoke_consumptions row
  Keep       \* an update that has no consumption block

ASSUME SentinelAssumption ==
  /\ NoSmoke \notin Smokes /\ NoCigar \notin Cigars
  /\ NoLot \notin Lots /\ NoLink \notin Lots \union {NoLot}
  /\ Keep \notin Lots \union {NoLot, NoLink}

\* What smoke_consumptions says of a smoke: no row, a row without a lot, or a lot.
Links == Lots \union {NoLot, NoLink}

VARIABLES
  smokeCigar,  \* smokes.cigar_id, or NoCigar while there is no row
  lotCigar,    \* purchases.cigar_id, or NoCigar while there is no row
  link,        \* smoke_consumptions
  raced,       \* history: two calls have clashed
  req          \* the calls in flight

vars == <<smokeCigar, lotCigar, link, raced, req>>
tables == <<smokeCigar, lotCigar, link>>

Idle == [pc |-> "idle", smoke |-> NoSmoke, lot |-> NoLot, cigar |-> NoCigar,
         moves |-> FALSE, change |-> Keep, before |-> NoLink, after |-> NoLink]

Init ==
  /\ smokeCigar = [s \in Smokes |-> NoCigar]
  /\ lotCigar = [l \in Lots |-> NoCigar]
  /\ link = [s \in Smokes |-> NoLink]
  /\ raced = FALSE
  /\ req = [r \in Requests |-> Idle]

At(r, pc) == req[r].pc = pc
Become(r, new) == req' = [req EXCEPT ![r] = new]
Done(r) == Become(r, Idle)
Goto(r, pc) == Become(r, [req[r] EXCEPT !.pc = pc])

\* Calls that clash when they overlap: a move of a lot and a call on a smoke, or
\* two calls on one smoke.
Clash(a, b) ==
  \/ (a.smoke = NoSmoke) # (b.smoke = NoSmoke)
  \/ a.smoke = b.smoke /\ a.smoke # NoSmoke

Start(r, new) ==
  /\ At(r, "idle")
  /\ Become(r, new)
  /\ raced' = (raced \/ \E q \in Requests : ~At(q, "idle") /\ Clash(new, req[q]))
  /\ UNCHANGED tables

\* assertLotOwned: the lot is one of this cigar, as far as is committed.
LotOf(l, c) == l \in Lots /\ lotCigar[l] = c

\* The UPDATE of a smoke holds its row until the commit.
RowHeld(s, r) ==
  \E q \in Requests \ {r} : req[q].smoke = s /\ req[q].pc \in {"link", "update"}

-----------------------------------------------------------------------------
(* save_smoke *)

Save(r, s, c, w) ==
  /\ smokeCigar[s] = NoCigar
  /\ \A q \in Requests : req[q].smoke # s
  /\ Start(r, [Idle EXCEPT !.pc = "save", !.smoke = s, !.cigar = c, !.after = w])

\* applyConsumptionOnSave: the lot is checked before the smoke commits.
SaveCheck(r) ==
  /\ At(r, "save")
  /\ IF req[r].after \in Lots /\ ~LotOf(req[r].after, req[r].cigar)
     THEN Done(r) ELSE Goto(r, "saved")
  /\ UNCHANGED <<tables, raced>>

SaveCommit(r) ==
  /\ At(r, "saved")
  /\ smokeCigar' = [smokeCigar EXCEPT ![req[r].smoke] = req[r].cigar]
  /\ link' = [link EXCEPT ![req[r].smoke] = req[r].after]
  /\ Done(r)
  /\ UNCHANGED <<lotCigar, raced>>

-----------------------------------------------------------------------------
(* update_smoke *)

\* An update may move the smoke to a cigar (or NoCigar: leave it) and change its link.
Update(r, s, c, w) ==
  Start(r, [Idle EXCEPT !.pc = "read", !.smoke = s, !.cigar = c,
                        !.moves = (c # NoCigar), !.change = w])

\* The smoke is read without a lock; its cigar is the one the lot will be held to.
UpdateRead(r) ==
  /\ At(r, "read")
  /\ IF smokeCigar[req[r].smoke] = NoCigar THEN Done(r)
     ELSE Become(r, [req[r] EXCEPT !.pc = "lock",
                                   !.cigar = IF req[r].moves THEN @
                                             ELSE smokeCigar[req[r].smoke]])
  /\ UNCHANGED <<tables, raced>>

UpdateLockless(r) ==
  /\ At(r, "lock")
  /\ IF smokeCigar[req[r].smoke] = NoCigar THEN Done(r)
     ELSE Become(r, [req[r] EXCEPT !.pc = "link", !.before = link[req[r].smoke]])
  /\ UNCHANGED <<tables, raced>>

\* UPDATE smokes, then loadConsumption: the link is read under the row's lock.  A
\* smoke that is gone by now fails the foreign key of what is written next.
UpdateLock(r) ==
  /\ At(r, "lock")
  /\ ~RowHeld(req[r].smoke, r)
  /\ IF smokeCigar[req[r].smoke] = NoCigar THEN Done(r)
     ELSE Become(r, [req[r] EXCEPT !.pc = "link", !.before = link[req[r].smoke]])
  /\ UNCHANGED <<tables, raced>>

KeepForeignLot(r) == req[r].before

StoreTheChange(r) == req[r].change

\* Without a consumption block, a smoke that moves leaves a lot of another cigar.
Kept(r) ==
  IF req[r].moves /\ req[r].before \in Lots /\ ~LotOf(req[r].before, req[r].cigar)
  THEN NoLot ELSE req[r].before

\* applyConsumptionChange: the lot is refused, or the link decided.
UpdateLink(r) ==
  /\ At(r, "link")
  /\ IF req[r].change \in Lots /\ ~LotOf(req[r].change, req[r].cigar)
     THEN Done(r)
     ELSE Become(r, [req[r] EXCEPT !.pc = "update",
                                   !.after = IF req[r].change = Keep THEN Kept(r)
                                             ELSE req[r].change])
  /\ UNCHANGED <<tables, raced>>

UpdateCommit(r) ==
  LET s == req[r].smoke IN
  /\ At(r, "update")
  /\ smokeCigar' = [smokeCigar EXCEPT ![s] = IF req[r].moves THEN req[r].cigar ELSE @]
  /\ link' = [link EXCEPT ![s] = req[r].after]
  /\ Done(r)
  /\ UNCHANGED <<lotCigar, raced>>

\* deleteSmoke: the link goes with the row; the delete waits for the row.
DeleteSmoke(s) ==
  /\ smokeCigar[s] # NoCigar
  /\ \A q \in Requests : req[q].smoke = s => req[q].pc \notin {"link", "update"}
  /\ smokeCigar' = [smokeCigar EXCEPT ![s] = NoCigar]
  /\ link' = [link EXCEPT ![s] = NoLink]
  /\ UNCHANGED <<lotCigar, raced, req>>

-----------------------------------------------------------------------------
(* record_purchase and update_purchase *)

RecordPurchase(l, c) ==
  /\ lotCigar[l] = NoCigar
  /\ lotCigar' = [lotCigar EXCEPT ![l] = c]
  /\ UNCHANGED <<smokeCigar, link, raced, req>>

UpdatePurchase(r, l, c) == Start(r, [Idle EXCEPT !.pc = "lot", !.lot = l, !.cigar = c])

\* The lot is unknown, or already there: nothing is written.
LotRead(r) ==
  /\ At(r, "lot")
  /\ IF lotCigar[req[r].lot] \in {NoCigar, req[r].cigar} THEN Done(r) ELSE Goto(r, "foreign")
  /\ UNCHANGED <<tables, raced>>

\* Smokes taken from the lot and logged against another cigar than its new one.
Foreign(l, c) == \E s \in Smokes : link[s] = l /\ smokeCigar[s] # c

LotCheck(r) ==
  /\ At(r, "foreign")
  /\ IF Foreign(req[r].lot, req[r].cigar) THEN Done(r) ELSE Goto(r, "repoint")
  /\ UNCHANGED <<tables, raced>>

LotCommit(r) ==
  /\ At(r, "repoint")
  /\ lotCigar' = [lotCigar EXCEPT ![req[r].lot] = req[r].cigar]
  /\ Done(r)
  /\ UNCHANGED <<smokeCigar, link, raced>>

-----------------------------------------------------------------------------
\* A transaction that fails leaves nothing.
Fail(r) ==
  /\ "db" \in Faults /\ ~At(r, "idle")
  /\ Done(r)
  /\ UNCHANGED <<tables, raced>>

Step(r) ==
  \/ SaveCheck(r) \/ SaveCommit(r)
  \/ UpdateRead(r) \/ UpdateLock(r) \/ UpdateLink(r) \/ UpdateCommit(r)
  \/ LotRead(r) \/ LotCheck(r) \/ LotCommit(r)
  \/ Fail(r)

Next ==
  \/ \E r \in Requests : Step(r)
  \/ \E r \in Requests, s \in Smokes, c \in Cigars, w \in Links : Save(r, s, c, w)
  \/ \E r \in Requests, s \in Smokes, c \in Cigars \union {NoCigar}, w \in Links \union {Keep} :
       Update(r, s, c, w)
  \/ \E r \in Requests, l \in Lots, c \in Cigars : UpdatePurchase(r, l, c)
  \/ \E l \in Lots, c \in Cigars : RecordPurchase(l, c)
  \/ \E s \in Smokes : DeleteSmoke(s)

Spec == Init /\ [][Next]_vars

-----------------------------------------------------------------------------
(* Properties *)

Stages == {"idle", "save", "saved", "read", "lock", "link", "update",
           "lot", "foreign", "repoint"}

TypeOK ==
  /\ smokeCigar \in [Smokes -> Cigars \union {NoCigar}]
  /\ lotCigar \in [Lots -> Cigars \union {NoCigar}]
  /\ link \in [Smokes -> Links]
  /\ raced \in BOOLEAN
  /\ req \in [Requests -> [pc : Stages, smoke : Smokes \union {NoSmoke},
                           lot : Lots \union {NoLot}, cigar : Cigars \union {NoCigar},
                           moves : BOOLEAN, change : Links \union {Keep},
                           before : Links, after : Links]]

\* Not true of the code, whose two checks read without a lock: a smoke taken from a lot
\* is a smoke of the lot's cigar.
LotMatchesCigar ==
  \A s \in Smokes : link[s] \in Lots => LotOf(link[s], smokeCigar[s])

\* One rule at both ends: no order of saves, updates, moves of smokes, moves of
\* lots and deletes attributes a smoke to a lot of another cigar, unless a move of
\* a lot overlapped a call on a smoke or two calls on one smoke overlapped.
LotMatchesUnlessRaced == raced \/ LotMatchesCigar

\* A stick is deducted only for a smoke that exists: no update in flight when its
\* smoke is deleted leaves, or brings back, a consumption.
LinkHasSmoke == \A s \in Smokes : link[s] # NoLink => smokeCigar[s] # NoCigar

\* The audit row of an update tells the movement that took place: what it records
\* as the link before is what the link was, however updates overlap.
AuditTellsTheMovement ==
  [][\A r \in Requests : UpdateCommit(r) => req[r].before = link[req[r].smoke]]_vars
=============================================================================
