------------------------- MODULE HumidorLedger_proofs -------------------------
(***************************************************************************)
(* The humidor's two ends keep one rule, for every set of smokes, lots,     *)
(* cigars and calls in flight.  HumidorInv holds of every interleaving; the *)
(* rule itself holds until two calls clash (AgreeUnlessRaced).              *)
(***************************************************************************)
EXTENDS HumidorLedger, TLAPS

SmokeCalls == {"save", "saved", "read", "lock", "link", "update"}
LotCalls == {"lot", "foreign", "repoint"}

\* The two kinds of call, and the cigar each knows by now.
Shape(x) ==
  /\ x.pc \in SmokeCalls => x.smoke \in Smokes
  /\ x.pc \in LotCalls => x.smoke = NoSmoke /\ x.lot \in Lots
  /\ x.pc \in LotCalls \union {"save", "saved", "lock", "link", "update"} => x.cigar \in Cigars
  /\ x.pc = "read" /\ x.moves => x.cigar \in Cigars

\* An update holds its smoke's row and has read its link; a save's smoke is not there.
Row(x) ==
  /\ x.pc \in {"link", "update"} => smokeCigar[x.smoke] # NoCigar /\ x.before = link[x.smoke]
  /\ x.pc \in {"save", "saved"} => smokeCigar[x.smoke] = NoCigar

\* One holder of a row, and one save of a smoke.
Alone(a, b) ==
  a.smoke = b.smoke =>
    /\ ~(a.pc \in {"link", "update"} /\ b.pc \in {"link", "update"})
    /\ ~(a.pc \in {"save", "saved"} /\ b.pc \in {"save", "saved"})

RequestsFit == \A r \in Requests : Shape(req[r]) /\ Row(req[r])

RowsHaveOneHolder == \A q, r \in Requests : q # r => Alone(req[q], req[r])

HumidorInv == TypeOK /\ RequestsFit /\ RowsHaveOneHolder /\ LinkHasSmoke

\* What a call has checked still holds when nothing clashed with it.
StillTrue(x) ==
  /\ x.pc \in {"saved", "update"} /\ x.after \in Lots => lotCigar[x.after] = x.cigar
  /\ x.pc \in {"lock", "link", "update"} /\ ~x.moves => smokeCigar[x.smoke] \in {NoCigar, x.cigar}
  /\ x.pc = "repoint" => \A s \in Smokes : link[s] = x.lot => smokeCigar[s] = x.cigar

NoClash ==
  \A q, r \in Requests : q # r /\ ~At(q, "idle") /\ ~At(r, "idle") => ~Clash(req[q], req[r])

AgreeUnlessRaced ==
  raced \/ (LotMatchesCigar /\ NoClash /\ \A r \in Requests : StillTrue(req[r]))

-----------------------------------------------------------------------------
RequestType == [pc : Stages, smoke : Smokes \union {NoSmoke},
                lot : Lots \union {NoLot}, cigar : Cigars \union {NoCigar},
                moves : BOOLEAN, change : Links \union {Keep},
                before : Links, after : Links]

\* The idle slot, and the calls as they start, are well typed.
LEMMA StartsAreTyped ==
  /\ Idle \in RequestType
  /\ \A s \in Smokes, c \in Cigars, w \in Links :
       [Idle EXCEPT !.pc = "save", !.smoke = s, !.cigar = c, !.after = w] \in RequestType
  /\ \A s \in Smokes, c \in Cigars \union {NoCigar}, w \in Links \union {Keep}, b \in BOOLEAN :
       [Idle EXCEPT !.pc = "read", !.smoke = s, !.cigar = c, !.moves = b, !.change = w]
         \in RequestType
  /\ \A l \in Lots, c \in Cigars :
       [Idle EXCEPT !.pc = "lot", !.lot = l, !.cigar = c] \in RequestType
<1>1. Idle \in RequestType
  BY DEF Idle, RequestType, Stages, Links
<1>2. \A s \in Smokes, c \in Cigars, w \in Links :
        [Idle EXCEPT !.pc = "save", !.smoke = s, !.cigar = c, !.after = w] \in RequestType
  BY DEF Idle, RequestType, Stages, Links
<1>3. \A s \in Smokes, c \in Cigars \union {NoCigar}, w \in Links \union {Keep}, b \in BOOLEAN :
        [Idle EXCEPT !.pc = "read", !.smoke = s, !.cigar = c, !.moves = b, !.change = w]
          \in RequestType
  BY DEF Idle, RequestType, Stages, Links
<1>4. \A l \in Lots, c \in Cigars :
        [Idle EXCEPT !.pc = "lot", !.lot = l, !.cigar = c] \in RequestType
  BY DEF Idle, RequestType, Stages, Links
<1>5. QED  BY <1>1, <1>2, <1>3, <1>4

\* So is every call after a step.
LEMMA MovesAreTyped ==
  ASSUME NEW x \in RequestType
  PROVE  /\ \A pc \in Stages : [x EXCEPT !.pc = pc] \in RequestType
         /\ \A c \in Cigars \union {NoCigar} : [x EXCEPT !.pc = "lock", !.cigar = c] \in RequestType
         /\ \A w \in Links : [x EXCEPT !.pc = "link", !.before = w] \in RequestType
         /\ \A w \in Links : [x EXCEPT !.pc = "update", !.after = w] \in RequestType
  BY DEF RequestType, Stages

\* A call that becomes a well-typed one that fits the tables, and keeps to its row,
\* keeps the invariant when the tables stay.
LEMMA QuietStep ==
  ASSUME HumidorInv, NEW r \in Requests, NEW x \in RequestType,
         Become(r, x), UNCHANGED tables, raced' \in BOOLEAN,
         Shape(x), Row(x), \A q \in Requests \ {r} : Alone(req[q], x)
  PROVE  HumidorInv'
<1>1. \A q \in Requests : req'[q] = IF q = r THEN x ELSE req[q]
  BY DEF Become, HumidorInv, TypeOK
<1>2. TypeOK'
  <2>1. req \in [Requests -> RequestType]
    BY DEF HumidorInv, TypeOK, RequestType
  <2>2. req' \in [Requests -> RequestType]
    BY <2>1 DEF Become
  <2>3. QED  BY <2>2 DEF HumidorInv, TypeOK, RequestType, tables
<1>3. RequestsFit'
  BY <1>1 DEF HumidorInv, RequestsFit, Shape, Row, tables
<1>4. RowsHaveOneHolder'
  BY <1>1 DEF HumidorInv, RowsHaveOneHolder, Alone
<1>5. LinkHasSmoke'
  BY DEF HumidorInv, LinkHasSmoke, tables
<1>6. QED  BY <1>2, <1>3, <1>4, <1>5 DEF HumidorInv

\* A call that goes idle fits.
LEMMA DoneStep ==
  ASSUME HumidorInv, NEW r \in Requests, Done(r), UNCHANGED <<tables, raced>>
  PROVE  HumidorInv'
<1>1. Shape(Idle) /\ Row(Idle) /\ \A q \in Requests \ {r} : Alone(req[q], Idle)
  BY DEF Shape, Row, Alone, Idle, SmokeCalls, LotCalls
<1>2. QED  BY <1>1, StartsAreTyped, QuietStep DEF Done, HumidorInv, TypeOK

\* No call has started.
LEMMA HumidorInvInit == Init => HumidorInv /\ AgreeUnlessRaced
<1> SUFFICES ASSUME Init PROVE HumidorInv /\ AgreeUnlessRaced
  OBVIOUS
<1>1. TypeOK
  <2>1. req \in [Requests -> RequestType]
    BY StartsAreTyped DEF Init
  <2>2. QED  BY <2>1 DEF Init, TypeOK, RequestType, Links
<1>2. RequestsFit /\ RowsHaveOneHolder
  BY DEF Init, RequestsFit, RowsHaveOneHolder, Shape, Row, Alone, Idle, SmokeCalls, LotCalls
<1>3. LinkHasSmoke
  BY DEF Init, LinkHasSmoke
<1>4. LotMatchesCigar /\ NoClash /\ \A r \in Requests : StillTrue(req[r])
  BY SentinelAssumption DEF Init, LotMatchesCigar, NoClash, StillTrue, At, Idle
<1>5. QED  BY <1>1, <1>2, <1>3, <1>4 DEF HumidorInv, AgreeUnlessRaced

-----------------------------------------------------------------------------
\* save_smoke keeps the invariant: its smoke is its own until the commit.
LEMMA SaveKeepsInv ==
  ASSUME HumidorInv, NEW r \in Requests
  PROVE  /\ \A s \in Smokes, c \in Cigars, w \in Links : Save(r, s, c, w) => HumidorInv'
         /\ SaveCheck(r) => HumidorInv'
         /\ SaveCommit(r) => HumidorInv'
<1>t. req \in [Requests -> RequestType] /\ raced \in BOOLEAN
  BY DEF HumidorInv, TypeOK, RequestType
<1>1. ASSUME NEW s \in Smokes, NEW c \in Cigars, NEW w \in Links, Save(r, s, c, w)
      PROVE HumidorInv'
  <2> DEFINE x == [Idle EXCEPT !.pc = "save", !.smoke = s, !.cigar = c, !.after = w]
  <2>1. x \in RequestType
    BY StartsAreTyped
  <2>2. Shape(x) /\ Row(x)
    BY <1>1 DEF Save, Shape, Row, Idle, SmokeCalls, LotCalls
  <2>3. \A q \in Requests \ {r} : Alone(req[q], x)
    BY <1>1 DEF Save, Alone, Idle
  <2>4. Become(r, x) /\ UNCHANGED tables /\ raced' \in BOOLEAN
    BY <1>1, <1>t DEF Save, Start
  <2>5. QED  BY <2>1, <2>2, <2>3, <2>4, QuietStep
<1>2. ASSUME SaveCheck(r) PROVE HumidorInv'
  <2>1. CASE Done(r)
    BY <1>2, <2>1, DoneStep DEF SaveCheck, tables
  <2>2. CASE Goto(r, "saved")
    <3> DEFINE x == [req[r] EXCEPT !.pc = "saved"]
    <3>1. x \in RequestType
      BY <1>t, MovesAreTyped DEF Stages
    <3>2. Shape(x) /\ Row(x)
      BY <1>2, <1>t DEF SaveCheck, At, HumidorInv, RequestsFit, Shape, Row, SmokeCalls, LotCalls, RequestType
    <3>3. \A q \in Requests \ {r} : Alone(req[q], x)
      BY <1>2, <1>t DEF SaveCheck, At, HumidorInv, RowsHaveOneHolder, Alone, RequestType
    <3>4. QED  BY <1>2, <1>t, <2>2, <3>1, <3>2, <3>3, QuietStep DEF Goto, SaveCheck, tables
  <2>3. QED  BY <1>2, <2>1, <2>2 DEF SaveCheck
<1>3. ASSUME SaveCommit(r) PROVE HumidorInv'
  <2> DEFINE s == req[r].smoke
  <2>1. /\ s \in Smokes /\ req[r].cigar \in Cigars /\ req[r].after \in Links
        /\ smokeCigar[s] = NoCigar
        /\ req[r].pc = "saved"
    BY <1>3, <1>t DEF SaveCommit, At, HumidorInv, RequestsFit, Shape, Row, SmokeCalls, LotCalls, RequestType
  <2>2. /\ req' = [req EXCEPT ![r] = Idle]
        /\ smokeCigar' = [smokeCigar EXCEPT ![s] = req[r].cigar]
        /\ link' = [link EXCEPT ![s] = req[r].after]
        /\ UNCHANGED <<lotCigar, raced>>
    BY <1>3 DEF SaveCommit, Done, Become
  <2>3. TypeOK'
    <3>1. req' \in [Requests -> RequestType]
      BY <1>t, <2>2, StartsAreTyped
    <3>2. QED  BY <2>1, <2>2, <3>1 DEF HumidorInv, TypeOK, RequestType
  <2>4. \A q \in Requests : q # r /\ req[q].smoke = s => req[q].pc \notin {"link", "update", "save", "saved"}
    BY <2>1 DEF HumidorInv, RequestsFit, Row, RowsHaveOneHolder, Alone
  <2>5. \A q \in Requests : q # r => Shape(req[q]) /\ Row(req[q])'
    <3> SUFFICES ASSUME NEW q \in Requests, q # r PROVE Shape(req[q]) /\ Row(req[q])'
      OBVIOUS
    <3>1. Shape(req[q]) /\ Row(req[q]) /\ req'[q] = req[q]
      BY <1>t, <2>2 DEF HumidorInv, RequestsFit
    <3>2. CASE req[q].smoke = s
      BY <2>4, <3>1, <3>2 DEF Row
    <3>3. CASE req[q].smoke # s
      BY <2>1, <2>2, <3>1, <3>3 DEF Row, Shape, SmokeCalls, HumidorInv, TypeOK
    <3>4. QED  BY <3>1, <3>2, <3>3
  <2>6. RequestsFit'
    BY <1>t, <2>2, <2>5 DEF RequestsFit, Shape, Row, Idle, SmokeCalls, LotCalls
  <2>7. RowsHaveOneHolder'
    BY <1>t, <2>2 DEF HumidorInv, RowsHaveOneHolder, Alone, Idle
  <2>8. LinkHasSmoke'
    BY <2>1, <2>2, SentinelAssumption DEF HumidorInv, TypeOK, LinkHasSmoke
  <2>9. QED  BY <2>3, <2>6, <2>7, <2>8 DEF HumidorInv
<1>4. QED  BY <1>1, <1>2, <1>3

-----------------------------------------------------------------------------
\* update_smoke keeps the invariant: from the UPDATE to the commit it holds the
\* row, so the link it read is the link it replaces.
LEMMA UpdateKeepsInv ==
  ASSUME HumidorInv, NEW r \in Requests
  PROVE  /\ \A s \in Smokes, c \in Cigars \union {NoCigar}, w \in Links \union {Keep} :
              Update(r, s, c, w) => HumidorInv'
         /\ UpdateRead(r) => HumidorInv'
         /\ UpdateLock(r) => HumidorInv'
         /\ UpdateLink(r) => HumidorInv'
         /\ UpdateCommit(r) => HumidorInv'
<1>t. req \in [Requests -> RequestType] /\ raced \in BOOLEAN
  BY DEF HumidorInv, TypeOK, RequestType
<1>1. ASSUME NEW s \in Smokes, NEW c \in Cigars \union {NoCigar},
             NEW w \in Links \union {Keep}, Update(r, s, c, w)
      PROVE HumidorInv'
  <2> DEFINE b == c # NoCigar
             x == [Idle EXCEPT !.pc = "read", !.smoke = s, !.cigar = c,
                               !.moves = b, !.change = w]
  <2>1. x \in RequestType
    <3>1. b \in BOOLEAN
      OBVIOUS
    <3> HIDE DEF b
    <3>2. QED  BY <3>1, StartsAreTyped
  <2>2. Shape(x) /\ Row(x)
    BY DEF Shape, Row, Idle, SmokeCalls, LotCalls
  <2>3. \A q \in Requests \ {r} : Alone(req[q], x)
    BY DEF Alone, Idle
  <2>4. Become(r, x) /\ UNCHANGED tables /\ raced' \in BOOLEAN
    BY <1>1, <1>t DEF Update, Start
  <2>5. QED  BY <2>1, <2>2, <2>3, <2>4, QuietStep
<1>2. ASSUME UpdateRead(r) PROVE HumidorInv'
  <2>1. CASE Done(r)
    BY <1>2, <2>1, DoneStep DEF UpdateRead, tables
  <2>2. CASE ~Done(r)
    <3> DEFINE c == IF req[r].moves THEN req[r].cigar ELSE smokeCigar[req[r].smoke]
               x == [req[r] EXCEPT !.pc = "lock", !.cigar = c]
    <3>1. Become(r, x) /\ req[r].pc = "read" /\ smokeCigar[req[r].smoke] # NoCigar
      BY <1>2, <2>2 DEF UpdateRead, At
    <3>2. req[r].smoke \in Smokes /\ c \in Cigars
      BY <3>1 DEF HumidorInv, TypeOK, RequestsFit, Shape, SmokeCalls
    <3>3. x \in RequestType
      BY <1>t, <3>2, MovesAreTyped
    <3>4. x.smoke = req[r].smoke /\ x.pc = "lock" /\ x.cigar = c
      BY <1>t DEF RequestType
    <3>5. Shape(x) /\ Row(x) /\ \A q \in Requests \ {r} : Alone(req[q], x)
      BY <3>2, <3>4 DEF Shape, Row, Alone, SmokeCalls, LotCalls
    <3> HIDE DEF x
    <3>6. QED  BY <1>2, <1>t, <3>1, <3>3, <3>5, QuietStep DEF UpdateRead, tables
  <2>3. QED  BY <2>1, <2>2
<1>3. ASSUME UpdateLock(r) PROVE HumidorInv'
  <2>1. CASE Done(r)
    BY <1>3, <2>1, DoneStep DEF UpdateLock, tables
  <2>2. CASE ~Done(r)
    <3> DEFINE x == [req[r] EXCEPT !.pc = "link", !.before = link[req[r].smoke]]
    <3>1. Become(r, x) /\ req[r].pc = "lock" /\ smokeCigar[req[r].smoke] # NoCigar
      BY <1>3, <2>2 DEF UpdateLock, At
    <3>2. req[r].smoke \in Smokes /\ req[r].cigar \in Cigars
      BY <3>1 DEF HumidorInv, RequestsFit, Shape, SmokeCalls
    <3>3. link[req[r].smoke] \in Links
      BY <3>2 DEF HumidorInv, TypeOK
    <3>4. x \in RequestType
      BY <1>t, <3>3, MovesAreTyped
    <3>5. /\ x.smoke = req[r].smoke /\ x.pc = "link" /\ x.cigar = req[r].cigar
          /\ x.before = link[req[r].smoke]
      BY <1>t DEF RequestType
    <3>6. Shape(x) /\ Row(x)
      BY <3>1, <3>2, <3>5 DEF Shape, Row, SmokeCalls, LotCalls
    <3>7. \A q \in Requests \ {r} : Alone(req[q], x)
      BY <1>3, <3>5 DEF UpdateLock, RowHeld, Alone
    <3> HIDE DEF x
    <3>8. QED  BY <1>3, <1>t, <3>1, <3>4, <3>6, <3>7, QuietStep DEF UpdateLock, tables
  <2>3. QED  BY <2>1, <2>2
<1>4. ASSUME UpdateLink(r) PROVE HumidorInv'
  <2>1. CASE Done(r)
    BY <1>4, <2>1, DoneStep DEF UpdateLink, tables
  <2>2. CASE ~Done(r)
    <3> DEFINE w == IF req[r].change = Keep THEN Kept(r) ELSE req[r].change
               x == [req[r] EXCEPT !.pc = "update", !.after = w]
    <3>1. Become(r, x) /\ req[r].pc = "link"
      BY <1>4, <2>2 DEF UpdateLink, At
    <3>2. w \in Links
      BY <1>t DEF Kept, Links, RequestType
    <3>3. x \in RequestType
      BY <1>t, <3>2, MovesAreTyped
    <3>4. /\ x.smoke = req[r].smoke /\ x.pc = "update" /\ x.cigar = req[r].cigar
          /\ x.before = req[r].before
      BY <1>t DEF RequestType
    <3>5. Shape(x) /\ Row(x)
      BY <3>1, <3>4 DEF HumidorInv, RequestsFit, Shape, Row, SmokeCalls, LotCalls
    <3>6. \A q \in Requests \ {r} : Alone(req[q], x)
      BY <3>1, <3>4 DEF HumidorInv, RowsHaveOneHolder, Alone
    <3> HIDE DEF x
    <3>7. QED  BY <1>4, <1>t, <3>1, <3>3, <3>5, <3>6, QuietStep DEF UpdateLink, tables
  <2>3. QED  BY <2>1, <2>2
<1>5. ASSUME UpdateCommit(r) PROVE HumidorInv'
  <2> DEFINE s == req[r].smoke
             c == IF req[r].moves THEN req[r].cigar ELSE smokeCigar[s]
  <2>1. /\ s \in Smokes /\ c \in Cigars /\ req[r].after \in Links
        /\ smokeCigar[s] # NoCigar
        /\ req[r].pc = "update"
    BY <1>5, <1>t DEF UpdateCommit, At, HumidorInv, TypeOK, RequestsFit, Shape, Row, SmokeCalls, LotCalls, RequestType
  <2>2. /\ req' = [req EXCEPT ![r] = Idle]
        /\ smokeCigar' = [smokeCigar EXCEPT ![s] = c]
        /\ link' = [link EXCEPT ![s] = req[r].after]
        /\ UNCHANGED <<lotCigar, raced>>
    BY <1>5, <2>1 DEF UpdateCommit, Done, Become, HumidorInv, TypeOK
  <2>3. TypeOK'
    <3>1. req' \in [Requests -> RequestType]
      BY <1>t, <2>2, StartsAreTyped
    <3>2. QED  BY <2>1, <2>2, <3>1 DEF HumidorInv, TypeOK, RequestType
  <2>4. \A q \in Requests : q # r /\ req[q].smoke = s => req[q].pc \notin {"link", "update", "save", "saved"}
    BY <2>1 DEF HumidorInv, RequestsFit, Row, RowsHaveOneHolder, Alone
  <2> HIDE DEF c
  <2>5. \A q \in Requests : q # r => Shape(req[q]) /\ Row(req[q])'
    <3> SUFFICES ASSUME NEW q \in Requests, q # r PROVE Shape(req[q]) /\ Row(req[q])'
      OBVIOUS
    <3>1. Shape(req[q]) /\ Row(req[q]) /\ req'[q] = req[q]
      BY <1>t, <2>2 DEF HumidorInv, RequestsFit
    <3>2. CASE req[q].smoke = s
      BY <2>4, <3>1, <3>2 DEF Row
    <3>3. CASE req[q].smoke # s
      BY <2>1, <2>2, <3>1, <3>3 DEF Row, Shape, SmokeCalls, HumidorInv, TypeOK
    <3>4. QED  BY <3>1, <3>2, <3>3
  <2>6. RequestsFit'
    BY <1>t, <2>2, <2>5 DEF RequestsFit, Shape, Row, Idle, SmokeCalls, LotCalls
  <2>7. RowsHaveOneHolder'
    BY <1>t, <2>2 DEF HumidorInv, RowsHaveOneHolder, Alone, Idle
  <2>8. LinkHasSmoke'
    <3>1. c # NoCigar
      BY <2>1, SentinelAssumption
    <3>2. QED  BY <2>1, <2>2, <3>1 DEF HumidorInv, TypeOK, LinkHasSmoke
  <2>9. QED  BY <2>3, <2>6, <2>7, <2>8 DEF HumidorInv
<1>6. QED  BY <1>1, <1>2, <1>3, <1>4, <1>5

-----------------------------------------------------------------------------
\* Deletes, purchases, moves of lots and failures keep the invariant: a delete
\* waits for the row and takes the link, the others touch neither row nor link.
LEMMA OthersKeepInv ==
  ASSUME HumidorInv
  PROVE  /\ \A s \in Smokes : DeleteSmoke(s) => HumidorInv'
         /\ \A l \in Lots, c \in Cigars : RecordPurchase(l, c) => HumidorInv'
         /\ \A r \in Requests, l \in Lots, c \in Cigars : UpdatePurchase(r, l, c) => HumidorInv'
         /\ \A r \in Requests : LotRead(r) \/ LotCheck(r) \/ LotCommit(r) \/ Fail(r) => HumidorInv'
<1>t. req \in [Requests -> RequestType] /\ raced \in BOOLEAN
  BY DEF HumidorInv, TypeOK, RequestType
<1>1. ASSUME NEW s \in Smokes, DeleteSmoke(s) PROVE HumidorInv'
  <2>1. TypeOK'
    BY <1>1 DEF DeleteSmoke, HumidorInv, TypeOK, Links
  <2>2. RequestsFit'
    <3> SUFFICES ASSUME NEW q \in Requests PROVE Shape(req[q]) /\ Row(req[q])'
      BY <1>1 DEF DeleteSmoke, RequestsFit, Shape
    <3>1. Shape(req[q]) /\ Row(req[q])
      BY DEF HumidorInv, RequestsFit
    <3>2. CASE req[q].smoke = s
      BY <1>1, <3>1, <3>2 DEF DeleteSmoke, Row, HumidorInv, TypeOK
    <3>3. CASE req[q].smoke # s
      BY <1>1, <3>1, <3>3 DEF DeleteSmoke, Row, Shape, SmokeCalls, HumidorInv, TypeOK
    <3>4. QED  BY <3>2, <3>3
  <2>3. RowsHaveOneHolder' /\ LinkHasSmoke'
    BY <1>1 DEF DeleteSmoke, HumidorInv, TypeOK, RowsHaveOneHolder, Alone, LinkHasSmoke
  <2>4. QED  BY <2>1, <2>2, <2>3 DEF HumidorInv
<1>2. ASSUME NEW l \in Lots, NEW c \in Cigars, RecordPurchase(l, c) PROVE HumidorInv'
  <2>1. TypeOK'
    BY <1>2 DEF RecordPurchase, HumidorInv, TypeOK
  <2>2. RequestsFit' /\ RowsHaveOneHolder' /\ LinkHasSmoke'
    BY <1>2 DEF RecordPurchase, HumidorInv, RequestsFit, Shape, Row, RowsHaveOneHolder, Alone, LinkHasSmoke
  <2>3. QED  BY <2>1, <2>2 DEF HumidorInv
<1>3. ASSUME NEW r \in Requests, NEW l \in Lots, NEW c \in Cigars, UpdatePurchase(r, l, c)
      PROVE HumidorInv'
  <2> DEFINE x == [Idle EXCEPT !.pc = "lot", !.lot = l, !.cigar = c]
  <2>1. x \in RequestType
    BY StartsAreTyped
  <2>2. Shape(x) /\ Row(x) /\ \A q \in Requests \ {r} : Alone(req[q], x)
    BY DEF Shape, Row, Alone, Idle, SmokeCalls, LotCalls
  <2>3. Become(r, x) /\ UNCHANGED tables /\ raced' \in BOOLEAN
    BY <1>3, <1>t DEF UpdatePurchase, Start
  <2>4. QED  BY <2>1, <2>2, <2>3, QuietStep
<1>4. ASSUME NEW r \in Requests, LotRead(r) \/ LotCheck(r) \/ LotCommit(r) \/ Fail(r)
      PROVE HumidorInv'
  <2>1. ASSUME NEW pc \in {"foreign", "repoint"}, Goto(r, pc), req[r].pc \in LotCalls,
               UNCHANGED <<tables, raced>>
        PROVE HumidorInv'
    <3> DEFINE x == [req[r] EXCEPT !.pc = pc]
    <3>1. x \in RequestType /\ Become(r, x)
      BY <1>t, <2>1, MovesAreTyped DEF Goto, Stages
    <3>2. Shape(x) /\ Row(x) /\ \A q \in Requests \ {r} : Alone(req[q], x)
      BY <1>t, <2>1 DEF HumidorInv, RequestsFit, Shape, Row, Alone, SmokeCalls, LotCalls, RequestType
    <3>3. QED  BY <1>t, <2>1, <3>1, <3>2, QuietStep
  <2>2. CASE LotRead(r)
    BY <2>1, <2>2, DoneStep DEF LotRead, At, LotCalls, tables
  <2>3. CASE LotCheck(r)
    BY <2>1, <2>3, DoneStep DEF LotCheck, At, LotCalls, tables
  <2>4. CASE LotCommit(r)
    <3>1. /\ req' = [req EXCEPT ![r] = Idle]
          /\ lotCigar' = [lotCigar EXCEPT ![req[r].lot] = req[r].cigar]
          /\ UNCHANGED <<smokeCigar, link, raced>>
          /\ req[r].cigar \in Cigars
      BY <2>4 DEF LotCommit, Done, Become, At, HumidorInv, RequestsFit, Shape, LotCalls
    <3>2. TypeOK'
      <4>1. req' \in [Requests -> RequestType]
        BY <1>t, <3>1, StartsAreTyped
      <4>2. QED  BY <3>1, <4>1 DEF HumidorInv, TypeOK, RequestType
    <3>3. RequestsFit' /\ RowsHaveOneHolder' /\ LinkHasSmoke'
      BY <1>t, <3>1 DEF HumidorInv, RequestsFit, Shape, Row, RowsHaveOneHolder, Alone, LinkHasSmoke, Idle, SmokeCalls, LotCalls
    <3>4. QED  BY <3>2, <3>3 DEF HumidorInv
  <2>5. CASE Fail(r)
    BY <2>5, DoneStep DEF Fail, tables
  <2>6. QED  BY <1>4, <2>2, <2>3, <2>4, <2>5
<1>5. QED  BY <1>1, <1>2, <1>3, <1>4

\* No step breaks the invariant.
LEMMA HumidorInvStep == HumidorInv /\ [Next]_vars => HumidorInv'
<1> SUFFICES ASSUME HumidorInv, [Next]_vars PROVE HumidorInv'
  OBVIOUS
<1>1. CASE UNCHANGED vars
  BY <1>1 DEF vars, HumidorInv, TypeOK, RequestsFit, Shape, Row, RowsHaveOneHolder, Alone, LinkHasSmoke
<1>2. CASE \E r \in Requests : Step(r)
  BY <1>2, SaveKeepsInv, UpdateKeepsInv, OthersKeepInv DEF Step
<1>3. CASE Next /\ ~\E r \in Requests : Step(r)
  BY <1>3, SaveKeepsInv, UpdateKeepsInv, OthersKeepInv DEF Next
<1>4. QED  BY <1>1, <1>2, <1>3

\* The invariant of every interleaving.
THEOREM HumidorInvariant == Spec => []HumidorInv
  BY HumidorInvInit, HumidorInvStep, PTL DEF Spec

\* Type correctness of every state.
THEOREM TypeCorrect == Spec => []TypeOK
<1>1. HumidorInv => TypeOK
  BY DEF HumidorInv
<1>2. QED  BY <1>1, HumidorInvariant, PTL

\* No interleaving deducts a stick for a smoke that is not there.
THEOREM NoStickWithoutSmoke == Spec => []LinkHasSmoke
<1>1. HumidorInv => LinkHasSmoke
  BY DEF HumidorInv
<1>2. QED  BY <1>1, HumidorInvariant, PTL

\* The audit's link before an update is the link that the update replaces.
THEOREM AuditIsTrue == Spec => AuditTellsTheMovement
<1>1. HumidorInv /\ [Next]_vars =>
        [\A r \in Requests : UpdateCommit(r) => req[r].before = link[req[r].smoke]]_vars
  BY DEF HumidorInv, RequestsFit, Row, UpdateCommit, At
<1>2. QED  BY <1>1, HumidorInvariant, PTL DEF Spec, AuditTellsTheMovement

-----------------------------------------------------------------------------
\* A call that keeps its smoke and whose checks are still true keeps the agreement
\* when the tables stay.
LEMMA QuietAgrees ==
  ASSUME HumidorInv, AgreeUnlessRaced, NEW r \in Requests, NEW x,
         Become(r, x), UNCHANGED <<tables, raced>>, ~At(r, "idle"),
         x.pc = "idle" \/ x.smoke = req[r].smoke,
         ~raced => StillTrue(x)
  PROVE  AgreeUnlessRaced'
<1> SUFFICES ASSUME ~raced PROVE (LotMatchesCigar /\ NoClash /\ \A q \in Requests : StillTrue(req[q]))'
  BY DEF AgreeUnlessRaced
<1>1. \A q \in Requests : req'[q] = IF q = r THEN x ELSE req[q]
  BY DEF Become, HumidorInv, TypeOK
<1>2. LotMatchesCigar'
  BY DEF AgreeUnlessRaced, LotMatchesCigar, LotOf, tables
<1>3. NoClash'
  BY <1>1 DEF AgreeUnlessRaced, NoClash, Clash, At
<1>4. (\A q \in Requests : StillTrue(req[q]))'
  BY <1>1 DEF AgreeUnlessRaced, StillTrue, tables
<1>5. QED  BY <1>2, <1>3, <1>4

\* So does a call that ends.
LEMMA DoneAgrees ==
  ASSUME HumidorInv, AgreeUnlessRaced, NEW r \in Requests, Done(r),
         UNCHANGED <<tables, raced>>, ~At(r, "idle")
  PROVE  AgreeUnlessRaced'
<1>1. StillTrue(Idle) /\ Idle.pc = "idle"
  BY DEF StillTrue, Idle
<1>2. QED  BY <1>1, QuietAgrees DEF Done

\* A call that starts clashes with nothing in flight, or counts as a race.
LEMMA StartAgrees ==
  ASSUME HumidorInv, AgreeUnlessRaced, NEW r \in Requests, NEW x,
         Start(r, x), x.pc \in {"save", "read", "lot"}
  PROVE  AgreeUnlessRaced'
<1> SUFFICES ASSUME ~raced, \A q \in Requests : ~At(q, "idle") => ~Clash(x, req[q])
             PROVE (LotMatchesCigar /\ NoClash /\ \A q \in Requests : StillTrue(req[q]))'
  BY DEF AgreeUnlessRaced, Start
<1>1. \A q \in Requests : req'[q] = IF q = r THEN x ELSE req[q]
  BY DEF Start, Become, HumidorInv, TypeOK
<1>2. LotMatchesCigar'
  BY DEF Start, AgreeUnlessRaced, LotMatchesCigar, LotOf, tables
<1>3. NoClash'
  BY <1>1 DEF AgreeUnlessRaced, NoClash, Clash, At
<1>4. (\A q \in Requests : StillTrue(req[q]))'
  BY <1>1 DEF Start, AgreeUnlessRaced, StillTrue, tables
<1>5. QED  BY <1>2, <1>3, <1>4

\* Nothing in flight beside a smoke call is on that smoke or moves a lot, and
\* nothing beside a move of a lot is on a smoke.
LEMMA OthersKeepAway ==
  ASSUME HumidorInv, AgreeUnlessRaced, ~raced,
         NEW r \in Requests, NEW q \in Requests, q # r, ~At(r, "idle"), ~At(q, "idle")
  PROVE  /\ req[r].smoke # NoSmoke => req[q].smoke # req[r].smoke /\ req[q].smoke # NoSmoke
         /\ req[r].smoke = NoSmoke => req[q].smoke = NoSmoke
  BY DEF AgreeUnlessRaced, NoClash, Clash

\* A save that nothing clashed with takes its smoke from a lot of its cigar.
LEMMA SaveAgrees ==
  ASSUME HumidorInv, AgreeUnlessRaced, NEW r \in Requests
  PROVE  SaveCheck(r) \/ SaveCommit(r) => AgreeUnlessRaced'
<1>t. req[r] \in RequestType
  BY DEF HumidorInv, TypeOK, RequestType
<1>1. ASSUME SaveCheck(r) PROVE AgreeUnlessRaced'
  <2>1. CASE Done(r)
    BY <1>1, <2>1, DoneAgrees DEF SaveCheck, At
  <2>2. CASE Goto(r, "saved") /\ ~Done(r)
    <3> DEFINE x == [req[r] EXCEPT !.pc = "saved"]
    <3>1. x.pc = "saved" /\ x.smoke = req[r].smoke /\ x.after = req[r].after /\ x.cigar = req[r].cigar
      BY <1>t DEF RequestType
    <3>2. StillTrue(x)
      BY <1>1, <2>2, <3>1 DEF SaveCheck, StillTrue, LotOf
    <3> HIDE DEF x
    <3>3. QED  BY <1>1, <2>2, <3>1, <3>2, QuietAgrees DEF SaveCheck, Goto, At, x
  <2>3. QED  BY <1>1, <2>1, <2>2 DEF SaveCheck
<1>2. ASSUME SaveCommit(r) PROVE AgreeUnlessRaced'
  <2> SUFFICES ASSUME ~raced PROVE (LotMatchesCigar /\ NoClash /\ \A q \in Requests : StillTrue(req[q]))'
    BY <1>2 DEF SaveCommit, AgreeUnlessRaced
  <2> DEFINE s == req[r].smoke
  <2>1. /\ s \in Smokes /\ req[r].pc = "saved"
        /\ req[r].after \in Lots => lotCigar[req[r].after] = req[r].cigar
    BY <1>2 DEF SaveCommit, At, HumidorInv, RequestsFit, Shape, SmokeCalls, AgreeUnlessRaced, StillTrue
  <2>2. /\ \A q \in Requests : req'[q] = IF q = r THEN Idle ELSE req[q]
        /\ smokeCigar' = [smokeCigar EXCEPT ![s] = req[r].cigar]
        /\ link' = [link EXCEPT ![s] = req[r].after]
        /\ UNCHANGED <<lotCigar, raced>>
    BY <1>2 DEF SaveCommit, Done, Become, HumidorInv, TypeOK
  <2>3. LotMatchesCigar'
    BY <2>1, <2>2 DEF HumidorInv, TypeOK, AgreeUnlessRaced, LotMatchesCigar, LotOf
  <2>4. NoClash'
    BY <2>2 DEF AgreeUnlessRaced, NoClash, Clash, At, Idle
  <2>5. ASSUME NEW q \in Requests PROVE StillTrue(req[q])'
    <3>1. CASE q = r \/ At(q, "idle")
      BY <2>2, <3>1 DEF StillTrue, At, Idle
    <3>2. CASE q # r /\ ~At(q, "idle")
      <4>1. req[q].smoke # s /\ req[q].smoke # NoSmoke
        BY <2>1, <3>2, OthersKeepAway, SentinelAssumption DEF At
      <4>2. req[q].pc # "repoint" /\ (req[q].pc \in SmokeCalls => req[q].smoke \in Smokes)
        BY <4>1 DEF HumidorInv, RequestsFit, Shape, LotCalls
      <4>3. StillTrue(req[q])
        BY DEF AgreeUnlessRaced
      <4>4. QED
        BY <2>2, <3>2, <4>1, <4>2, <4>3 DEF StillTrue, SmokeCalls, HumidorInv, TypeOK
    <3>3. QED  BY <3>1, <3>2
  <2>6. QED  BY <2>3, <2>4, <2>5
<1>3. QED  BY <1>1, <1>2

\* An update that nothing clashed with holds the lot it keeps, or is given, to
\* the cigar its smoke will be of.
LEMMA UpdateAgrees ==
  ASSUME HumidorInv, AgreeUnlessRaced, NEW r \in Requests
  PROVE  UpdateRead(r) \/ UpdateLock(r) \/ UpdateLink(r) \/ UpdateCommit(r) => AgreeUnlessRaced'
<1>t. req[r] \in RequestType
  BY DEF HumidorInv, TypeOK, RequestType
<1>1. ASSUME UpdateRead(r) PROVE AgreeUnlessRaced'
  <2>1. CASE Done(r)
    BY <1>1, <2>1, DoneAgrees DEF UpdateRead, At
  <2>2. CASE ~Done(r)
    <3> DEFINE c == IF req[r].moves THEN req[r].cigar ELSE smokeCigar[req[r].smoke]
               x == [req[r] EXCEPT !.pc = "lock", !.cigar = c]
    <3>1. Become(r, x) /\ ~At(r, "idle") /\ UNCHANGED <<tables, raced>>
      BY <1>1, <2>2 DEF UpdateRead, At
    <3>2. x.smoke = req[r].smoke /\ x.pc = "lock" /\ x.cigar = c /\ x.moves = req[r].moves
      BY <1>t DEF RequestType
    <3>3. StillTrue(x)
      BY <3>2 DEF StillTrue
    <3> HIDE DEF x
    <3>4. QED  BY <3>1, <3>2, <3>3, QuietAgrees
  <2>3. QED  BY <2>1, <2>2
<1>2. ASSUME UpdateLock(r) PROVE AgreeUnlessRaced'
  <2>1. CASE Done(r)
    BY <1>2, <2>1, DoneAgrees DEF UpdateLock, At
  <2>2. CASE ~Done(r)
    <3> DEFINE x == [req[r] EXCEPT !.pc = "link", !.before = link[req[r].smoke]]
    <3>1. Become(r, x) /\ req[r].pc = "lock" /\ UNCHANGED <<tables, raced>>
      BY <1>2, <2>2 DEF UpdateLock, At
    <3>2. x.smoke = req[r].smoke /\ x.pc = "link" /\ x.cigar = req[r].cigar /\ x.moves = req[r].moves
      BY <1>t DEF RequestType
    <3>3. ~raced => StillTrue(x)
      BY <3>1, <3>2 DEF AgreeUnlessRaced, StillTrue
    <3> HIDE DEF x
    <3>4. QED  BY <3>1, <3>2, <3>3, QuietAgrees DEF At
  <2>3. QED  BY <2>1, <2>2
<1>3. ASSUME UpdateLink(r) PROVE AgreeUnlessRaced'
  <2>1. CASE Done(r)
    BY <1>3, <2>1, DoneAgrees DEF UpdateLink, At
  <2>2. CASE ~Done(r)
    <3> DEFINE w == IF req[r].change = Keep THEN Kept(r) ELSE req[r].change
               x == [req[r] EXCEPT !.pc = "update", !.after = w]
    <3>1. /\ Become(r, x) /\ req[r].pc = "link" /\ UNCHANGED <<tables, raced>>
          /\ ~(req[r].change \in Lots /\ ~LotOf(req[r].change, req[r].cigar))
      BY <1>3, <2>2 DEF UpdateLink, At
    <3>2. /\ x.smoke = req[r].smoke /\ x.pc = "update" /\ x.cigar = req[r].cigar
          /\ x.moves = req[r].moves /\ x.after = w
      BY <1>t DEF RequestType
    <3>3. ASSUME ~raced PROVE StillTrue(x)
      <4>1. /\ req[r].smoke \in Smokes
            /\ smokeCigar[req[r].smoke] # NoCigar
            /\ req[r].before = link[req[r].smoke]
        BY <3>1 DEF HumidorInv, RequestsFit, Shape, Row, SmokeCalls
      <4>2. ~req[r].moves => smokeCigar[req[r].smoke] = req[r].cigar
        BY <3>1, <3>3, <4>1 DEF AgreeUnlessRaced, StillTrue
      <4>3. ~req[r].moves /\ req[r].before \in Lots => LotOf(req[r].before, req[r].cigar)
        BY <3>3, <4>1, <4>2 DEF AgreeUnlessRaced, LotMatchesCigar
      <4>4. w \in Lots => lotCigar[w] = req[r].cigar
        BY <3>1, <4>3, SentinelAssumption DEF Kept, LotOf
      <4>5. QED  BY <3>2, <4>2, <4>4 DEF StillTrue
    <3> HIDE DEF x
    <3>4. QED  BY <3>1, <3>2, <3>3, QuietAgrees DEF At
  <2>3. QED  BY <2>1, <2>2
<1>4. ASSUME UpdateCommit(r) PROVE AgreeUnlessRaced'
  <2> SUFFICES ASSUME ~raced PROVE (LotMatchesCigar /\ NoClash /\ \A q \in Requests : StillTrue(req[q]))'
    BY <1>4 DEF UpdateCommit, AgreeUnlessRaced
  <2> DEFINE s == req[r].smoke
  <2>1. /\ s \in Smokes /\ req[r].pc = "update" /\ smokeCigar[s] # NoCigar
        /\ req[r].after \in Lots => lotCigar[req[r].after] = req[r].cigar
        /\ ~req[r].moves => smokeCigar[s] = req[r].cigar
    BY <1>4 DEF UpdateCommit, At, HumidorInv, RequestsFit, Shape, Row, SmokeCalls, AgreeUnlessRaced, StillTrue
  <2>2. /\ \A q \in Requests : req'[q] = IF q = r THEN Idle ELSE req[q]
        /\ smokeCigar' = [smokeCigar EXCEPT ![s] = req[r].cigar]
        /\ link' = [link EXCEPT ![s] = req[r].after]
        /\ UNCHANGED <<lotCigar, raced>>
    BY <1>4, <2>1 DEF UpdateCommit, Done, Become, HumidorInv, TypeOK
  <2>3. LotMatchesCigar'
    BY <2>1, <2>2 DEF HumidorInv, TypeOK, AgreeUnlessRaced, LotMatchesCigar, LotOf
  <2>4. NoClash'
    BY <2>2 DEF AgreeUnlessRaced, NoClash, Clash, At, Idle
  <2>5. ASSUME NEW q \in Requests PROVE StillTrue(req[q])'
    <3>1. CASE q = r \/ At(q, "idle")
      BY <2>2, <3>1 DEF StillTrue, At, Idle
    <3>2. CASE q # r /\ ~At(q, "idle")
      <4>1. req[q].smoke # s /\ req[q].smoke # NoSmoke
        BY <2>1, <3>2, OthersKeepAway, SentinelAssumption DEF At
      <4>2. req[q].pc # "repoint" /\ (req[q].pc \in SmokeCalls => req[q].smoke \in Smokes)
        BY <4>1 DEF HumidorInv, RequestsFit, Shape, LotCalls
      <4>3. StillTrue(req[q])
        BY DEF AgreeUnlessRaced
      <4>4. QED
        BY <2>2, <3>2, <4>1, <4>2, <4>3 DEF StillTrue, SmokeCalls, HumidorInv, TypeOK
    <3>3. QED  BY <3>1, <3>2
  <2>6. QED  BY <2>3, <2>4, <2>5
<1>5. QED  BY <1>1, <1>2, <1>3, <1>4

\* A move of a lot that nothing clashed with finds the lot's smokes where its
\* check left them.
LEMMA LotAgrees ==
  ASSUME HumidorInv, AgreeUnlessRaced, NEW r \in Requests
  PROVE  LotRead(r) \/ LotCheck(r) \/ LotCommit(r) => AgreeUnlessRaced'
<1>t. req[r] \in RequestType
  BY DEF HumidorInv, TypeOK, RequestType
<1>1. ASSUME LotRead(r) \/ LotCheck(r) PROVE AgreeUnlessRaced'
  <2>1. CASE Done(r)
    BY <1>1, <2>1, DoneAgrees DEF LotRead, LotCheck, At
  <2>2. CASE ~Done(r)
    <3> PICK pc \in {"foreign", "repoint"} :
          /\ Goto(r, pc) /\ ~At(r, "idle") /\ UNCHANGED <<tables, raced>>
          /\ pc = "repoint" => ~Foreign(req[r].lot, req[r].cigar)
      BY <1>1, <2>2 DEF LotRead, LotCheck, At
    <3> DEFINE x == [req[r] EXCEPT !.pc = pc]
    <3>1. x.smoke = req[r].smoke /\ x.pc = pc /\ x.lot = req[r].lot /\ x.cigar = req[r].cigar
      BY <1>t DEF RequestType
    <3>2. StillTrue(x)
      BY <3>1 DEF StillTrue, Foreign
    <3>3. Become(r, x)
      BY DEF Goto
    <3> HIDE DEF x
    <3>4. QED  BY <3>1, <3>2, <3>3, QuietAgrees
  <2>3. QED  BY <2>1, <2>2
<1>2. ASSUME LotCommit(r) PROVE AgreeUnlessRaced'
  <2> SUFFICES ASSUME ~raced PROVE (LotMatchesCigar /\ NoClash /\ \A q \in Requests : StillTrue(req[q]))'
    BY <1>2 DEF LotCommit, AgreeUnlessRaced
  <2> DEFINE l == req[r].lot
  <2>1. /\ l \in Lots /\ req[r].pc = "repoint" /\ req[r].smoke = NoSmoke
        /\ \A s \in Smokes : link[s] = l => smokeCigar[s] = req[r].cigar
    BY <1>2 DEF LotCommit, At, HumidorInv, RequestsFit, Shape, LotCalls, AgreeUnlessRaced, StillTrue
  <2>2. /\ \A q \in Requests : req'[q] = IF q = r THEN Idle ELSE req[q]
        /\ lotCigar' = [lotCigar EXCEPT ![l] = req[r].cigar]
        /\ UNCHANGED <<smokeCigar, link, raced>>
    BY <1>2 DEF LotCommit, Done, Become, HumidorInv, TypeOK
  <2>3. LotMatchesCigar'
    BY <2>1, <2>2 DEF HumidorInv, TypeOK, AgreeUnlessRaced, LotMatchesCigar, LotOf
  <2>4. NoClash'
    BY <2>2 DEF AgreeUnlessRaced, NoClash, Clash, At, Idle
  <2>5. ASSUME NEW q \in Requests PROVE StillTrue(req[q])'
    <3>1. CASE q = r \/ At(q, "idle")
      BY <2>2, <3>1 DEF StillTrue, At, Idle
    <3>2. CASE q # r /\ ~At(q, "idle")
      <4>1. req[q].pc \notin SmokeCalls
        BY <2>1, <3>2, OthersKeepAway, SentinelAssumption DEF At, HumidorInv, RequestsFit, Shape
      <4>2. StillTrue(req[q])
        BY DEF AgreeUnlessRaced
      <4>3. QED  BY <2>2, <3>2, <4>1, <4>2 DEF StillTrue, SmokeCalls
    <3>3. QED  BY <3>1, <3>2
  <2>6. QED  BY <2>3, <2>4, <2>5
<1>3. QED  BY <1>1, <1>2

\* A delete takes the link with the smoke; a new lot has no smoke yet.
LEMMA RowsAgree ==
  ASSUME HumidorInv, AgreeUnlessRaced
  PROVE  /\ \A s \in Smokes : DeleteSmoke(s) => AgreeUnlessRaced'
         /\ \A l \in Lots, c \in Cigars : RecordPurchase(l, c) => AgreeUnlessRaced'
<1>1. ASSUME NEW s \in Smokes, DeleteSmoke(s) PROVE AgreeUnlessRaced'
  <2> SUFFICES ASSUME ~raced PROVE (LotMatchesCigar /\ NoClash /\ \A q \in Requests : StillTrue(req[q]))'
    BY <1>1 DEF DeleteSmoke, AgreeUnlessRaced
  <2>1. /\ smokeCigar' = [smokeCigar EXCEPT ![s] = NoCigar]
        /\ link' = [link EXCEPT ![s] = NoLink]
        /\ UNCHANGED <<lotCigar, req>>
        /\ smokeCigar \in [Smokes -> Cigars \union {NoCigar}] /\ link \in [Smokes -> Links]
    BY <1>1 DEF DeleteSmoke, HumidorInv, TypeOK
  <2>2. LotMatchesCigar'
    BY <2>1, SentinelAssumption DEF AgreeUnlessRaced, LotMatchesCigar, LotOf
  <2>3. NoClash'
    BY <2>1 DEF AgreeUnlessRaced, NoClash, Clash, At
  <2>4. ASSUME NEW q \in Requests PROVE StillTrue(req[q])'
    <3>1. StillTrue(req[q]) /\ Shape(req[q])
      BY DEF AgreeUnlessRaced, HumidorInv, RequestsFit
    <3>2. CASE req[q].pc \in {"lock", "link", "update"}
      BY <2>1, <3>1, <3>2 DEF StillTrue, Shape, SmokeCalls
    <3>3. CASE req[q].pc \notin {"lock", "link", "update"}
      BY <2>1, <3>1, <3>3, SentinelAssumption DEF StillTrue, Shape, LotCalls
    <3>4. QED  BY <3>2, <3>3
  <2>5. QED  BY <2>2, <2>3, <2>4
<1>2. ASSUME NEW l \in Lots, NEW c \in Cigars, RecordPurchase(l, c) PROVE AgreeUnlessRaced'
  <2> SUFFICES ASSUME ~raced PROVE (LotMatchesCigar /\ NoClash /\ \A q \in Requests : StillTrue(req[q]))'
    BY <1>2 DEF RecordPurchase, AgreeUnlessRaced
  <2>1. /\ lotCigar' = [lotCigar EXCEPT ![l] = c]
        /\ UNCHANGED <<smokeCigar, link, req>>
        /\ lotCigar \in [Lots -> Cigars \union {NoCigar}] /\ lotCigar[l] = NoCigar
    BY <1>2 DEF RecordPurchase, HumidorInv, TypeOK
  <2>2. \A s \in Smokes : link[s] # l
    BY <2>1, SentinelAssumption DEF AgreeUnlessRaced, LotMatchesCigar, LotOf, HumidorInv, LinkHasSmoke
  <2>3. LotMatchesCigar' /\ NoClash'
    BY <2>1, <2>2 DEF AgreeUnlessRaced, LotMatchesCigar, LotOf, NoClash, Clash, At
  <2>4. ASSUME NEW q \in Requests PROVE StillTrue(req[q])'
    <3>1. StillTrue(req[q]) /\ Shape(req[q])
      BY DEF AgreeUnlessRaced, HumidorInv, RequestsFit
    <3>2. QED  BY <2>1, <3>1, SentinelAssumption DEF StillTrue, Shape
  <2>5. QED  BY <2>3, <2>4
<1>3. QED  BY <1>1, <1>2

\* No step breaks the agreement but one that starts a clash.
LEMMA AgreeStep == HumidorInv /\ AgreeUnlessRaced /\ [Next]_vars => AgreeUnlessRaced'
<1> SUFFICES ASSUME HumidorInv, AgreeUnlessRaced, [Next]_vars PROVE AgreeUnlessRaced'
  OBVIOUS
<1>1. CASE UNCHANGED vars
  BY <1>1 DEF vars, AgreeUnlessRaced, LotMatchesCigar, LotOf, NoClash, Clash, At, StillTrue
<1>2. CASE \E r \in Requests : Step(r)
  <2> PICK r \in Requests : Step(r)
    BY <1>2
  <2>1. CASE Fail(r)
    BY <2>1, DoneAgrees DEF Fail
  <2>2. QED  BY <2>1, SaveAgrees, UpdateAgrees, LotAgrees DEF Step
<1>3. CASE \E r \in Requests, s \in Smokes, c \in Cigars, w \in Links : Save(r, s, c, w)
  BY <1>3, StartAgrees DEF Save, Idle
<1>4. CASE \E r \in Requests, s \in Smokes, c \in Cigars \union {NoCigar}, w \in Links \union {Keep} :
             Update(r, s, c, w)
  BY <1>4, StartAgrees DEF Update, Idle
<1>5. CASE \E r \in Requests, l \in Lots, c \in Cigars : UpdatePurchase(r, l, c)
  BY <1>5, StartAgrees DEF UpdatePurchase, Idle
<1>6. CASE \/ \E l \in Lots, c \in Cigars : RecordPurchase(l, c)
           \/ \E s \in Smokes : DeleteSmoke(s)
  BY <1>6, RowsAgree
<1>7. QED  BY <1>1, <1>2, <1>3, <1>4, <1>5, <1>6 DEF Next

\* One rule at both ends: until two calls clash, a smoke taken from a lot is a
\* smoke of the lot's cigar.
THEOREM OneRuleAtBothEnds == Spec => []LotMatchesUnlessRaced
<1>1. Spec => []AgreeUnlessRaced
  BY HumidorInvInit, AgreeStep, HumidorInvariant, PTL DEF Spec
<1>2. AgreeUnlessRaced => LotMatchesUnlessRaced
  BY DEF AgreeUnlessRaced, LotMatchesUnlessRaced
<1>3. QED  BY <1>1, <1>2, PTL
=============================================================================
