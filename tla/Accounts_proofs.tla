-------------------------- MODULE Accounts_proofs --------------------------
(***************************************************************************)
(* Who may use the journal.  A consent is worth one session and a           *)
(* revocation is final, for every number of consents, codes, tokens and     *)
(* calls in flight; an invite is used once at a time and never after an     *)
(* account or a revocation, for every set of invites, addresses and         *)
(* sign-ups in flight.                                                      *)
(***************************************************************************)
EXTENDS OAuthTokens, Invites, TLAPS

PairType == [family : Pairs \union {NoPair}, parent : Pairs \union {NoPair},
             from : Codes \union {NoCode},
             refresh : {"none", "live", "spent"}, access : {"none", "live", "revoked"}]
CallType == [pc : Stages, txn : Txns \union {NoTxn}, code : Codes \union {NoCode},
             pair : Pairs \union {NoPair}, seen : SUBSET Pairs]

\* What is on record of a pair: nothing before it is issued; a refresh token has a chain
\* and a code, the chain's first pair was issued, and the code is used up.
Recorded(p) ==
  /\ ~Issued(p) => pair[p] = NoToken
  /\ pair[p].refresh # "none" => Family(p) # NoPair /\ pair[p].from # NoCode
  /\ Family(p) # NoPair => Issued(Family(p))
  /\ pair[p].from # NoCode => code[pair[p].from].used

Deciding == {"approve", "deny"}
Working == {"rotate", "issue", "revoke", "refresh", "access", "operator"}

\* What a call in flight knows: the transaction, the code or the pair it is about, and
\* that the token it is spending stays usable until it commits.
Carries(r) ==
  /\ req[r].pc \in Deciding <=> req[r].txn # NoTxn
  /\ At(r, "exchange") <=> req[r].code # NoCode
  /\ req[r].pc \in Working <=> req[r].pair # NoPair
  /\ req[r].pair # NoPair => Issued(req[r].pair)
  /\ req[r].pc \in Working \ {"operator"} => Family(req[r].pair) # NoPair
  /\ At(r, "issue") => Live(req[r].pair)

\* The update that spends a token lets nobody else do so.
OneSpender ==
  \A q, r \in Requests :
    At(q, "issue") /\ At(r, "issue") /\ req[q].pair = req[r].pair => q = r

TokenInv ==
  /\ TypeOK
  /\ \A p \in Pairs : Recorded(p)
  /\ \A r \in Requests : Carries(r)
  /\ OneSpender
  /\ NoFork

\* A transaction on which decisions did not overlap is decided once.
DecidedOnce(t) ==
  /\ \A q, r \in Requests : req[q].txn = t /\ req[r].txn = t => q = r
  /\ \A r \in Requests : req[r].txn = t => txn[t] = "pending"
  /\ txn[t] \in {"new", "pending"} => t \notin denied /\ \A c \in Codes : code[c].txn # t
  /\ \A c, d \in Codes : code[c].txn = t /\ code[d].txn = t => c = d
  /\ t \in denied => \A c \in Codes : code[c].txn # t

DecisionInv == \A t \in Txns \ overlapped : DecidedOnce(t)

\* A chain that no revocation and rotation overlapped in: while a revocation updates its
\* refresh tokens none is being rotated and the update has seen all there are; after that,
\* and once the revocation is complete, none is left.
CleanCut(f) ==
  /\ \A r \in Requests : req[r].pc \in {"refresh", "operator"} /\ Family(req[r].pair) = f =>
       /\ \A q \in Requests : At(q, "issue") => Family(req[q].pair) # f
       /\ \A p \in Chain(f) : Live(p) => p \in req[r].seen
  /\ (f \in dead \/ \E r \in Requests : At(r, "access") /\ Family(req[r].pair) = f) =>
       \A p \in Chain(f) : ~Live(p)
  /\ \A p, q \in Chain(f) : pair[p].access = "revoked" => ~Live(q)
  /\ f \in dead => \A p \in Chain(f) : pair[p].access = "revoked"

RevocationInv ==
  /\ \A f \in Pairs \ raced : CleanCut(f)
  /\ \A f \in dead : Issued(f)

-----------------------------------------------------------------------------
(* Types *)

\* The records the code begins and goes on with have their types.
LEMMA RecordsAreTyped ==
  /\ Idle \in CallType /\ NoToken \in PairType
  /\ \A f, q \in Pairs \union {NoPair}, c \in Codes \union {NoCode}, o \in BOOLEAN :
       NewPair(f, q, c, o) \in PairType
BY DEF Idle, NoToken, NewPair, CallType, PairType, Stages

\* TypeOK in terms of those types.
LEMMA TypesAre ==
  TypeOK <=> /\ txn \in [Txns -> {"new", "pending", "gone"}]
             /\ code \in [Codes -> [txn : Txns \union {NoTxn}, used : BOOLEAN]]
             /\ pair \in [Pairs -> PairType]
             /\ overlapped \subseteq Txns /\ denied \subseteq Txns
             /\ raced \subseteq Pairs /\ dead \subseteq Pairs
             /\ req \in [Requests -> CallType]
BY DEF TypeOK, PairType, CallType

\* What a call in flight holds has the type it is used at.
LEMMA CallsCarry ==
  ASSUME TypeOK, NEW r \in Requests, Carries(r)
  PROVE  /\ req[r] \in CallType
         /\ req[r].pc \in Deciding => req[r].txn \in Txns
         /\ At(r, "exchange") => req[r].code \in Codes
         /\ req[r].pc \in Working => req[r].pair \in Pairs
         /\ At(r, "idle") => req[r].txn = NoTxn /\ req[r].code = NoCode /\ req[r].pair = NoPair
BY TypesAre DEF Carries, CallType, At, Deciding, Working

\* A call moves to a record of its type, and the other calls stay.
LEMMA CallMoves ==
  ASSUME TypeOK, NEW r \in Requests, NEW x, Become(r, x)
  PROVE  /\ x \in CallType => req' \in [Requests -> CallType]
         /\ req'[r] = x
         /\ \A q \in Requests \ {r} : req'[q] = req[q]
BY TypesAre DEF Become

\* Every step gives a call a record of its type.
LEMMA MovesAreTyped ==
  ASSUME TypeOK, NEW r \in Requests
  PROVE  /\ Idle \in CallType
         /\ \A pc \in Stages : [req[r] EXCEPT !.pc = pc] \in CallType
         /\ \A pc \in Stages, t \in Txns : [Idle EXCEPT !.pc = pc, !.txn = t] \in CallType
         /\ \A pc \in Stages, c \in Codes : [Idle EXCEPT !.pc = pc, !.code = c] \in CallType
         /\ \A pc \in Stages, p \in Pairs : [Idle EXCEPT !.pc = pc, !.pair = p] \in CallType
         /\ \A pc \in Stages, p \in Pairs, ps \in SUBSET Pairs :
              [Idle EXCEPT !.pc = pc, !.pair = p, !.seen = ps] \in CallType
<1>1. req[r] \in CallType /\ Idle \in CallType
  BY TypesAre, RecordsAreTyped
<1>2. QED  BY <1>1 DEF CallType

\* The initial state satisfies every invariant.
LEMMA TokenInvInit == Init => TokenInv /\ DecisionInv /\ RevocationInv
<1> SUFFICES ASSUME Init PROVE TokenInv /\ DecisionInv /\ RevocationInv
  OBVIOUS
<1>1. TypeOK
  BY RecordsAreTyped, TypesAre DEF Init
<1>2. \A p \in Pairs : pair[p] = NoToken
  BY DEF Init
<1>3. \A r \in Requests : req[r] = Idle
  BY DEF Init
<1>4. \A p \in Pairs : Recorded(p) /\ ~Live(p) /\ Family(p) = NoPair
  BY <1>2 DEF Recorded, Issued, Family, Live, NoToken
<1>5. \A r \in Requests : Carries(r) /\ At(r, "idle")
  BY <1>3 DEF Carries, At, Deciding, Working, Idle
<1>6. TokenInv
  BY <1>1, <1>4, <1>5 DEF TokenInv, OneSpender, NoFork, At
<1>7. DecisionInv
  BY <1>1, <1>3, SentinelAssumption DEF DecisionInv, DecidedOnce, Init, Idle
<1>8. RevocationInv
  BY <1>4, <1>5, SentinelAssumption DEF RevocationInv, CleanCut, Chain, At, Init
<1>9. QED  BY <1>6, <1>7, <1>8

-----------------------------------------------------------------------------
(* What a step does to the tokens *)

\* The steps that write no token at all.
LEMMA WritesToTokens ==
  [Next]_vars =>
    \/ pair' = pair
    \/ \E r \in Requests, p \in Pairs, o \in BOOLEAN : Consume(r, p, o) \/ Issue(r, p, o)
    \/ \E p \in Pairs : Mint(p)
    \/ \E r \in Requests : RevokeRefresh(r) \/ RevokeAccess(r) \/ OperatorCommit(r)
    \/ \E r \in Requests, p \in Pairs : Revoke(r, p)
<1> SUFFICES ASSUME [Next]_vars PROVE
    \/ pair' = pair
    \/ \E r \in Requests, p \in Pairs, o \in BOOLEAN : Consume(r, p, o) \/ Issue(r, p, o)
    \/ \E p \in Pairs : Mint(p)
    \/ \E r \in Requests : RevokeRefresh(r) \/ RevokeAccess(r) \/ OperatorCommit(r)
    \/ \E r \in Requests, p \in Pairs : Revoke(r, p)
  OBVIOUS
<1>1. ASSUME NEW r \in Requests, NEW c \in Codes, Approve(r, c) \/ Exchange(r, c) PROVE pair' = pair
  BY <1>1 DEF Approve, Exchange, chains
<1>2. ASSUME NEW r \in Requests,
             \/ Deny(r) \/ CodeReplayed(r) \/ Rotate(r) \/ RotateLost(r) \/ RevokeFamily(r)
             \/ GiveUp(r)
      PROVE  pair' = pair
  BY <1>2 DEF Deny, CodeReplayed, Rotate, RotateLost, RevokeFamily, Begin, GiveUp, chains
<1>3. ASSUME NEW r \in Requests, NEW p \in Pairs, Refresh(r, p) \/ OperatorRevoke(r, p)
      PROVE  pair' = pair
  BY <1>3 DEF Refresh, OperatorRevoke, Begin, chains
<1>4. ASSUME NEW t \in Txns,
             Authorize(t) \/ \E r \in Requests : Take(r, t, "approve") \/ Take(r, t, "deny")
      PROVE  pair' = pair
  BY <1>4 DEF Authorize, Take, chains
<1>5. UNCHANGED vars => pair' = pair
  BY DEF vars
<1>6. QED  BY <1>1, <1>2, <1>3, <1>4, <1>5 DEF Next, Step

\* What is issued stays what it is: its chain and its code do not change, a spent
\* token is not revived and a revoked one not restored.
Kept ==
  \A p \in Pairs : Issued(p) =>
    /\ Issued(p)' /\ Family(p)' = Family(p) /\ pair'[p].from = pair[p].from
    /\ pair'[p].refresh = "none" <=> pair[p].refresh = "none"
    /\ Live(p)' => Live(p)
    /\ pair[p].access = "revoked" => pair'[p].access = "revoked"

\* A revocation issues nothing.
NoneNew == \A p \in Pairs : ~Issued(p) => pair'[p] = pair[p]

\* The pairs keep their types.
LEMMA PairsAreTyped ==
  ASSUME TokenInv, [Next]_vars
  PROVE  pair' \in [Pairs -> PairType]
<1>t. pair \in [Pairs -> PairType]
  BY TypesAre DEF TokenInv
<1>1. ASSUME NEW p \in Pairs, NEW x \in PairType, pair' = [pair EXCEPT ![p] = x]
      PROVE  pair' \in [Pairs -> PairType]
  BY <1>t, <1>1
<1>2. ASSUME NEW r \in Requests, NEW n \in Pairs, NEW o \in BOOLEAN, Consume(r, n, o)
      PROVE  pair' \in [Pairs -> PairType]
  <2>1. req[r].code \in Codes
    BY <1>2, CallsCarry DEF TokenInv, Consume
  <2>2. NewPair(n, NoPair, req[r].code, o) \in PairType
    BY <2>1, RecordsAreTyped
  <2>3. QED  BY <1>1, <1>2, <2>2 DEF Consume
<1>3. ASSUME NEW r \in Requests, NEW n \in Pairs, NEW o \in BOOLEAN, Issue(r, n, o)
      PROVE  pair' \in [Pairs -> PairType]
  <2>1. req[r].pair \in Pairs
    BY <1>3, CallsCarry DEF TokenInv, Issue, At, Working
  <2>2. /\ Family(req[r].pair) \in Pairs \union {NoPair}
        /\ pair[req[r].pair].from \in Codes \union {NoCode}
        /\ [pair[req[r].pair] EXCEPT !.refresh = "spent"] \in PairType
    BY <1>t, <2>1 DEF PairType, Family
  <2>3. NewPair(Family(req[r].pair), req[r].pair, pair[req[r].pair].from, o) \in PairType
    BY <2>1, <2>2, RecordsAreTyped
  <2>4. QED  BY <1>t, <1>3, <2>1, <2>2, <2>3 DEF Issue
<1>4. ASSUME NEW p \in Pairs, Mint(p) PROVE pair' \in [Pairs -> PairType]
  BY <1>1, <1>4, RecordsAreTyped DEF Mint
<1>5. \A ps : Spend(ps) \in [Pairs -> PairType]
  BY <1>t DEF Spend, PairType
<1>6. \A ps, old : old \in [Pairs -> PairType] => Silence(ps, old) \in [Pairs -> PairType]
  BY DEF Silence, PairType
<1>7. ASSUME NEW r \in Requests, RevokeRefresh(r) \/ RevokeAccess(r) \/ OperatorCommit(r)
      PROVE  pair' \in [Pairs -> PairType]
  BY <1>t, <1>5, <1>6, <1>7 DEF RevokeRefresh, RevokeAccess, OperatorCommit
<1>8. ASSUME NEW r \in Requests, NEW p \in Pairs, Revoke(r, p) PROVE pair' \in [Pairs -> PairType]
  <2>1. [pair[p] EXCEPT !.access = "revoked"] \in PairType
    BY <1>t DEF PairType
  <2>2. QED  BY <1>t, <1>8, <2>1 DEF Revoke
<1>9. QED
  BY <1>t, <1>2, <1>3, <1>4, <1>7, <1>8, WritesToTokens

\* A revocation keeps and issues nothing.
LEMMA RevocationsKeep ==
  ASSUME TokenInv, NEW r \in Requests,
         \/ RevokeRefresh(r) \/ RevokeAccess(r) \/ OperatorCommit(r)
         \/ \E p \in Pairs : Revoke(r, p)
  PROVE  Kept /\ NoneNew
<1>t. pair \in [Pairs -> PairType] /\ Carries(r) /\ \A p \in Pairs : Recorded(p)
  BY TypesAre DEF TokenInv
<1>1. \A p \in Pairs : ~Issued(p) => pair[p] = NoToken /\ ~Live(p) /\ Family(p) = NoPair
  BY <1>t DEF Recorded, Live, Family, NoToken
<1>a. ASSUME NEW p \in Pairs, Issued(p),
             \/ pair'[p] = pair[p]
             \/ Live(p) /\ pair'[p] = [pair[p] EXCEPT !.refresh = "spent"]
             \/ pair'[p] = [pair[p] EXCEPT !.access = "revoked"]
             \/ Live(p) /\ pair'[p] = [[pair[p] EXCEPT !.refresh = "spent"] EXCEPT !.access = "revoked"]
      PROVE  /\ Issued(p)' /\ Family(p)' = Family(p) /\ pair'[p].from = pair[p].from
             /\ pair'[p].refresh = "none" <=> pair[p].refresh = "none"
             /\ Live(p)' => Live(p)
             /\ pair[p].access = "revoked" => pair'[p].access = "revoked"
  <2>1. pair[p] \in PairType
    BY <1>t
  <2>2. QED  BY <1>a, <2>1 DEF Issued, Family, Live, PairType
<1>2. CASE RevokeRefresh(r)
  <2>1. \A p \in Pairs : pair'[p] = pair[p] \/ (Live(p) /\ pair'[p] = [pair[p] EXCEPT !.refresh = "spent"])
    BY <1>2 DEF RevokeRefresh, Spend
  <2>2. NoneNew
    BY <1>1, <2>1 DEF NoneNew
  <2>3. QED  BY <1>a, <2>1, <2>2 DEF Kept
<1>3. CASE RevokeAccess(r)
  <2>1. \A p \in Pairs : \/ pair'[p] = pair[p]
                         \/ Family(p) # NoPair /\ pair'[p] = [pair[p] EXCEPT !.access = "revoked"]
    BY <1>3 DEF RevokeAccess, Silence, Chain
  <2>2. NoneNew
    BY <1>1, <2>1 DEF NoneNew
  <2>3. QED  BY <1>a, <2>1, <2>2 DEF Kept
<1>4. CASE OperatorCommit(r)
  <2>1. Issued(req[r].pair)
    BY <1>t, <1>4, CallsCarry, SentinelAssumption DEF TokenInv, OperatorCommit, Carries, At, Working
  <2>2. PICK mid : mid = Spend(req[r].seen)
    OBVIOUS
  <2>3. \A p \in Pairs : mid[p] = pair[p] \/ (Live(p) /\ mid[p] = [pair[p] EXCEPT !.refresh = "spent"])
    BY <2>2 DEF Spend
  <2>4. \A p \in Pairs : \/ pair'[p] = mid[p]
                         \/ /\ p = req[r].pair \/ Family(p) # NoPair
                            /\ pair'[p] = [mid[p] EXCEPT !.access = "revoked"]
    BY <1>4, <2>2 DEF OperatorCommit, Silence, Chain
  <2>5. NoneNew
    BY <1>1, <2>1, <2>3, <2>4 DEF NoneNew
  <2>6. ASSUME NEW p \in Pairs
        PROVE  \/ pair'[p] = pair[p]
               \/ Live(p) /\ pair'[p] = [pair[p] EXCEPT !.refresh = "spent"]
               \/ pair'[p] = [pair[p] EXCEPT !.access = "revoked"]
               \/ Live(p) /\ pair'[p] = [[pair[p] EXCEPT !.refresh = "spent"] EXCEPT !.access = "revoked"]
    <3>1. CASE mid[p] = pair[p]
      BY <2>4, <3>1
    <3>2. CASE Live(p) /\ mid[p] = [pair[p] EXCEPT !.refresh = "spent"]
      BY <2>4, <3>2
    <3>3. QED  BY <2>3, <3>1, <3>2
  <2>7. QED  BY <1>a, <2>5, <2>6 DEF Kept
<1>5. ASSUME NEW p \in Pairs, Revoke(r, p) PROVE Kept /\ NoneNew
  <2>1. pair' = pair \/ (Issued(p) /\ pair' = [pair EXCEPT ![p].access = "revoked"])
    BY <1>5 DEF Revoke
  <2>2. QED  BY <1>t, <2>1 DEF Kept, NoneNew, Issued, Family, Live, PairType
<1>6. QED  BY <1>2, <1>3, <1>4, <1>5

\* A pair that is issued was not issued before; the token a rotation spends is one that is.
LEMMA IssuesKeep ==
  ASSUME TokenInv, NEW n \in Pairs,
         \/ \E r \in Requests, o \in BOOLEAN : Consume(r, n, o) \/ Issue(r, n, o)
         \/ Mint(n)
  PROVE  Kept /\ ~Issued(n) /\ \A p \in Pairs \ {n} : ~Issued(p) => pair'[p] = pair[p]
<1>t. pair \in [Pairs -> PairType] /\ \A p \in Pairs : Recorded(p)
  BY TypesAre DEF TokenInv
<1>1. ASSUME NEW x, pair' = [pair EXCEPT ![n] = x], ~Issued(n)
      PROVE  Kept /\ \A p \in Pairs \ {n} : ~Issued(p) => pair'[p] = pair[p]
  BY <1>t, <1>1 DEF Kept, Issued, Family, Live
<1>2. ASSUME NEW r \in Requests, NEW o \in BOOLEAN, Issue(r, n, o)
      PROVE  Kept /\ ~Issued(n) /\ \A p \in Pairs \ {n} : ~Issued(p) => pair'[p] = pair[p]
  <2>1. PICK p \in Pairs : p = req[r].pair
    BY <1>2, CallsCarry DEF TokenInv, Issue, At, Working
  <2>2. Live(p) /\ Issued(p)
    BY <1>2, <2>1, SentinelAssumption DEF TokenInv, Carries, Issue
  <2>3. PICK x : pair' = [pair EXCEPT ![p].refresh = "spent", ![n] = x]
    BY <1>2, <2>1 DEF Issue
  <2>4. ~Issued(n) /\ n # p
    BY <1>2, <2>2 DEF Issue
  <2>5. \A q \in Pairs \ {n} : pair'[q] = IF q = p THEN [pair[p] EXCEPT !.refresh = "spent"] ELSE pair[q]
    BY <1>t, <2>3, <2>4
  <2>6. QED  BY <1>t, <2>2, <2>4, <2>5 DEF Kept, Issued, Family, Live, PairType
<1>3. QED  BY <1>1, <1>2 DEF Consume, Mint

\* Nothing a step does loses or changes what was issued.
LEMMA AllKeep ==
  ASSUME TokenInv, [Next]_vars
  PROVE  Kept /\ (NoneNew \/ \E n \in Pairs :
                    /\ ~Issued(n)
                    /\ \A p \in Pairs \ {n} : ~Issued(p) => pair'[p] = pair[p]
                    /\ \/ \E r \in Requests, o \in BOOLEAN : Consume(r, n, o) \/ Issue(r, n, o)
                       \/ Mint(n))
<1>1. pair' = pair => Kept /\ NoneNew
  BY DEF Kept, NoneNew, Issued, Family, Live
<1>2. QED
  BY <1>1, WritesToTokens, RevocationsKeep, IssuesKeep

\* A used code stays used, and only an approval gives a code its transaction.
LEMMA CodesMove ==
  ASSUME TokenInv, [Next]_vars
  PROVE  /\ code' \in [Codes -> [txn : Txns \union {NoTxn}, used : BOOLEAN]]
         /\ \A c \in Codes : code[c].used => code'[c].used
<1>t. code \in [Codes -> [txn : Txns \union {NoTxn}, used : BOOLEAN]]
  BY TypesAre DEF TokenInv
<1>1. \/ code' = code
      \/ \E r \in Requests, c \in Codes : Approve(r, c)
      \/ \E r \in Requests, p \in Pairs, o \in BOOLEAN : Consume(r, p, o)
  BY DEF Next, Step, Authorize, Take, Deny, Exchange, CodeReplayed, Refresh, Rotate, RotateLost,
    Issue, Revoke, Begin, RevokeFamily, RevokeRefresh, RevokeAccess, OperatorRevoke, OperatorCommit,
    Mint, GiveUp, consents, vars
<1>2. ASSUME NEW r \in Requests, NEW c \in Codes, Approve(r, c)
      PROVE  \E t \in Txns : code' = [code EXCEPT ![c].txn = t]
  BY <1>2, CallsCarry DEF TokenInv, Approve, At, Deciding
<1>3. ASSUME NEW r \in Requests, NEW p \in Pairs, NEW o \in BOOLEAN, Consume(r, p, o)
      PROVE  \E c \in Codes : code' = [code EXCEPT ![c].used = TRUE]
  BY <1>3, CallsCarry DEF TokenInv, Consume
<1>4. ASSUME NEW c \in Codes, NEW t \in Txns, code' = [code EXCEPT ![c].txn = t]
      PROVE  /\ code' \in [Codes -> [txn : Txns \union {NoTxn}, used : BOOLEAN]]
             /\ \A d \in Codes : code[d].used => code'[d].used
  BY <1>t, <1>4
<1>5. ASSUME NEW c \in Codes, code' = [code EXCEPT ![c].used = TRUE]
      PROVE  /\ code' \in [Codes -> [txn : Txns \union {NoTxn}, used : BOOLEAN]]
             /\ \A d \in Codes : code[d].used => code'[d].used
  BY <1>t, <1>5
<1>6. CASE code' = code
  BY <1>t, <1>6
<1>7. QED  BY <1>1, <1>2, <1>3, <1>4, <1>5, <1>6

\* Every step keeps what is on record consistent.
LEMMA RecordedStep ==
  ASSUME TokenInv, [Next]_vars, NEW p \in Pairs
  PROVE  Recorded(p)'
<1>t. /\ pair \in [Pairs -> PairType] /\ pair' \in [Pairs -> PairType]
      /\ \A q \in Pairs : Recorded(q)
  BY TypesAre, PairsAreTyped DEF TokenInv
<1>c. \A c \in Codes : code[c].used => code'[c].used
  BY CodesMove
<1>f. \A q \in Pairs : Family(q) \in Pairs \union {NoPair} /\ pair[q].from \in Codes \union {NoCode}
  BY <1>t DEF PairType, Family
<1>1. CASE Issued(p)
  <2>1. Kept
    BY AllKeep
  <2>2. Issued(p)' /\ Family(p)' = Family(p) /\ pair'[p].from = pair[p].from
        /\ (pair'[p].refresh = "none" <=> pair[p].refresh = "none")
    BY <1>1, <2>1 DEF Kept
  <2>3. \A f \in Pairs : f = Family(p) => Issued(f)'
    BY <1>t, <2>1, SentinelAssumption DEF Kept, Recorded
  <2>4. QED  BY <1>t, <1>c, <1>f, <2>2, <2>3 DEF Recorded, Issued, Family
<1>2. CASE ~Issued(p) /\ pair'[p] = pair[p]
  <2>1. pair'[p] = NoToken /\ pair[p] = NoToken
    BY <1>t, <1>2 DEF Recorded
  <2>2. QED  BY <2>1 DEF Recorded, Issued, Family, NoToken
<1>3. ASSUME NEW r \in Requests, NEW o \in BOOLEAN, Consume(r, p, o) PROVE Recorded(p)'
  <2>1. req[r].code \in Codes
    BY <1>3, CallsCarry DEF TokenInv, Consume
  <2>2. pair'[p] = NewPair(p, NoPair, req[r].code, o)
    BY <1>t, <1>3 DEF Consume
  <2>3. code'[req[r].code].used
    BY <1>3, <2>1, TypesAre DEF Consume, TokenInv
  <2>4. QED  BY <2>1, <2>2, <2>3, SentinelAssumption DEF Recorded, Issued, Family, NewPair
<1>4. ASSUME NEW r \in Requests, NEW o \in BOOLEAN, Issue(r, p, o) PROVE Recorded(p)'
  <2>1. PICK q \in Pairs : q = req[r].pair
    BY <1>4, CallsCarry DEF TokenInv, Issue, At, Working
  <2>2. Live(q) /\ Issued(q) /\ Family(q) # NoPair /\ pair[q].from # NoCode
    BY <1>t, <1>4, <2>1, SentinelAssumption DEF TokenInv, Carries, Issue, At, Working, Recorded, Live
  <2>3. pair'[p] = NewPair(Family(q), q, pair[q].from, o)
    BY <1>t, <1>4, <2>1 DEF Issue
  <2>4. PICK f \in Pairs : f = Family(q)
    BY <1>f, <2>2
  <2>5. Issued(f)'
    BY <1>t, <2>2, <2>4, AllKeep DEF Kept, Recorded
  <2>6. code'[pair[q].from].used
    BY <1>t, <1>c, <1>f, <2>2 DEF Recorded
  <2>7. QED  BY <2>2, <2>3, <2>4, <2>5, <2>6 DEF Recorded, Issued, Family, NewPair
<1>5. CASE Mint(p)
  <2>1. pair'[p] = NewPair(NoPair, NoPair, NoCode, FALSE)
    BY <1>t, <1>5 DEF Mint
  <2>2. QED  BY <2>1 DEF Recorded, Issued, Family, NewPair
<1>6. QED
  BY <1>1, <1>2, <1>3, <1>4, <1>5, AllKeep DEF NoneNew

-----------------------------------------------------------------------------
(* What a step does to the calls *)

\* What the new record of a call has to be for Carries to go on holding.
Sound(x) ==
  /\ x.pc \in Deciding <=> x.txn # NoTxn
  /\ x.pc = "exchange" <=> x.code # NoCode
  /\ x.pc \in Working <=> x.pair # NoPair
  /\ x.pair # NoPair => Issued(x.pair)
  /\ x.pc \in Working \ {"operator"} => Family(x.pair) # NoPair
  /\ x.pc = "issue" => Live(x.pair) /\ ~RowHeld(x.pair)

\* Each step moves at most one call, to a record that fits.
LEMMA CallsMove ==
  ASSUME TokenInv, [Next]_vars
  PROVE  \/ req' = req
         \/ \E r \in Requests, x \in CallType :
              Become(r, x) /\ Sound(x) /\ (x.pc = "issue" => pair' = pair)
<1>t. TypeOK /\ \A p \in Pairs : Recorded(p)
  BY DEF TokenInv
<1>i. Idle \in CallType /\ Sound(Idle) /\ Idle.pc # "issue"
  BY RecordsAreTyped DEF Idle, Sound, Deciding, Working
<1>1. ASSUME NEW r \in Requests, Done(r)
      PROVE  \E x \in CallType : Become(r, x) /\ Sound(x) /\ (x.pc = "issue" => pair' = pair)
  BY <1>1, <1>i DEF Done
<1>2. ASSUME NEW r \in Requests, NEW t \in Txns, NEW pc \in Deciding, Take(r, t, pc)
      PROVE  \E x \in CallType : Become(r, x) /\ Sound(x) /\ (x.pc = "issue" => pair' = pair)
  <2>1. PICK x : x = [Idle EXCEPT !.pc = pc, !.txn = t]
    OBVIOUS
  <2>2. x \in CallType
    BY <1>t, <2>1, MovesAreTyped DEF Deciding, Stages
  <2>3. Sound(x) /\ x.pc # "issue"
    BY <2>1, SentinelAssumption DEF Idle, Sound, Deciding, Working
  <2>4. QED  BY <1>2, <2>1, <2>2, <2>3 DEF Take
<1>3. ASSUME NEW r \in Requests, NEW c \in Codes, Exchange(r, c)
      PROVE  \E x \in CallType : Become(r, x) /\ Sound(x) /\ (x.pc = "issue" => pair' = pair)
  <2>1. PICK x : x = [Idle EXCEPT !.pc = "exchange", !.code = c]
    OBVIOUS
  <2>2. x \in CallType
    BY <1>t, <2>1, MovesAreTyped DEF Stages
  <2>3. Sound(x) /\ x.pc # "issue"
    BY <2>1, SentinelAssumption DEF Idle, Sound, Deciding, Working
  <2>4. QED  BY <1>3, <2>1, <2>2, <2>3 DEF Exchange
<1>4. ASSUME NEW r \in Requests, NEW p \in Pairs, NEW pc \in Working \ {"issue"}, NEW ps \in SUBSET Pairs,
             Issued(p), pc # "operator" => Family(p) # NoPair,
             \/ Become(r, [Idle EXCEPT !.pc = pc, !.pair = p])
             \/ Become(r, [Idle EXCEPT !.pc = pc, !.pair = p, !.seen = ps])
      PROVE  \E x \in CallType : Become(r, x) /\ Sound(x) /\ (x.pc = "issue" => pair' = pair)
  <2>1. PICK x : /\ Become(r, x)
                 /\ \/ x = [Idle EXCEPT !.pc = pc, !.pair = p]
                    \/ x = [Idle EXCEPT !.pc = pc, !.pair = p, !.seen = ps]
    BY <1>4
  <2>2. pc \in Stages
    BY DEF Working, Stages
  <2>3. x \in CallType
    <3>1. [Idle EXCEPT !.pc = pc, !.pair = p] \in CallType
      BY <1>t, <2>2, MovesAreTyped
    <3>2. [Idle EXCEPT !.pc = pc, !.pair = p, !.seen = ps] \in CallType
      BY <1>t, <2>2, MovesAreTyped
    <3>3. QED  BY <2>1, <3>1, <3>2
  <2>4. x.pc = pc /\ x.pair = p /\ x.txn = NoTxn /\ x.code = NoCode
    BY <2>1 DEF Idle
  <2>5. Sound(x)
    BY <1>4, <2>4, SentinelAssumption DEF Sound, Deciding, Working
  <2>6. QED  BY <2>1, <2>3, <2>4, <2>5
<1>5. ASSUME NEW r \in Requests, NEW p \in Pairs, Refresh(r, p)
      PROVE  \E x \in CallType : Become(r, x) /\ Sound(x) /\ (x.pc = "issue" => pair' = pair)
  <2>1. Issued(p) /\ Family(p) # NoPair
    BY <1>5, <1>t DEF Refresh, Recorded, NoToken
  <2>2. \E pc \in Working \ {"issue", "operator"} : Become(r, [Idle EXCEPT !.pc = pc, !.pair = p])
    BY <1>5 DEF Refresh, Working
  <2>3. QED  BY <1>4, <2>1, <2>2
<1>6. ASSUME NEW r \in Requests, NEW p \in Pairs, Revoke(r, p)
      PROVE  \/ req' = req
             \/ \E x \in CallType : Become(r, x) /\ Sound(x) /\ (x.pc = "issue" => pair' = pair)
  <2>1. CASE req' = req
    BY <2>1
  <2>2. CASE Family(p) # NoPair /\ Become(r, [Idle EXCEPT !.pc = "revoke", !.pair = p])
    <3>1. "revoke" \in Working \ {"issue", "operator"} /\ Issued(p)
      BY <1>6 DEF Revoke, Working
    <3>2. QED  BY <1>4, <2>2, <3>1
  <2>3. QED  BY <1>6, <2>1, <2>2 DEF Revoke
<1>7. ASSUME NEW r \in Requests, NEW p \in Pairs, OperatorRevoke(r, p)
      PROVE  \E x \in CallType : Become(r, x) /\ Sound(x) /\ (x.pc = "issue" => pair' = pair)
  <2>1. Issued(p) /\ "operator" \in Working \ {"issue"}
    BY <1>7 DEF OperatorRevoke, Issued, Working
  <2>2. \E ps \in SUBSET Pairs :
          Become(r, [Idle EXCEPT !.pc = "operator", !.pair = p, !.seen = ps])
    BY <1>7 DEF OperatorRevoke, Begin, Chain
  <2>3. QED  BY <1>4, <2>1, <2>2
<1>8. ASSUME NEW r \in Requests, RevokeFamily(r)
      PROVE  \E x \in CallType : Become(r, x) /\ Sound(x) /\ (x.pc = "issue" => pair' = pair)
  <2>1. PICK p \in Pairs : p = req[r].pair
    BY <1>8, <1>t, CallsCarry DEF TokenInv, RevokeFamily, At, Working
  <2>2. Issued(p) /\ Family(p) # NoPair
    BY <1>8, <2>1, SentinelAssumption DEF TokenInv, Carries, RevokeFamily, At, Working
  <2>3. \E ps \in SUBSET Pairs :
          Become(r, [Idle EXCEPT !.pc = "refresh", !.pair = p, !.seen = ps])
    BY <1>8, <2>1 DEF RevokeFamily, Begin, Chain
  <2>4. "refresh" \in Working \ {"issue", "operator"}
    BY DEF Working
  <2>5. QED  BY <1>4, <2>2, <2>3, <2>4
<1>9. ASSUME NEW r \in Requests, Rotate(r) \/ RevokeRefresh(r)
      PROVE  \E x \in CallType : Become(r, x) /\ Sound(x) /\ (x.pc = "issue" => pair' = pair)
  <2>1. PICK x, pc : /\ Become(r, x) /\ x = [req[r] EXCEPT !.pc = pc]
                     /\ \/ pc = "issue" /\ Rotate(r)
                        \/ pc = "access" /\ RevokeRefresh(r)
    BY <1>9 DEF Rotate, RevokeRefresh, Goto
  <2>2. req[r] \in CallType /\ req[r].pc \in {"rotate", "refresh"} /\ req[r].pair \in Pairs /\ Carries(r)
    BY <1>9, <1>t, CallsCarry DEF TokenInv, Rotate, RevokeRefresh, At, Working
  <2>3. x \in CallType
    <3>1. {"issue", "access"} \subseteq Stages
      BY DEF Stages
    <3>2. QED  BY <1>t, <2>1, <3>1, MovesAreTyped
  <2>4. x.pc = pc /\ x.txn = req[r].txn /\ x.code = req[r].code /\ x.pair = req[r].pair
    BY <2>1, <2>2 DEF CallType
  <2>5. pc = "issue" => Live(x.pair) /\ ~RowHeld(x.pair) /\ pair' = pair
    BY <2>1, <2>4 DEF Rotate
  <2>6. Sound(x)
    BY <2>1, <2>2, <2>4, <2>5 DEF Sound, Carries, Deciding, Working, At
  <2>7. QED  BY <2>1, <2>3, <2>4, <2>5, <2>6
<1>10. (UNCHANGED vars \/ \E t \in Txns : Authorize(t)) \/ (\E p \in Pairs : Mint(p)) => req' = req
  BY DEF vars, Authorize, Mint
<1>11. ASSUME NEW r \in Requests, Step(r), ~RevokeFamily(r), ~Rotate(r), ~RevokeRefresh(r)
       PROVE Done(r)
  BY <1>11 DEF Step, Approve, Deny, Consume, Issue, CodeReplayed, RotateLost, RevokeAccess,
    OperatorCommit, GiveUp
<1>12. {"approve", "deny"} \subseteq Deciding
  BY DEF Deciding
<1>13. QED
  BY <1>1, <1>2, <1>3, <1>5, <1>6, <1>7, <1>8, <1>9, <1>10, <1>11, <1>12 DEF Next

\* What a transaction holds no other step spends.
LEMMA HeldStays ==
  ASSUME TokenInv, [Next]_vars, NEW q \in Requests, NEW p \in Pairs,
         At(q, "issue"), req[q].pair = p, req'[q] = req[q]
  PROVE  Live(p)'
<1>t. pair \in [Pairs -> PairType] /\ Live(p) /\ Issued(p) /\ RowHeld(p)
  BY TypesAre, SentinelAssumption DEF TokenInv, Carries, RowHeld
<1>1. ASSUME pair'[p].refresh = pair[p].refresh PROVE Live(p)'
  BY <1>t, <1>1 DEF Live
<1>2. ASSUME NEW r \in Requests, NEW n \in Pairs, NEW o \in BOOLEAN, Consume(r, n, o)
      PROVE  Live(p)'
  BY <1>t, <1>1, <1>2 DEF Consume
<1>3. ASSUME NEW r \in Requests, NEW n \in Pairs, NEW o \in BOOLEAN, Issue(r, n, o)
      PROVE  Live(p)'
  <2>1. q # r
    <3>1. req'[r] = Idle
      BY <1>3, CallMoves DEF TokenInv, Issue, Done
    <3>2. QED  BY <3>1 DEF At, Idle
  <2>2. req[r].pair # p /\ req[r].pair \in Pairs
    BY <1>3, <2>1, CallsCarry DEF TokenInv, OneSpender, Issue, At, Working
  <2>3. n # p
    BY <1>t, <1>3 DEF Issue
  <2>4. QED  BY <1>t, <1>1, <1>3, <2>2, <2>3 DEF Issue
<1>4. ASSUME NEW n \in Pairs, Mint(n) PROVE Live(p)'
  BY <1>t, <1>1, <1>4 DEF Mint
<1>5. ASSUME NEW r \in Requests, RevokeRefresh(r) PROVE Live(p)'
  BY <1>t, <1>1, <1>5 DEF RevokeRefresh, Spend
<1>6. ASSUME NEW r \in Requests, RevokeAccess(r) PROVE Live(p)'
  <2>1. pair'[p] = pair[p] \/ pair'[p] = [pair[p] EXCEPT !.access = "revoked"]
    BY <1>6 DEF RevokeAccess, Silence
  <2>2. QED  BY <1>t, <1>1, <2>1 DEF PairType
<1>7. ASSUME NEW r \in Requests, OperatorCommit(r) PROVE Live(p)'
  <2>1. p \notin req[r].seen
    BY <1>t, <1>7 DEF OperatorCommit
  <2>2. pair'[p] = pair[p] \/ pair'[p] = [pair[p] EXCEPT !.access = "revoked"]
    BY <1>7, <2>1 DEF OperatorCommit, Silence, Spend
  <2>3. QED  BY <1>t, <1>1, <2>2 DEF PairType
<1>8. ASSUME NEW r \in Requests, NEW n \in Pairs, Revoke(r, n) PROVE Live(p)'
  <2>1. pair' = pair \/ pair' = [pair EXCEPT ![n].access = "revoked"]
    BY <1>8 DEF Revoke
  <2>2. QED  BY <1>t, <1>1, <2>1 DEF PairType
<1>9. QED
  BY <1>1, <1>2, <1>3, <1>4, <1>5, <1>6, <1>7, <1>8, WritesToTokens

\* Every call goes on carrying what it needs.
LEMMA CarriesStep ==
  ASSUME TokenInv, [Next]_vars
  PROVE  req' \in [Requests -> CallType] /\ (\A q \in Requests : Carries(q)') /\ OneSpender'
<1>t. TypeOK /\ req \in [Requests -> CallType] /\ \A q \in Requests : Carries(q)
  BY TypesAre DEF TokenInv
<1>k. Kept
  BY AllKeep
<1>1. ASSUME NEW q \in Requests, req'[q] = req[q] PROVE Carries(q)'
  <2>1. CASE req[q].pair = NoPair
    BY <1>t, <1>1, <2>1 DEF Carries, At, Working, Deciding
  <2>2. CASE req[q].pair # NoPair
    <3>1. PICK p \in Pairs : p = req[q].pair
      BY <1>t, <2>2, CallsCarry DEF Carries
    <3>2. Issued(p) /\ Issued(p)' /\ Family(p)' = Family(p)
      BY <1>t, <1>k, <2>2, <3>1 DEF Carries, Kept
    <3>3. At(q, "issue") => Live(p)'
      BY <1>1, <3>1, HeldStays
    <3>4. QED  BY <1>t, <1>1, <2>2, <3>1, <3>2, <3>3 DEF Carries, At, Issued, Live, Family
  <2>3. QED  BY <2>1, <2>2
<1>2. CASE req' = req
  BY <1>t, <1>1, <1>2 DEF OneSpender, TokenInv, At
<1>3. ASSUME NEW r \in Requests, NEW x \in CallType, Become(r, x), Sound(x),
             x.pc = "issue" => pair' = pair
      PROVE  req' \in [Requests -> CallType] /\ (\A q \in Requests : Carries(q)') /\ OneSpender'
  <2>1. /\ req' \in [Requests -> CallType] /\ req'[r] = x
        /\ \A q \in Requests \ {r} : req'[q] = req[q]
    BY <1>t, <1>3, CallMoves
  <2>2. Carries(r)'
    <3>1. CASE x.pair = NoPair
      BY <1>3, <2>1, <3>1 DEF Sound, Carries, At, Working, Deciding
    <3>2. CASE x.pair # NoPair
      <4>1. PICK p \in Pairs : p = x.pair
        BY <3>2 DEF CallType
      <4>2. Issued(p)' /\ Family(p)' = Family(p)
        BY <1>3, <1>k, <3>2, <4>1 DEF Sound, Kept
      <4>3. x.pc = "issue" => Live(p)'
        BY <1>3, <4>1 DEF Sound, Live
      <4>4. QED  BY <1>3, <2>1, <3>2, <4>1, <4>2, <4>3 DEF Sound, Carries, At, Issued, Live, Family
    <3>3. QED  BY <3>1, <3>2
  <2>3. \A q \in Requests : Carries(q)'
    BY <1>1, <2>1, <2>2
  <2>4. OneSpender'
    BY <1>3, <2>1 DEF TokenInv, OneSpender, Sound, RowHeld, At
  <2>5. QED  BY <2>1, <2>3, <2>4
<1>4. QED  BY <1>2, <1>3, CallsMove

\* A chain goes on from one token, and a code begins one chain.
LEMMA ForkStep ==
  ASSUME TokenInv, [Next]_vars
  PROVE  NoFork'
<1>t. /\ pair \in [Pairs -> PairType] /\ pair' \in [Pairs -> PairType]
      /\ \A p \in Pairs : Recorded(p)
  BY TypesAre, PairsAreTyped DEF TokenInv
<1>f. \A p, q \in Pairs : Live(p) /\ Live(q) /\ pair[p].from = pair[q].from => p = q
  BY DEF TokenInv, NoFork
<1>k. Kept
  BY AllKeep
<1>u. \A p \in Pairs : pair'[p] = pair[p] => (Live(p)' <=> Live(p))
  BY DEF Live
<1>o. \A p \in Pairs : Live(p) => Issued(p)
  BY <1>t DEF Recorded, Live, NoToken
<1>1. CASE NoneNew
  <2>1. \A p \in Pairs : Live(p)' => Live(p) /\ pair'[p].from = pair[p].from
    BY <1>k, <1>o, <1>u, <1>1 DEF Kept, NoneNew
  <2>2. QED  BY <1>f, <2>1 DEF NoFork
<1>2. ASSUME NEW n \in Pairs, ~Issued(n),
             \A p \in Pairs \ {n} : ~Issued(p) => pair'[p] = pair[p],
             \A p \in Pairs \ {n} : Live(p)' /\ Live(n)' => pair[p].from # pair'[n].from
      PROVE  NoFork'
  <2>1. \A p \in Pairs \ {n} : Live(p)' => Live(p) /\ pair'[p].from = pair[p].from
    BY <1>k, <1>u, <1>o, <1>2 DEF Kept
  <2>2. QED  BY <1>f, <1>2, <2>1 DEF NoFork
<1>3. ASSUME NEW n \in Pairs, NEW r \in Requests, NEW o \in BOOLEAN, Consume(r, n, o),
             NEW p \in Pairs \ {n}, Live(p)', Live(n)'
      PROVE  pair[p].from # pair'[n].from
  <2>1. req[r].code \in Codes /\ ~code[req[r].code].used
    BY <1>3, CallsCarry DEF TokenInv, Consume
  <2>2. pair'[n].from = req[r].code
    BY <1>t, <1>3 DEF Consume, NewPair
  <2>3. QED  BY <1>t, <2>1, <2>2, SentinelAssumption DEF Recorded
<1>4. ASSUME NEW n \in Pairs, NEW r \in Requests, NEW o \in BOOLEAN, Issue(r, n, o),
             NEW p \in Pairs \ {n}, Live(p)', Live(n)'
      PROVE  pair[p].from # pair'[n].from
  <2>1. PICK q \in Pairs : q = req[r].pair
    BY <1>4, CallsCarry DEF TokenInv, Issue, At, Working
  <2>2. Live(q)
    BY <1>4, <2>1 DEF TokenInv, Carries, Issue
  <2>3. q # n /\ ~Issued(n)
    BY <1>4, <1>o, <2>2 DEF Issue
  <2>4. pair'[n].from = pair[q].from /\ pair'[q].refresh = "spent"
    BY <1>t, <1>4, <2>1, <2>3 DEF Issue, NewPair, PairType
  <2>5. p # q
    BY <1>4, <2>4 DEF Live
  <2>6. Live(p)
    BY <1>t, <1>4, <2>1, <2>5 DEF Issue, Live
  <2>7. QED  BY <1>f, <2>2, <2>4, <2>5, <2>6
<1>5. ASSUME NEW n \in Pairs, Mint(n) PROVE ~Live(n)'
  BY <1>t, <1>5 DEF Mint, NewPair, Live
<1>6. QED
  BY <1>1, <1>2, <1>3, <1>4, <1>5, AllKeep

\* The transactions and the histories keep their types.
LEMMA HistoriesAreTyped ==
  ASSUME TokenInv, [Next]_vars
  PROVE  /\ txn' \in [Txns -> {"new", "pending", "gone"}]
         /\ overlapped' \subseteq Txns /\ denied' \subseteq Txns
         /\ raced' \subseteq Pairs /\ dead' \subseteq Pairs
<1>t. /\ TypeOK /\ \A r \in Requests : Carries(r)
      /\ \A p \in Pairs : Family(p) \in Pairs \union {NoPair}
  BY TypesAre DEF TokenInv, PairType, Family
<1>1. /\ txn' \in [Txns -> {"new", "pending", "gone"}]
      /\ overlapped' \subseteq Txns
  BY <1>t DEF TypeOK, Next, Step, Authorize, Take, Approve, Deny, Exchange, Consume, CodeReplayed,
    Refresh, Rotate, RotateLost, Issue, Revoke, Begin, RevokeFamily, RevokeRefresh, RevokeAccess,
    OperatorRevoke, OperatorCommit, Mint, GiveUp, consents, vars
<1>2. denied' \subseteq Txns
  <2>1. \A r \in Requests : Deny(r) => req[r].txn \in Txns
    BY <1>t, CallsCarry DEF Deny, At, Deciding
  <2>2. denied' = denied \/ \E r \in Requests : Deny(r)
    BY DEF Next, Step, Authorize, Take, Approve, Exchange, Consume, CodeReplayed,
      Refresh, Rotate, RotateLost, Issue, Revoke, Begin, RevokeFamily, RevokeRefresh, RevokeAccess,
      OperatorRevoke, OperatorCommit, Mint, GiveUp, consents, vars
  <2>3. QED  BY <1>t, <2>1, <2>2 DEF TypeOK, Deny
<1>3. dead' \subseteq Pairs
  <2>1. dead' = dead \/ \E r \in Requests : RevokeAccess(r) \/ OperatorCommit(r)
    BY DEF Next, Step, Authorize, Take, Approve, Deny, Exchange, Consume, CodeReplayed,
      Refresh, Rotate, RotateLost, Issue, Revoke, Begin, RevokeFamily, RevokeRefresh,
      OperatorRevoke, Mint, GiveUp, chains, vars
  <2>2. ASSUME NEW r \in Requests, RevokeAccess(r) PROVE dead' \subseteq Pairs
    <3>1. req[r].pair \in Pairs /\ Family(req[r].pair) # NoPair
      BY <1>t, <2>2, CallsCarry DEF RevokeAccess, Carries, At, Working
    <3>2. QED  BY <1>t, <2>2, <3>1 DEF RevokeAccess, TypeOK
  <2>3. ASSUME NEW r \in Requests, OperatorCommit(r) PROVE dead' \subseteq Pairs
    <3>1. req[r].pair \in Pairs
      BY <1>t, <2>3, CallsCarry DEF OperatorCommit, At, Working
    <3>2. QED  BY <1>t, <2>3, <3>1 DEF OperatorCommit, TypeOK
  <2>4. QED  BY <1>t, <2>1, <2>2, <2>3 DEF TypeOK
<1>4. raced' \subseteq Pairs
  <2>1. \/ raced' = raced
        \/ \E r \in Requests : Rotate(r)
        \/ \E r \in Requests, p \in Pairs : Begin(r, p, "operator")
        \/ \E r \in Requests : RevokeFamily(r)
    BY DEF Next, Step, Authorize, Take, Approve, Deny, Exchange, Consume, CodeReplayed,
      Refresh, RotateLost, Issue, Revoke, RevokeRefresh, RevokeAccess,
      OperatorRevoke, OperatorCommit, Mint, GiveUp, chains, vars
  <2>2. ASSUME NEW r \in Requests, Rotate(r) PROVE raced' \subseteq Pairs
    <3>1. req[r].pair \in Pairs /\ Family(req[r].pair) # NoPair
      BY <1>t, <2>2, CallsCarry DEF Rotate, Carries, At, Working
    <3>2. QED  BY <1>t, <2>2, <3>1 DEF Rotate, TypeOK
  <2>3. ASSUME NEW r \in Requests, NEW p \in Pairs, NEW pc, Begin(r, p, pc) PROVE raced' \subseteq Pairs
    BY <1>t, <2>3 DEF Begin, TypeOK
  <2>4. ASSUME NEW r \in Requests, RevokeFamily(r) PROVE raced' \subseteq Pairs
    <3>1. PICK p \in Pairs : p = req[r].pair
      BY <1>t, <2>4, CallsCarry DEF RevokeFamily, At, Working
    <3>2. QED  BY <2>3, <2>4, <3>1 DEF RevokeFamily
  <2>5. QED  BY <1>t, <2>1, <2>2, <2>3, <2>4 DEF TypeOK
<1>5. QED  BY <1>1, <1>2, <1>3, <1>4

\* Every step keeps the tokens and the calls consistent.
LEMMA TokenInvStep == TokenInv /\ [Next]_vars => TokenInv'
<1> SUFFICES ASSUME TokenInv, [Next]_vars PROVE TokenInv'
  OBVIOUS
<1>1. TypeOK'
  BY TypesAre, PairsAreTyped, CodesMove, CarriesStep, HistoriesAreTyped DEF TypeOK, PairType, CallType
<1>2. QED
  BY <1>1, RecordedStep, CarriesStep, ForkStep DEF TokenInv

-----------------------------------------------------------------------------
(* Decisions *)

\* The histories only grow.
LEMMA HistoriesGrow ==
  ASSUME [Next]_vars
  PROVE  overlapped \subseteq overlapped' /\ raced \subseteq raced'
<1>1. overlapped \subseteq overlapped'
  BY DEF Next, Step, Authorize, Take, Approve, Deny, Exchange, Consume, CodeReplayed,
    Refresh, Rotate, RotateLost, Issue, Revoke, Begin, RevokeFamily, RevokeRefresh, RevokeAccess,
    OperatorRevoke, OperatorCommit, Mint, GiveUp, consents, vars
<1>2. raced \subseteq raced'
  BY DEF Next, Step, Authorize, Take, Approve, Deny, Exchange, Consume, CodeReplayed,
    Refresh, Rotate, RotateLost, Issue, Revoke, Begin, RevokeFamily, RevokeRefresh, RevokeAccess,
    OperatorRevoke, OperatorCommit, Mint, GiveUp, chains, vars
<1>3. QED  BY <1>1, <1>2

\* The steps about tokens leave the decisions alone; a call may forget its transaction.
LEMMA DecisionsQuiet ==
  ASSUME TokenInv, [Next]_vars
  PROVE  \/ \E t \in Txns : Authorize(t)
         \/ \E r \in Requests, t \in Txns, pc \in Deciding : Take(r, t, pc)
         \/ \E r \in Requests, c \in Codes : Approve(r, c)
         \/ \E r \in Requests : Deny(r)
         \/ /\ txn' = txn /\ denied' = denied
            /\ \A c \in Codes : code'[c].txn = code[c].txn
            /\ \A q \in Requests : req'[q].txn \in {req[q].txn, NoTxn}
<1>t. /\ TypeOK /\ code \in [Codes -> [txn : Txns \union {NoTxn}, used : BOOLEAN]]
      /\ \A q \in Requests : req[q] \in CallType
  BY TypesAre DEF TokenInv
<1>1. ASSUME NEW r \in Requests, NEW x, Become(r, x), x.txn \in {req[r].txn, NoTxn}
      PROVE  \A q \in Requests : req'[q].txn \in {req[q].txn, NoTxn}
  BY <1>1, <1>t, CallMoves
<1>2. ASSUME NEW r \in Requests, Done(r)
      PROVE  \A q \in Requests : req'[q].txn \in {req[q].txn, NoTxn}
  BY <1>1, <1>2 DEF Done, Idle
<1>3. ASSUME NEW r \in Requests, NEW pc, Goto(r, pc)
      PROVE  \A q \in Requests : req'[q].txn \in {req[q].txn, NoTxn}
  BY <1>1, <1>3, <1>t DEF Goto, CallType
<1>4. ASSUME NEW r \in Requests, NEW pc, NEW p, Become(r, [Idle EXCEPT !.pc = pc, !.pair = p])
      PROVE  \A q \in Requests : req'[q].txn \in {req[q].txn, NoTxn}
  BY <1>1, <1>4 DEF Idle
<1>5. ASSUME NEW r \in Requests, NEW p, NEW pc, Begin(r, p, pc)
      PROVE  /\ \A q \in Requests : req'[q].txn \in {req[q].txn, NoTxn}
             /\ txn' = txn /\ denied' = denied /\ code' = code
  BY <1>1, <1>5 DEF Begin, Idle, consents
<1>6. ASSUME NEW r \in Requests, NEW c \in Codes, Exchange(r, c)
      PROVE  /\ \A q \in Requests : req'[q].txn \in {req[q].txn, NoTxn}
             /\ txn' = txn /\ denied' = denied /\ code' = code
  BY <1>1, <1>6 DEF Exchange, Idle, consents
<1>7. ASSUME NEW r \in Requests, NEW p \in Pairs, NEW o \in BOOLEAN, Consume(r, p, o)
      PROVE  /\ \A q \in Requests : req'[q].txn \in {req[q].txn, NoTxn}
             /\ txn' = txn /\ denied' = denied /\ \A c \in Codes : code'[c].txn = code[c].txn
  BY <1>2, <1>7, <1>t DEF Consume
<1>8. ASSUME NEW r \in Requests,
             \/ CodeReplayed(r) \/ RotateLost(r) \/ RevokeAccess(r) \/ OperatorCommit(r) \/ GiveUp(r)
             \/ Rotate(r) \/ RevokeRefresh(r)
             \/ \E p \in Pairs, o \in BOOLEAN : Issue(r, p, o)
      PROVE  /\ \A q \in Requests : req'[q].txn \in {req[q].txn, NoTxn}
             /\ txn' = txn /\ denied' = denied /\ code' = code
  BY <1>2, <1>3, <1>8 DEF CodeReplayed, RotateLost, RevokeAccess, OperatorCommit, GiveUp, Rotate,
    RevokeRefresh, Issue, consents
<1>9. ASSUME NEW r \in Requests, NEW p \in Pairs, Refresh(r, p) \/ Revoke(r, p)
      PROVE  /\ \A q \in Requests : req'[q].txn \in {req[q].txn, NoTxn}
             /\ txn' = txn /\ denied' = denied /\ code' = code
  BY <1>4, <1>9 DEF Refresh, Revoke, consents
<1>10. ASSUME UNCHANGED vars \/ \E p \in Pairs : Mint(p)
       PROVE  /\ \A q \in Requests : req'[q].txn \in {req[q].txn, NoTxn}
              /\ txn' = txn /\ denied' = denied /\ code' = code
  BY <1>10 DEF Mint, consents, vars
<1>11. {"approve", "deny"} \subseteq Deciding
  BY DEF Deciding
<1>12. QED
  BY <1>5, <1>6, <1>7, <1>8, <1>9, <1>10, <1>11 DEF Next, Step, RevokeFamily, OperatorRevoke

\* Every step keeps what is decided once decided once.
LEMMA DecisionStep == TokenInv /\ DecisionInv /\ [Next]_vars => DecisionInv'
<1> SUFFICES ASSUME TokenInv, DecisionInv, [Next]_vars, NEW t \in Txns \ overlapped'
             PROVE  DecidedOnce(t)'
  BY DEF DecisionInv
<1>t. /\ TypeOK /\ txn \in [Txns -> {"new", "pending", "gone"}]
      /\ code \in [Codes -> [txn : Txns \union {NoTxn}, used : BOOLEAN]]
      /\ t # NoTxn
  BY SentinelAssumption DEF TokenInv, TypeOK
<1>d. t \notin overlapped /\ DecidedOnce(t)
  BY HistoriesGrow DEF DecisionInv
<1>1. ASSUME NEW u \in Txns, Authorize(u) PROVE DecidedOnce(t)'
  BY <1>t, <1>d, <1>1 DEF Authorize, DecidedOnce
<1>2. ASSUME NEW r \in Requests, NEW u \in Txns, NEW pc \in Deciding, Take(r, u, pc)
      PROVE  DecidedOnce(t)'
  <2>1. req'[r].txn = u /\ \A q \in Requests \ {r} : req'[q] = req[q]
    <3>1. PICK x : x = [Idle EXCEPT !.pc = pc, !.txn = u]
      OBVIOUS
    <3>2. Become(r, x) /\ x.txn = u
      BY <1>2, <3>1 DEF Take, Idle
    <3>3. QED  BY <1>t, <3>2, CallMoves
  <2>2. /\ txn' = txn /\ denied' = denied /\ code' = code /\ txn[u] = "pending"
        /\ t = u => \A q \in Requests : req[q].txn # u
    BY <1>2 DEF Take
  <2>3. QED  BY <1>d, <2>1, <2>2 DEF DecidedOnce
<1>3. ASSUME NEW r \in Requests, NEW c \in Codes, Approve(r, c) PROVE DecidedOnce(t)'
  <2>1. req'[r].txn = NoTxn /\ \A q \in Requests \ {r} : req'[q] = req[q]
    BY <1>t, <1>3, CallMoves DEF Approve, Done, Idle
  <2>2. PICK u \in Txns : u = req[r].txn
    BY <1>3, CallsCarry DEF TokenInv, Approve, At, Deciding
  <2>3. txn' = [txn EXCEPT ![u] = "gone"] /\ denied' = denied /\ code[c].txn = NoTxn
    BY <1>3, <2>2 DEF Approve
  <2>4. \A d \in Codes : code'[d].txn = IF d = c THEN u ELSE code[d].txn
    BY <1>t, <1>3, <2>2 DEF Approve
  <2>5. CASE t = u
    <3>1. txn[t] = "pending" /\ \A q \in Requests : req[q].txn = t => q = r
      BY <1>d, <2>2, <2>5 DEF DecidedOnce
    <3>2. QED  BY <1>t, <1>d, <2>1, <2>3, <2>4, <2>5, <3>1 DEF DecidedOnce
  <2>6. CASE t # u
    BY <1>t, <1>d, <2>1, <2>3, <2>4, <2>6 DEF DecidedOnce
  <2>7. QED  BY <2>5, <2>6
<1>4. ASSUME NEW r \in Requests, Deny(r) PROVE DecidedOnce(t)'
  <2>1. req'[r].txn = NoTxn /\ \A q \in Requests \ {r} : req'[q] = req[q]
    BY <1>t, <1>4, CallMoves DEF Deny, Done, Idle
  <2>2. PICK u \in Txns : u = req[r].txn
    BY <1>4, CallsCarry DEF TokenInv, Deny, At, Deciding
  <2>3. txn' = [txn EXCEPT ![u] = "gone"] /\ denied' = denied \union {u} /\ code' = code
    BY <1>4, <2>2 DEF Deny
  <2>4. CASE t = u
    <3>1. txn[t] = "pending" /\ \A q \in Requests : req[q].txn = t => q = r
      BY <1>d, <2>2, <2>4 DEF DecidedOnce
    <3>2. QED  BY <1>t, <1>d, <2>1, <2>3, <2>4, <3>1 DEF DecidedOnce
  <2>5. CASE t # u
    BY <1>t, <1>d, <2>1, <2>3, <2>5 DEF DecidedOnce
  <2>6. QED  BY <2>4, <2>5
<1>5. ASSUME txn' = txn, denied' = denied, \A c \in Codes : code'[c].txn = code[c].txn,
             \A q \in Requests : req'[q].txn \in {req[q].txn, NoTxn}
      PROVE  DecidedOnce(t)'
  BY <1>t, <1>d, <1>5 DEF DecidedOnce
<1>6. QED  BY <1>1, <1>2, <1>3, <1>4, <1>5, DecisionsQuiet

-----------------------------------------------------------------------------
(* Revocations *)

Relevant == {"issue", "refresh", "operator", "access"}

\* A step that adds nothing to a chain, revives and revokes nothing in it, and moves no
\* call that revokes or rotates in it, leaves it as clean as it was.
LEMMA Unaffected ==
  ASSUME TokenInv, [Next]_vars, NEW f \in Pairs, CleanCut(f),
         \A p \in Pairs : Family(p)' = f =>
           Family(p) = f /\ (Live(p)' => Live(p)) /\ pair'[p].access = pair[p].access,
         f \in dead' => f \in dead,
         \A q \in Requests, p \in Pairs :
           req'[q].pc \in Relevant /\ req'[q].pair = p /\ Family(p) = f => req'[q] = req[q]
  PROVE  CleanCut(f)'
<1>k. Kept /\ \A q \in Requests : Carries(q)'
  BY AllKeep, CarriesStep
<1>1. ASSUME NEW q \in Requests, req'[q].pc \in Relevant, NEW p \in Pairs, req'[q].pair = p,
             Family(p)' = f
      PROVE  req'[q] = req[q] /\ Family(p) = f
  BY <1>1
<1>2. \A q \in Requests : req'[q].pc \in Relevant => req'[q].pair \in Pairs
  <2>1. \A q \in Requests : req'[q] \in CallType
    BY CarriesStep
  <2>2. QED  BY <1>k, <2>1 DEF Carries, Relevant, Working, CallType
<1>3. ASSUME NEW r \in Requests, req'[r].pc \in {"refresh", "operator"}, NEW m \in Pairs,
             req'[r].pair = m, Family(m)' = f
      PROVE  /\ \A q \in Requests, p \in Pairs :
                  req'[q].pc = "issue" /\ req'[q].pair = p => Family(p)' # f
             /\ \A p \in Pairs : Family(p)' = f /\ Live(p)' => p \in req'[r].seen
  <2>1. req'[r] = req[r] /\ Family(m) = f
    BY <1>1, <1>3 DEF Relevant
  <2>2. /\ \A q \in Requests : At(q, "issue") => Family(req[q].pair) # f
        /\ \A p \in Chain(f) : Live(p) => p \in req[r].seen
    BY <1>3, <2>1 DEF CleanCut
  <2>3. ASSUME NEW q \in Requests, NEW p \in Pairs, req'[q].pc = "issue", req'[q].pair = p,
               Family(p)' = f
        PROVE  FALSE
    BY <1>1, <2>2, <2>3 DEF Relevant, At
  <2>4. \A p \in Pairs : Family(p)' = f /\ Live(p)' => p \in Chain(f) /\ Live(p)
    BY SentinelAssumption DEF Chain
  <2>5. QED  BY <2>1, <2>2, <2>3, <2>4
<1>4. ASSUME f \in dead' \/ \E r \in Requests, m \in Pairs :
                                 req'[r].pc = "access" /\ req'[r].pair = m /\ Family(m)' = f
      PROVE  \A p \in Pairs : Family(p)' = f => ~Live(p)'
  <2>1. f \in dead \/ \E r \in Requests : At(r, "access") /\ Family(req[r].pair) = f
    BY <1>1, <1>4 DEF Relevant, At
  <2>2. \A p \in Chain(f) : ~Live(p)
    BY <2>1 DEF CleanCut
  <2>3. QED  BY <2>2, SentinelAssumption DEF Chain
<1>5. \A p, q \in Pairs : Family(p)' = f /\ Family(q)' = f /\ pair'[p].access = "revoked" => ~Live(q)'
  <2>1. \A p, q \in Chain(f) : pair[p].access = "revoked" => ~Live(q)
    BY DEF CleanCut
  <2>2. QED  BY <2>1, SentinelAssumption DEF Chain
<1>6. f \in dead' => \A p \in Pairs : Family(p)' = f => pair'[p].access = "revoked"
  <2>1. f \in dead => \A p \in Chain(f) : pair[p].access = "revoked"
    BY DEF CleanCut
  <2>2. QED  BY <2>1, SentinelAssumption DEF Chain
<1>7. QED
  BY <1>2, <1>3, <1>4, <1>5, <1>6 DEF CleanCut, Chain, At, Relevant, Family

\* A revocation keeps every pair in its chain.
LEMMA ChainsStand ==
  ASSUME TokenInv, [Next]_vars, NoneNew, NEW p \in Pairs
  PROVE  Family(p)' = Family(p) /\ (Live(p)' => Live(p))
BY AllKeep DEF Kept, NoneNew, Family, Live

\* A chain with no usable refresh token is clean, if its access tokens went with a
\* completed revocation.
LEMMA Emptied ==
  ASSUME TokenInv', NEW f \in Pairs, \A p \in Pairs : Family(p)' = f => ~Live(p)',
         f \in dead' => \A p \in Pairs : Family(p)' = f => pair'[p].access = "revoked"
  PROVE  CleanCut(f)'
<1>1. \A p \in Pairs : Family(p)' = pair'[p].family /\ (Live(p)' <=> pair'[p].refresh = "live")
  BY DEF Family, Live
<1>2. ASSUME NEW q \in Requests, req'[q].pc = "issue" PROVE pair'[req'[q].pair].family # f
  <2>1. Carries(q)' /\ req'[q] \in CallType
    BY DEF TokenInv, TypeOK, CallType
  <2>2. PICK p \in Pairs : p = req'[q].pair
    BY <1>2, <2>1 DEF Carries, Working, CallType
  <2>3. pair'[p].refresh = "live"
    BY <1>2, <2>1, <2>2 DEF Carries, Live, At
  <2>4. QED  BY <1>1, <2>2, <2>3
<1>3. QED  BY <1>1, <1>2 DEF CleanCut, Chain, At, Family, Live

\* A chain that a rotation goes on with, or a code begins, is in no revocation's way.
LEMMA Extended ==
  ASSUME NEW f \in Pairs, f \notin dead',
         \A q \in Requests, p \in Pairs :
           req'[q].pc \in {"refresh", "operator", "access"} /\ req'[q].pair = p => Family(p)' # f,
         \A q \in Requests : req'[q].pc \in {"refresh", "operator", "access"} => req'[q].pair \in Pairs,
         \A p \in Pairs : Family(p)' = f => pair'[p].access # "revoked"
  PROVE  CleanCut(f)'
BY DEF CleanCut, Chain, At, Family

\* Issuing keeps the chains clean.
LEMMA IssuesClean ==
  ASSUME TokenInv, RevocationInv, [Next]_vars, NEW f \in Pairs, f \notin raced', NEW n \in Pairs,
         NEW r \in Requests, NEW o \in BOOLEAN, Consume(r, n, o) \/ Issue(r, n, o)
  PROVE  CleanCut(f)'
<1>t. /\ pair \in [Pairs -> PairType] /\ TypeOK /\ CleanCut(f) /\ Kept
      /\ \A p \in Pairs : Recorded(p)
  BY TypesAre, HistoriesGrow, AllKeep DEF TokenInv, RevocationInv
<1>r. req'[r] = Idle /\ \A q \in Requests \ {r} : req'[q] = req[q]
  BY <1>t, CallMoves DEF Consume, Issue, Done
<1>i. Idle.pc \notin Relevant
  BY DEF Idle, Relevant
<1>p. /\ \A q \in Requests : req'[q].pc \in Relevant => req'[q] = req[q] /\ req[q].pair \in Pairs
      /\ \A q \in Requests : req[q].pc \in Relevant => req[q].pair \in Pairs /\ Issued(req[q].pair)
  <2>1. \A q \in Requests : req[q].pc \in Relevant => req[q].pair \in Pairs /\ Issued(req[q].pair)
    BY <1>t, CallsCarry, SentinelAssumption DEF TokenInv, Carries, Relevant, Working
  <2>2. QED  BY <1>r, <1>i, <2>1
<1>d. dead' = dead /\ ~Issued(n)
  BY DEF Consume, Issue
<1>1. ASSUME Consume(r, n, o) PROVE CleanCut(f)'
  <2>1. pair' = [pair EXCEPT ![n] = NewPair(n, NoPair, req[r].code, o)]
    BY <1>1 DEF Consume
  <2>2. Family(n)' = n /\ pair'[n].access = "live"
    BY <1>t, <2>1 DEF Family, NewPair
  <2>3. \A p \in Pairs \ {n} : pair'[p] = pair[p] /\ Family(p)' = Family(p) /\ (Live(p)' <=> Live(p))
    BY <1>t, <2>1 DEF Family, Live
  <2>4. \A p \in Pairs : Family(p) # n
    BY <1>t, <1>d, SentinelAssumption DEF Recorded
  <2>5. CASE f = n
    <3>1. f \notin dead
      BY <1>d, <2>5 DEF RevocationInv
    <3>2. \A p \in Pairs : Family(p)' = f => p = n
      BY <2>3, <2>4, <2>5
    <3>3. \A q \in Requests : req'[q].pc \in Relevant => req'[q].pair # n
      BY <1>d, <1>p
    <3>4. QED  BY <1>d, <1>p, <2>2, <3>1, <3>2, <3>3, Extended DEF Relevant
  <2>6. CASE f # n
    <3>1. \A p \in Pairs : Family(p)' = f =>
            Family(p) = f /\ (Live(p)' => Live(p)) /\ pair'[p].access = pair[p].access
      BY <2>2, <2>3, <2>6
    <3>2. QED  BY <1>t, <1>d, <1>p, <3>1, Unaffected
  <2>7. QED  BY <2>5, <2>6
<1>2. ASSUME Issue(r, n, o) PROVE CleanCut(f)'
  <2>1. PICK m \in Pairs : m = req[r].pair
    BY <1>2, CallsCarry DEF TokenInv, Issue, At, Working
  <2>2. Live(m) /\ Issued(m) /\ Family(m) # NoPair /\ m # n
    BY <1>2, <1>d, <2>1, SentinelAssumption DEF TokenInv, Carries, Issue, At, Working
  <2>3. pair' = [pair EXCEPT ![m].refresh = "spent", ![n] = NewPair(Family(m), m, pair[m].from, o)]
    BY <1>2, <2>1 DEF Issue
  <2>4. Family(n)' = Family(m) /\ pair'[n].access = "live"
    BY <1>t, <2>3 DEF Family, NewPair
  <2>5. \A p \in Pairs \ {n} : /\ pair'[p].access = pair[p].access
                               /\ Family(p)' = Family(p) /\ (Live(p)' => Live(p))
    BY <1>t, <2>2, <2>3 DEF Family, Live, PairType
  <2>6. CASE f = Family(m)
    <3>1. m \in Chain(f)
      BY <2>2, <2>6 DEF Chain
    <3>2. /\ f \notin dead
          /\ \A q \in Requests : req[q].pc \in {"refresh", "operator", "access"} => Family(req[q].pair) # f
          /\ \A p \in Chain(f) : pair[p].access # "revoked"
      BY <1>t, <1>2, <2>1, <2>2, <2>6, <3>1 DEF CleanCut, Issue, At
    <3>3. \A p \in Pairs : Family(p)' = f => pair'[p].access # "revoked"
      BY <2>4, <2>5, <2>6, <3>2, SentinelAssumption DEF Chain
    <3>4. ASSUME NEW q \in Requests, NEW p \in Pairs,
                 req'[q].pc \in {"refresh", "operator", "access"}, req'[q].pair = p
          PROVE  Family(p)' # f
      <4>1. Family(p) # f /\ Issued(p)
        BY <1>p, <3>2, <3>4 DEF Relevant
      <4>2. QED  BY <1>d, <2>5, <4>1
    <3>5. \A q \in Requests : req'[q].pc \in {"refresh", "operator", "access"} => req'[q].pair \in Pairs
      BY <1>p DEF Relevant
    <3>6. QED  BY <1>d, <3>2, <3>3, <3>4, <3>5, Extended
  <2>7. CASE f # Family(m)
    <3>1. \A p \in Pairs : Family(p)' = f =>
            Family(p) = f /\ (Live(p)' => Live(p)) /\ pair'[p].access = pair[p].access
      BY <2>4, <2>5, <2>7
    <3>2. QED  BY <1>t, <1>d, <1>p, <3>1, Unaffected
  <2>8. QED  BY <2>6, <2>7
<1>3. QED  BY <1>1, <1>2

\* The statements of a revocation keep the chains clean.
LEMMA RevocationsClean ==
  ASSUME TokenInv, RevocationInv, [Next]_vars, NEW f \in Pairs, f \notin raced', NEW r \in Requests,
         RevokeRefresh(r) \/ RevokeAccess(r) \/ OperatorCommit(r)
  PROVE  CleanCut(f)'
<1>t. /\ pair \in [Pairs -> PairType] /\ pair' \in [Pairs -> PairType] /\ TypeOK /\ CleanCut(f)
      /\ Carries(r) /\ TokenInv' /\ NoneNew
  BY TypesAre, HistoriesGrow, RevocationsKeep, PairsAreTyped, TokenInvStep DEF TokenInv, RevocationInv
<1>s. \A p \in Pairs : Family(p)' = Family(p) /\ (Live(p)' => Live(p))
  BY <1>t, ChainsStand
<1>m. PICK m \in Pairs : m = req[r].pair
  BY CallsCarry DEF TokenInv, RevokeRefresh, RevokeAccess, OperatorCommit, At, Working
<1>c. \A p \in Pairs : p \in Chain(f) <=> Family(p) = f
  BY SentinelAssumption DEF Chain
<1>q. \A q \in Requests \ {r} : req'[q] = req[q]
  BY <1>t, CallMoves DEF RevokeRefresh, RevokeAccess, OperatorCommit, Goto, Done
<1>i. Idle.pc \notin Relevant
  BY DEF Idle, Relevant
<1>1. ASSUME RevokeRefresh(r) PROVE CleanCut(f)'
  <2>1. \A p \in Pairs : pair'[p] = IF p \in req[r].seen /\ Live(p)
                                    THEN [pair[p] EXCEPT !.refresh = "spent"] ELSE pair[p]
    BY <1>1 DEF RevokeRefresh, Spend
  <2>2. \A p \in Pairs : pair'[p].access = pair[p].access /\ (p \in req[r].seen => ~Live(p)')
    BY <1>t, <2>1 DEF Live, PairType
  <2>3. dead' = dead /\ req'[r].pair = m
    <3>1. dead' = dead /\ Become(r, [req[r] EXCEPT !.pc = "access"]) /\ req[r] \in CallType
      BY <1>1, <1>t, TypesAre DEF RevokeRefresh, Goto
    <3>2. QED  BY <1>t, <1>m, <3>1, CallMoves DEF CallType
  <2>4. CASE Family(m) = f
    <3>1. \A p \in Pairs : Family(p) = f /\ Live(p) => p \in req[r].seen
      BY <1>1, <1>t, <1>m, <1>c, <2>4 DEF CleanCut, RevokeRefresh, At
    <3>2. f \in dead => \A p \in Pairs : Family(p) = f => pair[p].access = "revoked"
      BY <1>t, <1>c DEF CleanCut
    <3>3. QED  BY <1>t, <1>s, <2>2, <2>3, <3>1, <3>2, Emptied
  <2>5. CASE Family(m) # f
    BY <1>t, <1>s, <1>q, <2>2, <2>3, <2>5, Unaffected
  <2>6. QED  BY <2>4, <2>5
<1>2. ASSUME RevokeAccess(r) PROVE CleanCut(f)'
  <2>1. \A p \in Pairs : pair'[p] = IF Family(p) = Family(m) /\ Family(m) # NoPair
                                    THEN [pair[p] EXCEPT !.access = "revoked"] ELSE pair[p]
    BY <1>2, <1>m DEF RevokeAccess, Silence, Chain
  <2>2. dead' = dead \union {Family(m)} /\ req'[r] = Idle
    BY <1>2, <1>t, <1>m, CallMoves DEF RevokeAccess, Done
  <2>3. CASE Family(m) = f
    <3>1. \A p \in Pairs : Family(p) = f => ~Live(p)
      BY <1>2, <1>t, <1>m, <1>c, <2>3 DEF CleanCut, RevokeAccess
    <3>2. \A p \in Pairs : Family(p) = f => pair'[p].access = "revoked"
      BY <1>t, <2>1, <2>3, SentinelAssumption DEF PairType
    <3>3. QED  BY <1>t, <1>s, <3>1, <3>2, Emptied
  <2>4. CASE Family(m) # f
    <3>1. \A p \in Pairs : Family(p) = f => pair'[p] = pair[p]
      BY <2>1, <2>4
    <3>2. QED  BY <1>t, <1>s, <1>q, <1>i, <2>2, <2>4, <3>1, Unaffected
  <2>5. QED  BY <2>3, <2>4
<1>3. ASSUME OperatorCommit(r) PROVE CleanCut(f)'
  <2>1. PICK mid : mid = Spend(req[r].seen)
    OBVIOUS
  <2>2. \A p \in Pairs : /\ mid[p] \in PairType
                         /\ mid[p].access = pair[p].access
                         /\ p \in req[r].seen => mid[p].refresh # "live"
    BY <1>t, <2>1 DEF Spend, Live, PairType
  <2>3. \A p \in Pairs : pair'[p] = IF p = m \/ (Family(p) = Family(m) /\ Family(m) # NoPair)
                                    THEN [mid[p] EXCEPT !.access = "revoked"] ELSE mid[p]
    BY <1>3, <1>m, <2>1 DEF OperatorCommit, Silence, Chain
  <2>4. dead' = dead \union ({Family(m)} \ {NoPair}) /\ req'[r] = Idle
    BY <1>3, <1>t, <1>m, CallMoves DEF OperatorCommit, Done
  <2>5. CASE Family(m) = f
    <3>1. \A p \in Pairs : Family(p) = f /\ Live(p) => p \in req[r].seen
      BY <1>3, <1>t, <1>m, <1>c, <2>5 DEF CleanCut, OperatorCommit, At
    <3>2. ASSUME NEW p \in Pairs, p \in req[r].seen PROVE ~Live(p)'
      <4>1. mid[p] \in PairType /\ mid[p].refresh # "live"
        BY <2>2, <3>2
      <4>2. pair'[p] = mid[p] \/ pair'[p] = [mid[p] EXCEPT !.access = "revoked"]
        BY <2>3
      <4>3. QED  BY <4>1, <4>2 DEF Live, PairType
    <3>3. \A p \in Pairs : Family(p) = f => pair'[p].access = "revoked"
      BY <2>2, <2>3, <2>5, SentinelAssumption DEF PairType
    <3>4. QED  BY <1>t, <1>s, <3>1, <3>2, <3>3, Emptied
  <2>6. CASE Family(m) # f
    <3>1. \A p \in Pairs : Family(p) = f => pair'[p].access = pair[p].access
      BY <2>2, <2>3, <2>6
    <3>2. QED  BY <1>t, <1>s, <1>q, <1>i, <2>4, <2>6, <3>1, Unaffected
  <2>7. QED  BY <2>5, <2>6
<1>4. QED  BY <1>1, <1>2, <1>3

\* The beginning of a revocation sees all there is, or has met a rotation.
LEMMA BeginsClean ==
  ASSUME TokenInv, RevocationInv, [Next]_vars, NEW f \in Pairs, f \notin raced', NEW r \in Requests,
         NEW m \in Pairs, NEW pc \in {"refresh", "operator"}, Begin(r, m, pc)
  PROVE  CleanCut(f)'
<1>t. TypeOK /\ CleanCut(f)
  BY HistoriesGrow DEF TokenInv, RevocationInv
<1>1. PICK x : x = [Idle EXCEPT !.pc = pc, !.pair = m, !.seen = {q \in Chain(Family(m)) : Live(q)}]
  OBVIOUS
<1>2. x.pc = pc /\ x.pair = m /\ x.seen = {q \in Chain(Family(m)) : Live(q)}
  BY <1>1 DEF Idle
<1>3. Become(r, x)
  BY <1>1 DEF Begin
<1>4. req'[r] = x /\ \A q \in Requests \ {r} : req'[q] = req[q]
  BY <1>t, <1>3, CallMoves
<1>5. pair' = pair /\ dead' = dead
  BY DEF Begin
<1>6. \A p \in Pairs : Family(p)' = Family(p) /\ (Live(p)' <=> Live(p))
  BY <1>5 DEF Family, Live
<1>7. CASE Family(m) # f
  <2>1. \A q \in Requests, p \in Pairs :
          req'[q].pc \in Relevant /\ req'[q].pair = p /\ Family(p) = f => req'[q] = req[q]
    BY <1>2, <1>4, <1>7
  <2>2. QED  BY <1>t, <1>5, <1>6, <2>1, Unaffected
<1>8. CASE Family(m) = f
  <2>1. \A q \in Requests : At(q, "issue") => Family(req[q].pair) # f
    BY <1>8, SentinelAssumption DEF Begin
  <2>2. \A q \in Requests : req'[q].pc = "issue" => req'[q] = req[q]
    BY <1>2, <1>4
  <2>3. \A q \in Requests : req'[q].pc = "issue" => pair'[req'[q].pair].family # f
    BY <1>5, <2>1, <2>2 DEF At, Family
  <2>4. \A q \in Requests : req'[q].pc = "access" => req'[q] = req[q]
    BY <1>2, <1>4
  <2>5. ASSUME NEW q \in Requests, req'[q].pc \in {"refresh", "operator"},
               pair'[req'[q].pair].family = f
        PROVE  \A p \in Chain(f) : Live(p) => p \in req'[q].seen
    <3>1. CASE q = r
      BY <1>2, <1>4, <1>8, <3>1
    <3>2. CASE q # r
      BY <1>t, <1>4, <1>5, <2>5, <3>2 DEF CleanCut, Family
    <3>3. QED  BY <3>1, <3>2
  <2>6. Chain(f)' = Chain(f)
    BY <1>5 DEF Chain, Family
  <2>7. /\ (f \in dead' \/ \E q \in Requests : req'[q].pc = "access" /\ pair'[req'[q].pair].family = f) =>
             \A p \in Chain(f) : ~Live(p)
        /\ \A p, q \in Chain(f) : pair[p].access = "revoked" => ~Live(q)
        /\ f \in dead' => \A p \in Chain(f) : pair[p].access = "revoked"
    BY <1>t, <1>5, <2>4 DEF CleanCut, At, Family
  <2>8. QED  BY <1>5, <2>3, <2>5, <2>6, <2>7 DEF CleanCut, At, Family, Live
<1>9. QED  BY <1>7, <1>8

\* A rotation that wins its token meets no revocation, or has been noted.
LEMMA RotateClean ==
  ASSUME TokenInv, RevocationInv, [Next]_vars, NEW f \in Pairs, f \notin raced', NEW r \in Requests,
         Rotate(r)
  PROVE  CleanCut(f)'
<1>t. TypeOK /\ CleanCut(f) /\ req[r] \in CallType
  BY HistoriesGrow, TypesAre DEF TokenInv, RevocationInv
<1>m. PICK m \in Pairs : m = req[r].pair
  BY CallsCarry DEF TokenInv, Rotate, At, Working
<1>1. PICK x : x = [req[r] EXCEPT !.pc = "issue"]
  OBVIOUS
<1>2. x.pc = "issue" /\ x.pair = m
  BY <1>t, <1>m, <1>1 DEF CallType
<1>3. Become(r, x)
  BY <1>1 DEF Rotate, Goto
<1>4. req'[r] = x /\ \A q \in Requests \ {r} : req'[q] = req[q]
  BY <1>t, <1>3, CallMoves
<1>5. pair' = pair /\ dead' = dead
  BY DEF Rotate
<1>6. \A p \in Pairs : Family(p)' = Family(p) /\ (Live(p)' <=> Live(p))
  BY <1>5 DEF Family, Live
<1>7. CASE Family(m) # f
  <2>1. \A q \in Requests, p \in Pairs :
          req'[q].pc \in Relevant /\ req'[q].pair = p /\ Family(p) = f => req'[q] = req[q]
    BY <1>2, <1>4, <1>7
  <2>2. QED  BY <1>t, <1>5, <1>6, <2>1, Unaffected
<1>8. CASE Family(m) = f
  <2>1. ~Sweeping(f)
    BY <1>m, <1>8 DEF Rotate
  <2>2. \A q \in Requests : req'[q].pc \in {"refresh", "operator"} => pair'[req'[q].pair].family # f
    BY <1>2, <1>4, <1>5, <2>1 DEF Sweeping, Family
  <2>3. \A q \in Requests : req'[q].pc = "access" => req'[q] = req[q]
    BY <1>2, <1>4
  <2>4. Chain(f)' = Chain(f)
    BY <1>5 DEF Chain, Family
  <2>5. /\ (f \in dead' \/ \E q \in Requests : req'[q].pc = "access" /\ pair'[req'[q].pair].family = f) =>
             \A p \in Chain(f) : ~Live(p)
        /\ \A p, q \in Chain(f) : pair[p].access = "revoked" => ~Live(q)
        /\ f \in dead' => \A p \in Chain(f) : pair[p].access = "revoked"
    BY <1>t, <1>5, <2>3 DEF CleanCut, At, Family
  <2>6. QED  BY <1>5, <2>2, <2>4, <2>5 DEF CleanCut, At, Family, Live
<1>9. QED  BY <1>7, <1>8

\* The other steps move no call that revokes or rotates, and change nothing in a chain.
LEMMA OthersClean ==
  ASSUME TokenInv, RevocationInv, [Next]_vars, NEW f \in Pairs, f \notin raced',
         \/ pair' = pair
         \/ \E p \in Pairs : Mint(p)
         \/ \E r \in Requests, p \in Pairs : Revoke(r, p),
         dead' = dead,
         \A q \in Requests : req'[q].pc \in Relevant => req'[q] = req[q]
  PROVE  CleanCut(f)'
<1>t. /\ pair \in [Pairs -> PairType] /\ CleanCut(f) /\ \A p \in Pairs : Recorded(p)
  BY TypesAre, HistoriesGrow DEF TokenInv, RevocationInv
<1>1. ASSUME \A p \in Pairs : Family(p)' = f => pair'[p] = pair[p] PROVE CleanCut(f)'
  <2>1. \A p \in Pairs : Family(p)' = f =>
          Family(p) = f /\ (Live(p)' => Live(p)) /\ pair'[p].access = pair[p].access
    BY <1>1 DEF Family, Live
  <2>2. QED  BY <1>t, <2>1, Unaffected
<1>2. ASSUME NEW n \in Pairs, Mint(n) PROVE CleanCut(f)'
  <2>1. pair' = [pair EXCEPT ![n] = NewPair(NoPair, NoPair, NoCode, FALSE)]
    BY <1>2 DEF Mint
  <2>2. Family(n)' # f
    BY <1>t, <2>1, SentinelAssumption DEF Family, NewPair
  <2>3. QED  BY <1>t, <1>1, <2>1, <2>2
<1>3. ASSUME NEW r \in Requests, NEW p \in Pairs, Revoke(r, p) PROVE CleanCut(f)'
  <2>1. pair' = pair \/ (Family(p) = NoPair /\ pair' = [pair EXCEPT ![p].access = "revoked"])
    BY <1>3 DEF Revoke
  <2>2. \A q \in Pairs : Family(q)' = f => pair'[q] = pair[q]
    BY <1>t, <2>1, SentinelAssumption DEF Family, PairType
  <2>3. QED  BY <1>1, <2>2
<1>4. QED  BY <1>1, <1>2, <1>3

\* Every step keeps the chains clean.
LEMMA RevocationStep == TokenInv /\ RevocationInv /\ [Next]_vars => RevocationInv'
<1> SUFFICES ASSUME TokenInv, RevocationInv, [Next]_vars PROVE RevocationInv'
  OBVIOUS
<1>t. TypeOK /\ \A r \in Requests : Carries(r)
  BY DEF TokenInv
<1>a. ASSUME NEW f \in Pairs, f \notin raced', dead' = dead, NEW r \in Requests, NEW x,
             Become(r, x), x.pc \notin Relevant,
             pair' = pair \/ \E p \in Pairs : Revoke(r, p)
      PROVE  CleanCut(f)'
  <2>1. \A q \in Requests : req'[q].pc \in Relevant => req'[q] = req[q]
    BY <1>t, <1>a, CallMoves
  <2>2. QED  BY <1>a, <2>1, OthersClean
<1>b. ASSUME NEW f \in Pairs, f \notin raced', dead' = dead, req' = req,
             \/ pair' = pair
             \/ \E p \in Pairs : Mint(p)
             \/ \E r \in Requests, p \in Pairs : Revoke(r, p)
      PROVE  CleanCut(f)'
  BY <1>b, OthersClean
<1>c. Idle.pc \notin Relevant
  BY DEF Idle, Relevant
<1>1. ASSUME NEW f \in Pairs, f \notin raced' PROVE CleanCut(f)'
  <2>1. ASSUME NEW r \in Requests, NEW p \in Pairs, NEW o \in BOOLEAN, Consume(r, p, o) \/ Issue(r, p, o)
        PROVE  CleanCut(f)'
    BY <1>1, <2>1, IssuesClean
  <2>2. ASSUME NEW r \in Requests, RevokeRefresh(r) \/ RevokeAccess(r) \/ OperatorCommit(r)
        PROVE  CleanCut(f)'
    BY <1>1, <2>2, RevocationsClean
  <2>3. ASSUME NEW r \in Requests, RevokeFamily(r) PROVE CleanCut(f)'
    <3>1. PICK m \in Pairs : m = req[r].pair
      BY <1>t, <2>3, CallsCarry DEF RevokeFamily, At, Working
    <3>2. QED  BY <1>1, <2>3, <3>1, BeginsClean DEF RevokeFamily
  <2>4. ASSUME NEW r \in Requests, NEW p \in Pairs, OperatorRevoke(r, p) PROVE CleanCut(f)'
    BY <1>1, <2>4, BeginsClean DEF OperatorRevoke
  <2>5. ASSUME NEW r \in Requests, Rotate(r) PROVE CleanCut(f)'
    BY <1>1, <2>5, RotateClean
  <2>6. ASSUME NEW r \in Requests,
               \/ \E c \in Codes : Approve(r, c)
               \/ Deny(r) \/ CodeReplayed(r) \/ RotateLost(r) \/ GiveUp(r)
        PROVE  CleanCut(f)'
    BY <1>1, <1>a, <1>c, <2>6 DEF Approve, Deny, CodeReplayed, RotateLost, GiveUp, Done, chains
  <2>7. ASSUME NEW r \in Requests, NEW t \in Txns, NEW pc \in Deciding, Take(r, t, pc)
        PROVE  CleanCut(f)'
    <3>1. PICK x : x = [Idle EXCEPT !.pc = pc, !.txn = t]
      OBVIOUS
    <3>2. x.pc \notin Relevant
      BY <3>1 DEF Idle, Deciding, Relevant
    <3>3. QED  BY <1>1, <1>a, <2>7, <3>1, <3>2 DEF Take, chains
  <2>8. ASSUME NEW r \in Requests, NEW c \in Codes, Exchange(r, c) PROVE CleanCut(f)'
    <3>1. PICK x : x = [Idle EXCEPT !.pc = "exchange", !.code = c]
      OBVIOUS
    <3>2. x.pc \notin Relevant
      BY <3>1 DEF Idle, Relevant
    <3>3. QED  BY <1>1, <1>a, <2>8, <3>1, <3>2 DEF Exchange, chains
  <2>9. ASSUME NEW r \in Requests, NEW p \in Pairs, Refresh(r, p) PROVE CleanCut(f)'
    <3>1. PICK x : /\ Become(r, x)
                   /\ x = [Idle EXCEPT !.pc = IF Live(p) THEN "rotate" ELSE "revoke", !.pair = p]
      BY <2>9 DEF Refresh
    <3>2. x.pc \notin Relevant
      BY <3>1 DEF Idle, Relevant
    <3>3. QED  BY <1>1, <1>a, <2>9, <3>1, <3>2 DEF Refresh, chains
  <2>10. ASSUME NEW r \in Requests, NEW p \in Pairs, Revoke(r, p) PROVE CleanCut(f)'
    <3>1. dead' = dead
      BY <2>10 DEF Revoke
    <3>2. CASE req' = req
      BY <1>1, <1>b, <2>10, <3>1, <3>2
    <3>3. CASE Become(r, [Idle EXCEPT !.pc = "revoke", !.pair = p])
      <4>1. PICK x : x = [Idle EXCEPT !.pc = "revoke", !.pair = p]
        OBVIOUS
      <4>2. x.pc \notin Relevant
        BY <4>1 DEF Idle, Relevant
      <4>3. QED  BY <1>1, <1>a, <2>10, <3>1, <3>3, <4>1, <4>2
    <3>4. QED  BY <2>10, <3>2, <3>3 DEF Revoke
  <2>11. ASSUME UNCHANGED vars \/ (\E t \in Txns : Authorize(t)) \/ (\E p \in Pairs : Mint(p))
         PROVE  CleanCut(f)'
    <3>1. dead' = dead /\ req' = req
      BY <2>11 DEF vars, Authorize, Mint, chains
    <3>2. pair' = pair \/ \E p \in Pairs : Mint(p)
      BY <2>11 DEF vars, Authorize, chains
    <3>3. QED  BY <1>1, <1>b, <3>1, <3>2
  <2>12. {"approve", "deny"} \subseteq Deciding
    BY DEF Deciding
  <2>13. QED
    BY <2>1, <2>2, <2>3, <2>4, <2>5, <2>6, <2>7, <2>8, <2>9, <2>10, <2>11, <2>12 DEF Next, Step
<1>2. ASSUME NEW f \in dead' PROVE Issued(f)'
  <2>1. dead \subseteq Pairs /\ dead' \subseteq Pairs
    BY <1>t, HistoriesAreTyped DEF TypeOK
  <2>2. dead' = dead \/ \E r \in Requests : RevokeAccess(r) \/ OperatorCommit(r)
    BY DEF Next, Step, Authorize, Take, Approve, Deny, Exchange, Consume, CodeReplayed,
      Refresh, Rotate, RotateLost, Issue, Revoke, Begin, RevokeFamily, RevokeRefresh,
      OperatorRevoke, Mint, GiveUp, chains, vars
  <2>3. f \in dead \/ \E m \in Pairs : f = Family(m) /\ f # NoPair
    <3>1. \A r \in Requests : RevokeAccess(r) \/ OperatorCommit(r) =>
            req[r].pair \in Pairs /\ dead' \subseteq dead \union {Family(req[r].pair)}
      BY <1>t, CallsCarry DEF RevokeAccess, OperatorCommit, At, Working
    <3>2. QED  BY <1>2, <2>1, <2>2, <3>1, SentinelAssumption
  <2>4. Issued(f)
    BY <2>3 DEF RevocationInv, TokenInv, Recorded
  <2>5. QED  BY <1>2, <2>1, <2>4, AllKeep DEF Kept
<1>3. QED  BY <1>1, <1>2 DEF RevocationInv

-----------------------------------------------------------------------------
\* The invariants hold in every state.
THEOREM InvariantsHold == Spec => [](TokenInv /\ DecisionInv /\ RevocationInv)
<1>1. TokenInv /\ DecisionInv /\ RevocationInv /\ [Next]_vars =>
        (TokenInv /\ DecisionInv /\ RevocationInv)'
  BY TokenInvStep, DecisionStep, RevocationStep
<1>2. QED  BY <1>1, TokenInvInit, PTL DEF Spec

\* Every variable keeps its type.
THEOREM TypeCorrect == Spec => []TypeOK
<1>1. TokenInv => TypeOK
  BY DEF TokenInv
<1>2. QED  BY <1>1, InvariantsHold, PTL

\* A consent on which decisions did not overlap has one session, or none if denied, and
\* a code never has two.
THEOREM ConsentHasOneSession == Spec => []OneSessionPerConsent
<1>1. TokenInv /\ DecisionInv => OneSessionPerConsent
  <2> SUFFICES ASSUME TokenInv, DecisionInv PROVE OneSessionPerConsent
    OBVIOUS
  <2>1. NoFork
    BY DEF TokenInv
  <2>2. ASSUME NEW t \in Txns \ overlapped, NEW p \in Usable(t), NEW q \in Usable(t) PROVE p = q
    <3>1. DecidedOnce(t)
      BY DEF DecisionInv
    <3>2. pair[p].from = pair[q].from
      BY <3>1 DEF DecidedOnce, Usable
    <3>3. QED  BY <2>1, <3>2 DEF NoFork, Usable
  <2>3. ASSUME NEW t \in Txns \ overlapped, t \in denied PROVE Usable(t) = {}
    BY <2>3 DEF DecisionInv, DecidedOnce, Usable
  <2>4. QED  BY <2>1, <2>2, <2>3 DEF OneSessionPerConsent
<1>2. QED  BY <1>1, InvariantsHold, PTL

\* A chain that was revoked stays revoked, unless a rotation overlapped the revocation.
THEOREM RevocationHolds == Spec => []RevocationIsFinal
<1>1. RevocationInv => RevocationIsFinal
  BY DEF RevocationInv, CleanCut, RevocationIsFinal
<1>2. QED  BY <1>1, InvariantsHold, PTL

-----------------------------------------------------------------------------
(* The invites that admit the users: single use, and revocation.              *)

SignUpType == [pc : SignUpStages, invite : Ids \union {NoInvite}, email : Emails \union {NoEmail}]

\* A redemption works on a burned invite of its own address; past the create it has
\* its account, and only a redemption releases or claims.
Fits(x) ==
  /\ x.pc = "idle" => x = NoSignUp
  /\ x.invite # NoInvite => email[x.invite] = x.email /\ redeemed[x.invite] # "no"
  /\ x.pc \in {"release", "claim"} => x.invite # NoInvite
  /\ x.pc # "idle" => x.email \in Emails
  /\ x.pc \in {"session", "claim"} => x.email \in users

\* What is not minted is neither burned, claimed nor revoked.
UnmintedIsBlank ==
  \A i \in Ids : email[i] = NoEmail =>
    redeemed[i] = "no" /\ redeemedBy[i] = NoEmail /\ ~revoked[i]

InviteInv ==
  /\ InviteTypeOK
  /\ \A r \in SignUps : Fits(attempt[r])
  /\ UnmintedIsBlank
  /\ SingleUse
  /\ RevokeOrRedeem

\* Nothing is minted and nobody signs up.
LEMMA InviteInvInit == InviteInit => InviteInv
<1> SUFFICES ASSUME InviteInit PROVE InviteInv
  OBVIOUS
<1>1. InviteTypeOK
  BY DEF InviteInit, InviteTypeOK, NoSignUp, SignUpStages
<1>2. \A r \in SignUps : Fits(attempt[r])
  BY DEF InviteInit, Fits, NoSignUp
<1>3. UnmintedIsBlank
  BY DEF InviteInit, UnmintedIsBlank
<1>4. SingleUse /\ RevokeOrRedeem
  BY InviteSentinelAssumption DEF InviteInit, SingleUse, RevokeOrRedeem, Redeemers, NoSignUp
<1>5. QED  BY <1>1, <1>2, <1>3, <1>4 DEF InviteInv

\* A sign-up that moves on, or ends, and leaves the invites alone.
LEMMA MoveKeepsInv ==
  ASSUME InviteInv, NEW r \in SignUps, ~SignUpAt(r, "idle"), UNCHANGED inviteVars,
         users \subseteq users', users' \subseteq Emails,
         NEW pc \in {"create", "session", "release", "claim"},
         SignUpDone(r) \/ SignUpGoto(r, pc),
         pc \in {"release", "claim"} => attempt[r].invite # NoInvite,
         pc \in {"session", "claim"} => attempt[r].email \in users'
  PROVE  InviteInv'
<1>t. attempt \in [SignUps -> SignUpType]
  BY DEF InviteInv, InviteTypeOK, SignUpType
<1>1. PICK x \in SignUpType :
        /\ \A q \in SignUps : attempt'[q] = IF q = r THEN x ELSE attempt[q]
        /\ x = NoSignUp \/ (x.pc = pc /\ x.invite = attempt[r].invite /\ x.email = attempt[r].email)
  <2>1. CASE SignUpDone(r)
    <3>1. NoSignUp \in SignUpType
      BY DEF SignUpType, NoSignUp, SignUpStages
    <3>2. QED  BY <1>t, <2>1, <3>1 DEF SignUpDone
  <2>2. CASE SignUpGoto(r, pc)
    <3>1. [attempt[r] EXCEPT !.pc = pc] \in SignUpType
      BY <1>t DEF SignUpType, SignUpStages
    <3>2. \A q \in SignUps : attempt'[q] = IF q = r THEN [attempt[r] EXCEPT !.pc = pc] ELSE attempt[q]
      BY <1>t, <2>2 DEF SignUpGoto
    <3>3. QED  BY <1>t, <3>1, <3>2 DEF SignUpType
  <2>3. QED  BY <2>1, <2>2
<1>2. x.invite \in {NoInvite, attempt[r].invite}
  BY <1>1 DEF NoSignUp
<1>4. InviteTypeOK'
  <2>1. attempt' \in [SignUps -> SignUpType]
    BY <1>t, <1>1 DEF SignUpDone, SignUpGoto
  <2>2. QED  BY <2>1 DEF InviteInv, InviteTypeOK, SignUpType, inviteVars
<1>5. (\A q \in SignUps : Fits(attempt[q]))'
  <2>1. Fits(x)'
    BY <1>1 DEF InviteInv, Fits, SignUpAt, NoSignUp, inviteVars
  <2>2. \A q \in SignUps : q # r => Fits(attempt[q])'
    BY <1>1 DEF InviteInv, Fits, inviteVars
  <2>3. QED  BY <1>1, <2>1, <2>2 DEF Fits
<1>6. \A i \in Ids : Redeemers(i)' \subseteq Redeemers(i)
  BY <1>1, <1>2, InviteSentinelAssumption DEF Redeemers
<1>7. SingleUse' /\ RevokeOrRedeem' /\ UnmintedIsBlank'
  BY <1>6 DEF InviteInv, SingleUse, RevokeOrRedeem, UnmintedIsBlank, inviteVars
<1>8. QED  BY <1>4, <1>5, <1>7 DEF InviteInv

\* Redemptions: one that starts has the invite to itself, one that ends leaves it
\* as it is, puts it back unclaimed, or claims it.
LEMMA RedemptionKeepsInv ==
  ASSUME InviteInv, NEW r \in SignUps
  PROVE  /\ \A i \in Ids : Reserve(r, i) => InviteInv'
         /\ \A e \in Emails : SignUp(r, e) => InviteInv'
         /\ SignUpStep(r) => InviteInv'
<1>t. attempt \in [SignUps -> SignUpType] /\ NoSignUp \in SignUpType
  BY DEF InviteInv, InviteTypeOK, SignUpType, NoSignUp, SignUpStages
<1>1. ASSUME NEW i \in Ids, Reserve(r, i) PROVE InviteInv'
  <2>1. /\ attempt' = [attempt EXCEPT ![r] = [pc |-> "gate", invite |-> i, email |-> email[i]]]
        /\ redeemed' = [redeemed EXCEPT ![i] = "recent"]
        /\ UNCHANGED <<email, redeemedBy, revoked, expired, users>>
        /\ email[i] \in Emails /\ redeemed[i] = "no" /\ ~revoked[i] /\ attempt[r] = NoSignUp
    BY <1>1 DEF Reserve, Open, SignUpAt, InviteInv, InviteTypeOK, Fits
  <2>2. redeemedBy[i] = NoEmail /\ Redeemers(i) = {}
    BY <2>1, InviteSentinelAssumption DEF InviteInv, SingleUse, Fits, Redeemers
  <2>3. InviteTypeOK'
    BY <2>1 DEF InviteInv, InviteTypeOK, SignUpStages
  <2>4. (\A q \in SignUps : Fits(attempt[q]))'
    BY <1>t, <2>1 DEF InviteInv, InviteTypeOK, Fits, NoSignUp
  <2>5. UnmintedIsBlank'
    BY <2>1, InviteSentinelAssumption DEF InviteInv, InviteTypeOK, UnmintedIsBlank
  <2>6. Redeemers(i)' = {r} /\ \A j \in Ids \ {i} : Redeemers(j)' = Redeemers(j)
    BY <1>t, <2>1, <2>2, InviteSentinelAssumption DEF Redeemers, NoSignUp
  <2>7. SingleUse' /\ RevokeOrRedeem'
    BY <2>1, <2>2, <2>6 DEF InviteInv, InviteTypeOK, SingleUse, RevokeOrRedeem
  <2>8. QED  BY <2>3, <2>4, <2>5, <2>7 DEF InviteInv
<1>2. ASSUME NEW e \in Emails, SignUp(r, e) PROVE InviteInv'
  <2>1. /\ attempt' = [attempt EXCEPT ![r] = [pc |-> "gate", invite |-> NoInvite, email |-> e]]
        /\ UNCHANGED <<inviteVars, users>>
    BY <1>2 DEF SignUp
  <2>2. InviteTypeOK'
    BY <2>1 DEF InviteInv, InviteTypeOK, SignUpStages, inviteVars
  <2>3. (\A q \in SignUps : Fits(attempt[q]))'
    BY <1>t, <2>1 DEF InviteInv, Fits, inviteVars
  <2>4. \A i \in Ids : Redeemers(i)' \subseteq Redeemers(i)
    BY <1>t, <2>1, InviteSentinelAssumption DEF Redeemers
  <2>5. SingleUse' /\ RevokeOrRedeem' /\ UnmintedIsBlank'
    BY <2>1, <2>4 DEF InviteInv, SingleUse, RevokeOrRedeem, UnmintedIsBlank, inviteVars
  <2>6. QED  BY <2>2, <2>3, <2>5 DEF InviteInv
<1>3. ASSUME Gate(r) \/ CreateSession(r) \/ Stranded(r) PROVE InviteInv'
  <2>1. UNCHANGED <<inviteVars, users>> /\ ~SignUpAt(r, "idle") /\ users \subseteq Emails
    BY <1>3 DEF Gate, CreateSession, Stranded, SignUpAt, InviteInv, InviteTypeOK
  <2>2. CASE SignUpDone(r)
    BY <2>1, <2>2, MoveKeepsInv
  <2>3. CASE SignUpGoto(r, "create") \/ (SignUpGoto(r, "release") /\ attempt[r].invite # NoInvite)
    BY <2>1, <2>3, MoveKeepsInv
  <2>4. CASE SignUpAt(r, "session") /\ SignUpGoto(r, "claim") /\ attempt[r].invite # NoInvite
    <3>1. attempt[r].email \in users
      BY <2>4 DEF InviteInv, Fits, SignUpAt
    <3>2. QED  BY <2>1, <2>4, <3>1, MoveKeepsInv
  <2>5. QED  BY <1>3, <2>2, <2>3, <2>4 DEF Gate, CreateSession, Stranded, Failed
<1>4. ASSUME CreateUser(r) PROVE InviteInv'
  <2>1. /\ UNCHANGED inviteVars /\ ~SignUpAt(r, "idle")
        /\ users' = users \union {attempt[r].email} /\ users' \subseteq Emails
    BY <1>4 DEF CreateUser, SignUpAt, InviteInv, InviteTypeOK, Fits
  <2>2. CASE SignUpDone(r) \/ (SignUpGoto(r, "release") /\ attempt[r].invite # NoInvite) \/ SignUpGoto(r, "session")
    BY <2>1, <2>2, MoveKeepsInv
  <2>3. QED  BY <1>4, <2>2 DEF CreateUser, Failed
<1>5. ASSUME Release(r) \/ Claim(r) PROVE InviteInv'
  <2> PICK i \in Ids : i = attempt[r].invite
    BY <1>5, <1>t DEF Release, Claim, SignUpAt, InviteInv, Fits, SignUpType
  <2>1. /\ redeemed[i] # "no" /\ attempt[r].email \in Emails /\ email[i] = attempt[r].email
        /\ attempt' = [attempt EXCEPT ![r] = NoSignUp]
        /\ UNCHANGED <<email, revoked, expired, users>>
    BY <1>5, <1>t DEF Release, Claim, SignUpDone, SignUpAt, InviteInv, Fits, SignUpType
  <2>2. /\ Redeemers(i) = {r} /\ redeemedBy[i] = NoEmail /\ ~revoked[i]
        /\ \A q \in SignUps : q # r => attempt[q].invite # i
    BY <2>1 DEF InviteInv, SingleUse, RevokeOrRedeem, Redeemers, InviteTypeOK
  <2>3. Redeemers(i)' = {} /\ \A j \in Ids : Redeemers(j)' \subseteq Redeemers(j)
    BY <1>t, <2>1, <2>2, InviteSentinelAssumption DEF Redeemers, NoSignUp
  <2>4. CASE Release(r)
    <3>1. UNCHANGED redeemedBy /\ \E w \in {"no", redeemed[i]} : redeemed' = [redeemed EXCEPT ![i] = w]
      BY <2>4 DEF Release
    <3>2. InviteTypeOK'
      BY <1>t, <2>1, <3>1 DEF InviteInv, InviteTypeOK, SignUpType, NoSignUp, SignUpStages
    <3>3. (\A q \in SignUps : Fits(attempt[q]))'
      BY <1>t, <2>1, <2>2, <3>1 DEF InviteInv, InviteTypeOK, Fits, NoSignUp, SignUpType
    <3>4. UnmintedIsBlank' /\ SingleUse' /\ RevokeOrRedeem'
      BY <2>1, <2>2, <2>3, <3>1, InviteSentinelAssumption
      DEF InviteInv, InviteTypeOK, UnmintedIsBlank, SingleUse, RevokeOrRedeem
    <3>5. QED  BY <3>2, <3>3, <3>4 DEF InviteInv
  <2>5. CASE Claim(r)
    <3>1. UNCHANGED redeemed /\ redeemedBy' = [redeemedBy EXCEPT ![i] = attempt[r].email]
      BY <2>2, <2>5 DEF Claim
    <3>2. InviteTypeOK'
      BY <1>t, <2>1, <3>1 DEF InviteInv, InviteTypeOK, SignUpType, NoSignUp, SignUpStages
    <3>3. (\A q \in SignUps : Fits(attempt[q]))'
      BY <1>t, <2>1, <3>1 DEF InviteInv, Fits, NoSignUp
    <3>4. UnmintedIsBlank' /\ SingleUse' /\ RevokeOrRedeem'
      BY <2>1, <2>2, <2>3, <3>1, InviteSentinelAssumption
      DEF InviteInv, InviteTypeOK, UnmintedIsBlank, SingleUse, RevokeOrRedeem
    <3>5. QED  BY <3>2, <3>3, <3>4 DEF InviteInv
  <2>6. QED  BY <1>5, <2>4, <2>5
<1>6. QED  BY <1>1, <1>2, <1>3, <1>4, <1>5 DEF SignUpStep

\* The admin and the clock: a revocation takes an invite nobody is redeeming.
LEMMA OthersKeepInv ==
  ASSUME InviteInv, NEW i \in Ids
  PROVE  /\ \A e \in Emails : Create(i, e) => InviteInv'
         /\ RevokeInvite(i) \/ WindowCloses(i) \/ Expire(i) => InviteInv'
<1>1. UNCHANGED <<users, attempt>> => \A j \in Ids : Redeemers(j)' = Redeemers(j)
  BY DEF Redeemers
<1>2. ASSUME NEW e \in Emails, Create(i, e) PROVE InviteInv'
  <2>1. InviteTypeOK' /\ UnmintedIsBlank'
    BY <1>2 DEF Create, InviteInv, InviteTypeOK, UnmintedIsBlank
  <2>2. (\A q \in SignUps : Fits(attempt[q]))'
    BY <1>2 DEF Create, InviteInv, InviteTypeOK, UnmintedIsBlank, Fits
  <2>3. SingleUse' /\ RevokeOrRedeem'
    BY <1>1, <1>2 DEF Create, InviteInv, SingleUse, RevokeOrRedeem
  <2>4. QED  BY <2>1, <2>2, <2>3 DEF InviteInv
<1>3. ASSUME RevokeInvite(i) PROVE InviteInv'
  <2>1. Redeemers(i) = {} /\ redeemedBy[i] = NoEmail /\ redeemed[i] = "no"
    BY <1>3, InviteSentinelAssumption DEF RevokeInvite, Open, InviteInv, SingleUse, Fits, Redeemers
  <2>2. InviteTypeOK' /\ UnmintedIsBlank' /\ (\A q \in SignUps : Fits(attempt[q]))'
    BY <1>3 DEF RevokeInvite, Open, InviteInv, InviteTypeOK, UnmintedIsBlank, Fits
  <2>3. SingleUse' /\ RevokeOrRedeem'
    BY <1>1, <1>3, <2>1 DEF RevokeInvite, InviteInv, InviteTypeOK, SingleUse, RevokeOrRedeem
  <2>4. QED  BY <2>2, <2>3 DEF InviteInv
<1>4. ASSUME WindowCloses(i) \/ Expire(i) PROVE InviteInv'
  <2>1. InviteTypeOK'
    BY <1>4 DEF WindowCloses, Expire, InviteInv, InviteTypeOK
  <2>2. /\ UNCHANGED <<email, redeemedBy, revoked, users, attempt>>
        /\ \A j \in Ids : redeemed'[j] = "no" <=> redeemed[j] = "no"
    BY <1>4 DEF WindowCloses, Expire, InviteInv, InviteTypeOK
  <2>3. UnmintedIsBlank' /\ (\A q \in SignUps : Fits(attempt[q]))'
    BY <2>2 DEF InviteInv, InviteTypeOK, UnmintedIsBlank, Fits
  <2>4. SingleUse' /\ RevokeOrRedeem'
    BY <1>1, <2>2 DEF InviteInv, SingleUse, RevokeOrRedeem
  <2>5. QED  BY <2>1, <2>3, <2>4 DEF InviteInv
<1>5. QED  BY <1>2, <1>3, <1>4

\* No step breaks the invariant.
LEMMA InviteInvStep == InviteInv /\ [InviteNext]_registrationVars => InviteInv'
<1> SUFFICES ASSUME InviteInv, [InviteNext]_registrationVars PROVE InviteInv'
  OBVIOUS
<1>1. CASE UNCHANGED registrationVars
  BY <1>1 DEF registrationVars, InviteInv, InviteTypeOK, Fits, UnmintedIsBlank, SingleUse, RevokeOrRedeem, Redeemers
<1>2. CASE InviteNext
  BY <1>2, RedemptionKeepsInv, OthersKeepInv DEF InviteNext
<1>3. QED  BY <1>1, <1>2

\* The invariant of every interleaving.
THEOREM InviteInvariant == InviteSpec => []InviteInv
  BY InviteInvInit, InviteInvStep, PTL DEF InviteSpec

\* Type correctness of every state.
THEOREM InvitesTypeCorrect == InviteSpec => []InviteTypeOK
<1>1. InviteInv => InviteTypeOK
  BY DEF InviteInv
<1>2. QED  BY <1>1, InviteInvariant, PTL

\* Of redemptions that race one holds the invite at a time, and none once an account is on
\* record as the invite's redeemer.
THEOREM InvitesAreSingleUse == InviteSpec => []SingleUse
<1>1. InviteInv => SingleUse
  BY DEF InviteInv
<1>2. QED  BY <1>1, InviteInvariant, PTL

\* A revocation and a redemption never both land.
THEOREM InviteRevocationHolds == InviteSpec => []RevokeOrRedeem
<1>1. InviteInv => RevokeOrRedeem
  BY DEF InviteInv
<1>2. QED  BY <1>1, InviteInvariant, PTL

\* The account an invite names is the one its redemption made, and it stays.
THEOREM ProvenanceIsTrue == InviteSpec => ClaimNamesTheAccount
<1> DEFINE Named(i) == redeemedBy'[i] # redeemedBy[i] =>
                         redeemedBy[i] = NoEmail /\ redeemedBy'[i] = email[i] /\ email[i] \in users
<1>1. ASSUME InviteInv, [InviteNext]_registrationVars PROVE [\A i \in Ids : Named(i)]_registrationVars
  <2> SUFFICES ASSUME InviteNext, NEW i \in Ids PROVE Named(i)
    BY <1>1
  <2>1. CASE \E r \in SignUps : Claim(r)
    <3> PICK r \in SignUps : Claim(r)
      BY <2>1
    <3>1. /\ attempt[r].invite \in Ids /\ email[attempt[r].invite] = attempt[r].email
          /\ attempt[r].email \in users
      BY <1>1 DEF Claim, SignUpAt, InviteInv, InviteTypeOK, Fits
    <3>2. QED  BY <1>1, <3>1 DEF Claim, InviteInv, InviteTypeOK
  <2>2. CASE ~\E r \in SignUps : Claim(r)
    <3>1. UNCHANGED redeemedBy
      BY <2>2 DEF InviteNext, SignUpStep, Gate, CreateUser, CreateSession, Release, Stranded, Reserve,
                  SignUp, Create, RevokeInvite, WindowCloses, Expire, inviteVars
    <3>2. QED  BY <3>1
  <2>3. QED  BY <2>1, <2>2
<1>2. QED  BY <1>1, InviteInvariant, PTL DEF InviteSpec, ClaimNamesTheAccount
=============================================================================
