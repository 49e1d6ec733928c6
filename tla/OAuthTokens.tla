----------------------------- MODULE OAuthTokens -----------------------------
(***************************************************************************)
(* The OAuth 2.1 provider: a consent becomes a single-use code, the code a  *)
(* chain of token pairs in which each refresh token is spent for the next   *)
(* pair, and a revocation, by the client, by the reuse of a spent token or  *)
(* by the operator, kills the chain.  The statements of revokeFamily run    *)
(* on their own in the client's revocation and in the detection of reuse,   *)
(* and inside one transaction in the operator's.                            *)
(*                                                                          *)
(* Clients, scopes other than offline_access, PKCE and the audience are     *)
(* checks that refuse before anything is written: they, and the expiry of   *)
(* transactions, codes and tokens, end a call as GiveUp does.               *)
(***************************************************************************)
EXTENDS Naturals, FiniteSets

CONSTANTS
  Txns,      \* ids of oauth_authorization rows
  Codes,     \* ids of oauth_authorization_code rows
  Pairs,     \* an access token and the refresh token issued with it
  Requests,  \* slots for calls in flight
  NoTxn, NoCode, NoPair

ASSUME SentinelAssumption ==
  NoTxn \notin Txns /\ NoCode \notin Codes /\ NoPair \notin Pairs

VARIABLES
  txn,        \* oauth_authorization: "new", "pending", or "gone"
  code,       \* oauth_authorization_code: the consent behind it, and consumed_at
  pair,       \* oauth_access_token and oauth_refresh_token rows
  overlapped, \* history: transactions two decisions overlapped on
  denied,     \* history: transactions that were denied
  raced,      \* history: chains a revocation and a rotation overlapped in
  dead,       \* history: chains a revocation was completed for
  req         \* the calls in flight

vars == <<txn, code, pair, overlapped, denied, raced, dead, req>>
consents == <<txn, code, overlapped, denied>>
chains == <<pair, raced, dead>>

\* A chain is named after its first pair; a service token has no chain.  `from`
\* is the code the chain began with, which no table keeps.
NoToken == [family |-> NoPair, parent |-> NoPair, from |-> NoCode,
            refresh |-> "none", access |-> "none"]
Idle == [pc |-> "idle", txn |-> NoTxn, code |-> NoCode, pair |-> NoPair, seen |-> {}]

Init ==
  /\ txn = [t \in Txns |-> "new"]
  /\ code = [c \in Codes |-> [txn |-> NoTxn, used |-> FALSE]]
  /\ pair = [p \in Pairs |-> NoToken]
  /\ overlapped = {} /\ denied = {} /\ raced = {} /\ dead = {}
  /\ req = [r \in Requests |-> Idle]

At(r, pc) == req[r].pc = pc
Become(r, new) == req' = [req EXCEPT ![r] = new]
Done(r) == Become(r, Idle)
Goto(r, pc) == Become(r, [req[r] EXCEPT !.pc = pc])

Issued(p) == pair[p].access # "none"
Live(p) == pair[p].refresh = "live"
Family(p) == pair[p].family
Chain(f) == {p \in Pairs : Family(p) = f /\ f # NoPair}

-----------------------------------------------------------------------------
(* The authorization request and the consent *)

\* createAuthorizationTransaction.
Authorize(t) ==
  /\ txn[t] = "new"
  /\ txn' = [txn EXCEPT ![t] = "pending"]
  /\ UNCHANGED <<code, overlapped, denied, chains, req>>

\* takeTransaction: a plain read; what it read is decided on later.
Take(r, t, pc) ==
  /\ At(r, "idle") /\ txn[t] = "pending"
  /\ Become(r, [Idle EXCEPT !.pc = pc, !.txn = t])
  /\ overlapped' = overlapped \union {u \in {t} : \E q \in Requests : req[q].txn = u}
  /\ UNCHANGED <<txn, code, denied, chains>>

\* grantConsent: the delete's row count is not looked at.
Approve(r, c) ==
  /\ At(r, "approve") /\ code[c].txn = NoTxn
  /\ txn' = [txn EXCEPT ![req[r].txn] = "gone"]
  /\ code' = [code EXCEPT ![c].txn = req[r].txn]
  /\ Done(r)
  /\ UNCHANGED <<overlapped, denied, chains>>

\* denyConsent.
Deny(r) ==
  /\ At(r, "deny")
  /\ txn' = [txn EXCEPT ![req[r].txn] = "gone"]
  /\ denied' = denied \union {req[r].txn}
  /\ Done(r)
  /\ UNCHANGED <<code, overlapped, chains>>

-----------------------------------------------------------------------------
(* exchangeAuthorizationCode *)

Exchange(r, c) ==
  /\ At(r, "idle") /\ code[c].txn # NoTxn /\ ~code[c].used
  /\ Become(r, [Idle EXCEPT !.pc = "exchange", !.code = c])
  /\ UNCHANGED <<consents, chains>>

\* issueTokenPair: without offline_access there is no refresh token.
NewPair(f, parent, from, offline) ==
  [family |-> f, parent |-> parent, from |-> from,
   refresh |-> IF offline THEN "live" ELSE "none", access |-> "live"]

ConsumeUnchecked(r, p, offline) ==
  /\ At(r, "exchange") /\ ~Issued(p)
  /\ code' = [code EXCEPT ![req[r].code].used = TRUE]
  /\ pair' = [pair EXCEPT ![p] = NewPair(p, NoPair, req[r].code, offline)]
  /\ Done(r)
  /\ UNCHANGED <<txn, overlapped, denied, raced, dead>>

\* The code is consumed by a conditional update in the transaction that issues.
Consume(r, p, offline) ==
  /\ At(r, "exchange") /\ ~code[req[r].code].used /\ ~Issued(p)
  /\ code' = [code EXCEPT ![req[r].code].used = TRUE]
  /\ pair' = [pair EXCEPT ![p] = NewPair(p, NoPair, req[r].code, offline)]
  /\ Done(r)
  /\ UNCHANGED <<txn, overlapped, denied, raced, dead>>

CodeReplayed(r) ==
  /\ At(r, "exchange") /\ code[req[r].code].used
  /\ Done(r)
  /\ UNCHANGED <<consents, chains>>

-----------------------------------------------------------------------------
(* exchangeRefreshToken *)

\* The token is read outside the transaction; a spent one has its chain revoked.
Refresh(r, p) ==
  /\ At(r, "idle") /\ pair[p].refresh # "none"
  /\ Become(r, [Idle EXCEPT !.pc = IF Live(p) THEN "rotate" ELSE "revoke", !.pair = p])
  /\ UNCHANGED <<consents, chains>>

\* The update that spends a refresh token holds its row until the commit.
RowHeld(p) == \E q \in Requests : At(q, "issue") /\ req[q].pair = p

\* A revocation whose update of the refresh tokens has begun.
Sweeping(f) ==
  \E q \in Requests : req[q].pc \in {"refresh", "operator"} /\ Family(req[q].pair) = f

\* The conditional update waits for whoever holds the row, and looks again.
Rotate(r) ==
  LET p == req[r].pair IN
  /\ At(r, "rotate") /\ ~RowHeld(p) /\ Live(p)
  /\ Goto(r, "issue")
  /\ raced' = raced \union {f \in {Family(p)} : Sweeping(f)}
  /\ UNCHANGED <<consents, pair, dead>>

\* The loser of a race revokes the family in a transaction its throw rolls back.
RotateLost(r) ==
  /\ At(r, "rotate") /\ ~RowHeld(req[r].pair) /\ ~Live(req[r].pair)
  /\ Done(r)
  /\ UNCHANGED <<consents, chains>>

\* The pair is issued, down-scoped at will, and the old token spent: one commit.
Issue(r, n, offline) ==
  LET p == req[r].pair IN
  /\ At(r, "issue") /\ ~Issued(n)
  /\ pair' = [pair EXCEPT ![p].refresh = "spent",
                          ![n] = NewPair(Family(p), p, pair[p].from, offline)]
  /\ Done(r)
  /\ UNCHANGED <<consents, raced, dead>>

-----------------------------------------------------------------------------
(* Revocation *)

\* revoke: by either token of a pair.  A token without a chain goes by itself.
Revoke(r, p) ==
  /\ At(r, "idle") /\ Issued(p)
  /\ IF Family(p) = NoPair
     THEN pair' = [pair EXCEPT ![p].access = "revoked"] /\ UNCHANGED req
     ELSE Become(r, [Idle EXCEPT !.pc = "revoke", !.pair = p]) /\ UNCHANGED pair
  /\ UNCHANGED <<consents, raced, dead>>

\* An update sees the rows that are committed when it begins.
Begin(r, p, pc) ==
  LET f == Family(p) IN
  /\ Become(r, [Idle EXCEPT !.pc = pc, !.pair = p, !.seen = {q \in Chain(f) : Live(q)}])
  /\ raced' = raced \union {g \in {f} \ {NoPair} :
                              \E q \in Requests : At(q, "issue") /\ Family(req[q].pair) = g}
  /\ UNCHANGED <<consents, pair, dead>>

RevokeFamily(r) == At(r, "revoke") /\ Begin(r, req[r].pair, "refresh")

Spend(ps) == [p \in Pairs |-> IF p \in ps /\ Live(p) THEN [pair[p] EXCEPT !.refresh = "spent"]
                              ELSE pair[p]]
Silence(ps, old) ==
  [p \in Pairs |-> IF p \in ps THEN [old[p] EXCEPT !.access = "revoked"] ELSE old[p]]

RevokeAccessFirst(r) ==
  /\ At(r, "refresh")
  /\ pair' = Silence(Chain(Family(req[r].pair)), pair)
  /\ Goto(r, "access")
  /\ UNCHANGED <<consents, raced, dead>>

\* The first statement waits for the rows it has seen, and passes over later ones.
RevokeRefresh(r) ==
  /\ At(r, "refresh") /\ \A p \in req[r].seen : ~RowHeld(p)
  /\ pair' = Spend(req[r].seen)
  /\ Goto(r, "access")
  /\ UNCHANGED <<consents, raced, dead>>

\* The operator's revocation holds the access token it named until it commits.
AccessHeld(f) == \E q \in Requests : At(q, "operator") /\ Family(req[q].pair) = f

RevokeAccess(r) ==
  LET f == Family(req[r].pair) IN
  /\ At(r, "access") /\ ~AccessHeld(f)
  /\ pair' = Silence(Chain(f), pair)
  /\ dead' = dead \union {f}
  /\ Done(r)
  /\ UNCHANGED <<consents, raced>>

\* revokeServiceToken: by the id of an access token, in one transaction; a token
\* that is already revoked is left, and its chain with it.
OperatorRevoke(r, p) ==
  /\ At(r, "idle") /\ pair[p].access = "live"
  /\ \A q \in Requests : ~(At(q, "operator") /\ req[q].pair = p)
  /\ Begin(r, p, "operator")

OperatorCommitAnyFamily(r) ==
  LET p == req[r].pair IN
  /\ At(r, "operator") /\ \A q \in req[r].seen : ~RowHeld(q)
  /\ pair' = Silence({p} \union Chain(Family(p)), Spend(req[r].seen))
  /\ dead' = dead \union {Family(p)}
  /\ Done(r)
  /\ UNCHANGED <<consents, raced>>

OperatorCommit(r) ==
  LET p == req[r].pair IN
  /\ At(r, "operator") /\ \A q \in req[r].seen : ~RowHeld(q)
  /\ pair' = Silence({p} \union Chain(Family(p)), Spend(req[r].seen))
  /\ dead' = dead \union ({Family(p)} \ {NoPair})
  /\ Done(r)
  /\ UNCHANGED <<consents, raced>>

\* mintServiceToken: an access token with no chain, on the consumer's own client.
Mint(p) ==
  /\ ~Issued(p)
  /\ pair' = [pair EXCEPT ![p] = NewPair(NoPair, NoPair, NoCode, FALSE)]
  /\ UNCHANGED <<consents, raced, dead, req>>

-----------------------------------------------------------------------------
\* A check refuses, a transaction fails, or the process dies: the transaction in
\* hand leaves nothing, the statements that ran on their own stay.
GiveUp(r) ==
  /\ ~At(r, "idle")
  /\ Done(r)
  /\ UNCHANGED <<consents, chains>>

Step(r) ==
  \/ \E c \in Codes : Approve(r, c)
  \/ Deny(r)
  \/ \E p \in Pairs, offline \in BOOLEAN : Consume(r, p, offline) \/ Issue(r, p, offline)
  \/ CodeReplayed(r)
  \/ Rotate(r) \/ RotateLost(r)
  \/ RevokeFamily(r) \/ RevokeRefresh(r) \/ RevokeAccess(r) \/ OperatorCommit(r)
  \/ GiveUp(r)

Next ==
  \/ \E r \in Requests : Step(r)
  \/ \E t \in Txns : Authorize(t)
  \/ \E r \in Requests, t \in Txns : Take(r, t, "approve") \/ Take(r, t, "deny")
  \/ \E r \in Requests, c \in Codes : Exchange(r, c)
  \/ \E r \in Requests, p \in Pairs : Refresh(r, p) \/ Revoke(r, p) \/ OperatorRevoke(r, p)
  \/ \E p \in Pairs : Mint(p)

Spec == Init /\ [][Next]_vars

-----------------------------------------------------------------------------
(* Properties *)

Stages == {"idle", "approve", "deny", "exchange", "rotate", "issue", "revoke",
           "refresh", "access", "operator"}

TypeOK ==
  /\ txn \in [Txns -> {"new", "pending", "gone"}]
  /\ code \in [Codes -> [txn : Txns \union {NoTxn}, used : BOOLEAN]]
  /\ pair \in [Pairs -> [family : Pairs \union {NoPair}, parent : Pairs \union {NoPair},
                         from : Codes \union {NoCode},
                         refresh : {"none", "live", "spent"},
                         access : {"none", "live", "revoked"}]]
  /\ overlapped \subseteq Txns /\ denied \subseteq Txns
  /\ raced \subseteq Pairs /\ dead \subseteq Pairs
  /\ req \in [Requests -> [pc : Stages, txn : Txns \union {NoTxn},
                           code : Codes \union {NoCode}, pair : Pairs \union {NoPair},
                           seen : SUBSET Pairs]]

\* The refresh tokens a client can use of what was consented to in t.
Usable(t) == {p \in Pairs : Live(p) /\ \E c \in Codes : code[c].txn = t /\ pair[p].from = c}

\* A code starts one chain and a chain does not fork: of the pairs that go back to
\* one code at most one can still be refreshed.
NoFork == \A p, q \in Pairs : Live(p) /\ Live(q) /\ pair[p].from = pair[q].from => p = q

\* A consent is worth one client session: however approvals, exchanges, refreshes and
\* retries overlap, what was consented to once has at most one refresh token in use,
\* and none where it was denied, unless two decisions on it overlapped; and even then
\* each code has one session.
OneSessionPerConsent ==
  /\ NoFork
  /\ \A t \in Txns \ overlapped :
       /\ \A p, q \in Usable(t) : p = q
       /\ t \in denied => Usable(t) = {}

\* A revocation is final: a chain that has lost an access token mints no other, and
\* a chain whose revocation was completed has no working access token, unless the
\* revocation overlapped a rotation (or stopped half way, the refresh tokens gone).
RevocationIsFinal ==
  \A f \in Pairs \ raced :
    /\ \A p, q \in Chain(f) : pair[p].access = "revoked" => ~Live(q)
    /\ f \in dead => \A p \in Chain(f) : pair[p].access # "live"
=============================================================================
