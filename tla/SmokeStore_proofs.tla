--------------------------- MODULE SmokeStore_proofs ---------------------------
(***************************************************************************)
(* SmokeStore keeps the mutation envelope's promise for every set of        *)
(* smokes, keys and calls in flight, whatever operations they run and       *)
(* whatever faults they meet.                                               *)
(***************************************************************************)
EXTENDS SmokeStore, TLAPS

Calling == {"check", "read", "ordinal", "append", "update", "key", "commit",
            "reload", "reply"}

\* A call in flight has a key and an intent; only an update reads the smoke.
HasIntent(x) ==
  /\ x.pc \in Calling => x.key \in Keys /\ x.intent \in Intents
  /\ x.pc \in {"read", "ordinal", "append", "update"} => x.intent.op # "save"

\* Past the first gate it works on a smoke; so does a delete.
HasSmoke(x) == x.pc \notin {"idle", "check", "reload", "reply"} => x.smoke \in Smokes

\* The row lock: up to its commit, a save's smoke is not there yet, an update's
\* is, and no other call has either.
OwnsRow(r, x) ==
  x.pc \in {"key", "commit"} =>
    /\ smokeRow[x.smoke] = IF x.intent.op = "save" THEN "unborn" ELSE "row"
    /\ \A q \in Requests \ {r} : req[q].pc \in {"key", "commit"} => req[q].smoke # x.smoke

\* The unique index: past the second gate, the key is free and nobody else's.
OwnsKey(r, x) ==
  x.pc = "commit" =>
    /\ keyRow[x.key] = NoResult
    /\ \A q \in Requests \ {r} : req[q].pc = "commit" => req[q].key # x.key

\* A result that is being returned was committed under this key for this intent.
ReturnsCommitted(x) ==
  x.pc = "reply" =>
    /\ x.result \in Results
    /\ x.result.intent = x.intent
    /\ \E a \in audit : a.key = x.key /\ a.result = x.result

Fits(r, x) ==
  HasIntent(x) /\ HasSmoke(x) /\ OwnsRow(r, x) /\ OwnsKey(r, x) /\ ReturnsCommitted(x)

RequestsFit == \A r \in Requests : Fits(r, req[r])

\* An audited smoke has been saved, and the audit names it.
AuditNamesSmoke ==
  \A a \in audit : a.result.smoke = a.smoke /\ smokeRow[a.smoke] # "unborn"

\* An entry belongs to a key that is there, with a result about its smoke.
EntryHasKey ==
  \A s \in Smokes : \A n \in DOMAIN entries[s] :
    keyRow[entries[s][n]] # NoResult /\ keyRow[entries[s][n]].smoke = s

StoreInv ==
  /\ TypeOK
  /\ RequestsFit
  /\ AuditNamesSmoke
  /\ EntryHasKey
  /\ EffectIffKey
  /\ AppendsOnce
  /\ AnswersMatchIntent

\* The empty store satisfies the invariant.
LEMMA StoreInvInit == Init => StoreInv
<1> SUFFICES ASSUME Init PROVE StoreInv
  OBVIOUS
<1> USE DEF Init
<1>1. TypeOK
  BY DEF TypeOK, Idle, Stages, AnyIntent
<1>2. RequestsFit
  BY DEF RequestsFit, Fits, HasIntent, HasSmoke, OwnsRow, OwnsKey, ReturnsCommitted,
         Idle, Calling
<1>3. AuditNamesSmoke /\ EntryHasKey /\ EffectIffKey /\ AppendsOnce /\ AnswersMatchIntent
  BY DEF AuditNamesSmoke, EntryHasKey, EffectIffKey, Effects, AppendsOnce, AnswersMatchIntent
<1>4. QED  BY <1>1, <1>2, <1>3 DEF StoreInv

-----------------------------------------------------------------------------
RequestType == [pc : Stages, key : Keys \union {NoKey}, intent : AnyIntent,
                expected : Nat \union {NoVersion},
                smoke : Smokes \union {NoSmoke}, seen : Nat, ordinal : Nat,
                keys : SUBSET Keys, result : Results \union {NoResult}]

\* What a call reports is a result, and it is about the call's smoke and intent.
LEMMA ResultIsTyped ==
  ASSUME TypeOK, RequestsFit, NEW r \in Requests, req[r].pc = "commit"
  PROVE  /\ ResultOf(r) \in Results
         /\ ResultOf(r).smoke = req[r].smoke
         /\ ResultOf(r).intent = req[r].intent
         /\ ResultOf(r) # NoResult
<1>1. req[r].intent \in Intents /\ req[r].smoke \in Smokes /\ req[r].seen \in Nat
  BY DEF TypeOK, RequestsFit, Fits, HasIntent, HasSmoke, Calling
<1>2. ResultOf(r) \in Results
  BY <1>1 DEF ResultOf, Results
<1>3. QED  BY <1>1, <1>2, NoResultAssumption DEF ResultOf

\* A request that becomes a well-typed one keeps the types of all.
LEMMA BecomeIsTyped ==
  ASSUME req \in [Requests -> RequestType], NEW r \in Requests,
         NEW new \in RequestType, Become(r, new)
  PROVE  req' \in [Requests -> RequestType]
  BY DEF Become

\* Every operation that moves a request moves it to a well-typed one.
LEMMA MovesAreTyped ==
  ASSUME NEW x \in RequestType, NEW pc \in Stages
  PROVE  /\ [x EXCEPT !.pc = pc] \in RequestType
         /\ \A res \in Results : [x EXCEPT !.pc = pc, !.result = res] \in RequestType
         /\ \A s \in Smokes : [x EXCEPT !.pc = pc, !.smoke = s] \in RequestType
         /\ \A n \in Nat : [x EXCEPT !.seen = n, !.pc = pc] \in RequestType
         /\ \A n \in Nat : [x EXCEPT !.pc = pc, !.ordinal = n] \in RequestType
         /\ \A ks \in SUBSET Keys : [x EXCEPT !.pc = pc, !.keys = ks] \in RequestType
<1>1. [x EXCEPT !.pc = pc] \in RequestType
  BY DEF RequestType
<1>2. \A res \in Results : [x EXCEPT !.pc = pc, !.result = res] \in RequestType
  BY DEF RequestType
<1>3. \A s \in Smokes : [x EXCEPT !.pc = pc, !.smoke = s] \in RequestType
  BY DEF RequestType
<1>4. \A n \in Nat : [x EXCEPT !.seen = n, !.pc = pc] \in RequestType
  BY DEF RequestType
<1>5. \A n \in Nat : [x EXCEPT !.pc = pc, !.ordinal = n] \in RequestType
  BY DEF RequestType
<1>6. \A ks \in SUBSET Keys : [x EXCEPT !.pc = pc, !.keys = ks] \in RequestType
  BY DEF RequestType
<1>7. QED  BY <1>1, <1>2, <1>3, <1>4, <1>5, <1>6

\* What a request starts as is well typed.
LEMMA StartsAreTyped ==
  /\ Idle \in RequestType
  /\ \A s \in Smokes : [Idle EXCEPT !.pc = "detach", !.smoke = s] \in RequestType
  /\ \A k \in Keys, i \in Intents, v \in Versions \union {NoVersion} :
       [Idle EXCEPT !.pc = "check", !.key = k, !.intent = i, !.expected = v] \in RequestType
<1>1. Idle \in RequestType
  BY DEF Idle, RequestType, Stages, AnyIntent
<1>2. ASSUME NEW s \in Smokes
      PROVE  [Idle EXCEPT !.pc = "detach", !.smoke = s] \in RequestType
  BY <1>1, MovesAreTyped DEF Stages
<1>3. ASSUME NEW k \in Keys, NEW i \in Intents, NEW v \in Versions \union {NoVersion}
      PROVE  [Idle EXCEPT !.pc = "check", !.key = k, !.intent = i, !.expected = v] \in RequestType
  <2>1. i \in AnyIntent /\ v \in Nat \union {NoVersion} /\ "check" \in Stages
    BY SentinelAssumption DEF AnyIntent, Stages
  <2>2. QED  BY <1>1, <2>1 DEF RequestType
<1>4. QED  BY <1>1, <1>2, <1>3

\* Every step keeps the types of the requests.
LEMMA RequestTypeStep ==
  ASSUME TypeOK, RequestsFit, [Next]_vars
  PROVE  req' \in [Requests -> RequestType]
<1>t. req \in [Requests -> RequestType]
  BY DEF TypeOK, RequestType
<1>d. ASSUME NEW r \in Requests, Done(r)  PROVE req' \in [Requests -> RequestType]
  BY <1>d, <1>t, StartsAreTyped, BecomeIsTyped DEF Done
<1>g. ASSUME NEW r \in Requests, NEW pc \in Stages, Goto(r, pc)
      PROVE  req' \in [Requests -> RequestType]
  BY <1>g, <1>t, MovesAreTyped, BecomeIsTyped DEF Goto
<1>p. ASSUME NEW r \in Requests, NEW res \in Results, Reply(r, res)
      PROVE  req' \in [Requests -> RequestType]
  BY <1>p, <1>t, MovesAreTyped, BecomeIsTyped DEF Reply, Stages
<1>1. ASSUME NEW r \in Requests, CheckKey(r) \/ Reload(r)
      PROVE  req' \in [Requests -> RequestType]
  <2>0. req[r].key \in Keys /\ req[r].intent \in Intents
    BY <1>1 DEF RequestsFit, Fits, HasIntent, Calling, CheckKey, Reload, At
  <2>1. CASE Replay(r) /\ keyRow[req[r].key] # NoResult
    <3>1. keyRow[req[r].key] \in Results
      BY <2>0, <2>1 DEF TypeOK
    <3>2. QED  BY <2>1, <3>1, <1>p, <1>d DEF Replay
  <2>2. CASE Done(r)  BY <2>2, <1>d
  <2>3. ASSUME NEW s \in Smokes, Become(r, [req[r] EXCEPT !.pc = "key", !.smoke = s])
        PROVE  req' \in [Requests -> RequestType]
    BY <2>3, <1>t, MovesAreTyped, BecomeIsTyped DEF Stages
  <2>4. CASE /\ Become(r, [req[r] EXCEPT !.pc = "read", !.smoke = req[r].intent.smoke])
             /\ req[r].intent.op # "save"
    <3>1. req[r].intent.smoke \in Smokes
      BY <2>0, <2>4 DEF Intents
    <3>2. QED  BY <2>4, <3>1, <1>t, MovesAreTyped, BecomeIsTyped DEF Stages
  <2>5. QED  BY <2>1, <2>2, <2>3, <2>4, <1>1 DEF CheckKey, Reload
<1>2. ASSUME NEW r \in Requests, InsertKey(r) \/ AppendEntry(r) \/ UpdateRow(r)
      PROVE  req' \in [Requests -> RequestType]
  <2>1. CASE Done(r)  BY <2>1, <1>d
  <2>2. ASSUME NEW pc \in {"commit", "reload", "update", "key"}, Goto(r, pc)
        PROVE  req' \in [Requests -> RequestType]
    BY <2>2, <1>g DEF Stages
  <2>3. QED  BY <1>2, <2>1, <2>2 DEF InsertKey, AppendEntry, UpdateRow
<1>3. ASSUME NEW r \in Requests, ReadSmoke(r)  PROVE req' \in [Requests -> RequestType]
  <2>1. version[req[r].smoke] \in Nat
    BY <1>3 DEF ReadSmoke, RequestsFit, Fits, HasSmoke, TypeOK, At
  <2>2. CASE Done(r)  BY <2>2, <1>d
  <2>3. ASSUME NEW pc \in Stages,
               Become(r, [req[r] EXCEPT !.seen = version[req[r].smoke], !.pc = pc])
        PROVE  req' \in [Requests -> RequestType]
    BY <2>1, <2>3, <1>t, MovesAreTyped, BecomeIsTyped
  <2>4. "ordinal" \in Stages /\ "update" \in Stages
    BY DEF Stages
  <2>5. QED  BY <1>3, <2>2, <2>3, <2>4 DEF ReadSmoke
<1>4. ASSUME NEW r \in Requests, ReadOrdinal(r)  PROVE req' \in [Requests -> RequestType]
  <2>1. req[r].smoke \in Smokes
    BY <1>4 DEF ReadOrdinal, RequestsFit, Fits, HasSmoke, At
  <2>2. Len(entries[req[r].smoke]) + 1 \in Nat
    BY <2>1 DEF TypeOK
  <2>3. QED  BY <1>4, <2>2, <1>t, MovesAreTyped, BecomeIsTyped DEF ReadOrdinal, Stages
<1>5. ASSUME NEW r \in Requests, Commit(r)  PROVE req' \in [Requests -> RequestType]
  BY <1>5, <1>p, ResultIsTyped DEF Commit, At
<1>6. ASSUME NEW r \in Requests, DeleteKeys(r)  PROVE req' \in [Requests -> RequestType]
  <2>1. KeysOf(req[r].smoke) \in SUBSET Keys
    BY DEF KeysOf
  <2>2. QED  BY <1>6, <2>1, <1>t, MovesAreTyped, BecomeIsTyped DEF DeleteKeys, Stages
<1>7. ASSUME NEW r \in Requests,
             Answer(r) \/ DeleteRow(r) \/ Fail(r) \/ BreakDeadlock(r) \/ OutOfIds(r)
      PROVE  req' \in [Requests -> RequestType]
  BY <1>7, <1>d DEF Answer, DeleteRow, Fail, BreakDeadlock, OutOfIds
<1>8. ASSUME NEW r \in Requests, NEW k \in Keys, NEW i \in Intents,
             NEW v \in Versions \union {NoVersion}, Call(r, k, i, v)
      PROVE  req' \in [Requests -> RequestType]
  BY <1>8, <1>t, StartsAreTyped, BecomeIsTyped DEF Call
<1>9. ASSUME NEW r \in Requests, NEW s \in Smokes, DeleteRead(r, s)
      PROVE  req' \in [Requests -> RequestType]
  BY <1>9, <1>t, StartsAreTyped, BecomeIsTyped DEF DeleteRead
<1>10. CASE UNCHANGED vars  BY <1>10, <1>t DEF vars
<1>11. QED
  BY <1>1, <1>2, <1>3, <1>4, <1>5, <1>6, <1>7, <1>8, <1>9, <1>10 DEF Next, Step

\* Every step keeps the types.
LEMMA TypeStep ==
  ASSUME TypeOK, RequestsFit, [Next]_vars
  PROVE  TypeOK'
<1>r. req' \in [Requests -> RequestType]
  BY RequestTypeStep
<1>1. CASE UNCHANGED <<tables, answers>>
  BY <1>1, <1>r DEF TypeOK, tables, RequestType
<1>2. ASSUME NEW r \in Requests, Commit(r)  PROVE TypeOK'
  <2>1. /\ ResultOf(r) \in Results /\ ResultOf(r).version \in Nat
        /\ req[r] \in RequestType /\ req[r].key \in Keys /\ req[r].smoke \in Smokes
    BY <1>2, ResultIsTyped
    DEF Commit, At, TypeOK, RequestsFit, Fits, HasIntent, HasSmoke, Calling, RequestType, Results
  <2>2. entries' \in [Smokes -> Seq(Keys)]
    BY <1>2, <2>1 DEF Commit, TypeOK
  <2>3. [key |-> req[r].key, smoke |-> req[r].smoke, result |-> ResultOf(r),
         seen |-> req[r].seen, expected |-> req[r].expected]
          \in [key : Keys, smoke : Smokes, result : Results, seen : Nat,
               expected : Nat \union {NoVersion}]
    BY <2>1 DEF RequestType
  <2>4. /\ smokeRow' \in [Smokes -> {"unborn", "row", "deleted"}]
        /\ version' \in [Smokes -> Nat]
        /\ keyRow' \in [Keys -> Results \union {NoResult}]
    BY <1>2, <2>1 DEF Commit, StoreKey, TypeOK
  <2>5. QED  BY <1>2, <1>r, <2>2, <2>3, <2>4 DEF Commit, TypeOK, RequestType
<1>3. ASSUME NEW r \in Requests, Answer(r)  PROVE TypeOK'
  <2>1. req[r].key \in Keys /\ req[r].intent \in Intents /\ req[r].result \in Results
    BY <1>3 DEF Answer, At, RequestsFit, Fits, HasIntent, ReturnsCommitted, Calling
  <2>2. QED  BY <1>3, <2>1, <1>r DEF Answer, TypeOK, tables, RequestType
<1>4. ASSUME NEW r \in Requests, DeleteRow(r)  PROVE TypeOK'
  <2>1. /\ smokeRow' \in [Smokes -> {"unborn", "row", "deleted"}]
        /\ entries' \in [Smokes -> Seq(Keys)]
        /\ keyRow' \in [Keys -> Results \union {NoResult}]
    <3>1. <<>> \in Seq(Keys)
      OBVIOUS
    <3>2. QED  BY <1>4, <3>1 DEF DeleteRow, DropKeys, TypeOK
  <2>2. QED  BY <1>4, <1>r, <2>1 DEF DeleteRow, TypeOK, RequestType
<1>5. QED
  BY <1>1, <1>2, <1>3, <1>4
  DEF Next, Step, Call, CheckKey, InsertKey, Reload, ReadSmoke, ReadOrdinal, AppendEntry,
      UpdateRow, DeleteRead, DeleteKeys, Fail, BreakDeadlock, OutOfIds, vars, tables

-----------------------------------------------------------------------------
\* A step that only moves a request keeps the invariant, if the request fits
\* among the others where it goes.
LEMMA QuietStep ==
  ASSUME StoreInv, TypeOK', UNCHANGED <<tables, answers>>,
         NEW r \in Requests, NEW x, Become(r, x), Fits(r, x)
  PROVE  StoreInv'
<1>1. req'[r] = x /\ \A q \in Requests \ {r} : req'[q] = req[q]
  BY DEF Become, StoreInv, TypeOK
<1>2. ASSUME NEW q \in Requests  PROVE Fits(q, req[q])'
  <2>1. HasIntent(req[q])' /\ HasSmoke(req[q])' /\ ReturnsCommitted(req[q])'
    BY <1>1 DEF StoreInv, RequestsFit, Fits, HasIntent, HasSmoke, ReturnsCommitted, tables
  <2>2. OwnsRow(q, req[q])'
    BY <1>1 DEF StoreInv, RequestsFit, Fits, OwnsRow, tables
  <2>3. OwnsKey(q, req[q])'
    BY <1>1 DEF StoreInv, RequestsFit, Fits, OwnsKey, tables
  <2>4. QED  BY <2>1, <2>2, <2>3 DEF Fits
<1>3. /\ AuditNamesSmoke' /\ EntryHasKey' /\ EffectIffKey'
      /\ AppendsOnce' /\ AnswersMatchIntent'
  BY DEF StoreInv, AuditNamesSmoke, EntryHasKey, EffectIffKey, Effects,
         AppendsOnce, AnswersMatchIntent, tables
<1>4. QED  BY <1>2, <1>3 DEF StoreInv, RequestsFit

\* A key's stored result is an effect that the audit log has.
LEMMA KeyIsAudited ==
  ASSUME StoreInv, NEW k \in Keys, keyRow[k] # NoResult
  PROVE  \E a \in audit : a.key = k /\ a.result = keyRow[k] /\ smokeRow[a.smoke] = "row"
  BY DEF StoreInv, EffectIffKey, Effects

\* A replay fits: it returns a committed result for this very intent.
LEMMA ReplayFits ==
  ASSUME StoreInv, NEW r \in Requests, req[r].pc \in Calling,
         keyRow[req[r].key] # NoResult, Replay(r)
  PROVE  \E x : Become(r, x) /\ Fits(r, x)
<1>1. req[r].key \in Keys /\ req[r] \in RequestType /\ req[r].intent \in Intents
  BY DEF StoreInv, TypeOK, RequestType, RequestsFit, Fits, HasIntent
<1>2. Fits(r, Idle)
  BY DEF Fits, HasIntent, HasSmoke, OwnsRow, OwnsKey, ReturnsCommitted, Idle, Calling
<1>3. CASE keyRow[req[r].key].intent = req[r].intent
  <2> DEFINE x == [req[r] EXCEPT !.pc = "reply", !.result = keyRow[req[r].key]]
  <2>1. Become(r, x)
    BY <1>3 DEF Replay, Reply
  <2>2. /\ x.pc = "reply" /\ x.key = req[r].key /\ x.intent = req[r].intent
        /\ x.result = keyRow[req[r].key]
    BY <1>1 DEF RequestType
  <2>3. keyRow[req[r].key] \in Results
    BY <1>1 DEF StoreInv, TypeOK
  <2>4. Fits(r, x)
    BY <1>1, <1>3, <2>2, <2>3, KeyIsAudited
    DEF Fits, HasIntent, HasSmoke, OwnsRow, OwnsKey, ReturnsCommitted
  <2>5. QED  BY <2>1, <2>4
<1>4. CASE keyRow[req[r].key].intent # req[r].intent
  BY <1>2, <1>4 DEF Replay, Done
<1>5. QED  BY <1>3, <1>4

\* Calls, reads, gates, replays, aborts: every step that changes no table keeps
\* the invariant.
LEMMA QuietSteps ==
  ASSUME StoreInv, TypeOK', NEW r \in Requests,
         \/ CheckKey(r) \/ InsertKey(r) \/ Reload(r) \/ ReadSmoke(r) \/ ReadOrdinal(r)
         \/ AppendEntry(r) \/ UpdateRow(r) \/ DeleteKeys(r)
         \/ Fail(r) \/ BreakDeadlock(r) \/ OutOfIds(r)
         \/ \E k \in Keys, i \in Intents, v \in Versions \union {NoVersion} : Call(r, k, i, v)
         \/ \E s \in Smokes : DeleteRead(r, s)
  PROVE  StoreInv'
<1>u. UNCHANGED <<tables, answers>>
  BY DEF CheckKey, InsertKey, Reload, ReadSmoke, ReadOrdinal, AppendEntry, UpdateRow,
         DeleteKeys, Fail, BreakDeadlock, OutOfIds, Call, DeleteRead
<1>t. req[r] \in RequestType
  BY DEF StoreInv, TypeOK, RequestType
<1>f. HasIntent(req[r]) /\ HasSmoke(req[r]) /\ OwnsRow(r, req[r])
  BY DEF StoreInv, RequestsFit, Fits
<1> SUFFICES \E x : Become(r, x) /\ Fits(r, x)
  BY <1>u, QuietStep
<1>i. Fits(r, Idle)
  BY DEF Fits, HasIntent, HasSmoke, OwnsRow, OwnsKey, ReturnsCommitted, Idle, Calling
<1>d. CASE Done(r)  BY <1>d, <1>i DEF Done
<1>1. CASE CheckKey(r)
  <2>0. req[r].pc = "check" /\ req[r].key \in Keys /\ req[r].intent \in Intents
    BY <1>1, <1>f DEF CheckKey, At, HasIntent, Calling
  <2>1. CASE keyRow[req[r].key] # NoResult
    BY <1>1, <2>0, <2>1, ReplayFits DEF CheckKey, Calling
  <2>2. CASE keyRow[req[r].key] = NoResult /\ req[r].intent.op = "save"
    <3>1. PICK s \in Smokes :
            /\ smokeRow[s] = "unborn"
            /\ \A q \in Requests : req[q].smoke # s
            /\ Become(r, [req[r] EXCEPT !.pc = "key", !.smoke = s])
      BY <1>1, <2>2 DEF CheckKey
    <3> DEFINE x == [req[r] EXCEPT !.pc = "key", !.smoke = s]
    <3>2. x.pc = "key" /\ x.smoke = s /\ x.key = req[r].key /\ x.intent = req[r].intent
      BY <1>t DEF RequestType
    <3>3. Fits(r, x)
      BY <2>0, <2>2, <3>1, <3>2
      DEF Fits, HasIntent, HasSmoke, OwnsRow, OwnsKey, ReturnsCommitted
    <3>4. QED  BY <3>1, <3>3
  <2>3. CASE keyRow[req[r].key] = NoResult /\ req[r].intent.op # "save"
    <3> DEFINE x == [req[r] EXCEPT !.pc = "read", !.smoke = req[r].intent.smoke]
    <3>1. Become(r, x)
      BY <1>1, <2>3 DEF CheckKey
    <3>2. /\ x.pc = "read" /\ x.smoke = req[r].intent.smoke
          /\ x.key = req[r].key /\ x.intent = req[r].intent
      BY <1>t DEF RequestType
    <3>3. req[r].intent.smoke \in Smokes
      BY <2>0, <2>3 DEF Intents
    <3>4. Fits(r, x)
      BY <2>0, <2>3, <3>2, <3>3 DEF Fits, HasIntent, HasSmoke, OwnsRow, OwnsKey, ReturnsCommitted
    <3>5. QED  BY <3>1, <3>4
  <2>4. QED  BY <2>1, <2>2, <2>3
<1>2. CASE InsertKey(r)
  <2>0. req[r].pc = "key" /\ req[r].key \in Keys /\ req[r].intent \in Intents
        /\ req[r].smoke \in Smokes
    BY <1>2, <1>f DEF InsertKey, At, HasIntent, HasSmoke, Calling
  <2>1. CASE keyRow[req[r].key] = NoResult
    <3> DEFINE x == [req[r] EXCEPT !.pc = "commit"]
    <3>1. Become(r, x)
      BY <1>2, <2>1 DEF InsertKey, Goto
    <3>2. /\ x.pc = "commit" /\ x.smoke = req[r].smoke
          /\ x.key = req[r].key /\ x.intent = req[r].intent
      BY <1>t DEF RequestType
    <3>3. \A q \in Requests \ {r} : req[q].pc = "commit" => req[q].key # req[r].key
      BY <1>2 DEF InsertKey, KeyHeld, At
    <3>4. Fits(r, x)
      BY <1>f, <2>0, <2>1, <3>2, <3>3
      DEF Fits, HasIntent, HasSmoke, OwnsRow, OwnsKey, ReturnsCommitted
    <3>5. QED  BY <3>1, <3>4
  <2>2. CASE keyRow[req[r].key] # NoResult
    <3> DEFINE x == [req[r] EXCEPT !.pc = "reload"]
    <3>1. Become(r, x)
      BY <1>2, <2>2 DEF InsertKey, Goto
    <3>2. x.pc = "reload" /\ x.key = req[r].key /\ x.intent = req[r].intent
      BY <1>t DEF RequestType
    <3>3. Fits(r, x)
      BY <2>0, <3>2 DEF Fits, HasIntent, HasSmoke, OwnsRow, OwnsKey, ReturnsCommitted
    <3>4. QED  BY <3>1, <3>3
  <2>3. QED  BY <2>1, <2>2
<1>3. CASE Reload(r)
  <2>1. req[r].pc = "reload"
    BY <1>3 DEF Reload, At
  <2>2. CASE keyRow[req[r].key] # NoResult
    BY <1>3, <2>1, <2>2, ReplayFits DEF Reload, Calling
  <2>3. QED  BY <1>3, <1>d, <2>2 DEF Reload
<1>4. ASSUME NEW x, Become(r, x), x.pc \in {"ordinal", "append", "update", "reload"},
             x.key = req[r].key, x.intent = req[r].intent, x.smoke = req[r].smoke,
             req[r].pc \in {"read", "ordinal", "append"}
      PROVE  \E y : Become(r, y) /\ Fits(r, y)
  <2>1. Fits(r, x)
    BY <1>4, <1>f DEF Fits, HasIntent, HasSmoke, OwnsRow, OwnsKey, ReturnsCommitted, Calling
  <2>2. QED  BY <1>4, <2>1
<1>5. CASE ReadSmoke(r)
  <2>1. ASSUME NEW pc \in {"ordinal", "update"},
               Become(r, [req[r] EXCEPT !.seen = version[req[r].smoke], !.pc = pc])
        PROVE  \E y : Become(r, y) /\ Fits(r, y)
    <3> DEFINE x == [req[r] EXCEPT !.seen = version[req[r].smoke], !.pc = pc]
    <3>1. x.pc = pc /\ x.key = req[r].key /\ x.intent = req[r].intent /\ x.smoke = req[r].smoke
      BY <1>t DEF RequestType
    <3>2. req[r].pc = "read"
      BY <1>5 DEF ReadSmoke, At
    <3> HIDE DEF x
    <3>3. Become(r, x)
      BY <2>1 DEF x
    <3>4. QED  BY <1>4, <2>1, <3>1, <3>2, <3>3
  <2>2. QED  BY <1>5, <1>d, <2>1 DEF ReadSmoke
<1>6. CASE ReadOrdinal(r)
  <2> DEFINE x == [req[r] EXCEPT !.pc = "append", !.ordinal = Len(entries[req[r].smoke]) + 1]
  <2>1. Become(r, x) /\ req[r].pc = "ordinal"
    BY <1>6 DEF ReadOrdinal, At
  <2>2. /\ x.pc = "append" /\ x.key = req[r].key /\ x.intent = req[r].intent
        /\ x.smoke = req[r].smoke
    BY <1>t DEF RequestType
  <2> HIDE DEF x
  <2>3. QED  BY <1>4, <2>1, <2>2
<1>7. CASE AppendEntry(r)
  <2>1. ASSUME NEW pc \in {"update", "reload"}, Goto(r, pc)
        PROVE  \E y : Become(r, y) /\ Fits(r, y)
    <3> DEFINE x == [req[r] EXCEPT !.pc = pc]
    <3>1. Become(r, x) /\ req[r].pc = "append"
      BY <1>7, <2>1 DEF AppendEntry, At, Goto
    <3>2. x.pc = pc /\ x.key = req[r].key /\ x.intent = req[r].intent /\ x.smoke = req[r].smoke
      BY <1>t DEF RequestType
    <3> HIDE DEF x
    <3>3. QED  BY <1>4, <2>1, <3>1, <3>2
  <2>2. QED  BY <1>7, <1>d, <2>1 DEF AppendEntry
<1>8. CASE UpdateRow(r) /\ ~Done(r)
  <2> DEFINE x == [req[r] EXCEPT !.pc = "key"]
  <2>1. /\ Become(r, x) /\ req[r].pc = "update" /\ smokeRow[req[r].smoke] = "row"
        /\ \A q \in Requests \ {r} :
             req[q].pc \in {"key", "commit"} => req[q].smoke # req[r].smoke
    BY <1>8 DEF UpdateRow, At, Goto, RowLocked
  <2>2. x.pc = "key" /\ x.key = req[r].key /\ x.intent = req[r].intent /\ x.smoke = req[r].smoke
    BY <1>t DEF RequestType
  <2>3. req[r].intent.op # "save"
    BY <1>f, <2>1 DEF HasIntent
  <2> HIDE DEF x
  <2>4. Fits(r, x)
    BY <1>f, <2>1, <2>2, <2>3
    DEF Fits, HasIntent, HasSmoke, OwnsRow, OwnsKey, ReturnsCommitted, Calling
  <2>5. QED  BY <2>1, <2>4
<1>9. CASE DeleteKeys(r)
  <2> DEFINE x == [req[r] EXCEPT !.pc = "delete", !.keys = KeysOf(req[r].smoke)]
  <2>1. Become(r, x) /\ req[r].pc = "detach"
    BY <1>9 DEF DeleteKeys, At
  <2>2. x.pc = "delete" /\ x.smoke = req[r].smoke
    BY <1>t DEF RequestType
  <2> HIDE DEF x
  <2>3. Fits(r, x)
    BY <1>f, <2>1, <2>2 DEF Fits, HasIntent, HasSmoke, OwnsRow, OwnsKey, ReturnsCommitted, Calling
  <2>4. QED  BY <2>1, <2>3
<1>10. ASSUME NEW k \in Keys, NEW i \in Intents, NEW v \in Versions \union {NoVersion},
              Call(r, k, i, v)
       PROVE  \E x : Become(r, x) /\ Fits(r, x)
  <2> DEFINE x == [Idle EXCEPT !.pc = "check", !.key = k, !.intent = i, !.expected = v]
  <2>1. Become(r, x) /\ x.pc = "check" /\ x.key = k /\ x.intent = i
    BY <1>10 DEF Call, Idle
  <2> HIDE DEF x
  <2>2. Fits(r, x)
    BY <2>1 DEF Fits, HasIntent, HasSmoke, OwnsRow, OwnsKey, ReturnsCommitted
  <2>3. QED  BY <2>1, <2>2
<1>11. ASSUME NEW s \in Smokes, DeleteRead(r, s)
       PROVE  \E x : Become(r, x) /\ Fits(r, x)
  <2> DEFINE x == [Idle EXCEPT !.pc = "detach", !.smoke = s]
  <2>1. Become(r, x) /\ x.pc = "detach" /\ x.smoke = s
    BY <1>11 DEF DeleteRead, Idle
  <2> HIDE DEF x
  <2>2. Fits(r, x)
    BY <2>1 DEF Fits, HasIntent, HasSmoke, OwnsRow, OwnsKey, ReturnsCommitted, Calling
  <2>3. QED  BY <2>1, <2>2
<1>12. CASE Fail(r) \/ BreakDeadlock(r) \/ OutOfIds(r)
  BY <1>12, <1>d DEF Fail, BreakDeadlock, OutOfIds
<1>13. QED
  BY <1>d, <1>1, <1>2, <1>3, <1>5, <1>6, <1>7, <1>8, <1>9, <1>10, <1>11, <1>12

-----------------------------------------------------------------------------
\* The commit of a save or an update keeps the invariant: the key was free, so
\* this is its only effect.
LEMMA CommitStep ==
  ASSUME StoreInv, TypeOK', NEW r \in Requests, Commit(r)
  PROVE  StoreInv'
<1> DEFINE s == req[r].smoke
           k == req[r].key
           res == ResultOf(r)
           x == [req[r] EXCEPT !.pc = "reply", !.result = res]
           a == [key |-> k, smoke |-> s, result |-> res,
                 seen |-> req[r].seen, expected |-> req[r].expected]
<1>t. /\ req[r] \in RequestType /\ req[r].pc = "commit"
      /\ k \in Keys /\ s \in Smokes /\ req[r].intent \in Intents
      /\ keyRow \in [Keys -> Results \union {NoResult}]
      /\ smokeRow \in [Smokes -> {"unborn", "row", "deleted"}]
      /\ entries \in [Smokes -> Seq(Keys)]
  BY DEF StoreInv, TypeOK, RequestType, Commit, At, RequestsFit, Fits, HasIntent, HasSmoke, Calling
<1>f. OwnsRow(r, req[r]) /\ OwnsKey(r, req[r])
  BY DEF StoreInv, RequestsFit, Fits
<1>r. res \in Results /\ res.smoke = s /\ res.intent = req[r].intent /\ res # NoResult
  BY <1>t, ResultIsTyped DEF StoreInv
<1>x. /\ req' = [req EXCEPT ![r] = x]
      /\ x.pc = "reply" /\ x.key = k /\ x.intent = req[r].intent /\ x.result = res
  BY <1>t DEF Commit, Reply, Become, RequestType
<1>n. /\ smokeRow' = [smokeRow EXCEPT ![s] = "row"]
      /\ keyRow' = [keyRow EXCEPT ![k] = res]
      /\ entries' = [entries EXCEPT ![s] = IF req[r].intent.op = "append"
                                           THEN Append(entries[s], k) ELSE entries[s]]
      /\ audit' = audit \union {a}
      /\ answers' = answers
  BY DEF Commit, StoreKey
<1>a. a.key = k /\ a.smoke = s /\ a.result = res
  OBVIOUS
<1>o. keyRow[k] = NoResult /\ smokeRow[s] \in {"unborn", "row"}
  BY <1>t, <1>f DEF OwnsKey, OwnsRow
<1>q. \A q \in Requests : req'[q] = IF q = r THEN x ELSE req[q]
  BY <1>x DEF StoreInv, TypeOK
<1> HIDE DEF s, k, res, x, a
<1>1. ASSUME NEW q \in Requests  PROVE Fits(q, req[q])'
  <2>1. CASE q = r
    <3>1. req'[q].pc = "reply" /\ req'[q].key = k /\ req'[q].intent = req[r].intent
          /\ req'[q].result = res
      BY <2>1, <1>q, <1>x
    <3>2. a \in audit'
      BY <1>n
    <3>3. QED
      BY <3>1, <3>2, <1>t, <1>a, <1>r
      DEF Fits, HasIntent, HasSmoke, OwnsRow, OwnsKey, ReturnsCommitted
  <2>2. CASE q # r
    <3>0. Fits(q, req[q]) /\ req'[q] = req[q]
      BY <2>2, <1>q DEF StoreInv, RequestsFit
    <3>1. HasIntent(req[q])' /\ HasSmoke(req[q])' /\ ReturnsCommitted(req[q])'
      BY <3>0, <1>n DEF Fits, HasIntent, HasSmoke, ReturnsCommitted
    <3>2. OwnsRow(q, req[q])'
      <4>1. req[q].pc \in {"key", "commit"} => req[q].smoke # s
        BY <2>2, <1>t, <1>f DEF OwnsRow, s
      <4>2. req[q].pc \in {"key", "commit"} => smokeRow'[req[q].smoke] = smokeRow[req[q].smoke]
        BY <4>1, <3>0, <1>n, <1>t DEF Fits, HasSmoke
      <4>3. \A p \in Requests \ {q} : req'[p].pc \in {"key", "commit"} => req'[p] = req[p]
        BY <1>q, <1>x
      <4>4. QED  BY <3>0, <4>2, <4>3 DEF Fits, OwnsRow
    <3>3. OwnsKey(q, req[q])'
      <4>1. req[q].pc = "commit" => req[q].key # k
        BY <2>2, <1>t, <1>f DEF OwnsKey, k
      <4>2. req[q].pc = "commit" => keyRow'[req[q].key] = keyRow[req[q].key]
        BY <4>1, <3>0, <1>n, <1>t DEF Fits, HasIntent, Calling
      <4>3. \A p \in Requests \ {q} : req'[p].pc = "commit" => req'[p] = req[p]
        BY <1>q, <1>x
      <4>4. QED  BY <3>0, <4>2, <4>3 DEF Fits, OwnsKey
    <3>4. QED  BY <3>1, <3>2, <3>3 DEF Fits
  <2>3. QED  BY <2>1, <2>2
<1>2. AuditNamesSmoke'
  <2>1. \A b \in audit : b.smoke \in Smokes
    BY DEF StoreInv, TypeOK
  <2>2. ASSUME NEW b \in audit'
        PROVE  b.result.smoke = b.smoke /\ smokeRow'[b.smoke] # "unborn"
    <3>1. CASE b = a  BY <3>1, <1>a, <1>r, <1>n, <1>t
    <3>2. CASE b \in audit  BY <3>2, <2>1, <1>n, <1>t DEF StoreInv, AuditNamesSmoke
    <3>3. QED  BY <1>n, <2>2, <3>1, <3>2
  <2>3. QED  BY <2>2 DEF AuditNamesSmoke
<1>3. \A j \in Keys : keyRow'[j] = IF j = k THEN res ELSE keyRow[j]
  BY <1>n, <1>t
<1>4. ASSUME NEW t \in Smokes, NEW n \in DOMAIN entries[t]
      PROVE  entries[t][n] \in Keys /\ entries[t][n] # k
             /\ keyRow[entries[t][n]] # NoResult /\ keyRow[entries[t][n]].smoke = t
  <2>1. entries[t] \in Seq(Keys)
    BY <1>t
  <2>2. entries[t][n] \in Keys
    BY <2>1
  <2>3. QED  BY <2>2, <1>o DEF StoreInv, EntryHasKey
<1>5. ASSUME NEW t \in Smokes, NEW n \in DOMAIN entries'[t]
      PROVE  \/ n \in DOMAIN entries[t] /\ entries'[t][n] = entries[t][n]
             \/ t = s /\ n = Len(entries[s]) + 1 /\ entries'[t][n] = k
  <2>1. CASE t = s /\ req[r].intent.op = "append"
    <3>1. entries'[t] = Append(entries[s], k) /\ entries[s] \in Seq(Keys)
      BY <2>1, <1>n, <1>t
    <3>2. QED  BY <2>1, <3>1, <1>t, <1>5
  <2>2. CASE t # s \/ req[r].intent.op # "append"
    BY <2>2, <1>n, <1>t, <1>5
  <2>3. QED  BY <2>1, <2>2
<1>6. EntryHasKey'
  <2>1. ASSUME NEW t \in Smokes, NEW n \in DOMAIN entries'[t]
        PROVE  keyRow'[entries'[t][n]] # NoResult /\ keyRow'[entries'[t][n]].smoke = t
    <3>1. CASE n \in DOMAIN entries[t] /\ entries'[t][n] = entries[t][n]
      BY <3>1, <1>3, <1>4
    <3>2. CASE t = s /\ entries'[t][n] = k
      BY <3>2, <1>3, <1>r, <1>t
    <3>3. QED  BY <2>1, <1>5, <3>1, <3>2
  <2>2. QED  BY <2>1 DEF EntryHasKey
<1>7. AppendsOnce'
  BY <1>4, <1>5 DEF StoreInv, AppendsOnce
<1>8. EffectIffKey'
  <2>1. ASSUME NEW b \in audit  PROVE (smokeRow'[b.smoke] = "row") <=> (smokeRow[b.smoke] = "row")
    BY <1>n, <1>o, <1>t DEF StoreInv, TypeOK, AuditNamesSmoke
  <2>2. ASSUME NEW j \in Keys, j # k  PROVE Effects(j)' = Effects(j)
    BY <2>1, <2>2, <1>n, <1>a DEF Effects
  <2>3. ASSUME NEW j \in Keys, j = k  PROVE Effects(j) = {}
    BY <2>3, <1>o, <1>t DEF StoreInv, EffectIffKey
  <2>4. ASSUME NEW j \in Keys, j = k  PROVE Effects(j)' = {res}
    <3>1. \A b \in audit : b.key = j => smokeRow'[b.smoke] # "row"
      BY <2>1, <2>3, <2>4 DEF Effects
    <3>2. smokeRow'[a.smoke] = "row"
      BY <1>n, <1>a, <1>t
    <3>3. {b \in audit' : b.key = j /\ smokeRow'[b.smoke] = "row"} = {a}
      BY <3>1, <3>2, <2>4, <1>n, <1>a
    <3>4. Effects(j)' = {b.result : b \in {a}}
      BY <3>3 DEF Effects
    <3>5. QED  BY <3>4, <1>a
  <2>5. ASSUME NEW j \in Keys
        PROVE  Effects(j)' = IF keyRow'[j] = NoResult THEN {} ELSE {keyRow'[j]}
    <3>1. CASE j = k
      BY <3>1, <2>4, <1>3, <1>r
    <3>2. CASE j # k
      BY <3>2, <2>2, <1>3 DEF StoreInv, EffectIffKey
    <3>3. QED  BY <3>1, <3>2
  <2>6. QED  BY <2>5 DEF EffectIffKey
<1>9. AnswersMatchIntent'
  BY <1>n DEF StoreInv, AnswersMatchIntent
<1>10. QED  BY <1>1, <1>2, <1>6, <1>7, <1>8, <1>9 DEF StoreInv, RequestsFit

\* An answer that reaches the client is for the client's intent.
LEMMA AnswerStep ==
  ASSUME StoreInv, TypeOK', NEW r \in Requests, Answer(r)
  PROVE  StoreInv'
<1>1. Become(r, Idle) /\ UNCHANGED tables
  BY DEF Answer, Done
<1>q. \A q \in Requests : req'[q] = IF q = r THEN Idle ELSE req[q]
  BY <1>1 DEF Become, StoreInv, TypeOK
<1>2. ASSUME NEW q \in Requests  PROVE Fits(q, req[q])'
  <2>1. CASE q = r
    BY <2>1, <1>q DEF Fits, HasIntent, HasSmoke, OwnsRow, OwnsKey, ReturnsCommitted, Idle, Calling
  <2>2. CASE q # r
    BY <2>2, <1>q, <1>1
    DEF StoreInv, RequestsFit, Fits, HasIntent, HasSmoke, OwnsRow, OwnsKey, ReturnsCommitted,
        tables, Idle
  <2>3. QED  BY <2>1, <2>2
<1>3. /\ AuditNamesSmoke' /\ EntryHasKey' /\ EffectIffKey' /\ AppendsOnce'
  BY <1>1 DEF StoreInv, AuditNamesSmoke, EntryHasKey, EffectIffKey, Effects, AppendsOnce, tables
<1>4. AnswersMatchIntent'
  <2>1. req[r].result.intent = req[r].intent
    BY DEF Answer, At, StoreInv, RequestsFit, Fits, ReturnsCommitted
  <2>2. QED  BY <2>1 DEF Answer, StoreInv, AnswersMatchIntent
<1>5. QED  BY <1>2, <1>3, <1>4 DEF StoreInv, RequestsFit

\* A delete keeps the invariant: the keys it drops are those of the smoke's
\* effects, and no call in flight stands on the smoke's row.
LEMMA DeleteStep ==
  ASSUME StoreInv, TypeOK', NEW r \in Requests, DeleteRow(r)
  PROVE  StoreInv'
<1> DEFINE s == req[r].smoke
<1>t. /\ s \in Smokes
      /\ keyRow \in [Keys -> Results \union {NoResult}]
      /\ smokeRow \in [Smokes -> {"unborn", "row", "deleted"}]
      /\ entries \in [Smokes -> Seq(Keys)]
  BY DEF StoreInv, TypeOK, DeleteRow, At, RequestsFit, Fits, HasSmoke
<1>d. Become(r, Idle) /\ UNCHANGED <<version, audit, answers>>
  BY DEF DeleteRow, Done
<1>i. Fits(r, Idle)
  BY DEF Fits, HasIntent, HasSmoke, OwnsRow, OwnsKey, ReturnsCommitted, Idle, Calling
<1>1. CASE KeysOf(s) # req[r].keys
  <2>1. UNCHANGED <<tables, answers>>
    BY <1>1 DEF DeleteRow, tables
  <2>2. QED  BY <2>1, <1>d, <1>i, QuietStep
<1>2. CASE KeysOf(s) = req[r].keys
  <2>n. /\ smokeRow' = [smokeRow EXCEPT ![s] = "deleted"]
        /\ entries' = [entries EXCEPT ![s] = <<>>]
        /\ \A j \in Keys : keyRow'[j] = IF keyRow[j] # NoResult /\ keyRow[j].smoke = s
                                        THEN NoResult ELSE keyRow[j]
    BY <1>2 DEF DeleteRow, DropKeys, KeysOf
  <2>f. \A q \in Requests \ {r} : req[q].pc \in {"key", "commit"} => req[q].smoke # s
    BY DEF DeleteRow, Referenced
  <2>q. \A q \in Requests : req'[q] = IF q = r THEN Idle ELSE req[q]
    BY <1>d DEF Become, StoreInv, TypeOK
  <2> HIDE DEF s
  <2>1. ASSUME NEW q \in Requests  PROVE Fits(q, req[q])'
    <3>1. CASE q = r
      BY <3>1, <2>q
      DEF Fits, HasIntent, HasSmoke, OwnsRow, OwnsKey, ReturnsCommitted, Idle, Calling
    <3>2. CASE q # r
      <4>0. Fits(q, req[q]) /\ req'[q] = req[q]
        BY <3>2, <2>q DEF StoreInv, RequestsFit
      <4>1. HasIntent(req[q])' /\ HasSmoke(req[q])' /\ ReturnsCommitted(req[q])'
        BY <4>0, <1>d DEF Fits, HasIntent, HasSmoke, ReturnsCommitted
      <4>2. \A p \in Requests \ {q} : req'[p].pc \in {"key", "commit"} => req'[p] = req[p]
        BY <2>q DEF Idle
      <4>3. OwnsRow(q, req[q])'
        <5>1. req[q].pc \in {"key", "commit"} => smokeRow'[req[q].smoke] = smokeRow[req[q].smoke]
          BY <3>2, <4>0, <2>f, <2>n, <1>t DEF Fits, HasSmoke
        <5>2. QED  BY <4>0, <4>2, <5>1 DEF Fits, OwnsRow
      <4>4. OwnsKey(q, req[q])'
        <5>1. req[q].pc = "commit" => req[q].key \in Keys
          BY <4>0 DEF Fits, HasIntent, Calling
        <5>2. QED  BY <4>0, <4>2, <5>1, <2>n DEF Fits, OwnsKey
      <4>5. QED  BY <4>1, <4>3, <4>4 DEF Fits
    <3>3. QED  BY <3>1, <3>2
  <2>2. AuditNamesSmoke'
    BY <1>d, <2>n, <1>t DEF StoreInv, AuditNamesSmoke, TypeOK
  <2>3. ASSUME NEW t \in Smokes, NEW n \in DOMAIN entries'[t]
        PROVE  t # s /\ entries'[t] = entries[t]
    <3>1. t = s => entries'[t] = <<>>
      BY <2>n, <1>t
    <3>2. DOMAIN <<>> = {}
      OBVIOUS
    <3>3. QED  BY <3>1, <3>2, <2>3, <2>n, <1>t
  <2>4. EntryHasKey'
    <3>1. ASSUME NEW t \in Smokes, NEW n \in DOMAIN entries'[t]
          PROVE  keyRow'[entries'[t][n]] # NoResult /\ keyRow'[entries'[t][n]].smoke = t
      <4>1. t # s /\ entries'[t] = entries[t] /\ n \in DOMAIN entries[t]
        BY <2>3, <3>1
      <4>2. entries[t] \in Seq(Keys)
        BY <1>t
      <4>3. entries[t][n] \in Keys
        BY <4>1, <4>2
      <4>4. keyRow[entries[t][n]] # NoResult /\ keyRow[entries[t][n]].smoke = t
        BY <4>1 DEF StoreInv, EntryHasKey
      <4>5. QED  BY <4>1, <4>3, <4>4, <2>n
    <3>2. QED  BY <3>1 DEF EntryHasKey
  <2>5. AppendsOnce'
    BY <2>3 DEF StoreInv, AppendsOnce
  <2>6. ASSUME NEW j \in Keys
        PROVE  Effects(j)' = IF keyRow'[j] = NoResult THEN {} ELSE {keyRow'[j]}
    <3>0. \A b \in audit : b.result.smoke = b.smoke /\ b.smoke \in Smokes
      BY DEF StoreInv, AuditNamesSmoke, TypeOK
    <3>1. \A b \in audit : smokeRow'[b.smoke] = "row"
                             <=> smokeRow[b.smoke] = "row" /\ b.result.smoke # s
      BY <3>0, <2>n, <1>t
    <3>2. Effects(j)' = {e \in Effects(j) : e.smoke # s}
      BY <3>1, <1>d DEF Effects
    <3>3. Effects(j) = IF keyRow[j] = NoResult THEN {} ELSE {keyRow[j]}
      BY DEF StoreInv, EffectIffKey
    <3>4. QED  BY <3>2, <3>3, <2>n
  <2>7. AnswersMatchIntent'
    BY <1>d DEF StoreInv, AnswersMatchIntent
  <2>8. QED
    BY <2>1, <2>2, <2>4, <2>5, <2>6, <2>7 DEF StoreInv, RequestsFit, EffectIffKey
<1>3. QED  BY <1>1, <1>2

\* Every step keeps the invariant.
LEMMA StoreInvStep == StoreInv /\ [Next]_vars => StoreInv'
<1> SUFFICES ASSUME StoreInv, [Next]_vars PROVE StoreInv'
  OBVIOUS
<1>t. TypeOK'
  BY TypeStep DEF StoreInv
<1>1. ASSUME NEW r \in Requests, Step(r)  PROVE StoreInv'
  BY <1>t, <1>1, QuietSteps, CommitStep, AnswerStep, DeleteStep DEF Step
<1>2. ASSUME NEW r \in Requests,
             \/ \E k \in Keys, i \in Intents, v \in Versions \union {NoVersion} : Call(r, k, i, v)
             \/ \E s \in Smokes : DeleteRead(r, s)
      PROVE  StoreInv'
  BY <1>t, <1>2, QuietSteps
<1>3. CASE UNCHANGED vars
  <2>1. RequestsFit'
    BY <1>3
    DEF vars, StoreInv, RequestsFit, Fits, HasIntent, HasSmoke, OwnsRow, OwnsKey, ReturnsCommitted
  <2>2. AuditNamesSmoke' /\ EntryHasKey' /\ EffectIffKey' /\ AppendsOnce' /\ AnswersMatchIntent'
    BY <1>3
    DEF vars, StoreInv, AuditNamesSmoke, EntryHasKey, EffectIffKey, Effects, AppendsOnce,
        AnswersMatchIntent
  <2>3. QED  BY <1>t, <2>1, <2>2 DEF StoreInv
<1>4. QED  BY <1>1, <1>2, <1>3 DEF Next

\* The inductive invariant of the smoke store.
THEOREM StoreInvariant == Spec => []StoreInv
<1>1. QED  BY StoreInvInit, StoreInvStep, PTL DEF Spec

\* The tables and the calls in flight keep their types.
THEOREM StoreTypes == Spec => []TypeOK
<1>1. StoreInv => TypeOK
  BY DEF StoreInv
<1>2. QED  BY <1>1, StoreInvariant, PTL

\* There is never an effect without its key nor a key without its effect, however
\* saves, updates, repeats, deletes and failures overlap.
THEOREM EffectsHaveKeys == Spec => []EffectIffKey
<1>1. StoreInv => EffectIffKey
  BY DEF StoreInv
<1>2. QED  BY <1>1, StoreInvariant, PTL

\* A repeated append never appends twice.
THEOREM AppendsAreSafeToRepeat == Spec => []AppendsOnce
<1>1. StoreInv => AppendsOnce
  BY DEF StoreInv
<1>2. QED  BY <1>1, StoreInvariant, PTL

\* No call is ever answered with the result of another intent.
THEOREM AnswersAreForTheirIntent == Spec => []AnswersMatchIntent
<1>1. StoreInv => AnswersMatchIntent
  BY DEF StoreInv
<1>2. QED  BY <1>1, StoreInvariant, PTL

-----------------------------------------------------------------------------
\* The effect a key has is the result stored under it.
LEMMA AppliedIsKeyRow == StoreInv => Applied = keyRow
<1> SUFFICES ASSUME StoreInv PROVE Applied = keyRow
  OBVIOUS
<1>1. ASSUME NEW k \in Keys
      PROVE  keyRow[k] = IF Effects(k) = {} THEN NoResult ELSE CHOOSE e \in Effects(k) : TRUE
  <2>1. CASE keyRow[k] = NoResult
    BY <2>1 DEF StoreInv, EffectIffKey
  <2>2. CASE keyRow[k] # NoResult
    <3>1. Effects(k) = {keyRow[k]}
      BY <2>2 DEF StoreInv, EffectIffKey
    <3>2. (CHOOSE e \in {keyRow[k]} : TRUE) = keyRow[k]
      OBVIOUS
    <3>3. QED  BY <3>1, <3>2
  <2>3. QED  BY <2>1, <2>2
<1>2. keyRow = [k \in Keys |-> keyRow[k]]
  BY DEF StoreInv, TypeOK
<1>3. QED  BY <1>1, <1>2 DEF Applied

\* So it is after a step that keeps the invariant.
LEMMA AppliedIsKeyRowNext == StoreInv' => (Applied = keyRow)'
<1>1. QED  BY AppliedIsKeyRow, PTL

\* Every step of the store is a step of the envelope or none at all.
LEMMA OnceStep == StoreInv /\ StoreInv' /\ [Next]_vars => [Once!Next]_(Once!vars)
<1> SUFFICES ASSUME StoreInv, StoreInv', [Next]_vars PROVE [Once!Next]_(Once!vars)
  OBVIOUS
<1>k. Applied = keyRow /\ Applied' = keyRow'
  BY AppliedIsKeyRow, AppliedIsKeyRowNext
<1>t. keyRow \in [Keys -> Results \union {NoResult}]
  BY DEF StoreInv, TypeOK
<1>1. CASE UNCHANGED <<tables, answers>>
  BY <1>1, <1>k DEF Once!vars, tables, Past, Told
<1>2. ASSUME NEW r \in Requests, Commit(r)  PROVE [Once!Next]_(Once!vars)
  <2>1. req[r].pc = "commit" /\ req[r].key \in Keys
    BY <1>2 DEF Commit, At, StoreInv, RequestsFit, Fits, HasIntent, Calling
  <2>2. PICK k \in Keys : k = req[r].key
    BY <2>1
  <2>3. PICK res : res = ResultOf(r)
    OBVIOUS
  <2>4. keyRow[k] = NoResult /\ keyRow' = [keyRow EXCEPT ![k] = res]
    BY <1>2, <2>1, <2>2, <2>3 DEF Commit, StoreKey, StoreInv, RequestsFit, Fits, OwnsKey
  <2>5. Past' = Past \union {<<k, res>>} /\ Told' = Told
    <3>1. PICK b : b = [key |-> req[r].key, smoke |-> req[r].smoke, result |-> ResultOf(r),
                        seen |-> req[r].seen, expected |-> req[r].expected]
      OBVIOUS
    <3>2. b.key = k /\ b.result = res
      BY <2>2, <2>3, <3>1
    <3>3. audit' = audit \union {b} /\ answers' = answers
      BY <1>2, <3>1 DEF Commit
    <3>4. QED  BY <3>2, <3>3 DEF Past, Told
  <2>6. keyRow'[k] = res
    BY <2>4, <1>t
  <2>7. Once!Apply(k)
    BY <1>k, <2>4, <2>5, <2>6 DEF Once!Apply
  <2>8. QED  BY <2>7 DEF Once!Next
<1>3. ASSUME NEW r \in Requests, Answer(r)  PROVE [Once!Next]_(Once!vars)
  <2>1. /\ \E a \in audit : a.key = req[r].key /\ a.result = req[r].result
        /\ UNCHANGED tables
        /\ answers' = answers \union {[key |-> req[r].key, intent |-> req[r].intent,
                                       result |-> req[r].result]}
    BY <1>3 DEF Answer, At, StoreInv, RequestsFit, Fits, ReturnsCommitted
  <2>2. <<req[r].key, req[r].result>> \in Past
    BY <2>1 DEF Past
  <2>3. Told' = Told \union {<<req[r].key, req[r].result>>}
    <3>1. PICK b : b = [key |-> req[r].key, intent |-> req[r].intent,
                        result |-> req[r].result]
      OBVIOUS
    <3>2. b.key = req[r].key /\ b.result = req[r].result
      BY <3>1
    <3>3. answers' = answers \union {b}
      BY <2>1, <3>1
    <3>4. QED  BY <3>2, <3>3 DEF Told
  <2>4. Past' = Past /\ Applied' = Applied
    BY <2>1, <1>k DEF Past, tables
  <2>5. Once!Answer
    BY <2>2, <2>3, <2>4 DEF Once!Answer
  <2>6. QED  BY <2>5 DEF Once!Next
<1>4. ASSUME NEW r \in Requests, DeleteRow(r)  PROVE [Once!Next]_(Once!vars)
  <2>1. CASE KeysOf(req[r].smoke) # req[r].keys
    BY <1>4, <2>1, <1>1 DEF DeleteRow, tables
  <2>2. CASE KeysOf(req[r].smoke) = req[r].keys
    <3>1. PICK ks \in SUBSET Keys : ks = req[r].keys
      BY DEF StoreInv, TypeOK
    <3>2. keyRow' = [k \in Keys |-> IF k \in ks THEN NoResult ELSE keyRow[k]]
      BY <1>4, <2>2, <3>1 DEF DeleteRow, DropKeys
    <3>3. Past' = Past /\ Told' = Told
      BY <1>4 DEF DeleteRow, Past, Told
    <3>4. Once!Forget(ks)
      BY <1>k, <3>2, <3>3 DEF Once!Forget
    <3>5. QED  BY <3>4 DEF Once!Next
  <2>3. QED  BY <2>1, <2>2
<1>5. QED
  BY <1>1, <1>2, <1>3, <1>4
  DEF Next, Step, Call, CheckKey, InsertKey, Reload, ReadSmoke, ReadOrdinal, AppendEntry,
      UpdateRow, DeleteRead, DeleteKeys, Fail, BreakDeadlock, OutOfIds, vars, tables

\* The store implements the envelope: an intent takes effect at most once under
\* its key, every answer is that effect, and only a delete forgets it.
THEOREM StoreImplementsOnce == Spec => EffectsOnceOnly
<1>1. Init => Once!Init
  <2> SUFFICES ASSUME Init PROVE Once!Init
    OBVIOUS
  <2>1. \A k \in Keys : Effects(k) = {}
    BY DEF Init, Effects
  <2>2. QED  BY <2>1 DEF Init, Once!Init, Applied, Past, Told
<1>2. QED  BY <1>1, OnceStep, StoreInvariant, PTL DEF Spec, EffectsOnceOnly, Once!Spec
=============================================================================
