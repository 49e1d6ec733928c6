----------------------------- MODULE SmokeStore -----------------------------
(***************************************************************************)
(* save_smoke, update_smoke and deleteSmoke over one user's smokes, and the *)
(* mutation envelope (idempotency_keys) that makes the first two safe to    *)
(* repeat.                                                                  *)
(*                                                                          *)
(* A call runs as one transaction at READ COMMITTED; the steps are its      *)
(* statements, as far as another transaction can come between them: what a  *)
(* step inserts or locks is held until the commit, and a statement that     *)
(* meets a held row waits.  A client may repeat a call at any time, also    *)
(* while the first one runs, and may be left without its answer.            *)
(***************************************************************************)
EXTENDS Naturals, Sequences, FiniteSets

CONSTANTS
  Smokes,     \* ids of smokes rows
  Keys,       \* clientRequestIds
  Requests,   \* slots for calls in flight
  Ops,        \* the tools clients call: "save", "set", "append", "delete"
  Versions,   \* the versions a client may expect
  Faults,     \* "db" when a transaction may fail
  NoSmoke, NoKey, NoVersion, NoResult

ASSUME SentinelAssumption ==
  NoSmoke \notin Smokes /\ NoKey \notin Keys /\ NoVersion \notin Nat /\ Versions \subseteq Nat

\* What a call asks for, which is what its fingerprint hashes: a save, or a
\* change to a smoke.  The expected version is not part of it.
Intents == {[op |-> "save", smoke |-> NoSmoke]}
           \union [op : {"set", "append"}, smoke : Smokes]

\* What a call returns, and the envelope stores.
Results == [intent : Intents, smoke : Smokes, version : Nat \ {0}]

ASSUME NoResultAssumption == NoResult \notin Results

VARIABLES
  smokeRow,  \* smokes: "unborn", "row", or "deleted"
  version,   \* smokes.version
  entries,   \* smoke_progression: the keys that appended, by ordinal
  audit,     \* audit_log: what each key did to a smoke, and the version it read
  keyRow,    \* idempotency_keys: the stored result
  answers,   \* the answers that reached a client
  req        \* the calls in flight

vars == <<smokeRow, version, entries, audit, keyRow, answers, req>>
tables == <<smokeRow, version, entries, audit, keyRow>>

Idle == [pc |-> "idle", key |-> NoKey, intent |-> [op |-> "none", smoke |-> NoSmoke],
         expected |-> NoVersion, smoke |-> NoSmoke, seen |-> 0, ordinal |-> 0,
         keys |-> {}, result |-> NoResult]

Init ==
  /\ smokeRow = [s \in Smokes |-> "unborn"]
  /\ version = [s \in Smokes |-> 0]
  /\ entries = [s \in Smokes |-> <<>>]
  /\ audit = {}
  /\ keyRow = [k \in Keys |-> NoResult]
  /\ answers = {}
  /\ req = [r \in Requests |-> Idle]

At(r, pc) == req[r].pc = pc
Become(r, new) == req' = [req EXCEPT ![r] = new]
Done(r) == Become(r, Idle)
Goto(r, pc) == Become(r, [req[r] EXCEPT !.pc = pc])
Reply(r, res) == Become(r, [req[r] EXCEPT !.pc = "reply", !.result = res])

-----------------------------------------------------------------------------
(* What other transactions hold *)

\* The UPDATE of a smoke locks its row; what refers to the row keeps it too.
RowLocked(s, r) ==
  \E q \in Requests \ {r} : req[q].smoke = s /\ req[q].pc \in {"key", "commit"}
Referenced(s, r) ==
  \E q \in Requests \ {r} :
    /\ req[q].smoke = s
    /\ req[q].pc \in {"key", "commit"} \/ (At(q, "update") /\ req[q].ordinal > 0)

OrdinalHeld(s, n, r) ==
  \E q \in Requests \ {r} :
    req[q].smoke = s /\ req[q].ordinal = n /\ req[q].pc \in {"update", "key", "commit"}

\* A key row inserted, or deleted, by a transaction that is still open.
KeyHeld(k, r) ==
  \E q \in Requests \ {r} :
    (At(q, "commit") /\ req[q].key = k) \/ (At(q, "delete") /\ k \in req[q].keys)

-----------------------------------------------------------------------------
(* The envelope *)

Call(r, k, i, v) ==
  /\ At(r, "idle")
  /\ i.op \in Ops
  /\ i.op = "save" => v = NoVersion
  /\ Become(r, [Idle EXCEPT !.pc = "check", !.key = k, !.intent = i, !.expected = v])
  /\ UNCHANGED <<tables, answers>>

ReplayAnything(r) == Reply(r, keyRow[req[r].key])

\* assertReplayable: the stored result for the same intent, a conflict for another.
Replay(r) ==
  IF keyRow[req[r].key].intent = req[r].intent
  THEN Reply(r, keyRow[req[r].key])
  ELSE Done(r)

\* loadIdempotency, first in the transaction: the first of the two gates.
CheckKey(r) ==
  /\ At(r, "check")
  /\ IF keyRow[req[r].key] # NoResult THEN Replay(r)
     ELSE IF req[r].intent.op = "save"
     THEN \E s \in Smokes :
            /\ smokeRow[s] = "unborn"
            /\ \A q \in Requests : req[q].smoke # s
            /\ Become(r, [req[r] EXCEPT !.pc = "key", !.smoke = s])
     ELSE Become(r, [req[r] EXCEPT !.pc = "read", !.smoke = req[r].intent.smoke])
  /\ UNCHANGED <<tables, answers>>

InsertKeyIgnoringConflict(r) ==
  /\ At(r, "key")
  /\ ~KeyHeld(req[r].key, r)
  /\ Goto(r, "commit")
  /\ UNCHANGED <<tables, answers>>

\* recordIdempotency, last in the transaction: the second gate.  The unique index
\* makes it wait for a key that is held, and fail for one that is there.
InsertKey(r) ==
  /\ At(r, "key")
  /\ ~KeyHeld(req[r].key, r)
  /\ Goto(r, IF keyRow[req[r].key] = NoResult THEN "commit" ELSE "reload")
  /\ UNCHANGED <<tables, answers>>

\* After a unique violation, outside the transaction that it ended: the key's
\* result, if there is one; if not, the violation is thrown at the caller.
Reload(r) ==
  /\ At(r, "reload")
  /\ IF keyRow[req[r].key] # NoResult THEN Replay(r) ELSE Done(r)
  /\ UNCHANGED <<tables, answers>>

-----------------------------------------------------------------------------
(* update_smoke *)

\* The smoke is read without a lock, and the expected version compared with it.
ReadSmoke(r) ==
  LET s == req[r].smoke IN
  /\ At(r, "read")
  /\ IF smokeRow[s] = "row" /\ req[r].expected \in {NoVersion, version[s]}
     THEN Become(r, [req[r] EXCEPT !.seen = version[s],
                                   !.pc = IF req[r].intent.op = "append"
                                          THEN "ordinal" ELSE "update"])
     ELSE Done(r)    \* SmokeNotFoundError, VersionConflictError
  /\ UNCHANGED <<tables, answers>>

\* max(ordinal) + 1
ReadOrdinal(r) ==
  /\ At(r, "ordinal")
  /\ Become(r, [req[r] EXCEPT !.pc = "append",
                              !.ordinal = Len(entries[req[r].smoke]) + 1])
  /\ UNCHANGED <<tables, answers>>

\* The insert waits for a held ordinal, and fails on one that is taken or on a
\* smoke that is gone.
AppendEntry(r) ==
  LET s == req[r].smoke IN
  /\ At(r, "append")
  /\ ~OrdinalHeld(s, req[r].ordinal, r)
  /\ IF smokeRow[s] # "row" THEN Done(r)
     ELSE Goto(r, IF Len(entries[s]) < req[r].ordinal THEN "update" ELSE "reload")
  /\ UNCHANGED <<tables, answers>>

\* UPDATE ... WHERE id.  On a smoke that is gone it changes no row, and the audit
\* row that follows fails its foreign key.
UpdateRow(r) ==
  /\ At(r, "update")
  /\ ~RowLocked(req[r].smoke, r)
  /\ IF smokeRow[req[r].smoke] = "row" THEN Goto(r, "key") ELSE Done(r)
  /\ UNCHANGED <<tables, answers>>

ResultOfExpected(r) ==
  [intent |-> req[r].intent, smoke |-> req[r].smoke, version |-> req[r].expected]

\* The version a call reports: the one it read plus one, whatever the row has by now.
ResultOf(r) ==
  [intent |-> req[r].intent, smoke |-> req[r].smoke,
   version |-> IF req[r].intent.op = "save" THEN 1 ELSE req[r].seen + 1]

StoreKey(r) == keyRow' = [keyRow EXCEPT ![req[r].key] = ResultOf(r)]

\* The commit of a save or an update: the smoke, its audit row and the key.
Commit(r) ==
  LET s == req[r].smoke
      res == ResultOf(r)
  IN  /\ At(r, "commit")
      /\ smokeRow' = [smokeRow EXCEPT ![s] = "row"]
      /\ version' = [version EXCEPT ![s] = res.version]
      /\ entries' = [entries EXCEPT ![s] = IF req[r].intent.op = "append"
                                           THEN Append(@, req[r].key) ELSE @]
      /\ audit' = audit \union {[key |-> req[r].key, smoke |-> s, result |-> res,
                                 seen |-> req[r].seen, expected |-> req[r].expected]}
      /\ StoreKey(r)
      /\ Reply(r, res)
      /\ UNCHANGED answers

\* The answer reaches the client.
Answer(r) ==
  /\ At(r, "reply")
  /\ answers' = answers \union {[key |-> req[r].key, intent |-> req[r].intent,
                                 result |-> req[r].result]}
  /\ Done(r)
  /\ UNCHANGED tables

-----------------------------------------------------------------------------
(* deleteSmoke *)

KeysOf(s) == {k \in Keys : keyRow[k] # NoResult /\ keyRow[k].smoke = s}

DeleteRead(r, s) ==
  /\ At(r, "idle") /\ "delete" \in Ops
  /\ smokeRow[s] = "row"
  /\ Become(r, [Idle EXCEPT !.pc = "detach", !.smoke = s])
  /\ UNCHANGED <<tables, answers>>

\* The smoke's audit rows are detached and its keys deleted, those committed by
\* now; another delete of the smoke holds them until it ends.
DeleteKeys(r) ==
  /\ At(r, "detach")
  /\ ~\E q \in Requests : At(q, "delete") /\ req[q].smoke = req[r].smoke
  /\ Become(r, [req[r] EXCEPT !.pc = "delete", !.keys = KeysOf(req[r].smoke)])
  /\ UNCHANGED <<tables, answers>>

KeepKeys(r) == UNCHANGED keyRow

DropKeys(r) ==
  keyRow' = [k \in Keys |-> IF k \in req[r].keys THEN NoResult ELSE keyRow[k]]

\* DELETE FROM smokes, and the commit.  It waits for whoever holds the row, and
\* fails if a key or an audit row of the smoke was committed since (RESTRICT).
DeleteRow(r) ==
  LET s == req[r].smoke IN
  /\ At(r, "delete")
  /\ ~Referenced(s, r)
  /\ IF KeysOf(s) = req[r].keys
     THEN /\ smokeRow' = [smokeRow EXCEPT ![s] = "deleted"]
          /\ entries' = [entries EXCEPT ![s] = <<>>]
          /\ DropKeys(r)
     ELSE UNCHANGED <<smokeRow, entries, keyRow>>
  /\ Done(r)
  /\ UNCHANGED <<version, audit, answers>>

-----------------------------------------------------------------------------
(* Failures *)

\* The transaction fails, or the process dies before or after the commit: an
\* open transaction leaves nothing, a committed one stays without an answer.
Fail(r) ==
  /\ "db" \in Faults
  /\ ~At(r, "idle")
  /\ Done(r)
  /\ UNCHANGED <<tables, answers>>

\* A delete that waits for an update's row while that update waits for a key the
\* delete removed: the database ends one of them.
Deadlocked(q, d) ==
  /\ At(q, "key") /\ At(d, "delete")
  /\ req[q].smoke = req[d].smoke /\ req[q].key \in req[d].keys

BreakDeadlock(r) ==
  /\ \E q \in Requests : Deadlocked(q, r) \/ Deadlocked(r, q)
  /\ Done(r)
  /\ UNCHANGED <<tables, answers>>

\* A bound: a save needs an id that is not in use.
OutOfIds(r) ==
  /\ At(r, "check") /\ req[r].intent.op = "save"
  /\ keyRow[req[r].key] = NoResult
  /\ \A s \in Smokes : smokeRow[s] # "unborn" \/ \E q \in Requests : req[q].smoke = s
  /\ Done(r)
  /\ UNCHANGED <<tables, answers>>

Step(r) ==
  \/ CheckKey(r) \/ InsertKey(r) \/ Reload(r) \/ Answer(r)
  \/ ReadSmoke(r) \/ ReadOrdinal(r) \/ AppendEntry(r) \/ UpdateRow(r) \/ Commit(r)
  \/ DeleteKeys(r) \/ DeleteRow(r)
  \/ Fail(r) \/ BreakDeadlock(r) \/ OutOfIds(r)

Next ==
  \E r \in Requests :
    \/ Step(r)
    \/ \E k \in Keys, i \in Intents, v \in Versions \union {NoVersion} : Call(r, k, i, v)
    \/ \E s \in Smokes : DeleteRead(r, s)

Spec == Init /\ [][Next]_vars

-----------------------------------------------------------------------------
(* Properties *)

Stages == {"idle", "check", "read", "ordinal", "append", "update", "key",
           "commit", "reload", "reply", "detach", "delete"}

AnyIntent == Intents \union {Idle.intent}

TypeOK ==
  /\ smokeRow \in [Smokes -> {"unborn", "row", "deleted"}]
  /\ version \in [Smokes -> Nat]
  /\ entries \in [Smokes -> Seq(Keys)]
  /\ audit \subseteq [key : Keys, smoke : Smokes, result : Results, seen : Nat,
                     expected : Nat \union {NoVersion}]
  /\ keyRow \in [Keys -> Results \union {NoResult}]
  /\ answers \subseteq [key : Keys, intent : Intents, result : Results]
  /\ req \in [Requests -> [pc : Stages, key : Keys \union {NoKey}, intent : AnyIntent,
                           expected : Nat \union {NoVersion},
                           smoke : Smokes \union {NoSmoke}, seen : Nat, ordinal : Nat,
                           keys : SUBSET Keys, result : Results \union {NoResult}]]

\* The effects a key has on smokes that exist, read off the audit log.
Effects(k) == {a.result : a \in {b \in audit : b.key = k /\ smokeRow[b.smoke] = "row"}}

\* There is no effect without its key and no key without its effect, whatever
\* calls, repeats, deletes and failures overlap; and a key has one effect only.
EffectIffKey ==
  \A k \in Keys :
    Effects(k) = IF keyRow[k] = NoResult THEN {} ELSE {keyRow[k]}

\* A repeated append never appends twice.
AppendsOnce ==
  \A s \in Smokes : \A m, n \in DOMAIN entries[s] : entries[s][m] = entries[s][n] => m = n

\* An answer is for the call it answers: another intent under the same key is
\* refused, never given this key's result.
AnswersMatchIntent == \A a \in answers : a.result.intent = a.intent

\* What the envelope's promise is about: the effect each key has, the effects
\* keys have had, and the effects clients were told.
Applied == [k \in Keys |-> IF Effects(k) = {} THEN NoResult
                           ELSE CHOOSE e \in Effects(k) : TRUE]
Past == {<<a.key, a.result>> : a \in audit}
Told == {<<a.key, a.result>> : a \in answers}

Once == INSTANCE OnceOnly WITH applied <- Applied, past <- Past, answers <- Told

\* The store keeps the envelope's promise: an intent takes effect at most once
\* under its key, and every answer, first or replayed, is that effect.
EffectsOnceOnly == Once!Spec

\* Not true of the code, which compares the version without a lock: an update that
\* states the version it expects never overwrites another update
\* made from that same version.
NoSilentOverwrite ==
  \A a, b \in audit :
    (a.smoke = b.smoke /\ a.seen = b.seen /\ a.expected # NoVersion) => a = b
=============================================================================
