--------------------------- MODULE Crawler_proofs ---------------------------
(***************************************************************************)
(* The crawler and its queue.  The sweep spares the living and a success is *)
(* final, for every number of lanes, processes, rows, pages and faults; the *)
(* budgets of the queue hold and an answered ask stays answered, for every  *)
(* number of vendors, asks, tiers and budgets.                              *)
(***************************************************************************)
EXTENDS CrawlRuns, EnrichmentQueue, TLAPS

\* A process at work in a lane whose lock nobody lost holds that lock.
LockIsHeld == \A p \in Pods : Alive(p) /\ Lane(p) \notin adrift => lock[Lane(p)] = p

\* Two processes have different rows, if they have any.
RowsApart == \A p, q \in Pods : p # q /\ Row(p) = Row(q) => Row(p) = NoRun

\* What the stage of a process says of its row.
Fits(p) ==
  /\ Row(p) # NoRun <=> pod[p].pc \in {"walk", "close", "failed", "unlock"}
  /\ pod[p].handler # "off" => Row(p) # NoRun
  /\ Row(p) # NoRun => run[Row(p)].status # "none" /\ run[Row(p)].lane = Lane(p)
  /\ pod[p].pc \in {"walk", "close"} => run[Row(p)].status # "succeeded"
  /\ pod[p].pc = "failed" /\ run[Row(p)].status = "succeeded" => Row(p) \in unsure

\* The row of a process at work is open, as SweepSparesTheLiving says of all.
Spared(p) ==
  (pod[p].pc \in {"walk", "close"} /\ pod[p].handler # "exit" /\ Lane(p) \notin adrift)
    => run[Row(p)] = [status |-> "running", lane |-> Lane(p)]

CrawlInv ==
  /\ TypeOK
  /\ LockIsHeld
  /\ RowsApart
  /\ \A p \in Pods : Fits(p)
  /\ SweepSparesTheLiving

\* The constants the first records are made of have their types.
LEMMA ConstantsAreTyped ==
  /\ NoLane \in Lanes
  /\ 0 \in Positions
  /\ Idle \in PodType /\ Blank \in RunType
  /\ [Idle EXCEPT !.pc = "dead"] \in PodType
<1>1. NoLane \in Lanes /\ 0 \in Positions
  BY LanesAssumption, PagesAssumption DEF NoLane, Positions
<1>2. QED
  BY <1>1 DEF Idle, Blank, PodType, RunType, Ends, Stages, Handlers

\* An empty table and no process satisfy the invariant.
LEMMA CrawlInvInit == Init => CrawlInv
<1> SUFFICES ASSUME Init PROVE CrawlInv
  OBVIOUS
<1>1. TypeOK
  BY ConstantsAreTyped, FaultsAssumption DEF Init, TypeOK
<1>2. \A p \in Pods : pod[p] = Idle
  BY DEF Init
<1>3. QED
  BY <1>1, <1>2 DEF CrawlInv, LockIsHeld, RowsApart, Fits, SweepSparesTheLiving, Alive, Lane, Row, Idle

\* A row that is let go was closed and nobody's.
LEMMA LetGoKeeps ==
  ASSUME NEW rows \in [Runs -> RunType], NEW held
  PROVE  /\ LetGo(rows, held) \in [Runs -> RunType]
         /\ \A i \in Runs : i \in held => LetGo(rows, held)[i] = rows[i]
         /\ \A i \in Runs : LetGo(rows, held)[i] \in {rows[i], Blank}
BY ConstantsAreTyped DEF LetGo

\* Every step gives a process a record of its type.
LEMMA MovesAreTyped ==
  ASSUME TypeOK, NEW p \in Pods
  PROVE  /\ pod[p] \in PodType /\ Lane(p) \in Lanes /\ Disarmed(p) \in Handlers
         /\ \A pc \in Stages : [pod[p] EXCEPT !.pc = pc] \in PodType
         /\ \A l \in Lanes : [Idle EXCEPT !.pc = "read", !.lane = l] \in PodType
         /\ [pod[p] EXCEPT !.read = cursor, !.pc = "reclaim"] \in PodType
         /\ \A i \in Runs : [pod[p] EXCEPT !.run = i, !.handler = "armed", !.pc = "walk"] \in PodType
         /\ \A to \in Ends : [pod[p] EXCEPT !.walked = to, !.handler = Disarmed(p), !.pc = "close"] \in PodType
         /\ [pod[p] EXCEPT !.handler = Disarmed(p), !.pc = "failed"] \in PodType
         /\ \A pc \in Stages :
              [pod[p] EXCEPT !.read = Idle.read, !.walked = Idle.walked, !.pc = pc] \in PodType
         /\ \A h \in Handlers : [pod[p] EXCEPT !.handler = h] \in PodType
<1>1. pod[p] \in PodType /\ Lane(p) \in Lanes /\ Disarmed(p) \in Handlers
  BY DEF TypeOK, PodType, Lane, Disarmed, Handlers
<1>2. cursor \in [Lanes -> Positions] /\ Idle \in PodType
  BY ConstantsAreTyped DEF TypeOK
<1>3. QED  BY <1>1, <1>2 DEF PodType, Stages, Handlers

\* Every step keeps the types.
LEMMA TypeStep == CrawlInv /\ [Next]_vars => TypeOK'
<1> SUFFICES ASSUME CrawlInv, [Next]_vars PROVE TypeOK'
  OBVIOUS
<1> USE ConstantsAreTyped
<1>t. TypeOK /\ \A p \in Pods : Fits(p)
  BY DEF CrawlInv
<1>g. ASSUME NEW p \in Pods, NEW x \in PodType, Gone(p, x)
      PROVE  pod' \in [Pods -> PodType] /\ run' \in [Runs -> RunType] /\ unsure' \subseteq Runs
  BY <1>t, <1>g, LetGoKeeps DEF Gone, Become, TypeOK
<1>f. Fault => faults' \in 0 .. MaxFaults
  BY <1>t, FaultsAssumption DEF Fault, TypeOK
<1>e. ASSUME NEW p \in Pods, EndSession(p), faults' \in 0 .. MaxFaults PROVE TypeOK'
  BY <1>t, <1>e, <1>g DEF EndSession, TypeOK
<1>r. ASSUME NEW p \in Pods, pod[p].pc \in {"close", "failed"} PROVE Row(p) \in Runs
  BY <1>t, <1>r DEF Fits, Row, TypeOK, PodType
<1>s. ASSUME NEW p \in Pods, NEW s \in {"succeeded", "failed"}
      PROVE  [run EXCEPT ![Row(p)].status = s] \in [Runs -> RunType]
  BY <1>t DEF TypeOK, RunType
<1>c. ASSUME NEW p \in Pods, Succeed(p)
      PROVE  run' \in [Runs -> RunType] /\ cursor' \in [Lanes -> Positions]
  <2>1. pod[p].walked \in Ends /\ pod[p].read \in [Lanes -> Positions]
    BY <1>t DEF TypeOK, PodType
  <2>2. QED  BY <1>t, <1>s, <1>c, <2>1 DEF Succeed, Merged, Ends, TypeOK
<1>1. ASSUME NEW p \in Pods, NEW l \in Lanes, TryLock(p, l) PROVE TypeOK'
  BY <1>t, <1>1, MovesAreTyped DEF TryLock, Become, TypeOK, history
<1>2. ASSUME NEW p \in Pods, Step(p) PROVE TypeOK'
  <2>1. CASE ReadVendor(p)
    BY <1>t, <2>1, MovesAreTyped DEF ReadVendor, Become, TypeOK, history
  <2>2. CASE Reclaim(p)
    <3>1. [i \in Runs |-> IF i \in Stranded(Lane(p)) THEN [run[i] EXCEPT !.status = "failed"]
                          ELSE run[i]] \in [Runs -> RunType]
      BY <1>t DEF TypeOK, RunType
    <3>2. run' \in [Runs -> RunType]
      BY <2>2, <3>1, LetGoKeeps DEF Reclaim, CloseRows
    <3>3. QED  BY <1>t, <2>2, <3>2, MovesAreTyped DEF Reclaim, Goto, Become, TypeOK, Stages, history
  <2>3. CASE OpenRun(p)
    <3>1. PICK i \in Runs :
            /\ run' = [run EXCEPT ![i] = [status |-> "running", lane |-> Lane(p)]]
            /\ Become(p, [pod[p] EXCEPT !.run = i, !.handler = "armed", !.pc = "walk"])
            /\ UNCHANGED <<cursor, lock, history, faults>>
      BY <2>3 DEF OpenRun, Fresh
    <3>2. [status |-> "running", lane |-> Lane(p)] \in RunType
      BY <1>t DEF TypeOK, PodType, RunType, Lane
    <3>3. run' \in [Runs -> RunType]
      BY <1>t, <3>1, <3>2 DEF TypeOK
    <3>4. pod' \in [Pods -> PodType]
      BY <1>t, <3>1, MovesAreTyped DEF Become, TypeOK
    <3>5. QED  BY <1>t, <3>1, <3>3, <3>4 DEF TypeOK, history
  <2>4. ASSUME NEW to \in Ends, Walk(p, to) PROVE TypeOK'
    BY <1>t, <2>4, MovesAreTyped DEF Walk, Become, TypeOK, history
  <2>5. CASE CloseSucceeded(p)
    BY <1>t, <1>c, <2>5, MovesAreTyped DEF CloseSucceeded, Closed, Become, Stages, TypeOK
  <2>9. CASE CloseFailed(p)
    BY <1>t, <1>s, <2>9, MovesAreTyped DEF CloseFailed, Goto, Become, Stages, TypeOK, history
  <2>6. CASE Unlock(p) \/ Exit(p) \/ Reap(p)
    BY <1>t, <1>e, <2>6 DEF Unlock, Exit, Reap, TypeOK
  <2>7. CASE MarkTerminated(p)
    <3>1. run' \in [Runs -> RunType]
      BY <1>t, <2>7 DEF MarkTerminated, TypeOK, RunType
    <3>2. QED  BY <1>t, <2>7, <3>1, MovesAreTyped DEF MarkTerminated, Become, Handlers, TypeOK, history
  <2>8. QED  BY <1>2, <2>1, <2>2, <2>3, <2>4, <2>5, <2>6, <2>7, <2>9 DEF Step
<1>3. ASSUME NEW p \in Pods, Breaks(p) PROVE TypeOK'
  <2>1. CASE WalkFails(p)
    BY <1>t, <1>f, <2>1, MovesAreTyped DEF WalkFails, Become, TypeOK, history
  <2>8. CASE Signal(p)
    BY <1>t, <1>f, <2>8, MovesAreTyped DEF Signal, Become, Handlers, TypeOK, history
  <2>2. CASE CloseUnanswered(p)
    <3>1. unsure' \subseteq Runs
      BY <1>t, <1>r, <2>2 DEF CloseUnanswered, Succeed, At, TypeOK
    <3>2. QED  BY <1>t, <1>c, <1>f, <2>2, <3>1, MovesAreTyped
      DEF CloseUnanswered, Closed, Become, Stages, TypeOK
  <2>3. CASE CloseFails(p)
    BY <1>t, <1>f, <2>3, MovesAreTyped DEF CloseFails, Closed, Become, Stages, TypeOK, history
  <2>4. CASE Abort(p)
    BY <1>e, <1>f, <2>4 DEF Abort
  <2>5. CASE Die(p)
    BY <1>t, <1>f, <1>g, <2>5 DEF Die, TypeOK
  <2>6. CASE LoseLock(p)
    BY <1>t, <1>f, <2>6, MovesAreTyped DEF LoseLock, TypeOK
  <2>7. QED  BY <1>3, <2>1, <2>2, <2>3, <2>4, <2>5, <2>6, <2>8 DEF Breaks
<1>4. CASE UNCHANGED vars
  BY <1>t, <1>4 DEF TypeOK, vars
<1>5. QED  BY <1>1, <1>2, <1>3, <1>4 DEF Next

-----------------------------------------------------------------------------
\* What a step of one process may do to the others: it leaves their rows alone, or closes
\* the row of one whose lane is adrift; and it takes no lock that is held.
LEMMA OneMoves ==
  ASSUME CrawlInv, TypeOK', NEW p \in Pods, NEW x \in PodType, Become(p, x),
         adrift \subseteq adrift',
         \A q \in Pods \ {p} : Row(q) # NoRun =>
           /\ \/ run'[Row(q)] = run[Row(q)]
              \/ Lane(q) \in adrift /\ run'[Row(q)] = [run[Row(q)] EXCEPT !.status = "failed"]
           /\ Row(q) \in unsure => Row(q) \in unsure',
         x.run \in {NoRun, Row(p)} \/ \A q \in Pods : Row(q) # x.run,
         \A q \in Pods \ {p} : Lane(q) \notin adrift' /\ lock[Lane(q)] = q => lock'[Lane(q)] = q,
         x.pc \notin {"idle", "dead"} /\ x.lane \notin adrift' => lock'[x.lane] = p,
         Fits(p)', Spared(p)'
  PROVE  CrawlInv'
<1>1. pod'[p] = x /\ \A q \in Pods \ {p} : pod'[q] = pod[q]
  BY DEF CrawlInv, TypeOK, Become
<1>2. LockIsHeld'
  BY <1>1 DEF CrawlInv, LockIsHeld, Alive, Lane
<1>3. RowsApart'
  BY <1>1 DEF CrawlInv, RowsApart, Row
<1>4. ASSUME NEW q \in Pods \ {p} PROVE Fits(q)' /\ Spared(q)'
  <2>1. Fits(q) /\ Spared(q) /\ pod'[q] = pod[q]
    BY <1>1 DEF CrawlInv, SweepSparesTheLiving, Spared
  <2>2. Row(q) # NoRun => Row(q) \in Runs
    BY DEF CrawlInv, TypeOK, PodType, Row
  <2>3. Row(q) # NoRun => run[Row(q)] \in RunType
    BY <2>2 DEF CrawlInv, TypeOK
  <2>4. ASSUME Row(q) # NoRun
        PROVE  /\ run'[Row(q)].lane = run[Row(q)].lane
               /\ run'[Row(q)].status \in {run[Row(q)].status, "failed"}
               /\ Lane(q) \notin adrift => run'[Row(q)] = run[Row(q)]
    BY <2>3, <2>4 DEF RunType
  <2>5. Fits(q)'
    BY <2>1, <2>4 DEF Fits, Row, Lane
  <2>6. Spared(q)'
    BY <2>1, <2>4 DEF Fits, Spared, Row, Lane
  <2>7. QED  BY <2>5, <2>6
<1>5. QED
  BY <1>2, <1>3, <1>4 DEF CrawlInv, SweepSparesTheLiving, Spared

\* Rows that a living process holds are not the row another one writes.
LEMMA OthersRows ==
  ASSUME CrawlInv, NEW p \in Pods, NEW q \in Pods \ {p}, Row(q) # NoRun
  PROVE  Row(q) # Row(p) /\ Row(q) \in Runs
BY DEF CrawlInv, RowsApart, TypeOK, PodType, Row

\* A process that works on in its stage or the next holds what it held.
LEMMA OneWorks ==
  ASSUME CrawlInv, TypeOK', NEW p \in Pods, NEW x \in PodType, Become(p, x), Alive(p),
         adrift' = adrift, lock' = lock, unsure \subseteq unsure',
         x.lane = Lane(p), x.run = Row(p),
         \A i \in Runs : i # Row(p) => run'[i] = run[i],
         Fits(p)', Spared(p)'
  PROVE  CrawlInv'
<1>1. \A q \in Pods \ {p} : Row(q) # NoRun => run'[Row(q)] = run[Row(q)]
  BY OthersRows
<1>2. x.lane \notin adrift => lock[x.lane] = p
  BY DEF CrawlInv, LockIsHeld
<1>3. \A q \in Pods \ {p} : Row(q) \in unsure => Row(q) \in unsure'
  OBVIOUS
<1>4. QED  BY <1>1, <1>2, <1>3, OneMoves

\* A process that goes away takes nothing from the others.
LEMMA OneLeaves ==
  ASSUME CrawlInv, TypeOK', NEW p \in Pods, NEW x \in {Idle, [Idle EXCEPT !.pc = "dead"]},
         Gone(p, x), adrift' = adrift,
         \A q \in Pods \ {p} : lock[Lane(q)] = q => lock'[Lane(q)] = q
  PROVE  CrawlInv'
<1>1. x \in PodType /\ x.run = NoRun /\ x.pc \in {"idle", "dead"} /\ x.handler = "off"
  BY ConstantsAreTyped DEF Idle
<1>2. pod'[p] = x
  BY DEF Gone, Become, CrawlInv, TypeOK
<1>3. Fits(p)' /\ Spared(p)'
  BY <1>1, <1>2 DEF Fits, Spared, Row
<1>4. ASSUME NEW q \in Pods \ {p}, Row(q) # NoRun
      PROVE  run'[Row(q)] = run[Row(q)] /\ (Row(q) \in unsure => Row(q) \in unsure')
  BY <1>4, OthersRows, LetGoKeeps DEF Gone, CrawlInv, TypeOK
<1>5. Become(p, x)
  BY DEF Gone
<1>6. QED  BY <1>1, <1>3, <1>4, <1>5, OneMoves

\* A session that ends gives up its own locks.
LEMMA SessionEnds ==
  ASSUME CrawlInv, TypeOK', NEW p \in Pods, EndSession(p)
  PROVE  CrawlInv'
<1>1. \A q \in Pods \ {p} : lock[Lane(q)] = q => lock'[Lane(q)] = q
  BY DEF EndSession, CrawlInv, TypeOK, PodType, Lane
<1>2. QED  BY <1>1, OneLeaves DEF EndSession

-----------------------------------------------------------------------------
\* What the invariant says of the process that takes a step, in one place.
LEMMA Acting ==
  ASSUME CrawlInv, NEW p \in Pods
  PROVE  /\ TypeOK /\ Fits(p) /\ Spared(p)
         /\ pod[p] \in PodType
         /\ Row(p) # NoRun => Row(p) \in Runs /\ run[Row(p)] \in RunType
         /\ \A x : Become(p, x) => pod'[p] = x
BY DEF CrawlInv, SweepSparesTheLiving, Spared, TypeOK, PodType, Row, Become

\* Starting, reading and sweeping.
LEMMA EntryKeeps ==
  ASSUME CrawlInv, TypeOK', NEW p \in Pods,
         (\E l \in Lanes : TryLock(p, l)) \/ ReadVendor(p) \/ Reclaim(p)
  PROVE  CrawlInv'
<1>a. TypeOK /\ Fits(p) /\ pod[p] \in PodType /\ \A x : Become(p, x) => pod'[p] = x
  BY Acting
<1>1. ASSUME NEW l \in Lanes, TryLock(p, l) PROVE CrawlInv'
  <2>1. PICK x : x = [Idle EXCEPT !.pc = "read", !.lane = l]
    OBVIOUS
  <2>2. x \in PodType /\ x.pc = "read" /\ x.lane = l /\ x.run = NoRun /\ x.handler = "off"
    BY <1>a, <2>1, MovesAreTyped, ConstantsAreTyped DEF Idle
  <2>3. Become(p, x) /\ pod'[p] = x
    BY <1>1, <1>a, <2>1 DEF TryLock
  <2>4. Fits(p)' /\ Spared(p)'
    BY <2>2, <2>3 DEF Fits, Spared, Row
  <2>5. \A q \in Pods : lock[Lane(q)] = q => Lane(q) # l
    BY <1>1, SentinelAssumption DEF TryLock
  <2>6. lock'[l] = p /\ \A q \in Pods : lock[Lane(q)] = q => lock'[Lane(q)] = q
    <3>1. lock' = [lock EXCEPT ![l] = p] /\ lock \in [Lanes -> Pods \union {NoPod}]
      BY <1>1, <1>a DEF TryLock, TypeOK
    <3>2. \A q \in Pods : Lane(q) \in Lanes
      BY <1>a DEF TypeOK, PodType, Lane
    <3>3. QED  BY <2>5, <3>1, <3>2
  <2>7. adrift' = adrift /\ run' = run /\ unsure' = unsure
    BY <1>1 DEF TryLock, history
  <2>8. QED  BY <2>2, <2>3, <2>4, <2>6, <2>7, OneMoves
<1>2. CASE ReadVendor(p)
  <2>1. PICK x : x = [pod[p] EXCEPT !.read = cursor, !.pc = "reclaim"]
    OBVIOUS
  <2>2. /\ x \in PodType /\ x.pc = "reclaim" /\ x.lane = Lane(p) /\ x.run = Row(p)
        /\ x.handler = pod[p].handler
    <3>1. x \in PodType
      BY <1>a, <2>1, MovesAreTyped
    <3>2. QED  BY <1>a, <2>1, <3>1 DEF PodType, Lane, Row
  <2>3. Become(p, x) /\ pod'[p] = x /\ Alive(p) /\ pod[p].pc = "read"
    BY <1>2, <1>a, <2>1 DEF ReadVendor, At, Alive
  <2>4. Fits(p)' /\ Spared(p)'
    BY <1>a, <2>2, <2>3 DEF Fits, Spared, Row
  <2>5. UNCHANGED <<run, lock, adrift, unsure>>
    BY <1>2 DEF ReadVendor, history
  <2>6. QED  BY <2>2, <2>3, <2>4, <2>5, OneWorks
<1>3. CASE Reclaim(p)
  <2>1. PICK x : x = [pod[p] EXCEPT !.pc = "open"]
    OBVIOUS
  <2>2. /\ x \in PodType /\ x.pc = "open" /\ x.lane = Lane(p) /\ x.run = Row(p)
        /\ x.handler = pod[p].handler
    <3>1. "open" \in Stages
      BY DEF Stages
    <3>2. x \in PodType
      BY <1>a, <2>1, <3>1, MovesAreTyped
    <3>3. QED  BY <1>a, <2>1, <3>2 DEF PodType, Lane, Row
  <2>3. Become(p, x) /\ pod'[p] = x /\ Alive(p) /\ pod[p].pc = "reclaim"
    BY <1>3, <1>a, <2>1 DEF Reclaim, Goto, At, Alive
  <2>4. Fits(p)' /\ Spared(p)' /\ Row(p) = NoRun
    BY <1>a, <2>2, <2>3 DEF Fits, Spared, Row
  <2>5. UNCHANGED <<lock, adrift, unsure>>
    BY <1>3 DEF Reclaim, history
  <2>6. ASSUME NEW q \in Pods \ {p}, Row(q) # NoRun
        PROVE  \/ run'[Row(q)] = run[Row(q)]
               \/ Lane(q) \in adrift /\ run'[Row(q)] = [run[Row(q)] EXCEPT !.status = "failed"]
    <3>1. PICK rows : rows = [i \in Runs |-> IF i \in Stranded(Lane(p))
                                             THEN [run[i] EXCEPT !.status = "failed"] ELSE run[i]]
      OBVIOUS
    <3>2. rows \in [Runs -> RunType]
      BY <1>a, <3>1 DEF TypeOK, RunType
    <3>3. run'[Row(q)] = rows[Row(q)] /\ Row(q) \in Runs
      <4>1. Row(q) \in Runs
        BY <2>6, OthersRows
      <4>2. run' = LetGo(rows, {Row(r) : r \in Pods})
        BY <1>3, <3>1 DEF Reclaim, CloseRows
      <4>3. Row(q) \in {Row(r) : r \in Pods}
        OBVIOUS
      <4>4. QED  BY <3>2, <4>1, <4>2, <4>3, LetGoKeeps
    <3>4. CASE Row(q) \notin Stranded(Lane(p))
      BY <3>1, <3>3, <3>4
    <3>5. CASE Row(q) \in Stranded(Lane(p))
      <4>1. Lane(q) = Lane(p)
        BY <2>6, <3>5 DEF Stranded, CrawlInv, Fits
      <4>2. Alive(q)
        BY <2>6 DEF CrawlInv, Fits, Alive
      <4>3. Lane(q) \in adrift
        BY <2>3, <4>1, <4>2 DEF CrawlInv, LockIsHeld
      <4>4. QED  BY <3>1, <3>3, <3>5, <4>3
    <3>6. QED  BY <3>4, <3>5
  <2>7. x.lane \notin adrift => lock[x.lane] = p
    BY <2>2, <2>3 DEF CrawlInv, LockIsHeld
  <2>8. QED  BY <2>2, <2>3, <2>4, <2>5, <2>6, <2>7, OneMoves
<1>4. QED  BY <1>1, <1>2, <1>3

\* A run opens a row that no process has.
LEMMA OpenKeeps ==
  ASSUME CrawlInv, TypeOK', NEW p \in Pods, OpenRun(p)
  PROVE  CrawlInv'
<1>a. TypeOK /\ Fits(p) /\ pod[p] \in PodType /\ \A x : Become(p, x) => pod'[p] = x
  BY Acting
<1>1. PICK i \in Runs :
        /\ run[i].status = "none"
        /\ run' = [run EXCEPT ![i] = [status |-> "running", lane |-> Lane(p)]]
        /\ Become(p, [pod[p] EXCEPT !.run = i, !.handler = "armed", !.pc = "walk"])
        /\ UNCHANGED <<cursor, lock, history, faults>>
  BY DEF OpenRun, Fresh
<1>2. PICK x : x = [pod[p] EXCEPT !.run = i, !.handler = "armed", !.pc = "walk"]
  OBVIOUS
<1>3. x \in PodType /\ x.pc = "walk" /\ x.lane = Lane(p) /\ x.run = i /\ x.handler = "armed"
  <2>1. x \in PodType
    BY <1>a, <1>2, MovesAreTyped
  <2>2. QED  BY <1>a, <1>2, <2>1 DEF PodType, Lane
<1>4. Become(p, x) /\ pod'[p] = x /\ i # NoRun
  BY <1>1, <1>2, <1>a, SentinelAssumption
<1>5. run'[i] = [status |-> "running", lane |-> Lane(p)]
  BY <1>a, <1>1 DEF TypeOK
<1>6. Fits(p)' /\ Spared(p)'
  BY <1>3, <1>4, <1>5 DEF Fits, Spared, Row, Lane
<1>7. \A q \in Pods : Row(q) # i
  BY <1>1, <1>4 DEF CrawlInv, Fits
<1>8. \A q \in Pods \ {p} : Row(q) # NoRun => run'[Row(q)] = run[Row(q)]
  BY <1>a, <1>1, <1>7, OthersRows DEF TypeOK
<1>9. lock' = lock /\ adrift' = adrift /\ unsure' = unsure
  BY <1>1 DEF history
<1>10. x.lane \notin adrift => lock[x.lane] = p
  BY <1>3 DEF CrawlInv, LockIsHeld, OpenRun, At, Alive
<1>11. QED  BY <1>3, <1>4, <1>6, <1>7, <1>8, <1>9, <1>10, OneMoves

\* Walking, failing and the signal leave the rows as they are.
LEMMA WalkKeeps ==
  ASSUME CrawlInv, TypeOK', NEW p \in Pods,
         (\E to \in Ends : Walk(p, to)) \/ WalkFails(p) \/ Signal(p)
  PROVE  CrawlInv'
<1>a. TypeOK /\ Fits(p) /\ Spared(p) /\ pod[p] \in PodType /\ \A x : Become(p, x) => pod'[p] = x
  BY Acting
<1>d. /\ Disarmed(p) # "exit" => pod[p].handler # "exit"
      /\ Disarmed(p) # "off" => pod[p].handler # "off"
  BY DEF Disarmed
<1>u. UNCHANGED <<run, lock, adrift, unsure>> /\ Alive(p)
  BY DEF Walk, WalkFails, Signal, history, At, Alive
<1>1. PICK x : /\ Become(p, x)
               /\ \/ x = [pod[p] EXCEPT !.handler = Disarmed(p), !.pc = "failed"] /\ At(p, "walk")
                  \/ /\ x = [pod[p] EXCEPT !.handler = "marking"]
                     /\ pod[p].handler = "armed"
                  \/ /\ \E to \in Ends :
                          x = [pod[p] EXCEPT !.walked = to, !.handler = Disarmed(p), !.pc = "close"]
                     /\ At(p, "walk")
  BY DEF Walk, WalkFails, Signal
<1>2. x \in PodType
  <2>1. "marking" \in Handlers
    BY DEF Handlers
  <2>2. [pod[p] EXCEPT !.handler = "marking"] \in PodType
    BY <1>a, <2>1, MovesAreTyped
  <2>3. [pod[p] EXCEPT !.handler = Disarmed(p), !.pc = "failed"] \in PodType
    BY <1>a, MovesAreTyped
  <2>4. \A to \in Ends :
          [pod[p] EXCEPT !.walked = to, !.handler = Disarmed(p), !.pc = "close"] \in PodType
    BY <1>a, MovesAreTyped
  <2>5. QED  BY <1>1, <2>2, <2>3, <2>4
<1>3. /\ x.lane = Lane(p) /\ x.run = Row(p)
      /\ x.handler # "exit" => pod[p].handler # "exit"
      /\ x.handler # "off" => pod[p].handler # "off"
      /\ \/ x.pc = pod[p].pc
         \/ pod[p].pc = "walk" /\ x.pc \in {"close", "failed"}
  BY <1>a, <1>d, <1>1 DEF PodType, Lane, Row, At
<1>4. pod'[p] = x
  BY <1>1, <1>a
<1>5. Fits(p)'
  BY <1>a, <1>u, <1>3, <1>4 DEF Fits, Row, Lane
<1>6. Spared(p)'
  BY <1>a, <1>u, <1>3, <1>4 DEF Spared, Row, Lane
<1>7. QED  BY <1>1, <1>2, <1>3, <1>5, <1>6, <1>u, OneWorks

\* A close writes the row of its own process.
LEMMA CloseKeeps ==
  ASSUME CrawlInv, TypeOK', NEW p \in Pods,
         CloseSucceeded(p) \/ CloseUnanswered(p) \/ CloseFails(p) \/ CloseFailed(p)
  PROVE  CrawlInv'
<1>a. /\ TypeOK /\ Fits(p) /\ pod[p] \in PodType /\ \A x : Become(p, x) => pod'[p] = x
      /\ Row(p) # NoRun => Row(p) \in Runs /\ run[Row(p)] \in RunType
  BY Acting
<1>b. Alive(p) /\ Row(p) \in Runs /\ pod[p].pc \in {"close", "failed"}
  BY <1>a DEF CloseSucceeded, CloseUnanswered, CloseFails, CloseFailed, Succeed, At, Alive, Fits
<1>1. PICK x : /\ Become(p, x)
               /\ \/ /\ x = [pod[p] EXCEPT !.read = Idle.read, !.walked = Idle.walked, !.pc = "failed"]
                     /\ pod[p].pc = "close"
                     /\ \/ run' = run /\ unsure' = unsure
                        \/ /\ run' = [run EXCEPT ![Row(p)].status = "succeeded"]
                           /\ unsure' = unsure \union {Row(p)}
                  \/ /\ \/ x = [pod[p] EXCEPT !.read = Idle.read, !.walked = Idle.walked, !.pc = "unlock"]
                        \/ x = [pod[p] EXCEPT !.pc = "unlock"]
                     /\ \/ run' = [run EXCEPT ![Row(p)].status = "succeeded"]
                        \/ run' = [run EXCEPT ![Row(p)].status = "failed"]
                     /\ unsure' = unsure
  BY DEF CloseSucceeded, CloseUnanswered, CloseFails, CloseFailed, Succeed, Closed, Goto, At, history
<1>2. adrift' = adrift /\ lock' = lock
  BY DEF CloseSucceeded, CloseUnanswered, CloseFails, CloseFailed, history
<1>3. x \in PodType
  <2>1. {"failed", "unlock"} \subseteq Stages
    BY DEF Stages
  <2>2. \A pc \in {"failed", "unlock"} :
          /\ [pod[p] EXCEPT !.pc = pc] \in PodType
          /\ [pod[p] EXCEPT !.read = Idle.read, !.walked = Idle.walked, !.pc = pc] \in PodType
    BY <1>a, <2>1, MovesAreTyped
  <2>3. QED  BY <1>1, <2>2
<1>4. /\ x.lane = Lane(p) /\ x.run = Row(p) /\ x.handler = pod[p].handler
      /\ x.pc \in {"failed", "unlock"}
  BY <1>a, <1>1 DEF PodType, Lane, Row
<1>5. \A i \in Runs : i # Row(p) => run'[i] = run[i]
  BY <1>a, <1>1 DEF TypeOK
<1>6. /\ run'[Row(p)].lane = run[Row(p)].lane
      /\ run'[Row(p)].status \in {run[Row(p)].status, "succeeded", "failed"}
      /\ x.pc = "failed" =>
           (pod[p].pc = "close" /\ run'[Row(p)].status = run[Row(p)].status) \/ Row(p) \in unsure'
  <2>1. /\ run \in [Runs -> RunType] /\ run[Row(p)] \in RunType
        /\ run' = run \/ \E s \in {"succeeded", "failed"} : run' = [run EXCEPT ![Row(p)].status = s]
    BY <1>a, <1>b, <1>1 DEF TypeOK
  <2>2. /\ run'[Row(p)].lane = run[Row(p)].lane
        /\ run'[Row(p)].status \in {run[Row(p)].status, "succeeded", "failed"}
    BY <1>b, <2>1 DEF RunType
  <2>3. x.pc = "failed" => pod[p].pc = "close" /\ (run' = run \/ Row(p) \in unsure')
    BY <1>a, <1>1 DEF PodType
  <2>4. QED  BY <2>2, <2>3
<1>7. pod'[p] = x /\ Row(p) # NoRun
  BY <1>1, <1>a, <1>b, SentinelAssumption
<1>8. Fits(p)'
  BY <1>a, <1>b, <1>4, <1>6, <1>7 DEF Fits, Row, Lane
<1>9. Spared(p)'
  BY <1>4, <1>7 DEF Spared
<1>10. unsure \subseteq unsure'
  BY <1>1
<1>11. QED  BY <1>b, <1>1, <1>2, <1>3, <1>4, <1>5, <1>8, <1>9, <1>10, OneWorks

\* The handler writes the row of its own process.
LEMMA MarkKeeps ==
  ASSUME CrawlInv, TypeOK', NEW p \in Pods, MarkTerminated(p)
  PROVE  CrawlInv'
<1>a. /\ TypeOK /\ Fits(p) /\ pod[p] \in PodType /\ \A x : Become(p, x) => pod'[p] = x
      /\ Row(p) # NoRun => Row(p) \in Runs /\ run[Row(p)] \in RunType
  BY Acting
<1>1. PICK x : x = [pod[p] EXCEPT !.handler = "exit"]
  OBVIOUS
<1>2. /\ x \in PodType /\ x.lane = Lane(p) /\ x.run = Row(p) /\ x.handler = "exit"
      /\ x.pc = pod[p].pc
  <2>1. "exit" \in Handlers
    BY DEF Handlers
  <2>2. x \in PodType
    BY <1>a, <1>1, <2>1, MovesAreTyped
  <2>3. QED  BY <1>a, <1>1, <2>2 DEF PodType, Lane, Row
<1>3. Become(p, x) /\ pod'[p] = x /\ Row(p) \in Runs /\ Row(p) # NoRun
  BY <1>1, <1>a, SentinelAssumption DEF MarkTerminated, Fits
<1>4. \A i \in Runs : i # Row(p) => run'[i] = run[i]
  BY <1>a DEF MarkTerminated, TypeOK
<1>5. run'[Row(p)].lane = run[Row(p)].lane
  BY <1>a, <1>3 DEF MarkTerminated, TypeOK, RunType
<1>6. run'[Row(p)].status \in {run[Row(p)].status, "failed"}
  BY <1>a, <1>3 DEF MarkTerminated, TypeOK, RunType
<1>7. UNCHANGED <<lock, adrift, unsure>> /\ Alive(p)
  BY DEF MarkTerminated, history
<1>8. Fits(p)' /\ Spared(p)'
  BY <1>a, <1>2, <1>3, <1>5, <1>6, <1>7 DEF Fits, Spared, Row, Lane
<1>9. QED  BY <1>2, <1>3, <1>4, <1>7, <1>8, OneWorks

\* A lost connection sets the lane adrift and moves no process.
LEMMA LoseLockKeeps ==
  ASSUME CrawlInv, TypeOK', NEW p \in Pods, LoseLock(p)
  PROVE  CrawlInv'
<1>1. TypeOK /\ Fits(p) /\ Spared(p) /\ pod[p] \in PodType
  BY Acting
<1>2. Become(p, pod[p])
  BY <1>1 DEF LoseLock, Become, TypeOK
<1>3. /\ UNCHANGED <<run, pod, unsure>> /\ adrift' = adrift \union {Lane(p)}
      /\ lock' = [lock EXCEPT ![Lane(p)] = NoPod]
  BY DEF LoseLock
<1>4. Fits(p)' /\ Spared(p)'
  BY <1>1, <1>3 DEF Fits, Spared, Row, Lane
<1>5. \A q \in Pods \ {p} : Lane(q) \notin adrift' /\ lock[Lane(q)] = q => lock'[Lane(q)] = q
  BY <1>1, <1>3 DEF TypeOK
<1>6. pod[p].lane \in adrift' /\ pod[p].run = Row(p)
  BY <1>3 DEF Lane, Row
<1>7. QED  BY <1>1, <1>2, <1>3, <1>4, <1>5, <1>6, OneMoves

\* Every step keeps the invariant.
LEMMA CrawlInvStep == CrawlInv /\ [Next]_vars => CrawlInv'
<1> SUFFICES ASSUME CrawlInv, [Next]_vars PROVE CrawlInv'
  OBVIOUS
<1>t. TypeOK'
  BY TypeStep
<1>1. ASSUME NEW p \in Pods, NEW l \in Lanes, TryLock(p, l) PROVE CrawlInv'
  BY <1>t, <1>1, EntryKeeps
<1>2. ASSUME NEW p \in Pods, Step(p) PROVE CrawlInv'
  <2>1. CASE ReadVendor(p) \/ Reclaim(p)
    BY <1>t, <2>1, EntryKeeps
  <2>2. CASE OpenRun(p)
    BY <1>t, <2>2, OpenKeeps
  <2>3. CASE \E to \in Ends : Walk(p, to)
    BY <1>t, <2>3, WalkKeeps
  <2>4. CASE CloseSucceeded(p) \/ CloseFailed(p)
    BY <1>t, <2>4, CloseKeeps
  <2>5. CASE Unlock(p) \/ Exit(p) \/ Reap(p)
    BY <1>t, <2>5, SessionEnds DEF Unlock, Exit, Reap
  <2>6. CASE MarkTerminated(p)
    BY <1>t, <2>6, MarkKeeps
  <2>7. QED  BY <1>2, <2>1, <2>2, <2>3, <2>4, <2>5, <2>6 DEF Step
<1>3. ASSUME NEW p \in Pods, Breaks(p) PROVE CrawlInv'
  <2>1. CASE WalkFails(p) \/ Signal(p)
    BY <1>t, <2>1, WalkKeeps
  <2>2. CASE CloseUnanswered(p) \/ CloseFails(p)
    BY <1>t, <2>2, CloseKeeps
  <2>3. CASE Abort(p)
    BY <1>t, <2>3, SessionEnds DEF Abort
  <2>4. CASE Die(p)
    BY <1>t, <2>4, OneLeaves DEF Die
  <2>5. CASE LoseLock(p)
    BY <1>t, <2>5, LoseLockKeeps
  <2>6. QED  BY <1>3, <2>1, <2>2, <2>3, <2>4, <2>5 DEF Breaks
<1>4. CASE UNCHANGED vars
  BY <1>4 DEF CrawlInv, TypeOK, LockIsHeld, RowsApart, Fits, SweepSparesTheLiving,
    Alive, Lane, Row, vars
<1>5. QED  BY <1>1, <1>2, <1>3, <1>4 DEF Next

\* A success that nobody doubts stays: only open rows are swept or marked, and a row is
\* closed as failed by a process whose own close was not acknowledged.
LEMMA SuccessStep ==
  ASSUME CrawlInv, [Next]_vars, NEW i \in Runs, i \notin unsure, run[i].status = "succeeded"
  PROVE  run'[i].status # "failed"
<1>a. TypeOK
  BY DEF CrawlInv
<1>1. \A held : \A rows \in [Runs -> RunType] : rows[i] = run[i] => LetGo(rows, held)[i] \in {run[i], Blank}
  BY LetGoKeeps
<1>2. ASSUME NEW p \in Pods, NEW x, Gone(p, x) PROVE run'[i].status # "failed"
  BY <1>1, <1>2, <1>a DEF Gone, TypeOK, Blank
<1>3. ASSUME NEW p \in Pods, Reclaim(p) PROVE run'[i].status # "failed"
  <2>1. PICK rows : rows = [j \in Runs |-> IF j \in Stranded(Lane(p))
                                           THEN [run[j] EXCEPT !.status = "failed"] ELSE run[j]]
    OBVIOUS
  <2>2. rows \in [Runs -> RunType]
    BY <1>a, <2>1 DEF TypeOK, RunType
  <2>3. rows[i] = run[i]
    BY <2>1 DEF Stranded
  <2>4. run' = LetGo(rows, {Row(q) : q \in Pods})
    BY <1>3, <2>1 DEF Reclaim, CloseRows
  <2>5. QED  BY <1>1, <2>2, <2>3, <2>4 DEF Blank
<1>4. ASSUME NEW p \in Pods, OpenRun(p) PROVE run'[i].status # "failed"
  BY <1>4, <1>a DEF OpenRun, Fresh, TypeOK
<1>5. ASSUME NEW p \in Pods, Succeed(p) PROVE run'[i].status # "failed"
  BY <1>5, <1>a DEF Succeed, TypeOK, RunType
<1>6. ASSUME NEW p \in Pods, CloseFailed(p) PROVE run'[i].status # "failed"
  <2>1. Row(p) # i
    BY <1>6 DEF CloseFailed, At, CrawlInv, Fits
  <2>2. QED  BY <1>6, <1>a, <2>1 DEF CloseFailed, TypeOK
<1>7. ASSUME NEW p \in Pods, MarkTerminated(p) PROVE run'[i].status # "failed"
  BY <1>7, <1>a DEF MarkTerminated, TypeOK, RunType
<1>8. run' = run => run'[i].status # "failed"
  OBVIOUS
<1>9. ASSUME NEW p \in Pods, Step(p) \/ Breaks(p) PROVE run'[i].status # "failed"
  <2>1. CASE \/ \E to \in Ends : Walk(p, to)
             \/ ReadVendor(p) \/ WalkFails(p) \/ CloseFails(p) \/ Signal(p) \/ LoseLock(p)
    BY <1>8, <2>1 DEF ReadVendor, Walk, WalkFails, CloseFails, Signal, LoseLock
  <2>2. CASE Unlock(p) \/ Exit(p) \/ Reap(p) \/ Abort(p) \/ Die(p)
    BY <1>2, <2>2 DEF Unlock, Exit, Reap, Abort, Die, EndSession
  <2>3. CASE CloseSucceeded(p) \/ CloseUnanswered(p)
    BY <1>5, <2>3 DEF CloseSucceeded, CloseUnanswered
  <2>4. QED  BY <1>3, <1>4, <1>6, <1>7, <1>9, <2>1, <2>2, <2>3 DEF Step, Breaks
<1>10. QED
  BY <1>8, <1>9 DEF Next, TryLock, vars

-----------------------------------------------------------------------------
\* The invariant holds in every state.
THEOREM CrawlInvHolds == Spec => []CrawlInv
BY CrawlInvInit, CrawlInvStep, PTL DEF Spec

\* Every variable keeps its type.
THEOREM TypeCorrect == Spec => []TypeOK
<1>1. CrawlInv => TypeOK
  BY DEF CrawlInv
<1>2. QED  BY <1>1, CrawlInvHolds, PTL

\* The sweep closes no row of a run at work, for any number of processes and lanes.
THEOREM SweepIsExact == Spec => []SweepSparesTheLiving
<1>1. CrawlInv => SweepSparesTheLiving
  BY DEF CrawlInv
<1>2. QED  BY <1>1, CrawlInvHolds, PTL

\* A success stays on the record, for any number of processes, signals and sweeps.
THEOREM SuccessStays == Spec => SuccessIsFinal
<1>1. CrawlInv /\ [Next]_vars =>
        [\A i \in Runs : i \notin unsure /\ run[i].status = "succeeded" => run'[i].status # "failed"]_vars
  BY SuccessStep
<1>2. QED  BY <1>1, CrawlInvHolds, PTL DEF Spec, SuccessIsFinal

-----------------------------------------------------------------------------
(* The queue the enrich lanes work on: its budgets and its answers.           *)

DrainType == [pc : {"idle", "select", "drain"}, todo : SUBSET Asks,
              before : SUBSET Asks, market : Markets]

\* What a run has still to look for it has looks left for: nobody else spends them.
HasLooks ==
  \A v \in Vendors, a \in Asks : a \in drain[v].todo => ~Retired(ledger[a][v])

\* An ask that two runs never held at once is in one run's hands, and not answered.
HeldOnce ==
  \A a \in Asks \ lapped :
    /\ \A u, v \in Vendors : a \in drain[u].todo /\ a \in drain[v].todo => u = v
    /\ \A v \in Vendors : a \in drain[v].todo => status[a] # "fulfilled"

QueueInv == QueueTypeOK /\ HasLooks /\ HeldOnce

\* The records the queue begins with have their types.
LEMMA RecordsAreTyped == NoDrain \in DrainType /\ NoRow \in RowType
BY BudgetAssumption DEF NoDrain, DrainType, Markets, NoRow, RowType, Outcomes

\* TypeOK in terms of those types.
LEMMA TypesAre ==
  QueueTypeOK => /\ status \in [Asks -> {"none", "pending", "exhausted", "fulfilled"}]
            /\ ledger \in [Asks -> [Vendors -> RowType]]
            /\ drain \in [Vendors -> DrainType]
BY DEF QueueTypeOK, DrainType

\* An empty queue satisfies the invariant.
LEMMA QueueInvInit == QueueInit => QueueInv
<1> SUFFICES ASSUME QueueInit PROVE QueueInv
  OBVIOUS
<1>1. drain \in [Vendors -> DrainType] /\ ledger \in [Asks -> [Vendors -> RowType]]
  BY RecordsAreTyped DEF QueueInit
<1>2. QueueTypeOK
  BY <1>1, BoundAssumption DEF QueueInit, QueueTypeOK, DrainType, Markets
<1>3. \A v \in Vendors : drain[v].todo = {}
  BY DEF QueueInit, NoDrain
<1>4. QED  BY <1>2, <1>3 DEF QueueInv, HasLooks, HeldOnce

\* A look that there was budget for stays within it.
LEMMA AttemptIsTyped ==
  ASSUME NEW row \in RowType, ~Retired(row), NEW o \in Outcomes
  PROVE  Attempt(row, o) \in RowType
<1>1. row.attempts \in 0 .. AttemptsPerVendor - 1 /\ row.errors \in 0 .. ErrorBudget - 1
  BY BudgetAssumption DEF RowType, Retired, Looked
<1>2. QED  BY <1>1, BudgetAssumption DEF Attempt, RowType

\* Runs that keep or give up what they hold, and asks that are not answered, keep the rest.
LEMMA QuietStep ==
  ASSUME QueueInv, QueueTypeOK', ledger' = ledger, lapped' = lapped,
         \A v \in Vendors : drain'[v].todo \subseteq drain[v].todo,
         \A a \in Asks : status[a] = "none" \/ status'[a] = status[a],
         \A a \in Asks : status'[a] = "fulfilled" => status[a] = "fulfilled"
  PROVE  QueueInv'
<1>1. HasLooks'
  <2>1. ASSUME NEW v \in Vendors, NEW a \in Asks, a \in drain'[v].todo PROVE ~Retired(ledger'[a][v])
    BY <2>1 DEF QueueInv, HasLooks
  <2>2. QED  BY <2>1 DEF HasLooks, Retired, Looked
<1>2. HeldOnce'
  BY DEF QueueInv, HeldOnce
<1>3. QED  BY <1>1, <1>2 DEF QueueInv

\* Asking puts a row into the queue, and takes none out.
LEMMA AskKeeps ==
  ASSUME QueueInv, NEW w \in Writers, Classify(w) \/ \E a \in Asks : Insert(w, a)
  PROVE  QueueInv'
<1>1. QueueTypeOK'
  BY DEF QueueInv, QueueTypeOK, Classify, Insert, fleet
<1>2. ledger' = ledger /\ lapped' = lapped /\ drain' = drain
  BY DEF Classify, Insert
<1>3. \A a \in Asks : /\ status[a] = "none" \/ status'[a] = status[a]
                      /\ status'[a] = "fulfilled" => status[a] = "fulfilled"
  BY DEF Classify, Insert, QueueInv, QueueTypeOK
<1>4. QED  BY <1>1, <1>2, <1>3, QuietStep

\* The fleet and the market change nothing in the queue.
LEMMA ChangeKeeps ==
  ASSUME QueueInv,
         \/ \E v \in Vendors : Enable(v) \/ Disable(v)
         \/ \E m \in Markets : Learn(m)
  PROVE  QueueInv'
<1>1. Change /\ enabled' \subseteq Vendors /\ market' \in Markets
  BY DEF Enable, Disable, Learn, QueueInv, QueueTypeOK
<1>2. QueueTypeOK'
  BY <1>1, BoundAssumption DEF Change, QueueInv, QueueTypeOK
<1>3. ledger' = ledger /\ lapped' = lapped /\ drain' = drain /\ status' = status
  BY <1>1 DEF Change
<1>4. QED  BY <1>2, <1>3, QuietStep

\* A run that starts, ends or fails gives up what it held.
LEMMA RunKeeps ==
  ASSUME QueueInv, NEW v \in Vendors, Start(v) \/ Finish(v) \/ Fail(v)
  PROVE  QueueInv'
<1>t. QueueTypeOK /\ drain \in [Vendors -> DrainType]
  BY TypesAre DEF QueueInv
<1>1. PICK x : drain' = [drain EXCEPT ![v] = x] /\ x \in {NoDrain, [NoDrain EXCEPT !.pc = "select", !.before = Asked]}
  BY DEF Start, Finish, Fail
<1>2. x \in DrainType /\ x.todo = {}
  <2>1. Asked \in SUBSET Asks
    BY DEF Asked
  <2>2. CASE x = NoDrain
    BY <2>2, RecordsAreTyped DEF NoDrain
  <2>3. CASE x = [NoDrain EXCEPT !.pc = "select", !.before = Asked]
    <3>1. x = [pc |-> "select", todo |-> {}, before |-> Asked, market |-> "unknown"]
      BY <2>3 DEF NoDrain
    <3>2. QED  BY <2>1, <3>1 DEF DrainType, Markets
  <2>4. QED  BY <1>1, <2>2, <2>3
<1>3. drain' \in [Vendors -> DrainType] /\ \A u \in Vendors : drain'[u].todo \subseteq drain[u].todo
  BY <1>t, <1>1, <1>2
<1>4. UNCHANGED <<status, ledger, fleet, writer, lapped>>
  BY DEF Start, Finish, Fail
<1>5. covered' \in [Vendors -> SUBSET Asks] /\ failed' \in 0 .. MaxFailed
  <2>1. drain[v].before \subseteq Asks
    BY <1>t DEF DrainType
  <2>2. CASE Start(v)
    BY <1>t, <2>2 DEF Start, QueueTypeOK
  <2>3. CASE Finish(v)
    BY <1>t, <2>1, <2>3 DEF Finish, QueueTypeOK
  <2>4. CASE Fail(v)
    BY <1>t, <2>4, BoundAssumption DEF Fail, QueueTypeOK
  <2>5. QED  BY <2>2, <2>3, <2>4
<1>6. QueueTypeOK'
  BY <1>t, <1>3, <1>4, <1>5 DEF QueueTypeOK, DrainType, fleet
<1>7. QED  BY <1>3, <1>4, <1>6, QuietStep

\* A selection takes asks that are open and have looks left.
LEMMA SelectKeeps ==
  ASSUME QueueInv, NEW v \in Vendors, Select(v)
  PROVE  QueueInv'
<1>t. QueueTypeOK /\ drain \in [Vendors -> DrainType] /\ market \in Markets
  BY TypesAre DEF QueueInv, QueueTypeOK
<1>o. OpenSet(v) \in SUBSET Asks
  BY DEF OpenSet
<1>1. /\ UNCHANGED <<status, ledger, fleet, covered, writer, failed>>
      /\ lapped' = lapped \union {a \in OpenSet(v) : \E u \in Vendors \ {v} : a \in drain[u].todo}
  BY DEF Select
<1>2. /\ drain' \in [Vendors -> DrainType] /\ drain'[v].todo = OpenSet(v)
      /\ \A u \in Vendors \ {v} : drain'[u] = drain[u]
  <2>1. PICK x : x = [drain[v] EXCEPT !.pc = "drain", !.todo = OpenSet(v), !.market = market]
    OBVIOUS
  <2>2. x \in DrainType /\ x.todo = OpenSet(v)
    BY <1>t, <1>o, <2>1 DEF DrainType
  <2>3. drain' = [drain EXCEPT ![v] = x]
    BY <1>t, <2>1 DEF Select, DrainType
  <2>4. QED  BY <1>t, <2>2, <2>3
<1>3. QueueTypeOK'
  BY <1>t, <1>o, <1>1, <1>2 DEF QueueTypeOK, DrainType, fleet
<1>4. HasLooks'
  <2>1. ASSUME NEW u \in Vendors, NEW a \in Asks, a \in drain'[u].todo PROVE ~Retired(ledger[a][u])
    BY <1>2, <2>1 DEF QueueInv, HasLooks, OpenSet
  <2>2. QED  BY <1>1, <2>1 DEF HasLooks, Retired, Looked
<1>5. HeldOnce'
  <2>1. ASSUME NEW a \in Asks \ lapped', NEW u \in Vendors, a \in drain'[u].todo
        PROVE  status[a] # "fulfilled" /\ \A q \in Vendors : a \in drain'[q].todo => q = u
    <3>1. a \notin lapped
      BY <1>1
    <3>2. a \in OpenSet(v) => \A q \in Vendors \ {v} : a \notin drain[q].todo
      BY <1>1, <2>1
    <3>3. QED  BY <1>2, <2>1, <3>1, <3>2 DEF QueueInv, HeldOnce, OpenSet
  <2>2. QED  BY <1>1, <2>1 DEF HeldOnce
<1>6. QED  BY <1>3, <1>4, <1>5 DEF QueueInv

\* A look spends one look of its own vendor, and drops its ask.
LEMMA LookKeeps ==
  ASSUME QueueInv, NEW v \in Vendors, NEW a \in Asks, NEW o \in Outcomes, Look(v, a, o)
  PROVE  /\ QueueInv'
         /\ \A b \in Asks \ {a} : status'[b] = status[b]
<1>t. /\ QueueTypeOK /\ drain \in [Vendors -> DrainType] /\ ledger \in [Asks -> [Vendors -> RowType]]
      /\ status \in [Asks -> {"none", "pending", "exhausted", "fulfilled"}]
  BY TypesAre DEF QueueInv
<1>1. UNCHANGED <<fleet, covered, writer, lapped, failed>> /\ a \in drain[v].todo
  BY DEF Look
<1>2. /\ drain' \in [Vendors -> DrainType] /\ drain'[v].todo = drain[v].todo \ {a}
      /\ \A u \in Vendors \ {v} : drain'[u] = drain[u]
  BY <1>t DEF Look, DrainType
<1>3. ledger[a][v] \in RowType /\ ~Retired(ledger[a][v])
  BY <1>t, <1>1 DEF QueueInv, HasLooks
<1>4. PICK row \in RowType : ledger' = [ledger EXCEPT ![a] = [ledger[a] EXCEPT ![v] = row]]
  <2>1. ledger' = [ledger EXCEPT ![a] = [ledger[a] EXCEPT ![v] = Attempt(ledger[a][v], o)]]
    BY DEF Look
  <2>2. QED  BY <1>3, <2>1, AttemptIsTyped
<1>5. /\ ledger' \in [Asks -> [Vendors -> RowType]]
      /\ \A b \in Asks, u \in Vendors : <<b, u>> # <<a, v>> => ledger'[b][u] = ledger[b][u]
  BY <1>t, <1>4
<1>6. PICK s \in {"pending", "exhausted", "fulfilled"} : status' = [status EXCEPT ![a] = s]
  BY DEF Look, Verdict
<1>7. /\ status' \in [Asks -> {"none", "pending", "exhausted", "fulfilled"}]
      /\ \A b \in Asks \ {a} : status'[b] = status[b]
  BY <1>t, <1>6
<1>8. QueueTypeOK'
  BY <1>t, <1>1, <1>2, <1>5, <1>7 DEF QueueTypeOK, DrainType, fleet
<1>9. HasLooks'
  <2>1. ASSUME NEW u \in Vendors, NEW b \in Asks, b \in drain'[u].todo
        PROVE  ~Retired(ledger[b][u]) /\ ledger'[b][u] = ledger[b][u]
    BY <1>2, <1>5, <2>1 DEF QueueInv, HasLooks
  <2>2. QED  BY <2>1 DEF HasLooks, Retired, Looked
<1>10. HeldOnce'
  <2>1. ASSUME NEW b \in Asks \ lapped, NEW u \in Vendors, b \in drain'[u].todo
        PROVE  status'[b] # "fulfilled" /\ \A q \in Vendors : b \in drain'[q].todo => q = u
    <3>1. b # a
      BY <1>1, <1>2, <2>1 DEF QueueInv, HeldOnce
    <3>2. QED  BY <1>2, <1>7, <2>1, <3>1 DEF QueueInv, HeldOnce
  <2>2. QED  BY <1>1, <2>1 DEF HeldOnce
<1>11. QED  BY <1>7, <1>8, <1>9, <1>10 DEF QueueInv

\* Every step keeps the invariant.
LEMMA QueueInvStep == QueueInv /\ [QueueNext]_queueVars => QueueInv'
<1> SUFFICES ASSUME QueueInv, [QueueNext]_queueVars PROVE QueueInv'
  OBVIOUS
<1>1. CASE UNCHANGED queueVars
  <2>1. QueueTypeOK'
    BY <1>1 DEF QueueInv, QueueTypeOK, queueVars, fleet
  <2>2. QED  BY <1>1, <2>1, QuietStep DEF queueVars
<1>2. ASSUME NEW v \in Vendors, Continue(v) PROVE QueueInv'
  BY <1>2, SelectKeeps, LookKeeps, RunKeeps DEF Continue
<1>3. QED  BY <1>1, <1>2, AskKeeps, ChangeKeeps, RunKeeps DEF QueueNext

\* No step takes an answered ask that two runs never held at once out of fulfilled.
LEMMA AnsweredStep ==
  ASSUME QueueInv, [QueueNext]_queueVars, NEW a \in Asks, status[a] = "fulfilled", a \notin lapped
  PROVE  status'[a] = "fulfilled"
<1>1. ASSUME NEW v \in Vendors, NEW b \in Asks, NEW o \in Outcomes, Look(v, b, o)
      PROVE  status'[a] = "fulfilled"
  <2>1. a # b
    BY <1>1 DEF QueueInv, HeldOnce, Look
  <2>2. QED  BY <1>1, <2>1, LookKeeps
<1>2. ASSUME NEW w \in Writers, NEW b \in Asks, Insert(w, b) PROVE status'[a] = "fulfilled"
  BY <1>2, TypesAre DEF QueueInv, Insert
<1>3. QED
  BY <1>1, <1>2 DEF QueueNext, Classify, Start, Continue, Select, Finish, Fail, Enable, Disable,
    Learn, Change, queueVars

-----------------------------------------------------------------------------
\* The invariant holds in every state.
THEOREM QueueInvHolds == QueueSpec => []QueueInv
BY QueueInvInit, QueueInvStep, PTL DEF QueueSpec

\* Every variable keeps its type, and no vendor spends more looks on an ask than it has.
THEOREM BudgetsHold == QueueSpec => []QueueTypeOK
<1>1. QueueInv => QueueTypeOK
  BY DEF QueueInv
<1>2. QED  BY <1>1, QueueInvHolds, PTL

\* An answered ask stays answered, unless two vendors' runs held it at once.
THEOREM AnsweredStays == QueueSpec => FulfilledStays
<1>1. QueueInv /\ [QueueNext]_queueVars =>
        [\A a \in Asks : status[a] = "fulfilled" /\ a \notin lapped
           => status'[a] = "fulfilled"]_queueVars
  BY AnsweredStep
<1>2. QED  BY <1>1, QueueInvHolds, PTL DEF QueueSpec, FulfilledStays
=============================================================================
