------------------------------ MODULE CrawlRuns ------------------------------
(***************************************************************************)
(* The runs of the crawler over one vendor.  A pod runs one lane (a mode)   *)
(* under the lane's advisory lock, which lives as long as the connection    *)
(* that took it: it reads the vendor's row, closes the rows that dead runs  *)
(* of its lane left open, opens a row of its own and arms the signal        *)
(* handler, walks on from its lane's resume position, and closes its row    *)
(* and writes the position in one transaction.                              *)
(*                                                                          *)
(* Pods are signalled, killed and lose connections.  The handler runs       *)
(* beside the walk, which goes on until the process exits.                  *)
(***************************************************************************)
EXTENDS Naturals

CONSTANTS
  Lanes,     \* the modes that walk: seed, offers
  Scheduled, \* those a schedule starts: a seed is run by hand, vendor by vendor
  Pods,      \* slots for processes
  Runs,      \* ids of crawl_runs rows
  Pages,     \* the length of the enumeration
  MaxFaults, \* bound on kills, lost connections and database failures
  NoPod, NoRun,
  Nowhere    \* what a walk that advanced past no page says of its position

ASSUME SentinelAssumption == NoPod \notin Pods /\ NoRun \notin Runs /\ Nowhere \notin Nat
ASSUME LanesAssumption == Lanes # {} /\ Scheduled \subseteq Lanes
ASSUME PagesAssumption == Pages \in Nat \ {0}
ASSUME FaultsAssumption == MaxFaults \in Nat

VARIABLES
  run,    \* crawl_runs
  cursor, \* vendors.crawl_cursor: the page each lane has walked past, 0 for the top
  lock,   \* the session that holds each lane's advisory lock
  pod,    \* the processes
  adrift, \* history: lanes whose lock was lost by a process that went on
  unsure, \* history: runs whose success was committed and not acknowledged
  faults  \* the number of faults so far

vars == <<run, cursor, lock, pod, adrift, unsure, faults>>
history == <<adrift, unsure>>

Positions == 0 .. Pages - 1
Ends == Positions \union {Nowhere}
NoLane == CHOOSE l \in Lanes : TRUE
Idle == [pc |-> "idle", lane |-> NoLane, run |-> NoRun,
         read |-> [l \in Lanes |-> 0], walked |-> 0, handler |-> "off"]
Blank == [status |-> "none", lane |-> NoLane]

Init ==
  /\ run = [i \in Runs |-> Blank]
  /\ cursor = [l \in Lanes |-> 0]
  /\ lock = [l \in Lanes |-> NoPod]
  /\ pod = [p \in Pods |-> Idle]
  /\ adrift = {} /\ unsure = {} /\ faults = 0

At(p, pc) == pod[p].pc = pc
Become(p, x) == pod' = [pod EXCEPT ![p] = x]
Goto(p, pc) == Become(p, [pod[p] EXCEPT !.pc = pc])
Lane(p) == pod[p].lane
Row(p) == pod[p].run
Alive(p) == pod[p].pc \notin {"idle", "dead"}
Fault == faults < MaxFaults /\ faults' = faults + 1

\* Ids are interchangeable: a closed row that no process holds stands for a new one.
LetGo(rows, held) ==
  [i \in Runs |-> IF rows[i].status = "running" \/ i \in held THEN rows[i] ELSE Blank]

\* A process is gone; what it left open stays open.
Gone(p, left) ==
  /\ Become(p, left)
  /\ run' = LetGo(run, {Row(q) : q \in Pods \ {p}})
  /\ unsure' = unsure \ {Row(p)}

\* Its session ends, and its lock with it.
EndSession(p) ==
  /\ Gone(p, Idle)
  /\ lock' = [l \in Lanes |-> IF lock[l] = p THEN NoPod ELSE lock[l]]
  /\ UNCHANGED <<cursor, adrift>>

-----------------------------------------------------------------------------
(* One run *)

\* A lane that is taken is skipped: the pod exits and writes nothing.
TryLock(p, l) ==
  /\ At(p, "idle") /\ lock[l] = NoPod
  /\ lock' = [lock EXCEPT ![l] = p]
  /\ Become(p, [Idle EXCEPT !.pc = "read", !.lane = l])
  /\ UNCHANGED <<run, cursor, history, faults>>

ReadVendor(p) ==
  /\ At(p, "read")
  /\ Become(p, [pod[p] EXCEPT !.read = cursor, !.pc = "reclaim"])
  /\ UNCHANGED <<run, cursor, lock, history, faults>>

Stranded(l) == {i \in Runs : run[i] = [status |-> "running", lane |-> l]}

CloseRows(rows) ==
  run' = LetGo([i \in Runs |-> IF i \in rows THEN [run[i] EXCEPT !.status = "failed"]
                               ELSE run[i]], {Row(q) : q \in Pods})

ReclaimNone(p) ==
  At(p, "reclaim") /\ Goto(p, "open") /\ UNCHANGED <<run, cursor, lock, history, faults>>

ReclaimVendor(p) ==
  /\ At(p, "reclaim")
  /\ CloseRows(UNION {Stranded(l) : l \in Lanes})
  /\ Goto(p, "open")
  /\ UNCHANGED <<cursor, lock, history, faults>>

\* What is still open in this lane was left by a process that is gone.
Reclaim(p) ==
  /\ At(p, "reclaim")
  /\ CloseRows(Stranded(Lane(p)))
  /\ Goto(p, "open")
  /\ UNCHANGED <<cursor, lock, history, faults>>

Fresh == {i \in Runs : run[i].status = "none"}

OpenRun(p) ==
  LET i == CHOOSE i \in Fresh : TRUE IN
  /\ At(p, "open") /\ Fresh # {}
  /\ run' = [run EXCEPT ![i] = [status |-> "running", lane |-> Lane(p)]]
  /\ Become(p, [pod[p] EXCEPT !.run = i, !.handler = "armed", !.pc = "walk"])
  /\ UNCHANGED <<cursor, lock, history, faults>>

\* The close disarms the handler before it writes.
Disarmed(p) == IF pod[p].handler = "armed" THEN "off" ELSE pod[p].handler

\* A page budget ends the walk past some page, or before the first; a walk of the whole
\* list wraps to the top.  It starts at the lane's position, or at the top when asked to or
\* when the page it had stopped on is gone, so it may end before that position.
WalkWithoutWrap(p, to) ==
  /\ At(p, "walk")
  /\ Become(p, [pod[p] EXCEPT !.walked = pod[p].read[Lane(p)] + 1, !.handler = Disarmed(p),
                              !.pc = "close"])
  /\ UNCHANGED <<run, cursor, lock, history, faults>>

Walk(p, to) ==
  /\ At(p, "walk")
  /\ Become(p, [pod[p] EXCEPT !.walked = to, !.handler = Disarmed(p), !.pc = "close"])
  /\ UNCHANGED <<run, cursor, lock, history, faults>>

WalkFails(p) ==
  /\ At(p, "walk") /\ Fault
  /\ Become(p, [pod[p] EXCEPT !.handler = Disarmed(p), !.pc = "failed"])
  /\ UNCHANGED <<run, cursor, lock, history>>

Merged(p) == [pod[p].read EXCEPT ![Lane(p)] = pod[p].walked]

\* The row by its id, whatever its status, and the column as read with the new position;
\* a run that advanced nowhere leaves the column alone.
Succeed(p) ==
  /\ At(p, "close")
  /\ run' = [run EXCEPT ![Row(p)].status = "succeeded"]
  /\ cursor' = IF pod[p].walked = Nowhere THEN cursor ELSE Merged(p)

Closed(p, pc) ==
  Become(p, [pod[p] EXCEPT !.read = Idle.read, !.walked = Idle.walked, !.pc = pc])

CloseSucceeded(p) ==
  /\ Succeed(p) /\ Closed(p, "unlock")
  /\ UNCHANGED <<lock, adrift, unsure, faults>>

\* The commit's answer is lost, or there was no commit: the run is closed as failed.
CloseUnanswered(p) ==
  /\ Succeed(p) /\ Closed(p, "failed") /\ Fault
  /\ unsure' = unsure \union {Row(p)}
  /\ UNCHANGED <<lock, adrift>>

CloseFails(p) ==
  /\ At(p, "close") /\ Closed(p, "failed") /\ Fault
  /\ UNCHANGED <<run, cursor, lock, history>>

CloseFailed(p) ==
  /\ At(p, "failed") /\ Goto(p, "unlock")
  /\ run' = [run EXCEPT ![Row(p)].status = "failed"]
  /\ UNCHANGED <<cursor, lock, history, faults>>

Unlock(p) ==
  /\ At(p, "unlock") /\ EndSession(p)
  /\ UNCHANGED faults

\* A database failure outside the walk and the close ends the process.
Abort(p) ==
  /\ pod[p].pc \in {"read", "reclaim", "open", "failed"} /\ Fault
  /\ EndSession(p)

-----------------------------------------------------------------------------
(* Signals, kills and lost connections *)

Signal(p) ==
  /\ Alive(p) /\ pod[p].handler = "armed" /\ Fault
  /\ Become(p, [pod[p] EXCEPT !.handler = "marking"])
  /\ UNCHANGED <<run, cursor, lock, history>>

MarkTerminatedAnyway(p) ==
  /\ Alive(p) /\ pod[p].handler = "marking"
  /\ run' = [run EXCEPT ![Row(p)].status = "failed"]
  /\ Become(p, [pod[p] EXCEPT !.handler = "exit"])
  /\ UNCHANGED <<cursor, lock, history, faults>>

\* Only a row that is still running is marked.
MarkTerminated(p) ==
  /\ Alive(p) /\ pod[p].handler = "marking"
  /\ run' = [run EXCEPT ![Row(p)].status = IF @ = "running" THEN "failed" ELSE @]
  /\ Become(p, [pod[p] EXCEPT !.handler = "exit"])
  /\ UNCHANGED <<cursor, lock, history, faults>>

Exit(p) ==
  /\ Alive(p) /\ pod[p].handler = "exit"
  /\ EndSession(p)
  /\ UNCHANGED faults

\* A kill, a node lost, or a signal with no handler armed; the server may hold on to
\* the dead session, and its lock.
Die(p) ==
  /\ Alive(p) /\ Fault
  /\ Gone(p, [Idle EXCEPT !.pc = "dead"])
  /\ UNCHANGED <<cursor, lock, adrift>>

Reap(p) ==
  /\ At(p, "dead") /\ EndSession(p)
  /\ UNCHANGED faults

\* The connection that holds the lock is lost, its error swallowed, and the run goes on.
LoseLock(p) ==
  /\ Alive(p) /\ lock[Lane(p)] = p /\ Fault
  /\ lock' = [lock EXCEPT ![Lane(p)] = NoPod]
  /\ adrift' = adrift \union {Lane(p)}
  /\ UNCHANGED <<run, cursor, pod, unsure>>

Step(p) ==
  \/ ReadVendor(p) \/ Reclaim(p) \/ OpenRun(p)
  \/ \E to \in Ends : Walk(p, to)
  \/ CloseSucceeded(p) \/ CloseFailed(p) \/ Unlock(p)
  \/ MarkTerminated(p) \/ Exit(p) \/ Reap(p)

Breaks(p) ==
  \/ WalkFails(p) \/ CloseUnanswered(p) \/ CloseFails(p) \/ Abort(p)
  \/ Signal(p) \/ Die(p) \/ LoseLock(p)

Next ==
  \/ \E p \in Pods, l \in Lanes : TryLock(p, l)
  \/ \E p \in Pods : Step(p) \/ Breaks(p)

Spec == Init /\ [][Next]_vars

\* Processes run, dead sessions are reaped, and a schedule starts the lanes it has again
\* and again, at some time when the lock is free.
FairSpec ==
  /\ Spec
  /\ \A p \in Pods : WF_vars(Step(p))
  /\ \A l \in Scheduled : SF_vars(\E p \in Pods : TryLock(p, l))

-----------------------------------------------------------------------------
(* Properties *)

Stages == {"idle", "read", "reclaim", "open", "walk", "close", "failed", "unlock", "dead"}
Handlers == {"off", "armed", "marking", "exit"}
RunType == [status : {"none", "running", "succeeded", "failed"}, lane : Lanes]
PodType == [pc : Stages, lane : Lanes, run : Runs \union {NoRun},
            read : [Lanes -> Positions], walked : Ends, handler : Handlers]

TypeOK ==
  /\ run \in [Runs -> RunType]
  /\ cursor \in [Lanes -> Positions]
  /\ lock \in [Lanes -> Pods \union {NoPod}]
  /\ pod \in [Pods -> PodType]
  /\ adrift \subseteq Lanes /\ unsure \subseteq Runs /\ faults \in 0 .. MaxFaults

\* The sweep needs no age limit: as long as no process of the lane has lost its lock, a
\* row is open while the run it is of is at work, unless that run's own signal handler
\* has closed it, whatever other pods start, sweep or die.
SweepSparesTheLiving ==
  \A p \in Pods :
    (pod[p].pc \in {"walk", "close"} /\ pod[p].handler # "exit" /\ Lane(p) \notin adrift)
      => run[Row(p)] = [status |-> "running", lane |-> Lane(p)]

\* A run that moved its lane's position stays on the record as succeeded: no handler
\* that fired late, sweep or other process turns it into a failed one, unless the
\* answer to its commit was lost.
SuccessIsFinal ==
  [][\A i \in Runs : i \notin unsure /\ run[i].status = "succeeded" => run'[i].status # "failed"]_vars

\* A row of a scheduled lane whose process is gone, however it went, does not stay open: a
\* later run of the lane closes it.  A seed's may, until somebody seeds the vendor again.
StrandedIsClosed ==
  \A i \in Runs : run[i].status = "running" /\ run[i].lane \in Scheduled
                   ~> run[i].status # "running"

\* One lane's resume point never costs another lane its own: a lane's position changes
\* only as a run of that lane closes.
OwnPosition ==
  [][\A l \in Lanes : cursor'[l] # cursor[l]
       => \E p \in Pods : At(p, "close") /\ Lane(p) = l /\ pod'[p].pc # "close"]_vars
=============================================================================
