--------------------------- MODULE EnrichmentQueue ---------------------------
(***************************************************************************)
(* The enrichment queue of one cigar: users ask for what the catalogue is   *)
(* missing, and the enrich lane of each vendor looks for it, best tier      *)
(* first.  What a look concludes is written to a ledger of one row for each *)
(* ask and vendor, which bounds the looks; the status of an ask is a cache  *)
(* of a rollup over the ledger of the vendors that count, and which count   *)
(* changes with the fleet and with what is known of the cigar's market.     *)
(*                                                                          *)
(* One run of a lane is at work at a time (CrawlRuns); the lanes of two     *)
(* vendors overlap.  A run selects its asks first and looks for hours.      *)
(* Which lanes a schedule starts is the cluster's business: no code writes  *)
(* it, and enabling a vendor schedules nothing.                             *)
(***************************************************************************)
EXTENDS Naturals, FiniteSets

CONSTANTS
  Vendors, Asks,
  Writers,           \* slots for the calls that ask
  Tier, Focus,       \* of each vendor
  AttemptsPerVendor, ErrorBudget,
  MaxFailed,         \* bound on runs that fail
  MaxChanges         \* bound on changes of the fleet and the market

Markets == {"unknown", "NC", "CC"}

ASSUME TierAssumption == Tier \in [Vendors -> Nat]
ASSUME FocusAssumption == Focus \in [Vendors -> {"NC", "CC", "both"}]
ASSUME BudgetAssumption == {AttemptsPerVendor, ErrorBudget} \subseteq Nat \ {0}
ASSUME BoundAssumption == {MaxFailed, MaxChanges} \subseteq Nat

VARIABLES
  status,    \* enrichment_requests
  ledger,    \* enrichment_attempts
  enabled,   \* vendors.crawl_enabled
  scheduled, \* the vendors whose enrich lane has a schedule
  market,    \* the evidenced market of the cigar
  covered,   \* the asks older than the start of a vendor's latest succeeded run
  drain,     \* the enrich run of each vendor
  writer,    \* the calls that ask
  lapped,    \* history: asks that two vendors' runs held at once
  failed, changes

queueVars == <<status, ledger, enabled, scheduled, market, covered, drain, writer,
               lapped, failed, changes>>
fleet == <<enabled, scheduled, market, changes>>

Outcomes == {"match", "miss", "error", "photo_refused", "no_candidate"}
NoRow == [attempts |-> 0, errors |-> 0, last |-> "none"]
NoDrain == [pc |-> "idle", todo |-> {}, before |-> {}, market |-> "unknown"]

QueueInit ==
  /\ status = [a \in Asks |-> "none"]
  /\ ledger = [a \in Asks |-> [v \in Vendors |-> NoRow]]
  /\ enabled \in SUBSET Vendors /\ scheduled \in SUBSET Vendors
  /\ market = "unknown"
  /\ covered = [v \in Vendors |-> {}]
  /\ drain = [v \in Vendors |-> NoDrain]
  /\ writer = [w \in Writers |-> "idle"]
  /\ lapped = {} /\ failed = 0 /\ changes = 0

Asked == {a \in Asks : status[a] # "none"}

-----------------------------------------------------------------------------
(* The ledger and its rollup *)

Seen(row) == row.last # "none"
Looked(row) == row.attempts >= AttemptsPerVendor
Retired(row) == Looked(row) \/ row.errors >= ErrorBudget

\* Only two opposite, known markets keep a vendor and a cigar apart.
Covers(v, m) == Focus[v] = "both" \/ m = "unknown" \/ Focus[v] = m
Fleet(m) == {v \in enabled : Covers(v, m)}

\* A vendor counts for an ask it has looked for, or that a whole run of it came after.
Counted(a, m, rows) == {v \in Fleet(m) : Seen(rows[v]) \/ a \in covered[v]}
Spent(a, m, rows) ==
  Counted(a, m, rows) # {} /\ \A v \in Counted(a, m, rows) : Retired(rows[v])
Exhausted(a, m, rows) ==
  Counted(a, m, rows) # {} /\ \A v \in Counted(a, m, rows) : Looked(rows[v])

\* recordEnrichmentAttempt: an atomic upsert, whose errors count in a row.
Attempt(row, o) ==
  [attempts |-> IF o \in {"match", "miss"} THEN row.attempts + 1 ELSE row.attempts,
   errors |-> IF o = "error" THEN row.errors + 1 ELSE 0,
   last |-> o]

-----------------------------------------------------------------------------
(* Asking: the verdict is read, then the row is inserted *)

Open == {a \in Asked : status[a] # "fulfilled" /\ ~Spent(a, market, ledger[a])}

\* A cigar that has its photo and its dimensions is not asked for; which it is may change.
Classify(w) ==
  /\ writer[w] = "idle"
  /\ Open = {} /\ \A a \in Asks : status[a] # "fulfilled"
  /\ writer' = [writer EXCEPT ![w] = "queued"]
  /\ UNCHANGED <<status, ledger, fleet, covered, drain, lapped, failed>>

Insert(w, a) ==
  /\ writer[w] = "queued" /\ status[a] = "none"
  /\ status' = [status EXCEPT ![a] = "pending"]
  /\ writer' = [writer EXCEPT ![w] = "idle"]
  /\ UNCHANGED <<ledger, fleet, covered, drain, lapped, failed>>

-----------------------------------------------------------------------------
(* One run of a vendor's enrich lane *)

HigherTierPassed(a, v) ==
  \A h \in Fleet(market) :
    Tier[h] < Tier[v] => ledger[a][h].last \in {"miss", "no_candidate"}

\* A better source has looked, or will not any more.
HigherTierLooked(a, v) ==
  \A h \in Fleet(market) :
    Tier[h] < Tier[v] => ledger[a][h].last \in {"miss", "no_candidate"} \/ Retired(ledger[a][h])

OpenTo(a, v) == Covers(v, market) /\ HigherTierLooked(a, v)

OpenSetUnbudgeted(v) == {a \in Asks : status[a] \in {"pending", "exhausted"} /\ OpenTo(a, v)}
OpenSetWithAnswered(v) == {a \in Asked : ~Retired(ledger[a][v]) /\ OpenTo(a, v)}

\* An exhausted ask is open to a vendor that has not spent its looks.
OpenSet(v) ==
  {a \in Asks : /\ status[a] \in {"pending", "exhausted"}
                /\ ~Retired(ledger[a][v]) /\ OpenTo(a, v)}

\* The run's row is opened; nothing asks whether the vendor is enabled.
Start(v) ==
  /\ drain[v].pc = "idle" /\ Asked # {}
  /\ drain' = [drain EXCEPT ![v] = [NoDrain EXCEPT !.pc = "select", !.before = Asked]]
  /\ UNCHANGED <<status, ledger, fleet, covered, writer, lapped, failed>>

Select(v) ==
  /\ drain[v].pc = "select"
  /\ drain' = [drain EXCEPT ![v].pc = "drain", ![v].todo = OpenSet(v), ![v].market = market]
  /\ lapped' = lapped \union {a \in OpenSet(v) : \E u \in Vendors \ {v} : a \in drain[u].todo}
  /\ UNCHANGED <<status, ledger, fleet, covered, writer, failed>>

\* The hours a look takes come before it: what it concludes is written in one
\* transaction, the ledger first, then the status.  A match has its listing linked; else
\* the status is the rollup's, over the market the ask was selected for.  The request is
\* named by its id alone.
Verdict(a, m, o, rows) ==
  IF o = "match" THEN "fulfilled"
  ELSE IF o \in {"miss", "error"} /\ Exhausted(a, m, rows) THEN "exhausted"
  ELSE "pending"

Look(v, a, o) ==
  /\ drain[v].pc = "drain" /\ a \in drain[v].todo
  /\ ledger' = [ledger EXCEPT ![a][v] = Attempt(@, o)]
  /\ status' = [status EXCEPT ![a] = Verdict(a, drain[v].market, o, ledger'[a])]
  /\ drain' = [drain EXCEPT ![v].todo = @ \ {a}]
  /\ UNCHANGED <<fleet, covered, writer, lapped, failed>>

Finish(v) ==
  /\ drain[v].pc = "drain" /\ drain[v].todo = {}
  /\ covered' = [covered EXCEPT ![v] = @ \union drain[v].before]
  /\ drain' = [drain EXCEPT ![v] = NoDrain]
  /\ UNCHANGED <<status, ledger, fleet, writer, lapped, failed>>

\* The run fails or its process dies: what it has not written was not looked at.
Fail(v) ==
  /\ drain[v].pc # "idle" /\ failed < MaxFailed
  /\ drain' = [drain EXCEPT ![v] = NoDrain]
  /\ failed' = failed + 1
  /\ UNCHANGED <<status, ledger, fleet, covered, writer, lapped>>

-----------------------------------------------------------------------------
(* The fleet and the market change under the queue *)

Change ==
  /\ changes < MaxChanges /\ changes' = changes + 1
  /\ UNCHANGED <<status, ledger, scheduled, covered, drain, writer, lapped, failed>>

Enable(v) == Change /\ v \notin enabled /\ enabled' = enabled \union {v} /\ market' = market
Disable(v) == Change /\ v \in enabled /\ enabled' = enabled \ {v} /\ market' = market
Learn(m) == Change /\ market # m /\ market' = m /\ enabled' = enabled

Continue(v) ==
  \/ Select(v)
  \/ \E a \in Asks, o \in Outcomes : Look(v, a, o)
  \/ Finish(v)

QueueNext ==
  \/ \E w \in Writers : Classify(w) \/ \E a \in Asks : Insert(w, a)
  \/ \E v \in Vendors : Start(v) \/ Continue(v) \/ Fail(v) \/ Enable(v) \/ Disable(v)
  \/ \E m \in Markets : Learn(m)

QueueSpec == QueueInit /\ [][QueueNext]_queueVars

\* A schedule starts the lanes it has again and again while their vendors are enabled, and
\* a run that was started goes on.
QueueFairSpec ==
  /\ QueueSpec
  /\ \A v \in Vendors : /\ WF_queueVars(v \in scheduled \intersect enabled /\ Start(v))
                        /\ WF_queueVars(Continue(v))

-----------------------------------------------------------------------------
(* Properties *)

RowType == [attempts : 0 .. AttemptsPerVendor, errors : 0 .. ErrorBudget,
            last : Outcomes \union {"none"}]

\* The budgets are in the types: no vendor spends more looks on an ask than it has,
\* whatever fails, overlaps or is enabled again.
QueueTypeOK ==
  /\ status \in [Asks -> {"none", "pending", "exhausted", "fulfilled"}]
  /\ ledger \in [Asks -> [Vendors -> RowType]]
  /\ enabled \subseteq Vendors /\ scheduled \subseteq Vendors /\ market \in Markets
  /\ covered \in [Vendors -> SUBSET Asks]
  /\ drain \in [Vendors -> [pc : {"idle", "select", "drain"}, todo : SUBSET Asks,
                            before : SUBSET Asks, market : Markets]]
  /\ writer \in [Writers -> {"idle", "queued"}]
  /\ lapped \subseteq Asks
  /\ failed \in 0 .. MaxFailed /\ changes \in 0 .. MaxChanges

\* An answered ask stays answered as long as no two vendors' runs held it at once: no
\* later run selects it, and no run that fails or resumes puts it back.
FulfilledStays ==
  [][\A a \in Asks : status[a] = "fulfilled" /\ a \notin lapped
       => status'[a] = "fulfilled"]_queueVars

\* Not true of the code, which names the ask by its id alone when a look of another
\* vendor ends after the match: fulfilled is terminal.
FulfilledIsTerminal ==
  [][\A a \in Asks : status[a] = "fulfilled" => status'[a] = "fulfilled"]_queueVars

\* A vendor may never be done with an ask: its own looks, or those of a better source
\* that it waits for, ended without a verdict that any budget counts, or the better source
\* has no schedule.
Unanswered(a, h) == ledger[a][h].last \in {"photo_refused", "no_candidate"}
HeldUp(a, v) ==
  \/ Unanswered(a, v)
  \/ \E h \in Fleet(market) : Tier[h] < Tier[v] /\ (h \notin scheduled \/ Unanswered(a, h))

\* As long as an ask is not answered, every vendor that has a schedule and is of the fleet
\* for its market comes to spend its looks or its errors on it.  No tier waits on one above
\* it that will not look any more, and an exhausted ask reopens to a vendor that has looks
\* left.  Except a vendor that is held up, for ever if need be.
AskSettles ==
  \A a \in Asks, v \in Vendors :
    status[a] # "none" /\ v \in scheduled
      ~> \/ status[a] = "fulfilled" \/ v \notin Fleet(market) \/ Retired(ledger[a][v])
         \/ HeldUp(a, v)
=============================================================================
