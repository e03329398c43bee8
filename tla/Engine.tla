------------------------------- MODULE Engine -------------------------------
(***************************************************************************)
(* The deterministic engine: readiness and priority of a deal, weekly      *)
(* capacity of a consultant, eligibility and fit of a pair, the capacity   *)
(* heatmap and its EMEA scenario.  Each function derives one receipt from  *)
(* frozen rows and earlier receipts; the caller decides when to call it,   *)
(* so every order of calls whose inputs exist is a behaviour, and as_of,   *)
(* an argument of three of them, may move on between two calls.            *)
(*                                                                         *)
(* Hashes, lineage ids of receipts and texts are left out: the receipts of *)
(* one run match each other.  Optional units (None) are 0, which is how    *)
(* the code sums them ("free_units or 0").                                 *)
(***************************************************************************)
EXTENDS Rounding, Sequences, FiniteSets, FiniteSetsExt

CONSTANTS
  Inputs,       \* frozen inputs of a run: deals, consultants, demands
  Policy,       \* the accepted PolicyV2
  TicksPerDay,  \* resolution of a timestamp
  MaxDelay      \* bound: how long after the first call as_of may lie

MinutesPerDay == 1440
Weeks == 1..4   \* policy.horizon_weeks is the literal 4
DaysPerWeek == 7
NoEnd == 0 - 1  \* effective_end is None

ASSUME TimeAssumption == TicksPerDay \in Nat \ {0} /\ MaxDelay \in Nat

\* The fields of the frozen rows, as their contracts bound them.
DealIsTyped(deal) ==
  /\ deal.due \in Int /\ deal.amount \in Int /\ deal.effort \in Nat
  /\ deal.overlap \in 0..MinutesPerDay
  /\ \A a \in deal.approvals : a.amount \in Int
  /\ IsFiniteSet(deal.skills)

ConsultantIsTyped(consultant) ==
  /\ {"availability", "work", "populationComplete"} \subseteq DOMAIN consultant
  /\ \A a \in consultant.assertions : a.begin \in Int /\ a.end \in Int /\ a.level \in 0..4
  /\ IsFiniteSet(consultant.spans)
  /\ \A s \in consultant.spans : s[1] \in 0..(MinutesPerDay - 1) /\ s[2] \in 0..(MinutesPerDay - 1)
  /\ IsFiniteSet(consultant.availability)
  /\ \A r \in consultant.availability :
       r.week \in Weeks /\ r.scheduled \in Nat /\ r.timeOff \in Nat
  /\ Len(consultant.work) \in Nat /\ DOMAIN consultant.work = 1..Len(consultant.work)
  /\ \A i \in DOMAIN consultant.work :
       consultant.work[i].week \in Weeks /\ consultant.work[i].units \in Nat

\* compute_capacity_heatmap refuses a second demand of a deal.
DemandsAreTyped(demands) ==
  /\ IsFiniteSet(demands)
  /\ \A d \in demands : DOMAIN d = {"deal", "region", "skills", "week", "effort"} /\ d.effort \in Nat
  /\ \A d, e \in demands : d.deal = e.deal => d = e

ASSUME InputsAssumption ==
  \A i \in Inputs :
    /\ \A d \in DOMAIN i.deals : DealIsTyped(i.deals[d])
    /\ IsFiniteSet(DOMAIN i.consultants)
    /\ \A c \in DOMAIN i.consultants : ConsultantIsTyped(i.consultants[c])
    /\ DemandsAreTyped(i.demands)

\* What PolicyV2 validates.
ASSUME PolicyAssumption ==
  /\ Policy.floor \in Int /\ Policy.cap \in Int /\ Policy.floor < Policy.cap
  /\ Policy.ceiling \in 0..FullBp /\ Policy.minimumOverlap \in 0..MinutesPerDay
  /\ IsFiniteSet(Policy.dimensions)
  /\ \A t \in DOMAIN Policy.required : Policy.required[t] \subseteq Policy.dimensions
  /\ \A b \in DOMAIN Policy.breakpoints : b \in 0..28 /\ Policy.breakpoints[b] \in 0..FullBp
  /\ \A s \in DOMAIN Policy.catalog : Policy.catalog[s] \in 0..4
  /\ LET w == Policy.weights
     IN /\ w.urgency \in Nat /\ w.readiness \in Nat /\ w.commercial \in Nat
        /\ w.urgency + w.readiness + w.commercial = FullBp
  /\ LET m == Policy.match
     IN /\ m.skill \in Nat /\ m.continuity \in Nat /\ m.overlap \in Nat /\ m.headroom \in Nat
        /\ m.skill + m.continuity + m.overlap + m.headroom = FullBp

VARIABLES
  input,        \* the frozen rows
  asOf,         \* as_of of the next call, in ticks
  readiness,    \* receipt of each deal
  priority,     \* receipt of each deal
  capacity,     \* receipt of each consultant
  eligibility,  \* receipt of each pair
  fit,          \* receipt of each pair
  heatmap,      \* cells of the capacity view
  scenario      \* cells of the EMEA scenario

vars == <<input, asOf, readiness, priority, capacity, eligibility, fit, heatmap, scenario>>

Deals == DOMAIN input.deals
Consultants == DOMAIN input.consultants
Pairs == Deals \X Consultants

\* A call has not been made, raised ValueError or KeyError, or gave a receipt.
Pending == [kind |-> "PENDING"]
Raised == [kind |-> "RAISED"]
Done(r) == r.kind = "RECEIPT"

Lesser(a, b) == IF a <= b THEN a ELSE b
Greater(a, b) == IF a >= b THEN a ELSE b

-----------------------------------------------------------------------------
(***************************************************************************)
(* readiness: a dimension with conflicting evidence is in CONFLICT, one    *)
(* with supporting evidence only is SUPPORTED; a request type names the    *)
(* dimensions that must be.                                                *)
(***************************************************************************)
DimensionState(deal, dimension) ==
  LET states == {e.state : e \in {x \in deal.evidence : x.dimension = dimension}}
  IN IF "CONFLICT" \in states THEN "CONFLICT"
     ELSE IF "SUPPORTED" \in states THEN "SUPPORTED" ELSE "UNKNOWN"

Readiness(deal) ==
  LET states == [d \in Policy.dimensions |-> DimensionState(deal, d)]
  IN [kind |-> "RECEIPT", states |-> states,
      lane |-> IF \A d \in Policy.required[deal.requestType] : states[d] = "SUPPORTED"
               THEN "ASSIGNMENT_ELIGIBLE" ELSE "DEAL_INSPECTION"]

\* validate_for_lane: the groups of fields each lane requires.
RequiredFields ==
  [DEAL_PRIORITIZATION |-> {"COMMON", "SCORING"},
   ASSIGNMENT_RECOMMENDATION |-> {"COMMON", "SCORING", "EFFORT", "MATCHING"}]

ValidForLane(deal, lane) == deal.missing \cap RequiredFields[lane] = {}

\* A receipt needs a dimension; a policy may have none.
ComputeReadiness(d) ==
  LET deal == input.deals[d]
      accepted == /\ ValidForLane(deal, "DEAL_PRIORITIZATION")
                  /\ deal.requestType \in DOMAIN Policy.required
                  /\ \A e \in deal.evidence : e.dimension \in Policy.dimensions
                  /\ Policy.dimensions # {}
  IN /\ readiness[d] = Pending
     /\ readiness' = [readiness EXCEPT ![d] = IF accepted THEN Readiness(deal) ELSE Raised]
     /\ UNCHANGED <<input, asOf, priority, capacity, eligibility, fit, heatmap, scenario>>

-----------------------------------------------------------------------------
(***************************************************************************)
(* scoring: the literal week of the milestone, and the three features.     *)
(***************************************************************************)
InHorizon(elapsed) == 0 <= elapsed /\ elapsed <= 4 * DaysPerWeek * TicksPerDay

Days(elapsed) == CeilDiv(elapsed, TicksPerDay)

WeekOfWholeDays(elapsed) ==   \* mutant: elapsed.days instead of the ceiling
  Greater(1, Lesser(4, (Greater(elapsed \div TicksPerDay, 1) + 6) \div DaysPerWeek))

DueWeekBucket(elapsed) ==
  Greater(1, Lesser(4, (Greater(Days(elapsed), 1) + 6) \div DaysPerWeek))

Urgency(days) ==
  LET latest == {b \in DOMAIN Policy.breakpoints : days <= b}
  IN IF latest = {} THEN 0 ELSE Policy.breakpoints[Min(latest)]

(***************************************************************************)
(* _commercial_value: the deal's own amount, or the approved corporate     *)
(* value, or nothing.                                                      *)
(***************************************************************************)
CommercialValue(deal) ==
  IF deal.basis = Policy.basis THEN {deal.amount}
  ELSE {a.amount : a \in {x \in deal.approvals :
          x.basis = Policy.basis /\ x.lineage \subseteq deal.lineage}}

CommercialBp(amount) ==
  LET bounded == Lesser(Greater(amount, Policy.floor), Policy.cap)
  IN RoundHalfEven((bounded - Policy.floor) * FullBp, Policy.cap - Policy.floor)

ReadinessBp(receipt) ==
  RoundHalfEven(Cardinality({d \in Policy.dimensions : receipt.states[d] = "SUPPORTED"}) * FullBp,
                Cardinality(Policy.dimensions))

PriorityBp(receipt, amount, elapsed) ==
  RoundHalfEven(Policy.weights.urgency * Urgency(Days(elapsed))
                + Policy.weights.readiness * ReadinessBp(receipt)
                + Policy.weights.commercial * CommercialBp(amount), FullBp)

\* A basis mismatch blocks the deal before its horizon is looked at.
Priority(deal, receipt, elapsed) ==
  IF CommercialValue(deal) = {} THEN [kind |-> "BLOCKED"]
  ELSE IF ~InHorizon(elapsed) THEN Raised
  ELSE [kind |-> "RECEIPT", week |-> DueWeekBucket(elapsed),
        bp |-> PriorityBp(receipt, CHOOSE a \in CommercialValue(deal) : TRUE, elapsed)]

ScorePriority(d) ==
  LET deal == input.deals[d]
  IN /\ Done(readiness[d]) /\ priority[d] = Pending
     /\ priority' = [priority EXCEPT ![d] = Priority(deal, readiness[d], deal.due - asOf)]
     /\ UNCHANGED <<input, asOf, readiness, capacity, eligibility, fit, heatmap, scenario>>

-----------------------------------------------------------------------------
RepeatsPrevious(work, i) ==   \* mutant: only a repetition of the row before is seen
  i > 1 /\ work[i - 1] = work[i]

(***************************************************************************)
(* compute_weekly_capacity: workload rows are counted in their order; a    *)
(* row whose work id was seen in its week is not counted again and puts    *)
(* the week in conflict.                                                   *)
(***************************************************************************)
Repeats(work, i) ==
  \E j \in 1..(i - 1) : work[j].id = work[i].id /\ work[j].week = work[i].week

ActiveUnits(work, w) ==
  SumFunctionOnSet([i \in DOMAIN work |-> work[i].units],
    {i \in DOMAIN work : work[i].week = w /\ work[i].active /\ ~Repeats(work, i)})

ConflictWeeks(work) == {work[i].week : i \in {k \in DOMAIN work : Repeats(work, k)}}

Bucket(consultant, w) ==
  LET active == ActiveUnits(consultant.work, w)
      rows == {r \in consultant.availability : r.week = w}
      row == CHOOSE r \in rows : TRUE
      free == row.scheduled - row.timeOff - active
      state == IF \/ row.state = "CONFLICT" \/ w \in ConflictWeeks(consultant.work)
                  \/ free < 0
               THEN "CONFLICT"
               ELSE IF row.state # "COMPLETE" \/ ~consultant.populationComplete
               THEN "INCOMPLETE" ELSE "COMPLETE"
  IN IF rows = {}
     THEN [net |-> 0, active |-> active, free |-> 0, state |-> "INCOMPLETE"]
     ELSE [net |-> row.scheduled - row.timeOff, active |-> active,
           free |-> IF state = "COMPLETE" THEN free ELSE 0, state |-> state]

LastComplete(buckets) ==   \* mutant: a gap before a complete week is forgotten
  Max({0} \cup {w \in Weeks : buckets[w].state = "COMPLETE"})

CompleteThrough(buckets) ==
  Max({0} \cup {w \in Weeks : \A v \in 1..w : buckets[v].state = "COMPLETE"})

WeeklyCapacity(consultant) ==
  LET buckets == [w \in Weeks |-> Bucket(consultant, w)]
  IN [kind |-> "RECEIPT", buckets |-> buckets, through |-> CompleteThrough(buckets)]

\* "availability" is a set of rows; two rows of one week are refused.
ComputeWeeklyCapacity(c) ==
  LET consultant == input.consultants[c]
      duplicate == \E r, s \in consultant.availability : r # s /\ r.week = s.week
  IN /\ capacity[c] = Pending
     /\ capacity' = [capacity EXCEPT ![c] =
                       IF duplicate THEN Raised ELSE WeeklyCapacity(consultant)]
     /\ UNCHANGED <<input, asOf, readiness, priority, eligibility, fit, heatmap, scenario>>

SumThrough(receipt, field, w) ==
  SumFunctionOnSet([v \in Weeks |-> receipt.buckets[v][field]], 1..w)

-----------------------------------------------------------------------------
(***************************************************************************)
(* eligibility: the skills that are asserted at a time, the longest        *)
(* working window, and the hard checks.                                    *)
(***************************************************************************)
CurrentLevels(consultant, skill, time) ==
  {a.level : a \in {x \in consultant.assertions :
     x.skill = skill /\ x.begin <= time /\ (x.end = NoEnd \/ time < x.end)}}

SkillConflicts(consultant, time) ==
  {a.skill : a \in {x \in consultant.assertions :
     \E l, m \in CurrentLevels(consultant, x.skill, time) : l # m}}

\* A window that ends before it begins spans midnight, an empty one a day.
WindowMinutes(span) ==
  IF span[1] = span[2] THEN MinutesPerDay ELSE (span[2] - span[1]) % MinutesPerDay

ValidWindow(consultant) == consultant.zoneValid /\ consultant.spans # {}

LongestWindow(consultant) ==
  IF ValidWindow(consultant) THEN Max({WindowMinutes(s) : s \in consultant.spans}) ELSE 0

RequiredOverlap(deal) == Greater(deal.overlap, Policy.minimumOverlap)

SkillsPassInConflict(deal, consultant, time) ==   \* mutant: a conflicting skill counts
  \A s \in deal.skills :
    /\ s \in DOMAIN Policy.catalog /\ s \in consultant.approved
    /\ \E l \in CurrentLevels(consultant, s, time) : l >= Policy.catalog[s]

SkillsPass(deal, consultant, time) ==
  \A s \in deal.skills :
    /\ s \in DOMAIN Policy.catalog /\ s \in consultant.approved
    /\ s \notin SkillConflicts(consultant, time)
    /\ \E l \in CurrentLevels(consultant, s, time) : l >= Policy.catalog[s]

ProjectedUtilization(deal, receipt, w) ==
  RoundHalfEven((SumThrough(receipt, "active", w) + deal.effort) * FullBp,
                SumThrough(receipt, "net", w))

Checks(d, c) ==
  LET deal == input.deals[d]
      consultant == input.consultants[c]
      w == priority[d].week
      complete == capacity[c].through >= w
  IN [DEAL_LANE |-> readiness[d].lane = "ASSIGNMENT_ELIGIBLE",
      ACTIVE_STATUS |-> consultant.active,
      REGION |-> deal.region \in consultant.regions,
      SKILLS |-> SkillsPass(deal, consultant, asOf),
      LANGUAGE |-> deal.languages \subseteq consultant.languages,
      TIME_ZONE |-> ValidWindow(consultant),
      WORKING_WINDOW |-> ValidWindow(consultant)
                         /\ LongestWindow(consultant) >= RequiredOverlap(deal),
      CAPACITY_COMPLETE |-> complete,
      CUMULATIVE_CAPACITY |-> complete /\ SumThrough(capacity[c], "free", w) >= deal.effort,
      UTILIZATION |-> /\ complete /\ SumThrough(capacity[c], "net", w) > 0
                      /\ ProjectedUtilization(deal, capacity[c], w) <= Policy.ceiling]

Eligibility(d, c) ==
  LET checks == Checks(d, c)
  IN [kind |-> "RECEIPT", checks |-> checks, week |-> priority[d].week,
      eligible |-> \A id \in DOMAIN checks : checks[id],
      minutes |-> LongestWindow(input.consultants[c])]

EvaluateEligibility(d, c) ==
  /\ Done(priority[d]) /\ Done(capacity[c]) /\ eligibility[<<d, c>>] = Pending
  /\ eligibility' = [eligibility EXCEPT ![<<d, c>>] =
       IF ValidForLane(input.deals[d], "ASSIGNMENT_RECOMMENDATION")
       THEN Eligibility(d, c) ELSE Raised]
  /\ UNCHANGED <<input, asOf, readiness, priority, capacity, fit, heatmap, scenario>>

-----------------------------------------------------------------------------
(***************************************************************************)
(* compute_consultant_fit, for an eligible pair.                           *)
(***************************************************************************)
SkillSurplus(deal, consultant, skill) ==
  LET minimum == Policy.catalog[skill]
      level == CHOOSE l \in CurrentLevels(consultant, skill, asOf) : TRUE
  IN (Greater(0, level - minimum) * FullBp) \div Greater(1, 4 - minimum)

SkillBp(deal, consultant) ==
  IF deal.skills = {} THEN FullBp
  ELSE LET surplus == [s \in deal.skills |-> SkillSurplus(deal, consultant, s)]
       IN RoundHalfEven(SumFunction(surplus), Cardinality(deal.skills))

OverlapBp(deal, minutes) ==
  LET floor == RequiredOverlap(deal)
  IN Lesser(FullBp, (Greater(0, minutes - floor) * FullBp)
                    \div Greater(1, MinutesPerDay - floor))

HeadroomBp(deal, receipt, w) ==
  LET net == SumThrough(receipt, "net", w)
      after == SumThrough(receipt, "free", w) - deal.effort
  IN IF net <= 0 THEN 0 ELSE Lesser(FullBp, (Greater(0, after) * FullBp) \div net)

Fit(d, c) ==
  LET deal == input.deals[d]
      consultant == input.consultants[c]
      receipt == eligibility[<<d, c>>]
      continuity == IF deal.continuity = c THEN FullBp ELSE 0
      total == Policy.match.skill * SkillBp(deal, consultant)
               + Policy.match.continuity * continuity
               + Policy.match.overlap * OverlapBp(deal, receipt.minutes)
               + Policy.match.headroom * HeadroomBp(deal, capacity[c], receipt.week)
  IN [kind |-> "RECEIPT", bp |-> RoundHalfEven(total, FullBp)]

\* Any conflicting skill is refused, and a level that is missing by now (KeyError).
FitRaises(d, c) ==
  LET consultant == input.consultants[c]
  IN \/ SkillConflicts(consultant, asOf) # {}
     \/ \E s \in input.deals[d].skills : CurrentLevels(consultant, s, asOf) = {}

ComputeConsultantFit(d, c) ==
  /\ Done(eligibility[<<d, c>>]) /\ eligibility[<<d, c>>].eligible /\ fit[<<d, c>>] = Pending
  /\ fit' = [fit EXCEPT ![<<d, c>>] = IF FitRaises(d, c) THEN Raised ELSE Fit(d, c)]
  /\ UNCHANGED <<input, asOf, readiness, priority, capacity, eligibility, heatmap, scenario>>

-----------------------------------------------------------------------------
(***************************************************************************)
(* compute_capacity_heatmap: a cell for each region, skill and week that a *)
(* demand or an active consultant touches.  Only consultants whose four    *)
(* weeks are complete supply it; the others are named as excluded.         *)
(***************************************************************************)
Active == {c \in Consultants : input.consultants[c].active}

Groups(demands) ==
  UNION {{dem.region} \X dem.skills : dem \in demands}
  \cup UNION {input.consultants[c].regions \X input.consultants[c].approved : c \in Active}

Matching(g) ==
  {c \in Active : g[1] \in input.consultants[c].regions /\ g[2] \in input.consultants[c].approved}

Suppliers(g) == {c \in Matching(g) : Done(capacity[c]) /\ capacity[c].through = 4}

Demand(demands, g, w) ==
  SumFunctionOnSet([dem \in demands |-> dem.effort],
    {dem \in demands : dem.region = g[1] /\ g[2] \in dem.skills /\ dem.week = w})

Cell(demands, g, w) ==
  LET sum(field) == SumFunction([c \in Suppliers(g) |-> capacity[c].buckets[w][field]])
      demand == Demand(demands, g, w)
  IN [demand |-> demand, supply |-> sum("net"), active |-> sum("active"), free |-> sum("free"),
      utilization |-> IF sum("net") = 0 THEN 0
                      ELSE CeilDiv((sum("active") + demand) * FullBp, sum("net")),
      surplus |-> sum("free") - demand,
      excluded |-> Matching(g) \ Suppliers(g)]

Cells(demands) == [gw \in Groups(demands) \X Weeks |-> Cell(demands, gw[1], gw[2])]

NoCells == [gw \in {} |-> 0]

ComputeCapacityHeatmap ==
  /\ heatmap = NoCells
  /\ \A c \in Consultants : capacity[c] # Pending
  /\ heatmap' = Cells(input.demands)
  /\ UNCHANGED <<input, asOf, readiness, priority, capacity, eligibility, fit, scenario>>

(***************************************************************************)
(* apply_emea_effort_assumption, and the heatmap computed again.           *)
(***************************************************************************)
RaisedEffort(dem) ==
  IF dem.region = "EMEA" THEN [dem EXCEPT !.effort = CeilDiv(5 * dem.effort, 4)] ELSE dem

RunEmeaScenario ==
  /\ heatmap # NoCells /\ scenario = NoCells
  /\ scenario' = Cells({RaisedEffort(dem) : dem \in input.demands})
  /\ UNCHANGED <<input, asOf, readiness, priority, capacity, eligibility, fit, heatmap>>

\* The next call is made with a later as_of.
Later ==
  /\ asOf < MaxDelay
  /\ asOf' = asOf + 1
  /\ UNCHANGED <<input, readiness, priority, capacity, eligibility, fit, heatmap, scenario>>

Init ==
  /\ input \in Inputs
  /\ asOf = 0
  /\ readiness = [d \in Deals |-> Pending]
  /\ priority = [d \in Deals |-> Pending]
  /\ capacity = [c \in Consultants |-> Pending]
  /\ eligibility = [p \in Pairs |-> Pending]
  /\ fit = [p \in Pairs |-> Pending]
  /\ heatmap = NoCells
  /\ scenario = NoCells

Next ==
  \/ \E d \in Deals : ComputeReadiness(d) \/ ScorePriority(d)
  \/ \E c \in Consultants : ComputeWeeklyCapacity(c)
  \/ \E d \in Deals, c \in Consultants : EvaluateEligibility(d, c) \/ ComputeConsultantFit(d, c)
  \/ ComputeCapacityHeatmap
  \/ RunEmeaScenario
  \/ Later

Spec == Init /\ [][Next]_vars

-----------------------------------------------------------------------------
BpOk(receipts) == \A x \in DOMAIN receipts : Done(receipts[x]) => receipts[x].bp \in 0..FullBp

TypeOK ==
  /\ asOf \in 0..MaxDelay
  /\ \A d \in Deals :
       Done(readiness[d]) =>
         /\ readiness[d].states \in [Policy.dimensions -> {"SUPPORTED", "UNKNOWN", "CONFLICT"}]
         /\ readiness[d].lane \in {"ASSIGNMENT_ELIGIBLE", "DEAL_INSPECTION"}
  /\ BpOk(priority) /\ BpOk(fit)
  /\ \A c \in Consultants :
       Done(capacity[c]) =>
         /\ capacity[c].through \in 0..4
         /\ \A w \in Weeks : capacity[c].buckets[w].free \in Nat
  /\ \A p \in Pairs :
       Done(eligibility[p]) => /\ eligibility[p].week \in Weeks
                               /\ eligibility[p].minutes \in 0..MinutesPerDay

(***************************************************************************)
(* A priority receipt names the first week, counted from the as_of of its  *)
(* own call, that the milestone does not lie beyond.  The code gets there  *)
(* by rounding days up and then dividing with an offset.                   *)
(***************************************************************************)
IsDueWeek(w, elapsed) ==
  /\ w \in Weeks
  /\ elapsed <= w * DaysPerWeek * TicksPerDay
  /\ w > 1 => elapsed > (w - 1) * DaysPerWeek * TicksPerDay

DueWeekIsExact ==
  [][\A d \in Deals : Done(priority'[d]) /\ priority'[d] # priority[d]
       => IsDueWeek(priority'[d].week, input.deals[d].due - asOf)]_vars

(***************************************************************************)
(* An eligible pair has room in the frozen rows themselves: every week up  *)
(* to the due week has one complete availability row and no repeated work, *)
(* no week is overbooked, and what the rows leave free covers the effort.  *)
(* With it the consultant is at most half a basis point above the ceiling  *)
(* of utilization: eligibility rounds half to even what the optimizer then *)
(* compares exactly.  (Types are checked along with it.)                   *)
(***************************************************************************)
Booked(consultant, weeks) ==
  SumFunctionOnSet([i \in DOMAIN consultant.work |-> consultant.work[i].units],
    {i \in DOMAIN consultant.work : consultant.work[i].week \in weeks /\ consultant.work[i].active})

Offered(consultant, weeks) ==
  SumFunctionOnSet([r \in consultant.availability |-> r.scheduled - r.timeOff],
                   {r \in consultant.availability : r.week \in weeks})

HasRoom(deal, consultant, w) ==
  /\ consultant.populationComplete
  /\ \A v \in 1..w : \E r \in consultant.availability : r.week = v /\ r.state = "COMPLETE"
  /\ \A i, j \in DOMAIN consultant.work :
       i # j /\ consultant.work[i].id = consultant.work[j].id
         => consultant.work[i].week # consultant.work[j].week \/ consultant.work[i].week > w
  /\ \A v \in 1..w : Booked(consultant, {v}) <= Offered(consultant, {v})
  /\ Booked(consultant, 1..w) + deal.effort <= Offered(consultant, 1..w)
  /\ 2 * (Booked(consultant, 1..w) + deal.effort) * FullBp
       <= (2 * Policy.ceiling + 1) * Offered(consultant, 1..w)

EligibleMeansRoom ==
  /\ TypeOK
  /\ \A d \in Deals, c \in Consultants :
       Done(eligibility[<<d, c>>]) /\ eligibility[<<d, c>>].eligible
         => HasRoom(input.deals[d], input.consultants[c], eligibility[<<d, c>>].week)

(***************************************************************************)
(* The order in which the workload source lists its rows does not decide   *)
(* what a consultant can take on: states, free units and the completeness  *)
(* horizon are those of every other order.  (Which of two repeated rows is *)
(* counted does depend on it, in weeks that are then in conflict.)         *)
(***************************************************************************)
Reorderings(work) ==
  {[i \in DOMAIN work |-> work[p[i]]] :
     p \in {f \in [DOMAIN work -> DOMAIN work] : \A i, j \in DOMAIN work : f[i] = f[j] => i = j}}

RowOrderIsIrrelevant ==
  \A c \in Consultants : Done(capacity[c]) =>
    \A work \in Reorderings(input.consultants[c].work) :
      LET other == WeeklyCapacity([input.consultants[c] EXCEPT !.work = work])
      IN /\ other.through = capacity[c].through
         /\ \A w \in Weeks : /\ other.buckets[w].state = capacity[c].buckets[w].state
                             /\ other.buckets[w].free = capacity[c].buckets[w].free

(***************************************************************************)
(* A portfolio problem can only be built when "exactly eligible pairs      *)
(* carry consultant fit" (contracts/phase3.py:42).  The fit of an eligible *)
(* pair raises for two reasons only: a skill the deal does not require has *)
(* conflicting assertions, or the assertions of a required skill changed   *)
(* with the time of the call.                                              *)
(***************************************************************************)
FitRaisesAreExplained ==
  [][\A d \in Deals, c \in Consultants :
       fit'[<<d, c>>] # fit[<<d, c>>] /\ fit'[<<d, c>>] = Raised
       => \/ \E s \in SkillConflicts(input.consultants[c], asOf) : s \notin input.deals[d].skills
          \/ \E a \in input.consultants[c].assertions :
               /\ a.skill \in input.deals[d].skills
               /\ {a.begin, a.end} \cap 1..asOf # {}]_vars

(***************************************************************************)
(* The two figures a heatmap cell shows never contradict each other: the   *)
(* utilization, rounded up, is above 100% exactly when the cell is in      *)
(* deficit.  It needs free units that are net minus workload, which only   *)
(* suppliers with four complete weeks have.                                *)
(***************************************************************************)
OverfullMeansDeficit ==
  \A cells \in {heatmap, scenario} : \A gw \in DOMAIN cells :
    cells[gw].supply > 0 => (cells[gw].utilization > FullBp <=> cells[gw].surplus < 0)

(***************************************************************************)
(* The scenario changes the demand of EMEA cells and nothing else, by a    *)
(* quarter and less than one unit for each deal in the cell.               *)
(***************************************************************************)
ScenarioAddsAQuarter ==
  scenario # NoCells =>
    /\ DOMAIN scenario = DOMAIN heatmap
    /\ \A gw \in DOMAIN heatmap :
         LET before == heatmap[gw]
             after == scenario[gw]
             added == 4 * after.demand - 5 * before.demand
         IN IF gw[1][1] # "EMEA" THEN after = before
            ELSE /\ added \in 0..(3 * Cardinality(input.demands))
                 /\ \A field \in {"supply", "active", "free", "excluded"} :
                      after[field] = before[field]

(***************************************************************************)
(* A heatmap and the scenario's heatmap tell the same story: each cell     *)
(* with itself, and the second with the first.                             *)
(***************************************************************************)
CellsAgree == OverfullMeansDeficit /\ ScenarioAddsAQuarter

(***************************************************************************)
(* Capacity tells one story, whatever order its rows came in and in both   *)
(* heatmaps.                                                               *)
(***************************************************************************)
CapacityTellsOneStory == RowOrderIsIrrelevant /\ CellsAgree

=============================================================================
