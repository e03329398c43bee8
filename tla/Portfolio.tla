----------------------------- MODULE Portfolio -----------------------------
(***************************************************************************)
(* The assignment of deals to consultants: the capacity gates of           *)
(* eligibility.evaluate_eligibility, the four sequential solves of         *)
(* optimizer.solve_portfolio, its verifier, the brute-force oracle, and    *)
(* the forced re-solves of alternatives.build_assignment_recommendation.   *)
(*                                                                         *)
(* CP-SAT is external: a solve returns OPTIMAL with a true optimum and one *)
(* of the selections that reach it, INFEASIBLE when there is none, and may *)
(* stop at the time limit with FEASIBLE or UNKNOWN.                        *)
(***************************************************************************)
EXTENDS Rounding, Sequences, FiniteSets, FiniteSetsExt

CONSTANTS
  DealIds, ConsultantIds,  \* numbers, for the order of stable IDs
  LastWeek,            \* the horizon: 4 in the code
  Ceiling,             \* policy.utilization_ceiling, in basis points
  Problems             \* the frozen problems explored

None == 0
Horizon == 1..LastWeek
DealPairs == DealIds \X ConsultantIds

\* net is scheduled minus time off; free units exist in a COMPLETE bucket only.
BucketType == [net : Nat, workload : Nat, complete : BOOLEAN]

(***************************************************************************)
(* PortfolioProblemV1.  "cleared" holds the pairs that passed the gates on *)
(* lane, status, region, skills, language and working window.              *)
(***************************************************************************)
IsProblem(p) ==
  /\ p.due \in [DealIds -> Horizon] /\ p.effort \in [DealIds -> Nat \ {0}]
  /\ p.priority \in [DealIds -> 0..FullBp] /\ p.fit \in [DealPairs -> 0..FullBp]
  /\ p.cleared \subseteq DealPairs
  /\ p.capacity \in [ConsultantIds -> [Horizon -> BucketType]]
  /\ \A c \in ConsultantIds, w \in Horizon :
       LET b == p.capacity[c][w] IN b.complete => b.workload <= b.net

ASSUME IdsAssumption ==
  /\ DealIds \subseteq Nat \ {None} /\ IsFiniteSet(DealIds)
  /\ ConsultantIds \subseteq Nat \ {None} /\ IsFiniteSet(ConsultantIds)
ASSUME HorizonAssumption == LastWeek \in Nat \ {0} /\ Ceiling \in 0..FullBp
ASSUME ProblemsAssumption == \A p \in Problems : IsProblem(p)

VARIABLES
  problem,      \* the frozen PortfolioProblemV1 ...
  eligible,     \* ... and the pairs whose eligibility receipt in it says so
  forced,       \* forced_pairs of the solve that is running
  fixed,        \* optima of the phases solved so far
  receipt,      \* solver receipt of the recommendation
  alternative,  \* solver receipt of the counterfactual that is built last
  stage         \* "SOLVE", "RECOMMENDED", "COUNTERFACTUAL", "DONE"

solveVars == <<problem, eligible, forced, fixed, receipt, alternative, stage>>

NoReceipt == [status |-> "NONE", assignments |-> {}, objectives |-> <<>>]

-----------------------------------------------------------------------------
(***************************************************************************)
(* Cumulative figures of one consultant over the weeks 1..w.               *)
(***************************************************************************)
Net(c, w) == SumFunctionOnSet([i \in 1..w |-> problem.capacity[c][i].net], 1..w)
Workload(c, w) == SumFunctionOnSet([i \in 1..w |-> problem.capacity[c][i].workload], 1..w)
Complete(c, w) == \A i \in 1..w : problem.capacity[c][i].complete

(***************************************************************************)
(* eligibility: the deal's due week decides how far capacity must be       *)
(* complete; the projected utilization is rounded half to even.            *)
(***************************************************************************)
WithinCapacity(d, c) ==
  LET w == problem.due[d]
      need == problem.effort[d]
  IN /\ Complete(c, w)
     /\ Net(c, w) - Workload(c, w) >= need
     /\ Net(c, w) > 0
     /\ RoundHalfEven((Workload(c, w) + need) * FullBp, Net(c, w)) <= Ceiling

EligiblePairs == {p \in problem.cleared : WithinCapacity(p[1], p[2])}

Candidates == {p[2] : p \in eligible}

-----------------------------------------------------------------------------
(***************************************************************************)
(* A selection is a set of pairs; at most one per deal.                    *)
(***************************************************************************)
OnePerDeal(S) == \A p, q \in S : p[1] = q[1] => p = q

\* The sum of a figure of its pairs over a selection.
SumOver(figure, S) == SumFunctionOnSet([p \in S |-> figure[p]], S)

EffortOf == [p \in eligible |-> problem.effort[p[1]]]
PriorityOf == [p \in eligible |-> problem.priority[p[1]]]

Assigned(S, c, w) == SumOver(EffortOf, {p \in S : p[2] = c /\ problem.due[p[1]] <= w})

WeekFits(S, c, w) ==
  /\ Complete(c, w)
  /\ Assigned(S, c, w) <= Net(c, w) - Workload(c, w)
  /\ (Workload(c, w) + Assigned(S, c, w)) * FullBp <= Ceiling * Net(c, w)

(***************************************************************************)
(* _build_model: what CP-SAT is given.  The weekly constraints are added   *)
(* for every consultant with an eligible pair, over the whole horizon.     *)
(***************************************************************************)
Model(S, must) ==
  /\ S \subseteq eligible
  /\ OnePerDeal(S)
  /\ must \subseteq S
  /\ \A c \in Candidates, w \in Horizon : WeekFits(S, c, w)

(***************************************************************************)
(* _verify_constraints: the same constraints, for assigned consultants.    *)
(***************************************************************************)
Verified(S, must) ==
  /\ must \subseteq S
  /\ S \subseteq eligible
  /\ OnePerDeal(S)
  /\ \A c \in {p[2] : p \in S}, w \in Horizon : WeekFits(S, c, w)

(***************************************************************************)
(* _objective_values.  The peak is over all candidates, rounded up.        *)
(***************************************************************************)
Utilization(S, c, w) ==
  LET net == Net(c, w)
  IN IF net = 0 THEN 0
     ELSE CeilDiv((Workload(c, w) + Assigned(S, c, w)) * FullBp, net)

Peak(S) == Max({0} \cup {Utilization(S, q[1], q[2]) : q \in Candidates \X Horizon})

PriorityTotal(S) == SumOver(PriorityOf, S)
MatchTotal(S) == SumOver(problem.fit, S)

\* Position of a pair among the eligible pairs in the order of the IDs.
Rank(p) ==
  Cardinality({q \in eligible : q[1] < p[1] \/ (q[1] = p[1] /\ q[2] <= p[2])})

TieCost(S) == SumFunctionOnSet([p \in S |-> Rank(p)], S)

Objectives(S) == <<PriorityTotal(S), MatchTotal(S), 0 - Peak(S), 0 - TieCost(S)>>

Selections(must) == {S \in SUBSET eligible : Model(S, must)}

-----------------------------------------------------------------------------
SolveInit ==
  /\ problem \in Problems
  /\ eligible = EligiblePairs
  /\ forced = {}
  /\ fixed = <<>>
  /\ receipt = NoReceipt
  /\ alternative = NoReceipt
  /\ stage = "SOLVE"

Failure(status) == [status |-> status, assignments |-> {}, objectives |-> <<>>]

FinishKeepsPhases(r) ==   \* mutant: the counterfactual inherits the optima
  /\ \/ stage = "SOLVE" /\ receipt' = r /\ stage' = "RECOMMENDED" /\ UNCHANGED alternative
     \/ stage = "COUNTERFACTUAL" /\ alternative' = r /\ stage' = "DONE" /\ UNCHANGED receipt
  /\ UNCHANGED <<problem, eligible, forced, fixed>>

(***************************************************************************)
(* The end of a solve: the recommendation, or the counterfactual, gets its *)
(* receipt.                                                                *)
(***************************************************************************)
Finish(r) ==
  /\ fixed' = <<>>
  /\ \/ /\ stage = "SOLVE"
        /\ receipt' = r
        /\ stage' = "RECOMMENDED"
        /\ UNCHANGED alternative
     \/ /\ stage = "COUNTERFACTUAL"
        /\ alternative' = r
        /\ stage' = "DONE"
        /\ UNCHANGED receipt
  /\ UNCHANGED <<problem, eligible, forced>>

Solving == stage \in {"SOLVE", "COUNTERFACTUAL"}

NothingToSolve ==
  /\ Solving
  /\ eligible = {} /\ forced = {}
  /\ Finish(Failure("NO_FEASIBLE_ASSIGNMENT"))

(***************************************************************************)
(* The selections that keep the optima of the earlier phases, and those of *)
(* them that are best in the next phase.                                   *)
(***************************************************************************)
Remaining ==
  {S \in Selections(forced) : SubSeq(Objectives(S), 1, Len(fixed)) = fixed}

BestOf(R, i) ==
  LET value == [S \in R |-> Objectives(S)[i]]
      top == Max({value[S] : S \in R})
  IN {S \in R : value[S] = top}

BestWithLargestPeak ==   \* mutant: the third phase maximizes the peak
  LET i == Len(fixed) + 1
  IN {S \in Remaining : \A T \in Remaining :
        IF i = 3 THEN Objectives(S)[i] <= Objectives(T)[i] ELSE Objectives(S)[i] >= Objectives(T)[i]}

Best ==
  LET R == Remaining
  IN IF R = {} THEN {} ELSE BestOf(R, Len(fixed) + 1)

(***************************************************************************)
(* _solve_phase, for the phases before the last: the optimum is fixed.     *)
(***************************************************************************)
SolvePhase ==
  /\ Solving
  /\ ~(eligible = {} /\ forced = {})
  /\ Len(fixed) < 3
  /\ \E value \in {Objectives(S)[Len(fixed) + 1] : S \in Best} :
       fixed' = Append(fixed, value)
  /\ UNCHANGED <<problem, eligible, forced, receipt, alternative, stage>>

Infeasible ==
  /\ Solving
  /\ ~(eligible = {} /\ forced = {})
  /\ Remaining = {}
  /\ Finish(Failure("INFEASIBLE"))

\* The time limit of a phase ends the solve without a recommendation.
TimeLimit(status) ==
  /\ Solving
  /\ ~(eligible = {} /\ forced = {})
  /\ status = "FEASIBLE" => Remaining # {}
  /\ Finish(Failure(status))

(***************************************************************************)
(* The last phase: any selection of least tie cost may be returned.  It is *)
(* verified and its objectives recomputed before it becomes a receipt.     *)
(***************************************************************************)
TieBreak ==
  /\ Solving
  /\ Len(fixed) = 3
  /\ \E S \in Best :
       LET values == SubSeq(Objectives(S), 1, 3)
       IN Finish(IF Verified(S, forced) /\ values = fixed
                 THEN [status |-> "OPTIMAL", assignments |-> S, objectives |-> values]
                 ELSE Failure("MODEL_INVALID"))

(***************************************************************************)
(* build_assignment_recommendation: the portfolio is solved again with one *)
(* of the two best fitting rejected candidates of a deal forced.           *)
(***************************************************************************)
Rejected(d) == {p \in eligible : p[1] = d /\ p \notin receipt.assignments}

Better(p, q) ==
  problem.fit[p] > problem.fit[q] \/ (problem.fit[p] = problem.fit[q] /\ p[2] < q[2])

RunnersUp(d) ==
  {p \in Rejected(d) : Cardinality({q \in Rejected(d) : Better(q, p)}) < 2}

Counterfactual ==
  /\ stage = "RECOMMENDED"
  /\ \E d \in DealIds : \E p \in RunnersUp(d) : forced' = {p}
  /\ stage' = "COUNTERFACTUAL"
  /\ UNCHANGED <<problem, eligible, fixed, receipt, alternative>>

SolveNext ==
  \/ NothingToSolve
  \/ SolvePhase
  \/ Infeasible
  \/ \E status \in {"FEASIBLE", "UNKNOWN"} : TimeLimit(status)
  \/ TieBreak
  \/ Counterfactual

SolveSpec == SolveInit /\ [][SolveNext]_solveVars

-----------------------------------------------------------------------------
Statuses ==
  {"NONE", "OPTIMAL", "FEASIBLE", "INFEASIBLE", "UNKNOWN", "MODEL_INVALID",
   "NO_FEASIBLE_ASSIGNMENT"}

Receipts == {receipt, alternative}

\* SolverReceiptV1.outcome_is_honest
Honest(r) ==
  IF r.status = "OPTIMAL" THEN r.assignments \subseteq eligible /\ r.objectives \in Nat \X Nat \X Int
  ELSE r.assignments = {} /\ r.objectives = <<>>

SolveTypeOK ==
  /\ IsProblem(problem) /\ eligible \subseteq problem.cleared
  /\ forced \subseteq DealPairs /\ Cardinality(forced) <= 1
  /\ fixed \in Seq(Int) /\ Len(fixed) <= 3
  /\ \A r \in Receipts : r.status \in Statuses /\ Honest(r)
  /\ stage \in {"SOLVE", "RECOMMENDED", "COUNTERFACTUAL", "DONE"}

(***************************************************************************)
(* brute_force_oracle: every selection the verifier accepts is compared by *)
(* (priority, match, -peak, -tie).                                         *)
(***************************************************************************)
LexLess(u, v) ==
  \E i \in 1..Len(u) : u[i] < v[i] /\ \A j \in 1..(i - 1) : u[j] = v[j]

OracleSelections(must) == {S \in SUBSET eligible : Verified(S, must)}

OracleBest(must) ==
  LET value == [S \in OracleSelections(must) |-> Objectives(S)]
  IN {S \in DOMAIN value : \A T \in DOMAIN value : ~LexLess(value[S], value[T])}

(***************************************************************************)
(* The four phases compute what the oracle computes in one comparison: an  *)
(* OPTIMAL receipt holds a selection the oracle finds best, for the        *)
(* recommendation and for the counterfactual.                              *)
(***************************************************************************)
OptimalMeansOracleBest ==
  /\ receipt.status = "OPTIMAL" => receipt.assignments \in OracleBest({})
  /\ alternative.status = "OPTIMAL" => alternative.assignments \in OracleBest(forced)

(***************************************************************************)
(* The verifier behind the solver never has to object.                     *)
(***************************************************************************)
VerifierNeverObjects == \A r \in Receipts : r.status # "MODEL_INVALID"

(***************************************************************************)
(* What the optimizer returns, recommended or counterfactual, is what the  *)
(* oracle finds best, and the verifier stays silent. (Types are checked    *)
(* along with it.)                                                         *)
(***************************************************************************)
SolverAgreesWithOracle == SolveTypeOK /\ OptimalMeansOracleBest /\ VerifierNeverObjects

(***************************************************************************)
(* optimizer.py:118 "No eligible receipt should point through incomplete   *)
(* capacity": the portfolio is INFEASIBLE only when the oracle finds       *)
(* nothing either.                                                         *)
(***************************************************************************)
InfeasibleMeansNoSelection ==
  /\ receipt.status = "INFEASIBLE" => OracleSelections({}) = {}
  /\ alternative.status = "INFEASIBLE" => OracleSelections(forced) = {}

(***************************************************************************)
(* It does hold when every candidate's capacity is complete and within the *)
(* ceiling over the whole horizon before anything is assigned.             *)
(***************************************************************************)
CandidatesAreOpen == \A c \in Candidates, w \in Horizon : WeekFits({}, c, w)

InfeasibleMeansNoSelectionWhenOpen == CandidatesAreOpen => InfeasibleMeansNoSelection

=============================================================================
