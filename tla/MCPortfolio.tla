---------------------------- MODULE MCPortfolio ----------------------------
(***************************************************************************)
(* Problems for TLC: two weeks stand for the four of the code, capacity    *)
(* comes in the buckets that matter.                                       *)
(***************************************************************************)
EXTENDS Portfolio

Week(net, workload) == [net |-> net, workload |-> workload, complete |-> TRUE]

\* free, half used, unknown, and full: a consultant who is free in week 1 and
\* busy in week 2 is below the ceiling until work is added
FreeWeek == Week(2, 0)
HalfWeek == Week(2, 1)
BusyWeek == Week(4, 4)
GapWeek == [net |-> 0, workload |-> 0, complete |-> FALSE]

OpenBuckets == {FreeWeek, HalfWeek}
HardBuckets == {FreeWeek, BusyWeek, GapWeek}

Constant(S, value) == [x \in S |-> value]

ProblemWith(due, priority, fit, cleared, capacity) ==
  [due |-> due, effort |-> Constant(DealIds, 1), priority |-> priority, fit |-> fit,
   cleared |-> cleared, capacity |-> capacity]

\* Two deals compete for two consultants with open weeks; the third is unknown.
FirstTwo(f) == \A d \in DealIds : f[<<d, 3>>] = 1
Competing ==
  {ProblemWith(due, priority, fit, DealIds \X {1, 2},
               [c \in ConsultantIds |-> IF c = 3 THEN Constant(Horizon, GapWeek) ELSE open[c]]) :
     due \in [DealIds -> Horizon], priority \in [DealIds -> {1, 2}],
     fit \in {f \in [DealPairs -> {1, 2}] : FirstTwo(f)}, open \in [{1, 2} -> [Horizon -> OpenBuckets]]}

\* One deal may go to any of three consultants with free, busy and unknown weeks.
Choosing ==
  {ProblemWith(Constant(DealIds, due), Constant(DealIds, 1),
               [p \in DealPairs |-> fit[p[2]]], {1} \X cleared, capacity) :
     due \in Horizon, fit \in [ConsultantIds -> {1, 2}], cleared \in {ConsultantIds, {1, 3}},
     capacity \in [ConsultantIds -> [Horizon -> HardBuckets]]}

MCProblems == Competing \cup Choosing

=============================================================================
