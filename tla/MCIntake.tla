------------------------------ MODULE MCIntake ------------------------------
(***************************************************************************)
(* Three families of inputs: deal files of every shape with a correction,  *)
(* the five files of an assignment run, and routes of every relation.      *)
(***************************************************************************)
EXTENDS Intake

Row(native, version) == [mapped |-> TRUE, projects |-> TRUE, native |-> native, version |-> version]
Unmapped == [Row("n1", 1) EXCEPT !.mapped = FALSE]
Unprojected == [Row("n1", 1) EXCEPT !.projects = FALSE]

Shapes == {Row("n1", 1), Row("n1", 2), Row("n2", 1), Row(None, 1), Unmapped, Unprojected}
MCRows == Shapes \cup {Row("n2", 2)}
Files(n) == UNION {[1..k -> Shapes] : k \in 0..n}

\* A route is about a deal and a time.
Route(id, file, origin, content, about) ==
  [id |-> id, file |-> file, origin |-> origin, content |-> content, deal |-> about[1],
   times |-> about[2], valid |-> TRUE]

Given(lane, files, corrected, routes, n) ==
  [lane |-> lane, files |-> files, corrected |-> corrected, routes |-> routes,
   completeConsultants |-> n]

OneFile(file) == [k \in {Deal} |-> file]
Shaped ==
  {Given("DEAL_PRIORITIZATION", OneFile(f), OneFile(g), {}, 0) : f \in Files(3), g \in
     {<<Row("n1", 2)>>, <<Row("n1", 1), Row("n2", 2)>>, <<Row("n2", 1), Row("n1", 1)>>}}

Each(file) == [k \in Kinds |-> IF k = Deal THEN file ELSE <<Row("n1", 1)>>]
Staffed ==
  {Given(lane, Each(f), Each(<<Row("n1", 1)>>), {}, n) :
     lane \in {"DEAL_PRIORITIZATION", "ASSIGNMENT_RECOMMENDATION", "CAPACITY_HEATMAP"},
     f \in {<<>>, <<Row("n1", 2)>>}, n \in {0, 1}}

Told ==
  {Given("DEAL_PRIORITIZATION", OneFile(<<Row("n1", 1)>>), OneFile(<<Row("n1", 1)>>),
         {Route(i, f[i], o[i], c[i], a[i]) : i \in 1..3}, 0) :
     f \in {<<TRUE, FALSE, FALSE>>, <<TRUE, TRUE, TRUE>>}, o \in [1..3 -> {"o1", "o2", "o3"}],
     c \in [1..3 -> {"h1", "h2"}], a \in [1..3 -> {<<"d1", "t1">>, <<"d2", "t1">>, <<"d1", "t2">>}]}

\* A lane without conversations, and a route that fails a check.
Plain == Route(1, TRUE, "o1", "h1", <<"d1", "t1">>)
Untold ==
  {Given("CAPACITY_HEATMAP", Each(<<Row("n1", 1)>>), Each(<<Row("n1", 1)>>), {Plain}, 1),
   Given("DEAL_PRIORITIZATION", OneFile(<<Row("n1", 1)>>), OneFile(<<Row("n1", 1)>>),
         {[Plain EXCEPT !.valid = FALSE]}, 0)}

MCInputs == Shaped \cup Staffed \cup Told \cup Untold

=============================================================================
