------------------------------ MODULE MCEngine ------------------------------
(***************************************************************************)
(* Six families of inputs, each varying what one part of the engine looks *)
(* at and leaving the rest as a run that succeeds would have it.           *)
(***************************************************************************)
EXTENDS Engine, TLC

MCPolicy ==
  [dimensions |-> {"scope", "plan"},
   required |-> [POC |-> {"scope"}, RFP |-> {"scope", "plan"}],
   breakpoints |-> (7 :> 10000) @@ (14 :> 5000) @@ (28 :> 1001),
   weights |-> [urgency |-> 5000, readiness |-> 3000, commercial |-> 2000],
   floor |-> 1, cap |-> 4, basis |-> "CORPORATE",
   catalog |-> [security |-> 2, data |-> 4],
   minimumOverlap |-> 240, ceiling |-> 8571,
   match |-> [skill |-> 4000, continuity |-> 1000, overlap |-> 2000, headroom |-> 3000]]

Supported(dims) == {[dimension |-> d, state |-> "SUPPORTED"] : d \in dims}

GoodDeal ==
  [missing |-> {}, requestType |-> "POC", due |-> 14, evidence |-> Supported({"scope"}),
   amount |-> 3, basis |-> "CORPORATE", approvals |-> {}, lineage |-> {"l1"},
   region |-> "EMEA", effort |-> 2, skills |-> {"security"}, languages |-> {"en"},
   overlap |-> 480, continuity |-> "none"]

Full(week) == [week |-> week, scheduled |-> 5, timeOff |-> 1, state |-> "COMPLETE"]
Now(skill, level) == [skill |-> skill, level |-> level, begin |-> 0 - 1, end |-> NoEnd]

GoodConsultant ==
  [active |-> TRUE, regions |-> {"EMEA"}, languages |-> {"en"}, approved |-> {"security"},
   zoneValid |-> TRUE, spans |-> {<<540, 1020>>}, assertions |-> {Now("security", 3)},
   availability |-> {Full(w) : w \in Weeks}, work |-> <<>>, populationComplete |-> TRUE]

NoDeals == [d \in {} |-> GoodDeal]
NoConsultants == [c \in {} |-> GoodConsultant]

Input(deals, consultants, demands) ==
  [deals |-> deals, consultants |-> consultants, demands |-> demands]

\* Milestones around every boundary of the horizon, and commercial bases.
Approval(basis, lineage) == [amount |-> 9, basis |-> basis, lineage |-> lineage]
Scored ==
  {Input([d1 |-> [GoodDeal EXCEPT !.due = due, !.basis = basis, !.approvals = a]],
         NoConsultants, {}) :
     due \in (0 - 1)..58, basis \in {"CORPORATE", "LOCAL"},
     a \in {{}, {Approval("CORPORATE", {"l1"})}, {Approval("CORPORATE", {"l2"})}}}

Evidence == [dimension : {"scope", "plan"}, state : {"SUPPORTED", "CONFLICT", "UNKNOWN"}]
Judged ==
  {Input([d1 |-> [GoodDeal EXCEPT !.evidence = e, !.requestType = t]], NoConsultants, {}) :
     e \in {x \in SUBSET Evidence : Cardinality(x) <= 3}, t \in {"POC", "RFP", "OTHER"}}

\* One pair against the gates that look at neither skills nor capacity.
Gated ==
  {Input([d1 |-> [GoodDeal EXCEPT !.languages = l, !.overlap = o, !.missing = m, !.continuity = "c1"]],
         [c1 |-> [GoodConsultant EXCEPT !.active = a, !.regions = r, !.zoneValid = z, !.spans = s]], {}) :
     l \in {{"en"}, {"en", "fr"}}, o \in {0, 480, 1440}, m \in {{}, {"MATCHING"}},
     a \in BOOLEAN, r \in {{"EMEA"}, {"APAC"}}, z \in BOOLEAN,
     s \in {{}, {<<540, 1020>>}, {<<1200, 120>>}, {<<0, 0>>, <<540, 600>>}}}

\* Skill assertions that conflict, start and end between two calls.
Assertions ==
  {Now("security", 3), [Now("security", 1) EXCEPT !.begin = 1],
   [Now("security", 2) EXCEPT !.end = 1], Now("data", 4), [Now("data", 3) EXCEPT !.begin = 1]}
Skilled ==
  {Input([d1 |-> [GoodDeal EXCEPT !.skills = k]],
         [c1 |-> [GoodConsultant EXCEPT !.assertions = x, !.approved = {"security", "data"}]], {}) :
     k \in {{}, {"security"}, {"security", "data"}}, x \in SUBSET Assertions}

\* Availability and workload rows, complete or not, repeated or not.
Rows(w) == {{}, {Full(w)}, {Full(w), [Full(w) EXCEPT !.timeOff = 0]}}
           \cup {{[Full(w) EXCEPT !.state = s]} : s \in {"INCOMPLETE", "CONFLICT"}}
           \cup {{[Full(w) EXCEPT !.scheduled = 8]}}
Work(id, w, n) == [id |-> id, week |-> w, units |-> n, active |-> n # 3]
Works == {<<>>, <<Work("k1", 1, 2), Work("k1", 2, 2)>>, <<Work("k1", 1, 1), Work("k1", 1, 3)>>,
          <<Work("k1", 2, 1), Work("k2", 2, 2), Work("k1", 2, 1)>>,
          <<Work("k1", 1, 2), Work("k2", 1, 3), Work("k2", 2, 5)>>}
Offering ==
  {Input([d1 |-> [GoodDeal EXCEPT !.due = due, !.effort = n]],
         [c1 |-> [GoodConsultant EXCEPT !.work = k, !.populationComplete = p,
                    !.availability = r1 \cup r2 \cup {Full(3), Full(4)}]], {}) :
     due \in {14, 28, 56}, n \in {2, 5, 6}, k \in Works, p \in BOOLEAN, r1 \in Rows(1), r2 \in Rows(2)}

\* The heatmap: two demands and two consultants of different completeness.
Demand1(deal, region, skills, week, n) ==
  [deal |-> deal, region |-> region, skills |-> skills, week |-> week, effort |-> n]
Mapped ==
  {Input(NoDeals,
         [c1 |-> [GoodConsultant EXCEPT !.work = k],
          c2 |-> [GoodConsultant EXCEPT !.availability = {Full(v) : v \in full},
                    !.regions = {"EMEA", "APAC"}, !.work = k]],
         {Demand1("d1", "EMEA", {"security"}, 1, n), Demand1("d2", r, s, w, m)}) :
     k \in Works, full \in {{1, 2}, Weeks}, n \in {1, 3, 4}, m \in {2, 7},
     r \in {"EMEA", "APAC"}, s \in {{"security"}, {"security", "data"}}, w \in {1, 2}}

MCInputs == Scored \cup Judged \cup Gated \cup Skilled \cup Offering \cup Mapped

=============================================================================
