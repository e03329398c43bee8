------------------------------ MODULE MCReview ------------------------------
(***************************************************************************)
(* The run of the demo, whose reads and decisions are those of ui/demo.py, *)
(* and four other computations the classes of canonical.py allow: a field  *)
(* read from two sources, a read after the last decision, and the refusals.*)
(***************************************************************************)
EXTENDS Review

MCSources == {"deals", "roster", "capacity", "conversation", "stray"}

MCManifested == MCSources \ {"stray"}

MCFields == {"deal.priority_bp", "consultant.eligibility", "capacity.free_units", "readiness.coverage"}

MCDecisions == {"priority", "assignment", "readiness-coverage"}

R(s, f) == [op |-> "read", source |-> s, field |-> f]
E(d) == [op |-> "emit", decision |-> d]
NS == [op |-> "session"]

Demo ==
  <<NS, R("deals", "deal.priority_bp"), E("priority"), R("roster", "consultant.eligibility"),
    R("capacity", "capacity.free_units"), E("assignment"),
    R("conversation", "readiness.coverage"), E("readiness-coverage")>>

MCPrograms ==
  {Demo,
   <<NS, R("deals", "deal.priority_bp"), NS, R("roster", "deal.priority_bp"), E("priority")>>,
   <<NS, R("deals", "deal.priority_bp"), R("capacity", "capacity.free_units"), E("assignment"),
     R("conversation", "readiness.coverage")>>,
   <<NS, R("deals", "deal.priority_bp"), R("stray", "capacity.free_units"), E("assignment")>>,
   <<NS, E("priority")>>}

\* all as in the demo, or one source that is better or worse than the others
MCProofSets ==
  {[s \in MCManifested |-> [implementation |-> FULLY_IMPLEMENTED_CONTRACT_TESTED, live |-> FALSE]]}
  \cup {[s \in MCManifested |->
           IF s = t THEN [implementation |-> ADAPTER_INTERFACE_ONLY, live |-> FALSE]
           ELSE [implementation |-> MOCK_TESTED_ONLY, live |-> TRUE]] : t \in MCManifested}

=============================================================================
