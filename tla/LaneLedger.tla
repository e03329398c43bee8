----------------------------- MODULE LaneLedger -----------------------------
(***************************************************************************)
(* What the run ledger promises to a process that starts again: a run it   *)
(* knows stands at a state of its lane, and between two looks it was       *)
(* opened, moved along edges of that lane, or purged.  No event, hash or   *)
(* source read is visible here; Workflow implements this specification.    *)
(***************************************************************************)
EXTENDS WorkflowGraph

CONSTANT RunIds

VARIABLE position   \* position[r]: the lane of r and the state it stands at

Absent == [lane |-> "NONE", at |-> "NONE"]

Openings == {"NEW", "AUTHORITY_ATTESTED"}

Init == position = [r \in RunIds |-> Absent]

Open(r) ==
  /\ position[r] = Absent
  /\ \E lane \in Lanes, s \in Openings :
       position' = [position EXCEPT ![r] = [lane |-> lane, at |-> s]]

Advance(r) ==
  /\ position[r] # Absent
  /\ \E s \in States :
       /\ <<position[r].at, s>> \in AllowedTransitions(position[r].lane)
       /\ position' = [position EXCEPT ![r] = [lane |-> position[r].lane, at |-> s]]

Purge(r) ==
  /\ position[r] # Absent
  /\ position' = [position EXCEPT ![r] = Absent]

Next == \E r \in RunIds : Open(r) \/ Advance(r) \/ Purge(r)

Spec == Init /\ [][Next]_position

=============================================================================
