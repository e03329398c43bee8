---------------------------- MODULE Transcripts ----------------------------
(***************************************************************************)
(* stage_transcripts_in_memory: several routes (a file, a connector) may   *)
(* bring the same conversation.  Routes of one origin (family and native   *)
(* id) are merged when their contents agree; routes of different origins   *)
(* with one content only when their deal and times agree and a manager     *)
(* confirmed the pair.                                                     *)
(*                                                                         *)
(* A route is a record of its id (a number, which orders routes), whether  *)
(* it is a file, its origin, the hash of its normalized content, its deal, *)
(* its times and whether its segments pass the checks before grouping.     *)
(***************************************************************************)
EXTENDS Integers, FiniteSets

AreRoutes(routes) ==
  /\ IsFiniteSet(routes)
  /\ \A r \in routes : r.id \in Int /\ r.file \in BOOLEAN
  /\ \A r, s \in routes : r.id = s.id => r = s

Precedes(r, s) == IF r.file = s.file THEN r.id < s.id ELSE s.file

Authoritative(group) == CHOOSE r \in group : \A s \in group \ {r} : Precedes(r, s)

SameOrigin(routes, r) == {s \in routes : s.origin = r.origin}

OriginAgrees(routes, r) == \A s \in SameOrigin(routes, r) : s.content = r.content

\* One route of each origin whose contents agree.
Selected(routes) ==
  {r \in routes : OriginAgrees(routes, r) /\ r = Authoritative(SameOrigin(routes, r))}

SameContent(routes, r) == {s \in Selected(routes) : s.content = r.content}

Confirmed(confirmed, r, winner) ==
  /\ r.deal = winner.deal /\ r.times = winner.times
  /\ {r.id, winner.id} \in confirmed

RetainedDespiteConflicts(routes, confirmed) ==   \* mutant: an unconfirmed rival does not remove the winner
  {w \in Selected(routes) : w = Authoritative(SameContent(routes, w))}

(***************************************************************************)
(* The winner of a content is retained unless a rival is not confirmed.    *)
(***************************************************************************)
Retained(routes, confirmed) ==
  {w \in Selected(routes) :
     /\ w = Authoritative(SameContent(routes, w))
     /\ \A r \in SameContent(routes, w) \ {w} : Confirmed(confirmed, r, w)}

Edge(r, winner, reason) == [duplicate |-> r.id, authority |-> winner.id, reason |-> reason]

Duplicates(routes, confirmed) ==
  {Edge(r, Authoritative(SameOrigin(routes, r)), "SAME_NATIVE_ID_AND_CONTENT_HASH") :
     r \in {x \in routes : OriginAgrees(routes, x) /\ x \notin Selected(routes)}}
  \cup {Edge(r, Authoritative(SameContent(routes, r)), "CONFIRMED_HASH_MATCH") :
     r \in {x \in Selected(routes) : LET w == Authoritative(SameContent(routes, x))
                                     IN x # w /\ Confirmed(confirmed, x, w)}}

\* Routes of a disputed origin are reported as a chain of neighbours in id order.
Neighbours(group, r, s) ==
  /\ r.id < s.id
  /\ ~\E t \in group : r.id < t.id /\ t.id < s.id

Conflicts(routes, confirmed) ==
  {{p[1].id, p[2].id} : p \in {q \in routes \X routes :
     /\ q[1].origin = q[2].origin /\ ~OriginAgrees(routes, q[1])
     /\ Neighbours(SameOrigin(routes, q[1]), q[1], q[2])}}
  \cup {{r.id, Authoritative(SameContent(routes, r)).id} :
     r \in {x \in Selected(routes) : LET w == Authoritative(SameContent(routes, x))
                                     IN x # w /\ ~Confirmed(confirmed, x, w)}}

(***************************************************************************)
(* What the call returns.  It raises for a lane without conversations and  *)
(* for a route that fails a check.                                         *)
(***************************************************************************)
Raises(lane, routes) == lane = "CAPACITY_HEATMAP" \/ \E r \in routes : ~r.valid

StageTranscriptsInMemory(routes, confirmed) ==
  [retained |-> Retained(routes, confirmed), duplicates |-> Duplicates(routes, confirmed),
   conflicts |-> Conflicts(routes, confirmed)]

=============================================================================
