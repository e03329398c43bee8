--------------------------- MODULE WorkflowProofs ---------------------------
(***************************************************************************)
(* Proofs about Workflow, for any sets of runs, sources and artifacts and  *)
(* any bounds.                                                             *)
(***************************************************************************)
EXTENDS Workflow, SequenceTheorems, WellFoundedInduction, TLAPS

(***************************************************************************)
(* The inductive invariant.  TrailingState strengthens the high-water      *)
(* claim: every event after which only source events follow ends in the    *)
(* state of the run's row.                                                 *)
(***************************************************************************)
TrailingState(r) ==
  \A i \in 1..Len(events[r]) :
    (\A j \in 1..Len(events[r]) : j > i => ~TopLevel(events[r][j]))
      => events[r][i].content.new_state = runs[r].state

FreshRuns ==
  \A r \in RunIds :
    Exists(r) /\ events[r] = <<>> => runs[r].state \in {"NEW", "AUTHORITY_ATTESTED"}

SourceReadsHaveRuns ==
  \A s \in SourceRunIds : sourceRuns[s] # NoSourceRun => Exists(sourceRuns[s].run)

ManifestsHaveRuns ==
  \A m \in Manifests : manifests[m] # None => Exists(manifests[m])

IInv ==
  /\ TypeOK
  /\ ChainsAreIntact
  /\ WalksAreLegal
  /\ \A r \in RunIds : Exists(r) => TrailingState(r)
  /\ FreshRuns
  /\ SourceReadsHaveRuns
  /\ ManifestsHaveRuns

-----------------------------------------------------------------------------
(***************************************************************************)
(* The sentinels are not rows.                                             *)
(***************************************************************************)
LEMMA SentinelsAreNotRows == NoRun \notin RunRow /\ NoSourceRun \notin SourceRunRow
<1>1. "NONE" \notin Lanes
  BY DEF Lanes
<1>2. None \notin RunIds
  BY NoneAssumption
<1>. QED  BY <1>1, <1>2 DEF NoRun, RunRow, NoSourceRun, SourceRunRow

(***************************************************************************)
(* The edges of every lane lead to states.                                 *)
(***************************************************************************)
LEMMA EdgesLeadToStates ==
  ASSUME NEW lane \in Lanes, NEW x, NEW y, <<x, y>> \in AllowedTransitions(lane)
  PROVE  x \in States /\ y \in States
BY DEF AllowedTransitions, Lanes, States, CommonTransitions, DealTransitions,
       AssignmentTransitions, CapacityTransitions, ReadinessTransitions, DigestAfter

(***************************************************************************)
(* What _append_event writes is an event row that links to the last one.   *)
(***************************************************************************)
Linked(r, e) ==
  /\ e.content.run = r
  /\ e.content.sequence = Len(events[r]) + 1
  /\ e.prior_event = LatestDigest(events[r])
  /\ e.event = Sha256(e.prior_event, e.content)

Says(e, prior, new, sr, a) ==
  /\ e.content.prior_state = prior
  /\ e.content.new_state = new
  /\ e.content.source_run = sr
  /\ e.content.artifact = a

LEMMA NextEventShape ==
  ASSUME TypeOK, NEW r \in RunIds,
         NEW prior \in States, NEW new \in States,
         NEW sr \in SourceRunIds \cup {None}, NEW a \in Artifacts \cup {None},
         NEW e, e = NextEvent(r, prior, new, sr, a)
  PROVE  e \in Event /\ Linked(r, e) /\ Says(e, prior, new, sr, a)
<1> DEFINE c == [run |-> r, sequence |-> Len(events[r]) + 1,
                 prior_state |-> prior, new_state |-> new,
                 source_run |-> sr, artifact |-> a]
           link == LatestDigest(events[r])
<1>1. events[r] \in Seq(Event) /\ Len(events[r]) \in Nat
  BY LenProperties DEF TypeOK
<1>2. c \in Content
  BY <1>1 DEF Content
<1>3. link \in Seq(Content)
  <2>1. CASE events[r] = <<>>
    BY <2>1 DEF LatestDigest
  <2>2. CASE events[r] # <<>>
    <3>1. Len(events[r]) \in 1..Len(events[r])
      BY <1>1, <2>2, EmptySeq
    <3>2. events[r][Len(events[r])] \in Event
      BY <1>1, <3>1, ElementOfSeq
    <3>. QED  BY <2>2, <3>2 DEF LatestDigest, Event, Digest
  <2>. QED  BY <2>1, <2>2
<1>4. Append(link, c) \in Seq(Content)
  BY <1>2, <1>3, AppendProperties
<1>5. e = [content |-> c, prior_event |-> link, event |-> Append(link, c)]
  BY DEF NextEvent, Sha256
<1>6. e \in Event
  <2> HIDE DEF c, link
  <2>. QED  BY <1>2, <1>3, <1>4, <1>5 DEF Event, Digest
<1>. QED  BY <1>5, <1>6 DEF Linked, Says, Sha256

(***************************************************************************)
(* Appending an event to the chain of r leaves all others as they were.    *)
(***************************************************************************)
LEMMA AppendShape ==
  ASSUME TypeOK, NEW r \in RunIds, NEW e \in Event,
         events' = [events EXCEPT ![r] = Append(@, e)]
  PROVE  /\ events' \in [RunIds -> Seq(Event)]
         /\ Len(events[r]) \in Nat
         /\ Len(events'[r]) = Len(events[r]) + 1
         /\ \A i \in 1..Len(events[r]) : events'[r][i] = events[r][i]
         /\ events'[r][Len(events[r]) + 1] = e
         /\ \A q \in RunIds \ {r} : events'[q] = events[q]
<1>1. events \in [RunIds -> Seq(Event)] /\ events[r] \in Seq(Event)
  BY DEF TypeOK
<1>2. /\ Append(events[r], e) \in Seq(Event)
      /\ Len(Append(events[r], e)) = Len(events[r]) + 1
      /\ \A i \in 1..Len(events[r]) : Append(events[r], e)[i] = events[r][i]
      /\ Append(events[r], e)[Len(events[r]) + 1] = e
  BY <1>1, AppendProperties
<1>3. Len(events[r]) \in Nat
  BY <1>1, LenProperties
<1>4. events'[r] = Append(events[r], e)
  BY <1>1
<1>5. events' \in [RunIds -> Seq(Event)] /\ \A q \in RunIds \ {r} : events'[q] = events[q]
  BY <1>1, <1>2
<1>. QED  BY <1>2, <1>3, <1>4, <1>5

(***************************************************************************)
(* A linked event extends an intact chain to an intact chain.              *)
(***************************************************************************)
LEMMA AppendKeepsChain ==
  ASSUME TypeOK, NEW r \in RunIds, NEW e \in Event,
         events' = [events EXCEPT ![r] = Append(@, e)],
         Linked(r, e),
         ChainIntact(r, events[r])
  PROVE  ChainIntact(r, events'[r])
<1> DEFINE n == Len(events[r])
<1>1. /\ n \in Nat
      /\ Len(events'[r]) = n + 1
      /\ \A i \in 1..n : events'[r][i] = events[r][i]
      /\ events'[r][n + 1] = e
  BY AppendShape
<1>2. events[r] = <<>> <=> n = 0
  BY EmptySeq DEF TypeOK
<1> HIDE DEF n
<1>3. ASSUME NEW i \in 1..n
      PROVE  LinkIntact(r, events'[r], i)
  <2>1. LinkIntact(r, events[r], i)
    BY <1>3 DEF ChainIntact, n
  <2>2. events'[r][i] = events[r][i] /\ (i # 1 => events'[r][i - 1] = events[r][i - 1])
    BY <1>1, <1>3
  <2>. QED  BY <2>1, <2>2 DEF LinkIntact
<1>4. LinkIntact(r, events'[r], n + 1)
  <2>1. LatestDigest(events[r]) = IF n = 0 THEN <<>> ELSE events[r][n].event
    BY <1>2 DEF LatestDigest, n
  <2>2. n # 0 => events'[r][n] = events[r][n]
    BY <1>1
  <2>. QED  BY <1>1, <2>1, <2>2 DEF LinkIntact, Linked, n
<1>. QED  BY <1>1, <1>3, <1>4 DEF ChainIntact

(***************************************************************************)
(* An event that starts in the state of its run and is a legal step        *)
(* extends a legal walk; the trailing events then end where it leads.      *)
(***************************************************************************)
LEMMA AppendKeepsWalk ==
  ASSUME IInv, NEW r \in RunIds, Exists(r), NEW e \in Event,
         events' = [events EXCEPT ![r] = Append(@, e)],
         e.content.prior_state = runs[r].state,
         StepIsLegal(runs[r].lane, e)
  PROVE  /\ WalkIsLegal(runs[r].lane, events'[r])
         /\ \A i \in 1..Len(events'[r]) :
              (\A j \in 1..Len(events'[r]) : j > i => ~TopLevel(events'[r][j]))
                => events'[r][i].content.new_state = e.content.new_state
<1> DEFINE n == Len(events[r])
<1>0. TypeOK /\ WalkIsLegal(runs[r].lane, events[r])
  BY DEF IInv, WalksAreLegal
<1>1. /\ n \in Nat
      /\ Len(events'[r]) = n + 1
      /\ \A i \in 1..n : events'[r][i] = events[r][i]
      /\ events'[r][n + 1] = e
  BY <1>0, AppendShape
<1>2. events[r] = <<>> <=> n = 0
  BY <1>0, EmptySeq DEF TypeOK
<1>3. n = 0 => runs[r].state \in {"NEW", "AUTHORITY_ATTESTED"}
  BY <1>2 DEF IInv, FreshRuns
<1>4. \A i \in 1..n :
        (\A j \in 1..n : j > i => ~TopLevel(events[r][j]))
          => events[r][i].content.new_state = runs[r].state
  BY DEF IInv, TrailingState
<1>5. n # 0 => events[r][n].content.new_state = runs[r].state
  BY <1>1, <1>4
<1> HIDE DEF n
<1>6. WalkIsLegal(runs[r].lane, events'[r])
  <2>1. ASSUME NEW i \in 1..n
        PROVE  /\ StepIsLegal(runs[r].lane, events'[r][i])
               /\ IF i = 1
                  THEN events'[r][i].content.prior_state \in {"NEW", "AUTHORITY_ATTESTED"}
                  ELSE events'[r][i].content.prior_state = events'[r][i - 1].content.new_state
    <3>1. events'[r][i] = events[r][i] /\ (i # 1 => events'[r][i - 1] = events[r][i - 1])
      BY <1>1, <2>1
    <3>. QED  BY <1>0, <3>1 DEF WalkIsLegal, n
  <2>2. IF n + 1 = 1
        THEN e.content.prior_state \in {"NEW", "AUTHORITY_ATTESTED"}
        ELSE e.content.prior_state = events'[r][n].content.new_state
    BY <1>1, <1>3, <1>5
  <2>. QED  BY <1>1, <2>1, <2>2 DEF WalkIsLegal
<1>7. ASSUME NEW i \in 1..(n + 1),
             \A j \in 1..(n + 1) : j > i => ~TopLevel(events'[r][j])
      PROVE  events'[r][i].content.new_state = e.content.new_state
  <2>1. CASE i = n + 1
    BY <1>1, <2>1
  <2>2. CASE i # n + 1
    <3>1. i \in 1..n /\ n + 1 \in 1..(n + 1) /\ n + 1 > i
      BY <1>1, <2>2
    <3>2. ~TopLevel(e)
      BY <1>1, <1>7, <3>1
    <3>3. e.content.new_state = runs[r].state
      BY <3>2 DEF StepIsLegal
    <3>4. ASSUME NEW j \in 1..n, j > i
          PROVE  ~TopLevel(events[r][j])
      <4>1. ~TopLevel(events'[r][j]) /\ events'[r][j] = events[r][j]
        BY <1>1, <1>7, <3>4
      <4>. QED  BY <4>1
    <3>. QED  BY <1>1, <1>4, <3>1, <3>3, <3>4
  <2>. QED  BY <2>1, <2>2
<1>. QED  BY <1>1, <1>6, <1>7

-----------------------------------------------------------------------------
(***************************************************************************)
(* The part of the invariant about chains survives appending a linked,     *)
(* legal event to one run whose row moves to the state the event leads to. *)
(***************************************************************************)
ChainInv ==
  /\ ChainsAreIntact
  /\ WalksAreLegal
  /\ \A r \in RunIds : Exists(r) => TrailingState(r)
  /\ FreshRuns

LEMMA AppendKeepsChainInv ==
  ASSUME IInv, NEW r \in RunIds, Exists(r), NEW e \in Event,
         events' = [events EXCEPT ![r] = Append(@, e)],
         Linked(r, e),
         e.content.prior_state = runs[r].state,
         StepIsLegal(runs[r].lane, e),
         Exists(r)',
         runs'[r].lane = runs[r].lane,
         runs'[r].state = e.content.new_state,
         \A q \in RunIds \ {r} : runs'[q] = runs[q]
  PROVE  ChainInv'
<1>0. TypeOK /\ ChainsAreIntact /\ WalksAreLegal
  BY DEF IInv
<1>1. /\ Len(events[r]) \in Nat
      /\ Len(events'[r]) = Len(events[r]) + 1
      /\ \A q \in RunIds \ {r} : events'[q] = events[q]
  BY <1>0, AppendShape
<1>2. ChainsAreIntact'
  <2>1. ChainIntact(r, events'[r])
    BY <1>0, AppendKeepsChain DEF ChainsAreIntact
  <2>2. ASSUME NEW q \in RunIds \ {r}
        PROVE  ChainIntact(q, events'[q])
    BY <1>0, <1>1 DEF ChainsAreIntact
  <2>. QED  BY <2>1, <2>2 DEF ChainsAreIntact
<1>3. /\ WalkIsLegal(runs[r].lane, events'[r])
      /\ \A i \in 1..Len(events'[r]) :
           (\A j \in 1..Len(events'[r]) : j > i => ~TopLevel(events'[r][j]))
             => events'[r][i].content.new_state = e.content.new_state
  BY AppendKeepsWalk
<1>4. WalksAreLegal'
  <2>1. ASSUME NEW q \in RunIds \ {r}
        PROVE  IF Exists(q)' THEN WalkIsLegal(runs'[q].lane, events'[q])
               ELSE events'[q] = <<>>
    BY <1>0, <1>1 DEF WalksAreLegal, Exists
  <2>. QED  BY <1>3, <2>1 DEF WalksAreLegal
<1>5. \A q \in RunIds : Exists(q)' => TrailingState(q)'
  <2>1. TrailingState(r)'
    BY <1>3 DEF TrailingState
  <2>2. ASSUME NEW q \in RunIds \ {r}, Exists(q)'
        PROVE  TrailingState(q)'
    <3>1. runs'[q] = runs[q] /\ events'[q] = events[q]
      BY <1>1
    <3>2. TrailingState(q)
      BY <2>2, <3>1 DEF IInv, Exists
    <3>. QED  BY <3>1, <3>2 DEF TrailingState
  <2>. QED  BY <2>1, <2>2
<1>6. FreshRuns'
  <2>1. events'[r] # <<>>
    BY <1>1, EmptySeq
  <2>2. ASSUME NEW q \in RunIds \ {r}, Exists(q)', events'[q] = <<>>
        PROVE  runs'[q].state \in {"NEW", "AUTHORITY_ATTESTED"}
    BY <1>1, <2>2 DEF IInv, FreshRuns, Exists
  <2>. QED  BY <2>1, <2>2 DEF FreshRuns
<1>. QED  BY <1>2, <1>4, <1>5, <1>6 DEF ChainInv

(***************************************************************************)
(* Initial states satisfy the invariant.                                   *)
(***************************************************************************)
LEMMA InitIInv == Init => IInv
<1> SUFFICES ASSUME Init PROVE IInv
  OBVIOUS
<1>1. \A r \in RunIds : ~Exists(r) /\ events[r] = <<>>
  BY DEF Init, Exists
<1>2. TypeOK
  BY DEF Init, TypeOK
<1>3. ChainsAreIntact /\ WalksAreLegal /\ FreshRuns
  BY <1>1 DEF ChainsAreIntact, ChainIntact, WalksAreLegal, FreshRuns
<1>4. SourceReadsHaveRuns /\ ManifestsHaveRuns
  BY DEF Init, SourceReadsHaveRuns, ManifestsHaveRuns
<1>. QED  BY <1>1, <1>2, <1>3, <1>4 DEF IInv

(***************************************************************************)
(* Opening a run: the new run has no event yet.                            *)
(***************************************************************************)
LEMMA OpenRunKeepsIInv ==
  ASSUME IInv, NEW r \in RunIds, NEW lane \in Lanes,
         NEW state \in {"NEW", "AUTHORITY_ATTESTED"},
         ~Exists(r),
         runs' = [runs EXCEPT ![r] = [lane |-> lane, state |-> state]],
         UNCHANGED <<events, sourceRuns, manifests, artifacts>>
  PROVE  IInv'
<1>1. TypeOK /\ ChainsAreIntact /\ WalksAreLegal /\ events[r] = <<>>
  BY DEF IInv, WalksAreLegal
<1>2. state \in States /\ [lane |-> lane, state |-> state] \in RunRow
  BY DEF RunRow, States
<1>3. TypeOK'
  BY <1>1, <1>2 DEF TypeOK
<1>4. /\ runs'[r] = [lane |-> lane, state |-> state]
      /\ \A q \in RunIds \ {r} : runs'[q] = runs[q]
  BY <1>1 DEF TypeOK
<1>5. Exists(r)'
  BY <1>2, <1>4, SentinelsAreNotRows DEF Exists
<1>6. \A q \in RunIds \ {r} : Exists(q)' <=> Exists(q)
  BY <1>4 DEF Exists
<1>7. ChainsAreIntact'
  BY <1>1 DEF ChainsAreIntact
<1>8. WalksAreLegal'
  BY <1>1, <1>4, <1>5, <1>6 DEF WalksAreLegal, WalkIsLegal
<1>9. \A q \in RunIds : Exists(q)' => TrailingState(q)'
  BY <1>1, <1>4, <1>6 DEF IInv, TrailingState
<1>10. FreshRuns'
  BY <1>4, <1>6 DEF IInv, FreshRuns
<1>11. SourceReadsHaveRuns'
  <2> SUFFICES ASSUME NEW s \in SourceRunIds, sourceRuns[s] # NoSourceRun
               PROVE  runs'[sourceRuns[s].run] # NoRun
    BY DEF SourceReadsHaveRuns, Exists
  <2>1. sourceRuns[s].run \in RunIds /\ Exists(sourceRuns[s].run)
    BY <1>1 DEF IInv, SourceReadsHaveRuns, TypeOK, SourceRunRow
  <2>. QED  BY <1>5, <1>6, <2>1 DEF Exists
<1>12. ManifestsHaveRuns'
  BY <1>1, <1>5, <1>6 DEF IInv, ManifestsHaveRuns, TypeOK
<1>. QED  BY <1>3, <1>7, <1>8, <1>9, <1>10, <1>11, <1>12 DEF IInv

(***************************************************************************)
(* Calls that touch neither runs nor events nor source reads.              *)
(***************************************************************************)
LEMMA LedgerUntouched ==
  ASSUME IInv, TypeOK', ManifestsHaveRuns', UNCHANGED <<runs, events, sourceRuns>>
  PROVE  IInv'
<1>1. ChainsAreIntact' /\ WalksAreLegal' /\ FreshRuns' /\ SourceReadsHaveRuns'
  BY DEF IInv, ChainsAreIntact, WalksAreLegal, FreshRuns, SourceReadsHaveRuns, Exists
<1>2. \A q \in RunIds : Exists(q)' => TrailingState(q)'
  BY DEF IInv, TrailingState, Exists
<1>. QED  BY <1>1, <1>2 DEF IInv

(***************************************************************************)
(* transition.                                                             *)
(***************************************************************************)
LEMMA TransitionKeepsIInv ==
  ASSUME IInv, NEW r \in RunIds, NEW new \in States,
         NEW a \in Artifacts \cup {None}, Transition(r, new, a)
  PROVE  IInv'
<1>0. TypeOK /\ Exists(r) /\ runs[r] \in RunRow
  BY DEF IInv, TypeOK, Transition, Exists
<1>1. PICK prior \in States : prior = runs[r].state
  BY <1>0 DEF RunRow
<1>2. PICK e : e = NextEvent(r, prior, new, None, a)
  OBVIOUS
<1>3. e \in Event /\ Linked(r, e) /\ Says(e, prior, new, None, a)
  BY <1>0, <1>2, NextEventShape
<1>4. events' = [events EXCEPT ![r] = Append(@, e)]
  BY <1>1, <1>2 DEF Transition, AppendEvent
<1>5. runs' = [runs EXCEPT ![r].state = new]
  BY DEF Transition
<1>6. /\ runs'[r] = [lane |-> runs[r].lane, state |-> new]
      /\ \A q \in RunIds \ {r} : runs'[q] = runs[q]
      /\ runs' \in [RunIds -> RunRow \cup {NoRun}]
  BY <1>0, <1>5 DEF TypeOK, RunRow
<1>7. runs'[r] \in RunRow /\ Exists(r)'
  BY <1>0, <1>6, SentinelsAreNotRows DEF Exists, RunRow
<1>8. StepIsLegal(runs[r].lane, e)
  BY <1>1, <1>3 DEF Transition, StepIsLegal, TopLevel, Says
<1>9. ChainInv'
  <2>1. e.content.prior_state = runs[r].state /\ e.content.new_state = new
    BY <1>1, <1>3 DEF Says
  <2>2. runs'[r].lane = runs[r].lane /\ runs'[r].state = new
    BY <1>6
  <2>. QED  BY <1>0, <1>3, <1>4, <1>6, <1>7, <1>8, <2>1, <2>2, AppendKeepsChainInv
<1>10. TypeOK'
  BY <1>0, <1>3, <1>4, <1>6, AppendShape DEF TypeOK, Transition
<1>11. SourceReadsHaveRuns'
  <2>1. sourceRuns' = sourceRuns
    BY DEF Transition
  <2>2. \A q \in RunIds : runs[q] # NoRun => runs'[q] # NoRun
    BY <1>6, <1>7 DEF Exists
  <2>. QED  BY <1>0, <2>1, <2>2 DEF IInv, SourceReadsHaveRuns, Exists, TypeOK, SourceRunRow
<1>12. ManifestsHaveRuns'
  <2>1. manifests' = manifests
    BY DEF Transition
  <2>2. \A q \in RunIds : runs[q] # NoRun => runs'[q] # NoRun
    BY <1>6, <1>7 DEF Exists
  <2>. QED  BY <1>0, <2>1, <2>2 DEF IInv, ManifestsHaveRuns, Exists, TypeOK
<1>. QED  BY <1>9, <1>10, <1>11, <1>12 DEF IInv, ChainInv

(***************************************************************************)
(* start_source_run and transition_source both append an event that leaves *)
(* the run where it is.                                                    *)
(***************************************************************************)
LEMMA SourceEventKeepsIInv ==
  ASSUME IInv, NEW r \in RunIds, Exists(r), NEW sr \in SourceRunIds,
         AppendEvent(r, runs[r].state, runs[r].state, sr, None),
         sourceRuns' \in [SourceRunIds -> SourceRunRow \cup {NoSourceRun}],
         \A s \in SourceRunIds :
           sourceRuns'[s] # NoSourceRun =>
             sourceRuns'[s].run = r \/ sourceRuns'[s] = sourceRuns[s],
         UNCHANGED <<runs, manifests, artifacts>>
  PROVE  IInv'
<1>0. TypeOK /\ runs[r] \in RunRow /\ sr # None
  BY NoneAssumption DEF IInv, TypeOK, Exists
<1>1. PICK prior \in States : prior = runs[r].state
  BY <1>0 DEF RunRow
<1>2. PICK e : e = NextEvent(r, prior, prior, sr, None)
  OBVIOUS
<1>3. e \in Event /\ Linked(r, e) /\ Says(e, prior, prior, sr, None)
  BY <1>0, <1>2, NextEventShape
<1>4. events' = [events EXCEPT ![r] = Append(@, e)]
  BY <1>1, <1>2 DEF AppendEvent
<1>5. StepIsLegal(runs[r].lane, e)
  BY <1>0, <1>3 DEF StepIsLegal, TopLevel, Says
<1>6. Exists(r)'
  BY DEF Exists
<1>7. ChainInv'
  BY <1>1, <1>3, <1>4, <1>5, <1>6, AppendKeepsChainInv DEF Says
<1>8. TypeOK'
  BY <1>0, <1>3, <1>4, AppendShape DEF TypeOK
<1>9. SourceReadsHaveRuns'
  BY DEF IInv, SourceReadsHaveRuns, Exists
<1>10. ManifestsHaveRuns'
  BY DEF IInv, ManifestsHaveRuns, Exists
<1>. QED  BY <1>7, <1>8, <1>9, <1>10 DEF IInv, ChainInv

(***************************************************************************)
(* reset_run: a purged run keeps no row of any kind, the others keep all.  *)
(***************************************************************************)
LEMMA ResetKeepsIInv ==
  ASSUME IInv, NEW r \in RunIds, ResetRun(r)
  PROVE  IInv'
<1>0. TypeOK
  BY DEF IInv
<1>1. /\ runs'[r] = NoRun /\ events'[r] = <<>>
      /\ \A q \in RunIds \ {r} : runs'[q] = runs[q] /\ events'[q] = events[q]
  BY <1>0 DEF ResetRun, TypeOK
<1>2. TypeOK'
  <2>1. /\ runs' \in [RunIds -> RunRow \cup {NoRun}]
        /\ events' \in [RunIds -> Seq(Event)]
    BY <1>0 DEF ResetRun, TypeOK
  <2>2. /\ sourceRuns' \in [SourceRunIds -> SourceRunRow \cup {NoSourceRun}]
        /\ manifests' \in [Manifests -> RunIds \cup {None}]
        /\ artifacts' \in [Artifacts -> RunIds \cup {None}]
    BY <1>0 DEF ResetRun, TypeOK
  <2>. QED  BY <2>1, <2>2 DEF TypeOK
<1>3. ChainsAreIntact'
  <2>1. ChainIntact(r, events'[r])
    BY <1>1 DEF ChainIntact
  <2>. QED  BY <1>1, <2>1 DEF IInv, ChainsAreIntact
<1>4. WalksAreLegal' /\ FreshRuns'
  BY <1>1 DEF IInv, WalksAreLegal, FreshRuns, Exists
<1>5. \A q \in RunIds : Exists(q)' => TrailingState(q)'
  BY <1>1 DEF IInv, TrailingState, Exists
<1>6. SourceReadsHaveRuns'
  <2> SUFFICES ASSUME NEW s \in SourceRunIds, sourceRuns'[s] # NoSourceRun
               PROVE  runs'[sourceRuns'[s].run] # NoRun
    BY DEF SourceReadsHaveRuns, Exists
  <2>1. sourceRuns'[s] = sourceRuns[s] /\ sourceRuns[s].run # r
    BY DEF ResetRun
  <2>2. sourceRuns[s].run \in RunIds /\ runs[sourceRuns[s].run] # NoRun
    BY <1>0, <2>1 DEF IInv, SourceReadsHaveRuns, Exists, TypeOK, SourceRunRow
  <2>. QED  BY <1>1, <2>1, <2>2
<1>7. ManifestsHaveRuns'
  <2> SUFFICES ASSUME NEW m \in Manifests, manifests'[m] # None
               PROVE  runs'[manifests'[m]] # NoRun
    BY DEF ManifestsHaveRuns, Exists
  <2>1. manifests'[m] = manifests[m] /\ manifests[m] # r
    BY DEF ResetRun
  <2>2. manifests[m] \in RunIds /\ runs[manifests[m]] # NoRun
    BY <1>0, <2>1 DEF IInv, ManifestsHaveRuns, Exists, TypeOK
  <2>. QED  BY <1>1, <2>1, <2>2
<1>. QED  BY <1>2, <1>3, <1>4, <1>5, <1>6, <1>7 DEF IInv

-----------------------------------------------------------------------------
(***************************************************************************)
(* Every step of the ledger preserves the invariant.                       *)
(***************************************************************************)
LEMMA NextKeepsIInv == IInv /\ [Next]_vars => IInv'
<1> SUFFICES ASSUME IInv, [Next]_vars PROVE IInv'
  OBVIOUS
<1>0. TypeOK
  BY DEF IInv
<1>1. ASSUME NEW r \in RunIds, NEW lane \in RunLanes, CreateRun(r, lane)
      PROVE  IInv'
  <2>1. lane \in Lanes
    BY LanesAssumption
  <2>. QED  BY <1>1, <2>1, OpenRunKeepsIInv DEF CreateRun
<1>2. ASSUME NEW r \in RunIds, NEW lane \in RunLanes, CreateImportRun(r, lane)
      PROVE  IInv'
  <2>1. lane \in Lanes
    BY LanesAssumption
  <2>. QED  BY <1>2, <2>1, OpenRunKeepsIInv DEF CreateImportRun
<1>3. ASSUME NEW m \in Manifests, NEW r \in RunIds, PersistManifest(m, r)
      PROVE  IInv'
  <2>1. TypeOK'
    BY <1>0, <1>3 DEF PersistManifest, TypeOK
  <2>2. ManifestsHaveRuns'
    BY <1>0, <1>3 DEF PersistManifest, TypeOK, IInv, ManifestsHaveRuns, Exists
  <2>. QED  BY <1>3, <2>1, <2>2, LedgerUntouched DEF PersistManifest
<1>4. ASSUME NEW r \in RunIds, NEW A \in SUBSET Artifacts, CommitArtifacts(r, A)
      PROVE  IInv'
  <2>1. TypeOK'
    BY <1>0, <1>4 DEF CommitArtifacts, TypeOK
  <2>2. ManifestsHaveRuns'
    BY <1>4 DEF CommitArtifacts, IInv, ManifestsHaveRuns, Exists
  <2>. QED  BY <1>4, <2>1, <2>2, LedgerUntouched DEF CommitArtifacts
<1>5. ASSUME NEW r \in RunIds, NEW new \in States, NEW a \in Artifacts \cup {None},
             Transition(r, new, a)
      PROVE  IInv'
  BY <1>5, TransitionKeepsIInv
<1>6. ASSUME NEW r \in RunIds, ResetRun(r)
      PROVE  IInv'
  BY <1>6, ResetKeepsIInv
<1>7. ASSUME NEW sr \in SourceRunIds, NEW m \in Manifests, StartSourceRun(sr, m)
      PROVE  IInv'
  <2>1. manifests[m] \in RunIds /\ Exists(manifests[m])
    BY <1>0, <1>7 DEF StartSourceRun, TypeOK, IInv, ManifestsHaveRuns
  <2>2. PICK r \in RunIds : r = manifests[m]
    BY <2>1
  <2>3. /\ AppendEvent(r, runs[r].state, runs[r].state, sr, None)
        /\ sourceRuns' = [sourceRuns EXCEPT ![sr] =
             [run |-> r, state |-> "PENDING", completeness |-> "UNKNOWN"]]
        /\ UNCHANGED <<runs, manifests, artifacts>>
    BY <1>7, <2>2 DEF StartSourceRun, AppendSourceEvent
  <2>4. [run |-> r, state |-> "PENDING", completeness |-> "UNKNOWN"] \in SourceRunRow
    BY DEF SourceRunRow, SourceStates
  <2>5. /\ sourceRuns' \in [SourceRunIds -> SourceRunRow \cup {NoSourceRun}]
        /\ \A s \in SourceRunIds :
             sourceRuns'[s].run = r \/ sourceRuns'[s] = sourceRuns[s]
    BY <1>0, <2>3, <2>4 DEF TypeOK
  <2>. QED  BY <2>1, <2>2, <2>3, <2>5, SourceEventKeepsIInv
<1>8. ASSUME NEW sr \in SourceRunIds, NEW new \in SourceStates, TransitionSource(sr, new)
      PROVE  IInv'
  <2>1. sourceRuns[sr] \in SourceRunRow /\ Exists(sourceRuns[sr].run)
    BY <1>0, <1>8 DEF TransitionSource, TypeOK, IInv, SourceReadsHaveRuns
  <2>2. PICK r \in RunIds : r = sourceRuns[sr].run
    BY <2>1 DEF SourceRunRow
  <2>3. /\ AppendEvent(r, runs[r].state, runs[r].state, sr, None)
        /\ UNCHANGED <<runs, manifests, artifacts>>
    BY <1>8, <2>2 DEF TransitionSource, AppendSourceEvent
  <2>4. sourceRuns' = [sourceRuns EXCEPT ![sr] =
          [run |-> r, state |-> new, completeness |-> CompletenessOf(new)]]
    BY <1>0, <1>8, <2>1, <2>2 DEF TransitionSource, TypeOK, SourceRunRow
  <2>5. [run |-> r, state |-> new, completeness |-> CompletenessOf(new)] \in SourceRunRow
    BY DEF SourceRunRow, CompletenessOf
  <2>6. /\ sourceRuns' \in [SourceRunIds -> SourceRunRow \cup {NoSourceRun}]
        /\ \A s \in SourceRunIds :
             sourceRuns'[s].run = r \/ sourceRuns'[s] = sourceRuns[s]
    BY <1>0, <2>4, <2>5 DEF TypeOK
  <2>. QED  BY <2>1, <2>2, <2>3, <2>6, SourceEventKeepsIInv
<1>9. CASE UNCHANGED vars
  <2>1. UNCHANGED <<runs, events, sourceRuns>> /\ TypeOK' /\ ManifestsHaveRuns'
    BY <1>0, <1>9 DEF vars, TypeOK, IInv, ManifestsHaveRuns, Exists
  <2>. QED  BY <2>1, LedgerUntouched
<1>. QED
  BY <1>1, <1>2, <1>3, <1>4, <1>5, <1>6, <1>7, <1>8, <1>9 DEF Next

LEMMA SpecKeepsIInv == Spec => []IInv
BY InitIInv, NextKeepsIInv, PTL DEF Spec

(***************************************************************************)
(* Every table stays well typed, whatever calls are made in which order.   *)
(***************************************************************************)
THEOREM TypeCorrect == Spec => []TypeOK
<1>1. IInv => TypeOK
  BY DEF IInv
<1>. QED  BY <1>1, SpecKeepsIInv, PTL

(***************************************************************************)
(* No interleaving of calls breaks the hash chain that resume_run walks.   *)
(***************************************************************************)
THEOREM ChainsStayIntact == Spec => []ChainsAreIntact
<1>1. IInv => ChainsAreIntact
  BY DEF IInv
<1>. QED  BY <1>1, SpecKeepsIInv, PTL

(***************************************************************************)
(* The committed events of a run always spell a legal walk of its lane.    *)
(***************************************************************************)
THEOREM WalksStayLegal == Spec => []WalksAreLegal
<1>1. IInv => WalksAreLegal
  BY DEF IInv
<1>. QED  BY <1>1, SpecKeepsIInv, PTL

-----------------------------------------------------------------------------
(***************************************************************************)
(* A non-empty set of positions in a sequence has a greatest one.          *)
(***************************************************************************)
LEMMA LastTopLevelIsLast ==
  ASSUME NEW es, NEW n \in Nat, Len(es) = n, TopLevelIndices(es) # {}
  PROVE  /\ LastTopLevel(es) \in TopLevelIndices(es)
         /\ \A j \in TopLevelIndices(es) : j <= LastTopLevel(es)
<1> DEFINE S == TopLevelIndices(es)
           Distances == {n - i : i \in S}
           Less == OpToRel(<, Nat)
<1>1. S \subseteq 1..n
  BY DEF TopLevelIndices
<1>2. Distances \subseteq Nat /\ Distances # {}
  BY <1>1
<1>3. PICK d \in Distances : \A k \in Distances : ~(<<k, d>> \in Less)
  <2> HIDE DEF Distances, Less
  <2>1. IsWellFoundedOn(Less, Nat)
    BY NatLessThanWellFounded DEF Less
  <2>. QED  BY <1>2, <2>1, WFMin
<1>4. \A k \in Distances : d <= k
  <2> HIDE DEF Distances, Less
  <2>1. \A k \in Nat : k < d => <<k, d>> \in Less
    BY <1>2 DEF OpToRel, Less
  <2>2. ASSUME NEW k \in Distances
        PROVE  ~(k < d)
    <3>1. k \in Nat
      BY <1>2
    <3>2. ~(<<k, d>> \in Less)
      BY <1>3
    <3>. QED  BY <2>1, <3>1, <3>2, Zenon
  <2>3. Distances \subseteq Int
    BY <1>2
  <2>4. d \in Distances
    BY <1>3
  <2>. QED  BY <2>2, <2>3, <2>4
<1>5. PICK m \in S : d = n - m
  OBVIOUS
<1>6. \A j \in S : j <= m
  <2> SUFFICES ASSUME NEW j \in S PROVE j <= m
    OBVIOUS
  <2>1. n - j \in Distances /\ j \in 1..n /\ m \in 1..n
    BY <1>1
  <2>2. n - m <= n - j
    BY <1>4, <1>5, <2>1
  <2>. QED  BY <2>1, <2>2
<1>. QED  BY <1>5, <1>6 DEF LastTopLevel

(***************************************************************************)
(* The high-water of a non-empty chain is the state of the run's row.      *)
(***************************************************************************)
LEMMA HighWaterIsRow ==
  ASSUME IInv, NEW r \in RunIds, Exists(r), events[r] # <<>>
  PROVE  HighWater(events[r]) = runs[r].state
<1> DEFINE n == Len(events[r])
           last == LastTopLevel(events[r])
<1>1. n \in Nat /\ n # 0 /\ n \in 1..n
  BY LenProperties, EmptySeq DEF IInv, TypeOK
<1>2. \A i \in 1..n :
        (\A j \in 1..n : j > i => ~TopLevel(events[r][j]))
          => events[r][i].content.new_state = runs[r].state
  BY DEF IInv, TrailingState
<1>3. CASE TopLevelIndices(events[r]) # {}
  <2>1. last \in TopLevelIndices(events[r]) /\ \A j \in TopLevelIndices(events[r]) : j <= last
    <3>1. PICK k \in Nat : k = n
      BY <1>1
    <3>2. PICK es : es = events[r]
      OBVIOUS
    <3>. QED  BY <1>3, <3>1, <3>2, LastTopLevelIsLast
  <2>2. last \in 1..n /\ \A j \in 1..n : j > last => ~TopLevel(events[r][j])
    BY <1>1, <2>1 DEF TopLevelIndices
  <2>. QED  BY <1>2, <1>3, <2>2 DEF HighWater
<1>4. CASE TopLevelIndices(events[r]) = {}
  <2>1. ~TopLevel(events[r][n])
    BY <1>1, <1>4 DEF TopLevelIndices
  <2>2. events[r][n].content.prior_state = events[r][n].content.new_state
    BY <1>1, <2>1 DEF IInv, WalksAreLegal, WalkIsLegal, StepIsLegal
  <2>3. events[r][n].content.new_state = runs[r].state
    BY <1>1, <1>2
  <2>. QED  BY <1>4, <2>2, <2>3 DEF HighWater
<1>. QED  BY <1>3, <1>4

(***************************************************************************)
(* A restarted process is refused only for a purged citation or for a run  *)
(* the import path opened and nothing was recorded for.                    *)
(***************************************************************************)
THEOREM RefusalsAreExplained == Spec => []ResumeRefusals
<1>1. IInv => ResumeRefusals
  <2> SUFFICES ASSUME IInv, NEW r \in RunIds, Exists(r),
                      ~CitationPurged(r), ~OpenedWithoutEvent(r)
               PROVE  ResumeAccepts(r)
    BY DEF ResumeRefusals
  <2>1. ChainIntact(r, events[r])
    BY DEF IInv, ChainsAreIntact
  <2>2. \A a \in Cites(events[r]) : ArtifactExists(a)
    BY DEF CitationPurged
  <2>3. runs[r].state = HighWater(events[r])
    <3>1. CASE events[r] = <<>>
      <4>1. TopLevelIndices(events[r]) = {}
        BY <3>1, EmptySeq DEF TopLevelIndices
      <4>. QED  BY <3>1, <4>1 DEF OpenedWithoutEvent, HighWater
    <3>2. CASE events[r] # <<>>
      BY <3>2, HighWaterIsRow
    <3>. QED  BY <3>1, <3>2
  <2>. QED  BY <2>1, <2>2, <2>3 DEF ResumeAccepts
<1>. QED  BY <1>1, SpecKeepsIInv, PTL

-----------------------------------------------------------------------------
(***************************************************************************)
(* Rows and events about source reads.  What one appended event announces, *)
(* and what a step does to the announcements of the other runs.            *)
(***************************************************************************)
AnnouncementsAgree ==
  \A r \in RunIds : Announced(r) = {s \in SourceRunIds : sourceRuns[s].run = r}

LEMMA AppendAnnounces ==
  ASSUME TypeOK, NEW r \in RunIds, NEW e \in Event,
         events' = [events EXCEPT ![r] = Append(@, e)]
  PROVE  /\ Announced(r)' = Announced(r) \cup ({e.content.source_run} \ {None})
         /\ \A q \in RunIds \ {r} : Announced(q)' = Announced(q)
<1> DEFINE n == Len(events[r])
<1>1. /\ n \in Nat
      /\ Len(events'[r]) = n + 1
      /\ \A i \in 1..n : events'[r][i] = events[r][i]
      /\ events'[r][n + 1] = e
      /\ \A q \in RunIds \ {r} : events'[q] = events[q]
  BY AppendShape
<1>2. 1..(n + 1) = (1..n) \cup {n + 1}
  BY <1>1
<1>3. Announced(r) = {events[r][i].content.source_run : i \in 1..n} \ {None}
  BY DEF Announced
<1>4. Announced(r)' = {events'[r][i].content.source_run : i \in 1..(n + 1)} \ {None}
  BY <1>1 DEF Announced
<1>5. {events'[r][i].content.source_run : i \in 1..(n + 1)}
        = {events[r][i].content.source_run : i \in 1..n} \cup {e.content.source_run}
  <2> HIDE DEF n
  <2>. QED  BY <1>1, <1>2
<1>6. Announced(r)' = Announced(r) \cup ({e.content.source_run} \ {None})
  BY <1>3, <1>4, <1>5
<1>. QED  BY <1>1, <1>6 DEF Announced

LEMMA SourceEventAnnounces ==
  ASSUME TypeOK, NEW r \in RunIds, runs[r] \in RunRow, NEW sr \in SourceRunIds,
         AppendEvent(r, runs[r].state, runs[r].state, sr, None)
  PROVE  /\ Announced(r)' = Announced(r) \cup {sr}
         /\ \A q \in RunIds \ {r} : Announced(q)' = Announced(q)
<1>1. PICK prior \in States : prior = runs[r].state
  BY DEF RunRow
<1>2. PICK e : e = NextEvent(r, prior, prior, sr, None)
  OBVIOUS
<1>3. e \in Event /\ Says(e, prior, prior, sr, None)
  BY <1>2, NextEventShape
<1>4. events' = [events EXCEPT ![r] = Append(@, e)]
  BY <1>1, <1>2 DEF AppendEvent
<1>5. {e.content.source_run} \ {None} = {sr}
  BY <1>3, NoneAssumption DEF Says
<1>. QED  BY <1>3, <1>4, <1>5, AppendAnnounces

LEMMA UnreadKeepsAnnouncements ==
  ASSUME AnnouncementsAgree, UNCHANGED <<events, sourceRuns>>
  PROVE  AnnouncementsAgree'
BY DEF AnnouncementsAgree, Announced

LEMMA TransitionKeepsAnnouncements ==
  ASSUME IInv, AnnouncementsAgree, NEW r \in RunIds, NEW new \in States,
         NEW a \in Artifacts \cup {None}, Transition(r, new, a)
  PROVE  AnnouncementsAgree'
<1>1. TypeOK /\ runs[r] \in RunRow
  BY DEF IInv, TypeOK, Transition, Exists
<1>2. PICK prior \in States : prior = runs[r].state
  BY <1>1 DEF RunRow
<1>3. PICK e : e = NextEvent(r, prior, new, None, a)
  OBVIOUS
<1>4. e \in Event /\ Says(e, prior, new, None, a)
  BY <1>1, <1>3, NextEventShape
<1>5. events' = [events EXCEPT ![r] = Append(@, e)]
  BY <1>2, <1>3 DEF Transition, AppendEvent
<1>6. {e.content.source_run} \ {None} = {}
  BY <1>4 DEF Says
<1>7. \A q \in RunIds : Announced(q)' = Announced(q)
  BY <1>1, <1>4, <1>5, <1>6, AppendAnnounces
<1>8. sourceRuns' = sourceRuns
  BY DEF Transition
<1>. QED  BY <1>7, <1>8 DEF AnnouncementsAgree

LEMMA ResetKeepsAnnouncements ==
  ASSUME IInv, AnnouncementsAgree, NEW r \in RunIds, ResetRun(r)
  PROVE  AnnouncementsAgree'
<1>1. events'[r] = <<>> /\ \A q \in RunIds \ {r} : events'[q] = events[q]
  BY DEF IInv, TypeOK, ResetRun
<1>2. \A s \in SourceRunIds :
        sourceRuns'[s] = IF sourceRuns[s].run = r THEN NoSourceRun ELSE sourceRuns[s]
  BY DEF ResetRun
<1>3. \A q \in RunIds : NoSourceRun.run # q
  BY NoneAssumption DEF NoSourceRun
<1>4. Announced(r)' = {} /\ \A q \in RunIds \ {r} : Announced(q)' = Announced(q)
  BY <1>1 DEF Announced
<1>5. {s \in SourceRunIds : sourceRuns'[s].run = r} = {}
  BY <1>2, <1>3
<1>6. \A q \in RunIds \ {r} :
        {s \in SourceRunIds : sourceRuns'[s].run = q} = {s \in SourceRunIds : sourceRuns[s].run = q}
  BY <1>2, <1>3
<1>. QED  BY <1>4, <1>5, <1>6 DEF AnnouncementsAgree

LEMMA StartKeepsAnnouncements ==
  ASSUME IInv, AnnouncementsAgree, NEW sr \in SourceRunIds, NEW m \in Manifests,
         StartSourceRun(sr, m)
  PROVE  AnnouncementsAgree'
<1>1. TypeOK /\ manifests[m] \in RunIds /\ Exists(manifests[m])
  BY DEF IInv, TypeOK, ManifestsHaveRuns, StartSourceRun
<1>2. PICK r \in RunIds : r = manifests[m]
  BY <1>1
<1>3. runs[r] \in RunRow
  BY <1>1, <1>2 DEF TypeOK, Exists
<1>4. /\ Announced(r)' = Announced(r) \cup {sr}
      /\ \A q \in RunIds \ {r} : Announced(q)' = Announced(q)
  BY <1>1, <1>2, <1>3, SourceEventAnnounces DEF StartSourceRun, AppendSourceEvent
<1>5. /\ sourceRuns'[sr].run = r
      /\ \A s \in SourceRunIds \ {sr} : sourceRuns'[s] = sourceRuns[s]
  BY <1>1, <1>2 DEF StartSourceRun, TypeOK
<1>6. \A q \in RunIds : sourceRuns[sr].run # q
  BY NoneAssumption DEF StartSourceRun, NoSourceRun
<1>. QED  BY <1>4, <1>5, <1>6 DEF AnnouncementsAgree

LEMMA SourceStepKeepsAnnouncements ==
  ASSUME IInv, AnnouncementsAgree, NEW sr \in SourceRunIds, NEW new \in SourceStates,
         TransitionSource(sr, new)
  PROVE  AnnouncementsAgree'
<1>1. TypeOK /\ sourceRuns[sr] \in SourceRunRow /\ Exists(sourceRuns[sr].run)
  BY DEF IInv, TypeOK, SourceReadsHaveRuns, TransitionSource
<1>2. PICK r \in RunIds : r = sourceRuns[sr].run
  BY <1>1 DEF SourceRunRow
<1>3. runs[r] \in RunRow
  BY <1>1, <1>2 DEF TypeOK, Exists
<1>4. /\ Announced(r)' = Announced(r) \cup {sr}
      /\ \A q \in RunIds \ {r} : Announced(q)' = Announced(q)
  BY <1>1, <1>2, <1>3, SourceEventAnnounces DEF TransitionSource, AppendSourceEvent
<1>5. \A s \in SourceRunIds : sourceRuns'[s].run = sourceRuns[s].run
  BY <1>1 DEF TransitionSource, TypeOK
<1>. QED  BY <1>2, <1>4, <1>5 DEF AnnouncementsAgree

LEMMA NextKeepsAnnouncements ==
  IInv /\ AnnouncementsAgree /\ [Next]_vars => AnnouncementsAgree'
<1> SUFFICES ASSUME IInv, AnnouncementsAgree, [Next]_vars PROVE AnnouncementsAgree'
  OBVIOUS
<1>1. ASSUME NEW r \in RunIds, NEW lane \in RunLanes,
             CreateRun(r, lane) \/ CreateImportRun(r, lane)
      PROVE  AnnouncementsAgree'
  BY <1>1, UnreadKeepsAnnouncements DEF CreateRun, CreateImportRun
<1>2. ASSUME NEW r \in RunIds, NEW m \in Manifests, PersistManifest(m, r)
      PROVE  AnnouncementsAgree'
  BY <1>2, UnreadKeepsAnnouncements DEF PersistManifest
<1>3. ASSUME NEW r \in RunIds, NEW A \in SUBSET Artifacts, CommitArtifacts(r, A)
      PROVE  AnnouncementsAgree'
  BY <1>3, UnreadKeepsAnnouncements DEF CommitArtifacts
<1>4. CASE UNCHANGED vars
  BY <1>4, UnreadKeepsAnnouncements DEF vars
<1>. QED
  BY <1>1, <1>2, <1>3, <1>4, TransitionKeepsAnnouncements, ResetKeepsAnnouncements,
     StartKeepsAnnouncements, SourceStepKeepsAnnouncements DEF Next

(***************************************************************************)
(* A run's chain announces exactly the source reads the run has, through   *)
(* every reset, retry and transition: neither table gets ahead of the      *)
(* other, and no source read outlives its run.                             *)
(***************************************************************************)
THEOREM SourceReadsStayAnnounced == Spec => []SourceReadsAreAnnounced
<1>1. Init => AnnouncementsAgree
  <2> SUFFICES ASSUME Init PROVE AnnouncementsAgree
    OBVIOUS
  <2>1. \A r \in RunIds : Announced(r) = {}
    BY DEF Init, Announced
  <2>2. \A r \in RunIds, s \in SourceRunIds : sourceRuns[s].run # r
    BY NoneAssumption DEF Init, NoSourceRun
  <2>. QED  BY <2>1, <2>2 DEF AnnouncementsAgree
<1>2. IInv /\ AnnouncementsAgree => SourceReadsAreAnnounced
  BY DEF IInv, SourceReadsHaveRuns, AnnouncementsAgree, SourceReadsAreAnnounced
<1>. QED  BY <1>1, <1>2, NextKeepsAnnouncements, SpecKeepsIInv, PTL DEF Spec

-----------------------------------------------------------------------------
(***************************************************************************)
(* Additivity.  A step that keeps or extends every chain, and takes no row *)
(* away from a run, keeps the run.                                         *)
(***************************************************************************)
LEMMA UntouchedChainExtends ==
  ASSUME TypeOK, NEW r \in RunIds, events'[r] = events[r]
  PROVE  Extends(events[r], events'[r])
<1>1. Len(events[r]) \in Nat
  BY LenProperties DEF TypeOK
<1>. QED  BY <1>1 DEF Extends

LEMMA AppendedChainsExtend ==
  ASSUME TypeOK, NEW r \in RunIds, runs[r] \in RunRow, NEW new \in States,
         NEW sr \in SourceRunIds \cup {None}, NEW a \in Artifacts \cup {None},
         AppendEvent(r, runs[r].state, new, sr, a)
  PROVE  \A q \in RunIds : Extends(events[q], events'[q])
<1>1. PICK prior \in States : prior = runs[r].state
  BY DEF RunRow
<1>2. PICK e : e = NextEvent(r, prior, new, sr, a)
  OBVIOUS
<1>3. e \in Event
  BY <1>2, NextEventShape
<1>4. events' = [events EXCEPT ![r] = Append(@, e)]
  BY <1>1, <1>2 DEF AppendEvent
<1>5. Extends(events[r], events'[r])
  BY <1>3, <1>4, AppendShape DEF Extends
<1>6. \A q \in RunIds \ {r} : events'[q] = events[q]
  BY <1>3, <1>4, AppendShape
<1>. QED  BY <1>5, <1>6, UntouchedChainExtends

LEMMA StepKeepsRuns ==
  ASSUME IInv, [Next]_vars
  PROVE  \A q \in RunIds : Exists(q) /\ Exists(q)' => KeepsRun(q)
<1> SUFFICES ASSUME NEW q \in RunIds, Exists(q), Exists(q)'
             PROVE  KeepsRun(q)
  OBVIOUS
<1>0. TypeOK /\ runs[q] \in RunRow
  BY DEF IInv, TypeOK, Exists
<1>1. ASSUME NEW r \in RunIds, NEW lane \in RunLanes,
             CreateRun(r, lane) \/ CreateImportRun(r, lane)
      PROVE  KeepsRun(q)
  <2>1. q # r /\ runs'[q] = runs[q] /\ UNCHANGED <<events, sourceRuns, artifacts>>
    BY <1>0, <1>1 DEF CreateRun, CreateImportRun, TypeOK
  <2>. QED  BY <1>0, <2>1, UntouchedChainExtends DEF KeepsRun
<1>2. ASSUME NEW r \in RunIds, NEW m \in Manifests, PersistManifest(m, r)
      PROVE  KeepsRun(q)
  BY <1>0, <1>2, UntouchedChainExtends DEF PersistManifest, KeepsRun
<1>3. ASSUME NEW r \in RunIds, NEW A \in SUBSET Artifacts, CommitArtifacts(r, A)
      PROVE  KeepsRun(q)
  <2>1. UNCHANGED <<runs, events, sourceRuns>>
    BY <1>3 DEF CommitArtifacts
  <2>2. \A a \in Artifacts : artifacts[a] = q => artifacts'[a] = q
    BY <1>3, NoneAssumption DEF CommitArtifacts, ArtifactExists
  <2>. QED  BY <1>0, <2>1, <2>2, UntouchedChainExtends DEF KeepsRun
<1>4. ASSUME NEW r \in RunIds, NEW new \in States, NEW a \in Artifacts \cup {None},
             Transition(r, new, a)
      PROVE  KeepsRun(q)
  <2>1. runs[r] \in RunRow
    BY <1>0, <1>4 DEF Transition, TypeOK, Exists
  <2>2. Extends(events[q], events'[q])
    BY <1>0, <1>4, <2>1, AppendedChainsExtend DEF Transition
  <2>3. runs'[q].lane = runs[q].lane
    BY <1>0, <1>4, <2>1 DEF Transition, TypeOK, RunRow
  <2>4. UNCHANGED <<sourceRuns, artifacts>>
    BY <1>4 DEF Transition
  <2>. QED  BY <2>2, <2>3, <2>4 DEF KeepsRun
<1>5. ASSUME NEW r \in RunIds, ResetRun(r)
      PROVE  KeepsRun(q)
  <2>1. q # r
    BY <1>0, <1>5 DEF ResetRun, TypeOK, Exists
  <2>2. runs'[q] = runs[q] /\ events'[q] = events[q]
    BY <1>0, <1>5, <2>1 DEF ResetRun, TypeOK
  <2>3. /\ \A a \in Artifacts : artifacts[a] = q => artifacts'[a] = q
        /\ \A s \in SourceRunIds : sourceRuns[s].run = q => sourceRuns'[s].run = q
    BY <1>5, <2>1 DEF ResetRun
  <2>. QED  BY <1>0, <2>2, <2>3, UntouchedChainExtends DEF KeepsRun
<1>6. ASSUME NEW sr \in SourceRunIds, NEW m \in Manifests, StartSourceRun(sr, m)
      PROVE  KeepsRun(q)
  <2>1. manifests[m] \in RunIds /\ Exists(manifests[m])
    BY <1>0, <1>6 DEF StartSourceRun, TypeOK, IInv, ManifestsHaveRuns
  <2>2. PICK r \in RunIds : r = manifests[m]
    BY <2>1
  <2>3. runs[r] \in RunRow /\ runs[r].state \in States
    BY <1>0, <2>1, <2>2 DEF TypeOK, Exists, RunRow
  <2>4. Extends(events[q], events'[q])
    BY <1>0, <1>6, <2>2, <2>3, AppendedChainsExtend DEF StartSourceRun, AppendSourceEvent
  <2>5. \A s \in SourceRunIds : sourceRuns[s].run = q => sourceRuns'[s].run = q
    BY <1>0, <1>6, NoneAssumption DEF StartSourceRun, TypeOK, NoSourceRun
  <2>. QED  BY <1>6, <2>4, <2>5 DEF StartSourceRun, KeepsRun
<1>7. ASSUME NEW sr \in SourceRunIds, NEW new \in SourceStates, TransitionSource(sr, new)
      PROVE  KeepsRun(q)
  <2>1. sourceRuns[sr] \in SourceRunRow /\ Exists(sourceRuns[sr].run)
    BY <1>0, <1>7 DEF TransitionSource, TypeOK, IInv, SourceReadsHaveRuns
  <2>2. PICK r \in RunIds : r = sourceRuns[sr].run
    BY <2>1 DEF SourceRunRow
  <2>3. runs[r] \in RunRow /\ runs[r].state \in States
    BY <1>0, <2>1, <2>2 DEF TypeOK, Exists, RunRow
  <2>4. Extends(events[q], events'[q])
    BY <1>0, <1>7, <2>2, <2>3, AppendedChainsExtend DEF TransitionSource, AppendSourceEvent
  <2>5. \A s \in SourceRunIds : sourceRuns'[s].run = sourceRuns[s].run
    BY <1>0, <1>7 DEF TransitionSource, TypeOK
  <2>. QED  BY <1>7, <2>4, <2>5 DEF TransitionSource, KeepsRun
<1>8. CASE UNCHANGED vars
  BY <1>0, <1>8, UntouchedChainExtends DEF vars, KeepsRun
<1>. QED  BY <1>1, <1>2, <1>3, <1>4, <1>5, <1>6, <1>7, <1>8 DEF Next

(***************************************************************************)
(* No call takes anything away from a run it does not purge: its lane, its *)
(* committed events, its artifacts and its source reads are there after    *)
(* the calls of any other driver, the reset of another run included.       *)
(***************************************************************************)
THEOREM LedgerStaysAdditive == Spec => LedgerIsAdditive
<1>1. IInv /\ [Next]_vars
        => [\A r \in RunIds : Exists(r) /\ Exists(r)' => KeepsRun(r)]_vars
  BY StepKeepsRuns
<1>. QED  BY <1>1, SpecKeepsIInv, PTL DEF Spec, LedgerIsAdditive

-----------------------------------------------------------------------------
(***************************************************************************)
(* The same view taken from the rows of the runs alone.                    *)
(***************************************************************************)
RowPosition ==
  [r \in RunIds |->
     IF ~Exists(r) THEN [lane |-> "NONE", at |-> "NONE"]
     ELSE [lane |-> runs[r].lane, at |-> runs[r].state]]

(***************************************************************************)
(* Reading a run off its chain or off its row gives the same position.     *)
(***************************************************************************)
LEMMA PositionIsRowPosition == IInv => Position = RowPosition
<1> SUFFICES ASSUME IInv PROVE Position = RowPosition
  OBVIOUS
<1>1. \A r \in RunIds : Exists(r) /\ events[r] # <<>> => HighWater(events[r]) = runs[r].state
  BY HighWaterIsRow
<1>. QED  BY <1>1 DEF Position, RowPosition

(***************************************************************************)
(* A step that leaves the rows of the runs alone is not visible.           *)
(***************************************************************************)
LEMMA RowsUnchanged ==
  ASSUME UNCHANGED runs
  PROVE  RowPosition' = RowPosition
BY DEF RowPosition, Exists

(***************************************************************************)
(* Changing the position of one run is an EXCEPT on the whole.             *)
(***************************************************************************)
LEMMA RowPositionExcept ==
  ASSUME NEW r \in RunIds, NEW p, RowPosition'[r] = p,
         \A q \in RunIds \ {r} : RowPosition'[q] = RowPosition[q]
  PROVE  RowPosition' = [RowPosition EXCEPT ![r] = p]
<1>1. \A q \in RunIds : RowPosition'[q] = [RowPosition EXCEPT ![r] = p][q]
  BY DEF RowPosition
<1>2. RowPosition' = [q \in RunIds |-> RowPosition'[q]]
  BY DEF RowPosition
<1>3. [RowPosition EXCEPT ![r] = p] = [q \in RunIds |-> [RowPosition EXCEPT ![r] = p][q]]
  BY DEF RowPosition
<1>. QED  BY <1>1, <1>2, <1>3

(***************************************************************************)
(* A step of the ledger opens, advances or purges one run, or none.        *)
(***************************************************************************)
Moves ==
  \/ \E r \in RunIds :
       /\ RowPosition[r] = [lane |-> "NONE", at |-> "NONE"]
       /\ \E lane \in Lanes, s \in {"NEW", "AUTHORITY_ATTESTED"} :
            RowPosition' = [RowPosition EXCEPT ![r] = [lane |-> lane, at |-> s]]
  \/ \E r \in RunIds :
       /\ RowPosition[r] # [lane |-> "NONE", at |-> "NONE"]
       /\ \E s \in States :
            /\ <<RowPosition[r].at, s>> \in AllowedTransitions(RowPosition[r].lane)
            /\ RowPosition' =
                 [RowPosition EXCEPT ![r] = [lane |-> RowPosition[r].lane, at |-> s]]
  \/ \E r \in RunIds :
       /\ RowPosition[r] # [lane |-> "NONE", at |-> "NONE"]
       /\ RowPosition' = [RowPosition EXCEPT ![r] = [lane |-> "NONE", at |-> "NONE"]]

LEMMA RowOpened ==
  ASSUME TypeOK, NEW r \in RunIds, NEW lane \in Lanes,
         NEW s \in {"NEW", "AUTHORITY_ATTESTED"}, ~Exists(r),
         runs' = [runs EXCEPT ![r] = [lane |-> lane, state |-> s]]
  PROVE  Moves
<1>1. [lane |-> lane, state |-> s] \in RunRow
  BY DEF RunRow, States
<1>2. [lane |-> lane, state |-> s] # NoRun
  BY <1>1, SentinelsAreNotRows
<1>3. /\ runs'[r] = [lane |-> lane, state |-> s]
      /\ \A q \in RunIds \ {r} : runs'[q] = runs[q]
  BY DEF TypeOK
<1>4. RowPosition[r] = [lane |-> "NONE", at |-> "NONE"]
  BY DEF RowPosition
<1>5. RowPosition' = [RowPosition EXCEPT ![r] = [lane |-> lane, at |-> s]]
  <2>1. RowPosition'[r] = [lane |-> lane, at |-> s]
    BY <1>2, <1>3 DEF RowPosition, Exists
  <2>2. \A q \in RunIds \ {r} : RowPosition'[q] = RowPosition[q]
    BY <1>3 DEF RowPosition, Exists
  <2>. QED  BY <2>1, <2>2, RowPositionExcept
<1>. QED  BY <1>4, <1>5 DEF Moves

LEMMA RowAdvanced ==
  ASSUME TypeOK, NEW r \in RunIds, NEW new \in States, Exists(r),
         <<runs[r].state, new>> \in AllowedTransitions(runs[r].lane),
         runs' = [runs EXCEPT ![r].state = new]
  PROVE  Moves
<1>1. runs[r] \in RunRow
  BY DEF TypeOK, Exists
<1>2. /\ runs'[r] = [lane |-> runs[r].lane, state |-> new]
      /\ \A q \in RunIds \ {r} : runs'[q] = runs[q]
  BY <1>1 DEF TypeOK, RunRow
<1>3. runs'[r] # NoRun /\ runs[r] # NoRun
  BY <1>1, <1>2, SentinelsAreNotRows DEF RunRow, Exists
<1>4. RowPosition[r] = [lane |-> runs[r].lane, at |-> runs[r].state]
  BY DEF RowPosition
<1>5. RowPosition[r] # [lane |-> "NONE", at |-> "NONE"]
  <2>1. runs[r].lane \in Lanes
    BY <1>1 DEF RunRow
  <2>2. runs[r].lane # "NONE"
    BY <2>1 DEF Lanes
  <2>. QED  BY <1>4, <2>2
<1>6. RowPosition' = [RowPosition EXCEPT ![r] = [lane |-> RowPosition[r].lane, at |-> new]]
  <2>1. RowPosition'[r] = [lane |-> RowPosition[r].lane, at |-> new]
    BY <1>2, <1>3, <1>4 DEF RowPosition, Exists
  <2>2. \A q \in RunIds \ {r} : RowPosition'[q] = RowPosition[q]
    BY <1>2 DEF RowPosition, Exists
  <2>. QED  BY <2>1, <2>2, RowPositionExcept
<1>7. <<RowPosition[r].at, new>> \in AllowedTransitions(RowPosition[r].lane)
  BY <1>4
<1>. QED  BY <1>5, <1>6, <1>7 DEF Moves

LEMMA RowPurged ==
  ASSUME TypeOK, NEW r \in RunIds, Exists(r), runs' = [runs EXCEPT ![r] = NoRun]
  PROVE  Moves
<1>1. runs[r].lane \in Lanes
  BY DEF TypeOK, Exists, RunRow
<1>2. RowPosition[r] # [lane |-> "NONE", at |-> "NONE"]
  <2>1. runs[r].lane # "NONE"
    BY <1>1 DEF Lanes
  <2>. QED  BY <2>1 DEF RowPosition
<1>3. runs'[r] = NoRun /\ \A q \in RunIds \ {r} : runs'[q] = runs[q]
  BY DEF TypeOK
<1>4. RowPosition' = [RowPosition EXCEPT ![r] = [lane |-> "NONE", at |-> "NONE"]]
  <2>1. RowPosition'[r] = [lane |-> "NONE", at |-> "NONE"]
    BY <1>3 DEF RowPosition, Exists
  <2>2. \A q \in RunIds \ {r} : RowPosition'[q] = RowPosition[q]
    BY <1>3 DEF RowPosition, Exists
  <2>. QED  BY <2>1, <2>2, RowPositionExcept
<1>. QED  BY <1>2, <1>4 DEF Moves

LEMMA StepMoves ==
  ASSUME IInv, [Next]_vars
  PROVE  Moves \/ RowPosition' = RowPosition
<1>0. TypeOK
  BY DEF IInv
<1>1. ASSUME NEW r \in RunIds, NEW lane \in RunLanes,
             CreateRun(r, lane) \/ CreateImportRun(r, lane)
      PROVE  Moves
  <2>1. lane \in Lanes
    BY LanesAssumption
  <2>. QED  BY <1>0, <1>1, <2>1, RowOpened DEF CreateRun, CreateImportRun
<1>2. ASSUME NEW r \in RunIds, NEW new \in States, NEW a \in Artifacts \cup {None},
             Transition(r, new, a)
      PROVE  Moves
  BY <1>0, <1>2, RowAdvanced DEF Transition
<1>3. ASSUME NEW r \in RunIds, ResetRun(r)
      PROVE  Moves
  BY <1>0, <1>3, RowPurged DEF ResetRun
<1>4. ASSUME NEW r \in RunIds, NEW m \in Manifests, PersistManifest(m, r)
      PROVE  UNCHANGED runs
  BY <1>4 DEF PersistManifest
<1>5. ASSUME NEW r \in RunIds, NEW A \in SUBSET Artifacts, CommitArtifacts(r, A)
      PROVE  UNCHANGED runs
  BY <1>5 DEF CommitArtifacts
<1>6. ASSUME NEW sr \in SourceRunIds, NEW m \in Manifests, StartSourceRun(sr, m)
      PROVE  UNCHANGED runs
  BY <1>6 DEF StartSourceRun
<1>7. ASSUME NEW sr \in SourceRunIds, NEW new \in SourceStates, TransitionSource(sr, new)
      PROVE  UNCHANGED runs
  BY <1>7 DEF TransitionSource
<1>8. CASE UNCHANGED vars
  <2>1. UNCHANGED runs
    BY <1>8 DEF vars
  <2>. QED  BY <2>1, RowsUnchanged
<1>. QED
  BY <1>1, <1>2, <1>3, <1>4, <1>5, <1>6, <1>7, <1>8, RowsUnchanged DEF Next

(***************************************************************************)
(* The ledger, seen through what a restarted process recomputes from the   *)
(* chain of each run, implements LaneLedger: whatever the other runs, the  *)
(* source reads and the commits do, a run is opened, moved along an edge   *)
(* of its lane or purged, and nothing else.                                *)
(***************************************************************************)
THEOREM LedgerRefinesLanes == Spec => ImplementsLaneLedger
<1>1. Init => Ledger!Init
  BY DEF Init, Position, Exists, Ledger!Init, Ledger!Absent
<1>2. ASSUME Position = RowPosition, Position' = RowPosition',
             Moves \/ RowPosition' = RowPosition
      PROVE  [Ledger!Next]_Position
  <2>1. CASE RowPosition' = RowPosition
    BY <1>2, <2>1
  <2>2. CASE Moves
    <3>1. \A lane : Ledger!AllowedTransitions(lane) = AllowedTransitions(lane)
      BY DEF AllowedTransitions, CommonTransitions, DealTransitions,
         AssignmentTransitions, CapacityTransitions, ReadinessTransitions, DigestAfter,
         Ledger!AllowedTransitions, Ledger!CommonTransitions, Ledger!DealTransitions,
         Ledger!AssignmentTransitions, Ledger!CapacityTransitions,
         Ledger!ReadinessTransitions, Ledger!DigestAfter
    <3>2. Ledger!States = States /\ Ledger!Lanes = Lanes
      BY DEF Ledger!States, Ledger!Lanes, States, Lanes
    <3>. QED
      BY <1>2, <2>2, <3>1, <3>2 DEF Moves, Ledger!Next, Ledger!Open, Ledger!Advance,
         Ledger!Purge, Ledger!Absent, Ledger!Openings
  <2>. QED  BY <1>2, <2>1, <2>2
<1>3. IInv /\ [Next]_vars /\ (Position = RowPosition) /\ (Position = RowPosition)'
        => [Ledger!Next]_Position
  BY <1>2, StepMoves
<1>. QED
  BY <1>1, <1>3, PositionIsRowPosition, SpecKeepsIInv, PTL
     DEF Spec, ImplementsLaneLedger, Ledger!Spec

=============================================================================
