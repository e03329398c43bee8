------------------------------ MODULE Analyst ------------------------------
(***************************************************************************)
(* orchestrator/llm: one analyst run over the transcripts of a deal.  A    *)
(* provider proposes observations; each is validated against the segments, *)
(* may be repaired once, and is applied or quarantined.  Readiness and the *)
(* digest are then computed from what was applied.                         *)
(*                                                                         *)
(* The provider is external: a manager's entries (MANUAL_CITATION), a      *)
(* recording (RECORDED_ANALYST_REPLAY) or a local model (LIVE_LOCAL), which*)
(* answers anything or fails.  Hashes are ideal: a text, a quote or a      *)
(* citation stands for its own hash.                                       *)
(***************************************************************************)
EXTENDS Naturals, Sequences, FiniteSets

CONSTANTS
  Deal,           \* the deal of this run
  Transcripts,    \* transcripts the run, or the recording, may be made from
  Raws,           \* observations a provider may submit
  Catalog,        \* dimension ids the contracts know
  Accepted,       \* dimension ids the policy selected
  MaxCandidates   \* bound: observations proposed

\* What the types of the contracts say of an observation and of a segment.
IsSequence(q) == q \in Seq({q[i] : i \in DOMAIN q})

ASSUME RawsAssumption ==
  \A raw \in Raws :
    /\ raw.state \in {"SUPPORTED", "CONFLICT", "UNKNOWN"}
    /\ IsSequence(raw.citations)
    /\ \A i \in DOMAIN raw.citations :
         LET c == raw.citations[i] IN {c.begin, c.end, c.at} \subseteq Nat
ASSUME TextsAssumption ==
  \A segs \in Transcripts : \A s \in segs : IsSequence(s.text) /\ {s.from, s.to} \subseteq Nat
ASSUME AcceptedAssumption == Accepted \subseteq Catalog
ASSUME BoundAssumption == MaxCandidates \in Nat

VARIABLES
  mode, segments, recordedFrom, repairs,   \* inputs of the run
  phase,        \* where run_analyst is
  candidates,   \* what was proposed
  decided,      \* how many of them the loop is done with
  first,        \* why the candidate under repair was rejected
  observations, evidence, quarantined      \* the lists of the result

input == <<mode, segments, recordedFrom, repairs>>
result == <<observations, evidence, quarantined>>
vars == <<input, phase, candidates, decided, first, result>>

None == "NONE"

-----------------------------------------------------------------------------
(***************************************************************************)
(* compute_transcript_input_sha256: the texts of the deal's segments, not  *)
(* their times, and nothing of other deals.                                *)
(***************************************************************************)
OfDeal(segs) == {s \in segs : s.deal = Deal}

InputWithoutText(segs) ==   \* mutant: only the ids are hashed
  {<<s.conversation, s.segment>> : s \in OfDeal(segs)}

InputSha256(segs) == {<<s.conversation, s.segment, s.text>> : s \in OfDeal(segs)}

(***************************************************************************)
(* validate_raw_observation, check by check in the order of the code.      *)
(***************************************************************************)
Cited(c) ==
  {s \in OfDeal(segments) : s.conversation = c.conversation /\ s.segment = c.segment}

ObjectionWithoutTime(c) ==   \* mutant: the time is not compared
  IF Cited(c) = {} THEN "UNKNOWN_SEGMENT"
  ELSE LET s == CHOOSE s \in Cited(c) : TRUE
       IN IF c.end > Len(s.text) THEN "QUOTE_OFFSET_MISMATCH"
          ELSE IF SubSeq(s.text, c.begin + 1, c.end) # c.quote THEN "QUOTE_TEXT_MISMATCH"
          ELSE IF c.hash # s.text THEN "SEGMENT_HASH_MISMATCH"
          ELSE None

Objection(c) ==
  IF Cited(c) = {} THEN "UNKNOWN_SEGMENT"
  ELSE LET s == CHOOSE s \in Cited(c) : TRUE
       IN IF c.end > Len(s.text) THEN "QUOTE_OFFSET_MISMATCH"
          ELSE IF SubSeq(s.text, c.begin + 1, c.end) # c.quote THEN "QUOTE_TEXT_MISMATCH"
          ELSE IF c.hash # s.text THEN "SEGMENT_HASH_MISMATCH"
          ELSE IF c.at < s.from \/ c.at > s.to THEN "TIMESTAMP_OUT_OF_BOUNDS"
          ELSE None

Objectionable(raw) ==
  {i \in 1..Len(raw.citations) : Objection(raw.citations[i]) # None}

FirstObjection(raw) ==
  Objection(raw.citations[CHOOSE i \in Objectionable(raw) :
                            \A j \in Objectionable(raw) : i <= j])

\* What AnalystObservationV2 refuses, and the reason _map_validation_error reads off it.
ContractObjection(raw) ==
  LET n == Len(raw.citations)
  IN IF raw.dimension \notin Catalog THEN "MALFORMED_PAYLOAD"
     ELSE IF \E i \in 1..n : raw.citations[i].begin >= raw.citations[i].end
     THEN "MALFORMED_PAYLOAD"
     ELSE IF raw.state = "SUPPORTED" /\ n < 1 THEN "MISSING_CITATION"
     ELSE IF raw.state = "CONFLICT" /\ n < 2 THEN "INSUFFICIENT_CONFLICT_CITATIONS"
     ELSE IF raw.state = "UNKNOWN" /\ n > 0 THEN "UNKNOWN_WITH_CITATION"
     ELSE None

\* A statement is keyed by its segment and offsets, whatever conversation it is in.
Statements(raw) ==
  {<<raw.citations[i].segment, raw.citations[i].begin, raw.citations[i].end>> :
     i \in 1..Len(raw.citations)}

OneSided(raw) == raw.state = "CONFLICT" /\ Cardinality(Statements(raw)) < 2

Rejection(raw) ==
  IF raw.injected THEN "UNKNOWN_FIELD"
  ELSE IF raw.deal \notin {None, Deal} THEN "DEAL_SCOPE_MISMATCH"
  ELSE IF ContractObjection(raw) # None THEN ContractObjection(raw)
  ELSE IF raw.dimension \notin Accepted THEN "OFF_SCOPE_DIMENSION"
  ELSE IF Objectionable(raw) # {} THEN FirstObjection(raw)
  ELSE IF OneSided(raw) THEN "INSUFFICIENT_CONFLICT_CITATIONS"
  ELSE None

(***************************************************************************)
(* evidence_from_validated_observation and the contract of its result,     *)
(* which counts distinct citation ids, the conversation included.          *)
(***************************************************************************)
EvidenceOf(raw) ==
  [dimension |-> raw.dimension, state |-> raw.state, citations |-> raw.citations]

CitationIds(e) == {e.citations[i] : i \in 1..Len(e.citations)}

EvidenceRefused(e) ==
  \/ e.state = "SUPPORTED" /\ Len(e.citations) < 1
  \/ e.state = "CONFLICT" /\ Cardinality(CitationIds(e)) < 2
  \/ e.state = "UNKNOWN" /\ Len(e.citations) > 0

(***************************************************************************)
(* _dimension_of labels a quarantine record with a catalog dimension.  A   *)
(* list or an object for a dimension id cannot be looked up in a set: the  *)
(* TypeError is raised outside the function's try.                         *)
(***************************************************************************)
Unhashable(raw) == raw.dimension = "UNHASHABLE"

Label(raw) == IF raw.dimension \in Catalog THEN raw.dimension ELSE None

-----------------------------------------------------------------------------
NoFirst == [reason |-> None, dimension |-> None]

Init ==
  /\ mode \in {"MANUAL_CITATION", "RECORDED_ANALYST_REPLAY", "LIVE_LOCAL"}
  /\ segments \in Transcripts
  /\ recordedFrom \in IF mode = "RECORDED_ANALYST_REPLAY" THEN Transcripts ELSE {segments}
  /\ repairs = [d \in Catalog |-> {}]
  /\ phase = "BEGIN" /\ candidates = <<>> /\ decided = 0 /\ first = NoFirst
  /\ observations = <<>> /\ evidence = <<>> /\ quarantined = <<>>

Lose(cause) ==
  /\ phase' = cause
  /\ UNCHANGED <<input, candidates, decided, first, result>>

\* verify_bound_input, which only a recording has
VerifyBoundInput ==
  /\ phase = "BEGIN"
  /\ IF mode = "RECORDED_ANALYST_REPLAY" /\ InputSha256(segments) # InputSha256(recordedFrom)
     THEN Lose("NOT BOUND")
     ELSE phase' = "PROPOSE" /\ UNCHANGED <<input, candidates, decided, first, result>>

\* What a person or a recording repairs is fixed beforehand, by dimension.
Propose ==
  /\ phase = "PROPOSE"
  /\ \E n \in 0..MaxCandidates : candidates' \in [1..n -> Raws]
  /\ repairs' \in IF mode = "LIVE_LOCAL" THEN {repairs}
                  ELSE {[repairs EXCEPT ![d] = {r}] : d \in Accepted, r \in Raws} \cup {repairs}
  /\ phase' = "JUDGE"
  /\ UNCHANGED <<mode, segments, recordedFrom, decided, first, result>>

\* Only the local model is reached over a connection, and can fail.
ProviderRaises ==
  /\ phase \in {"PROPOSE", "REPAIR"}
  /\ mode = "LIVE_LOCAL"
  /\ Lose("PROVIDER")

Apply(raw) ==
  IF EvidenceRefused(EvidenceOf(raw)) THEN Lose("CONTRACT")
  ELSE /\ observations' = Append(observations, raw)
       /\ evidence' = Append(evidence, EvidenceOf(raw))
       /\ decided' = decided + 1
       /\ phase' = "JUDGE" /\ first' = NoFirst
       /\ UNCHANGED <<input, candidates, quarantined>>

QuarantineAndApply(dimension, reason, second) ==   \* mutant: the loop goes on below
  /\ quarantined' = Append(quarantined,
       [dimension |-> dimension, reason |-> reason, repair |-> second])
  /\ IF evidence = <<>> THEN UNCHANGED <<observations, evidence>>
     ELSE /\ observations' = Append(observations, observations[Len(observations)])
          /\ evidence' = Append(evidence, evidence[Len(evidence)])
  /\ decided' = decided + 1
  /\ phase' = "JUDGE" /\ first' = NoFirst
  /\ UNCHANGED <<input, candidates>>

Quarantine(dimension, reason, second) ==
  /\ quarantined' = Append(quarantined,
       [dimension |-> dimension, reason |-> reason, repair |-> second])
  /\ decided' = decided + 1
  /\ phase' = "JUDGE" /\ first' = NoFirst
  /\ UNCHANGED <<input, candidates, observations, evidence>>

Judge ==
  /\ phase = "JUDGE" /\ decided < Len(candidates)
  /\ LET raw == candidates[decided + 1]
     IN IF Rejection(raw) = None THEN Apply(raw)
        ELSE IF Unhashable(raw) THEN Lose("TYPE ERROR")
        ELSE /\ first' = [reason |-> Rejection(raw), dimension |-> Label(raw)]
             /\ phase' = "REPAIR"
             /\ UNCHANGED <<input, candidates, decided, result>>

Offers ==
  IF mode = "LIVE_LOCAL" THEN {{}} \cup {{r} : r \in Raws}
  ELSE IF first.dimension = None THEN {{}}
  ELSE {repairs[first.dimension]}

RepairAgain ==   \* mutant: the provider is asked until it is right
  /\ phase = "REPAIR"
  /\ \E answer \in Offers :
       IF answer = {} THEN Quarantine(first.dimension, first.reason, "REPAIR_UNAVAILABLE")
       ELSE \E raw \in answer :
         IF Rejection(raw) = None THEN Apply(raw)
         ELSE IF Unhashable(raw) THEN Lose("TYPE ERROR")
         ELSE UNCHANGED vars

\* The one repair.  It may answer with another dimension than it was asked for.
Repair ==
  /\ phase = "REPAIR"
  /\ \E answer \in Offers :
       IF answer = {} THEN Quarantine(first.dimension, first.reason, "REPAIR_UNAVAILABLE")
       ELSE \E raw \in answer :
         IF Rejection(raw) = None THEN Apply(raw)
         ELSE IF Unhashable(raw) THEN Lose("TYPE ERROR")
         ELSE Quarantine(IF Label(raw) = None THEN first.dimension ELSE Label(raw),
                         first.reason, Rejection(raw))

-----------------------------------------------------------------------------
(***************************************************************************)
(* compute_readiness over the applied evidence: a conflict outweighs any   *)
(* support, but keeps its citations beside its own.                        *)
(***************************************************************************)
With(dimension, states) ==
  {i \in 1..Len(evidence) : evidence[i].dimension = dimension /\ evidence[i].state \in states}

ConflictAlone(d) ==   \* mutant: a conflict drops the support
  LET state == IF With(d, {"CONFLICT"}) # {} THEN "CONFLICT"
               ELSE IF With(d, {"SUPPORTED"}) # {} THEN "SUPPORTED" ELSE "UNKNOWN"
      items == IF state = "UNKNOWN" THEN {} ELSE With(d, {state})
  IN [state |-> state, citations |-> UNION {CitationIds(evidence[i]) : i \in items}]

DimensionReceipt(d) ==
  LET state == IF With(d, {"CONFLICT"}) # {} THEN "CONFLICT"
               ELSE IF With(d, {"SUPPORTED"}) # {} THEN "SUPPORTED" ELSE "UNKNOWN"
      items == IF state = "UNKNOWN" THEN {} ELSE With(d, {"CONFLICT", "SUPPORTED"})
  IN [state |-> state, citations |-> UNION {CitationIds(evidence[i]) : i \in items}]

ReceiptRefused(receipt) ==
  \/ receipt.state = "SUPPORTED" /\ receipt.citations = {}
  \/ receipt.state = "CONFLICT" /\ Cardinality(receipt.citations) < 2

(***************************************************************************)
(* build_analyst_digest: one fact for each applied observation.            *)
(***************************************************************************)
Facts ==
  {[dimension |-> o.dimension, state |-> o.state,
    quotes |-> {o.citations[i].quote : i \in 1..Len(o.citations)}] :
     o \in {observations[i] : i \in 1..Len(observations)}}

Conclude ==
  /\ phase = "JUDGE" /\ decided = Len(candidates)
  /\ IF \E d \in Accepted : ReceiptRefused(DimensionReceipt(d)) THEN Lose("CONTRACT")
     ELSE phase' = "DONE" /\ UNCHANGED <<input, candidates, decided, first, result>>

Step ==
  \/ VerifyBoundInput \/ Propose \/ ProviderRaises \/ Judge \/ Repair \/ Conclude

Spec == Init /\ [][Step]_vars /\ WF_vars(Step)

-----------------------------------------------------------------------------
\* a run that is lost stays at the cause
Causes == {"NOT BOUND", "PROVIDER", "TYPE ERROR", "CONTRACT"}

Lost(cause) == phase = cause

Phases == {"BEGIN", "PROPOSE", "JUDGE", "REPAIR", "DONE"} \cup Causes

TypeOK ==
  /\ phase \in Phases
  /\ \A i \in 1..Len(candidates) : candidates[i] \in Raws
  /\ first.dimension \in Catalog \cup {None}
  /\ \A i \in 1..Len(evidence) : evidence[i].dimension \in Accepted
  /\ \A i \in 1..Len(quarantined) : quarantined[i].dimension \in Catalog \cup {None}

(***************************************************************************)
(* Whatever a provider submits, first or as a repair, every citation that  *)
(* reaches readiness quotes a segment of this deal word for word, at its   *)
(* offset and within its time.                                             *)
(***************************************************************************)
Quotes(c, s) ==
  /\ s.deal = Deal /\ s.conversation = c.conversation /\ s.segment = c.segment
  /\ c.begin < c.end /\ c.end <= Len(s.text)
  /\ \A i \in 1..Len(c.quote) : c.quote[i] = s.text[c.begin + i]
  /\ c.at \in s.from..s.to

EvidenceIsQuoted ==
  /\ TypeOK
  /\ \A i \in 1..Len(evidence) : \A c \in CitationIds(evidence[i]) :
       \E s \in segments : Quotes(c, s)

(***************************************************************************)
(* Each proposed observation is applied or quarantined, once: nothing      *)
(* rejected is applied beside it, and nothing disappears.  What the        *)
(* validator lets through no later contract refuses (their counts of       *)
(* distinct citations differ from the validator's), so a run is lost only  *)
(* to the provider, to a stale recording or to a dimension id that cannot  *)
(* be hashed.                                                              *)
(***************************************************************************)
EveryCandidateIsDecidedOnce ==
  /\ Len(observations) = Len(evidence)
  /\ Len(observations) + Len(quarantined) = decided
  /\ phase = "DONE" => decided = Len(candidates)
  /\ ~Lost("CONTRACT")

(***************************************************************************)
(* A recording is applied only to the words it was made from.              *)
(***************************************************************************)
StaleRecordingIsNotApplied ==
  evidence # <<>> =>
    \A s \in OfDeal(segments) :
      \E o \in recordedFrom : o.conversation = s.conversation /\ o.segment = s.segment
                              /\ o.deal = s.deal /\ o.text = s.text

(***************************************************************************)
(* Readiness and the digest are computed apart and agree: a dimension is   *)
(* as ready as its strongest fact, and cites exactly what its facts cite.  *)
(***************************************************************************)
DigestMatchesReadiness ==
  phase = "DONE" =>
    \A d \in Accepted :
      LET facts == {f \in Facts : f.dimension = d}
          receipt == DimensionReceipt(d)
      IN /\ {c.quote : c \in receipt.citations} = UNION {f.quotes : f \in facts}
         /\ receipt.state = IF \E f \in facts : f.state = "CONFLICT" THEN "CONFLICT"
                            ELSE IF \E f \in facts : f.state = "SUPPORTED" THEN "SUPPORTED"
                            ELSE "UNKNOWN"

(***************************************************************************)
(* A run ends, however often the provider is wrong: it is asked for one    *)
(* repair of each observation, and a call returns or times out.            *)
(***************************************************************************)
RunEnds == <>(phase \in Phases \ {"BEGIN", "PROPOSE", "JUDGE", "REPAIR"})

=============================================================================
