--------------------------- MODULE AnalystProofs ---------------------------
(***************************************************************************)
(* For any transcripts, observations and policy: what a run of the analyst *)
(* applies is quoted, made from these words, decided once, and read alike  *)
(* by readiness and by the digest.                                         *)
(***************************************************************************)
EXTENDS Analyst, FiniteSetTheorems, SequenceTheorems, WellFoundedInduction, TLAPS

-----------------------------------------------------------------------------
(***************************************************************************)
(* Sequences and their sets of citations.                                  *)
(***************************************************************************)
\* A sequence, taken as it is.
LEMMA LengthOf ==
  ASSUME NEW q, IsSequence(q)
  PROVE  Len(q) \in Nat /\ DOMAIN q = 1..Len(q)
BY DEF IsSequence

\* A slice of a text is its words, from the first on.
LEMMA QuotedWordByWord ==
  ASSUME NEW text, IsSequence(text), NEW b \in Nat, NEW e \in Nat, b < e, e <= Len(text)
  PROVE  \A j \in 1..Len(SubSeq(text, b + 1, e)) : SubSeq(text, b + 1, e)[j] = text[b + j]
<1>. DEFINE W == {text[j] : j \in DOMAIN text}
            m == b + 1
<1>1. text \in Seq(W)
  BY DEF IsSequence
<1>. HIDE DEF W
<1>2. m \in Int /\ e \in Int /\ m <= e /\ \A j \in m..e : text[j] \in W
  BY <1>1
<1>3. \A k \in Nat : m + k - 1 = b + k
  OBVIOUS
<1>. HIDE DEF m
<1>4. /\ Len(SubSeq(text, m, e)) = e - m + 1
      /\ \A j \in 1..e - m + 1 : SubSeq(text, m, e)[j] = text[m + j - 1]
  BY <1>2, SubSeqProperties
<1>. DEFINE quote == SubSeq(text, m, e)
<1>5. \A j \in 1..Len(quote) : quote[j] = text[b + j]
  <2>. HIDE DEF quote
  <2>1. TAKE j \in 1..Len(quote)
  <2>2. j \in Nat /\ j \in 1..e - m + 1
    BY <1>2, <1>4 DEF quote
  <2>3. quote[j] = text[m + j - 1]
    BY <1>4, <2>2 DEF quote
  <2>. QED  BY <1>3, <2>2, <2>3
<1>. QED  BY <1>5 DEF m

\* The citations of an observation are finitely many.
LEMMA CitationsAreFinite ==
  ASSUME NEW raw \in Raws
  PROVE  IsFiniteSet(CitationIds(EvidenceOf(raw)))
<1>. DEFINE q == raw.citations
            n == Len(q)
            f == [i \in 1..n |-> q[i]]
            ids == {q[i] : i \in 1..n}
<1>1. n \in Nat
  BY LengthOf, RawsAssumption
<1>2. CitationIds(EvidenceOf(raw)) = ids
  BY DEF CitationIds, EvidenceOf
<1>3. f \in Surjection(1..n, ids)
  BY DEF Surjection
<1>4. IsFiniteSet(1..n)
  BY <1>1, FS_Interval
<1>. HIDE DEF f, ids
<1>. QED  BY <1>2, <1>3, <1>4, FS_Surjection

\* Two distinct statements come from two distinct citations, so that what the
\* validator lets through the contract of the evidence does not refuse.
LEMMA StatementsBoundCitations ==
  ASSUME NEW raw \in Raws, Cardinality(CitationIds(EvidenceOf(raw))) < 2
  PROVE  Cardinality(Statements(raw)) < 2
<1>. DEFINE q == raw.citations
            n == Len(q)
            ids == {q[i] : i \in 1..n}
            said == {<<q[i].segment, q[i].begin, q[i].end>> : i \in 1..n}
<1>0. CitationIds(EvidenceOf(raw)) = ids /\ Statements(raw) = said
  BY DEF CitationIds, EvidenceOf, Statements
<1>1. IsFiniteSet(ids) /\ Cardinality(ids) \in Nat /\ Cardinality(ids) < 2
  BY <1>0, CitationsAreFinite, FS_CardinalityType
<1>2. CASE Cardinality(ids) = 0
  <2>1. ids = {}
    BY <1>1, <1>2, FS_EmptySet
  <2>2. Statements(raw) = {}
    BY <1>0, <2>1
  <2>. QED  BY <2>2, FS_EmptySet
<1>3. CASE Cardinality(ids) = 1
  <2>1. PICK c : ids = {c}
    BY <1>1, <1>3, FS_Singleton
  <2>2. said = {<<c.segment, c.begin, c.end>>}
    <3>1. \A i \in 1..n : q[i] = c
      BY <2>1
    <3>2. 1..n # {}
      BY <2>1
    <3>. QED  BY <3>1, <3>2
  <2>3. Cardinality({<<c.segment, c.begin, c.end>>}) = 1
    BY FS_Singleton
  <2>4. Cardinality(Statements(raw)) = 1
    BY <1>0, <2>2, <2>3
  <2>. QED  BY <2>4
<1>. HIDE DEF ids
<1>. QED  BY <1>1, <1>2, <1>3

\* A set of positions has a first one.
LEMMA FirstExists ==
  ASSUME NEW S, S \subseteq Nat, S # {}
  PROVE  \E n \in S : \A m \in S : n <= m
<1>. DEFINE Less == OpToRel(<, Nat)
<1>1. PICK n \in S : \A k \in S : ~(<<k, n>> \in Less)
  <2>. HIDE DEF Less
  <2>1. IsWellFoundedOn(Less, Nat)
    BY NatLessThanWellFounded DEF Less
  <2>. QED  BY <2>1, WFMin
<1>2. \A k \in Nat : k < n => <<k, n>> \in Less
  BY DEF OpToRel
<1>. HIDE DEF Less
<1>3. ASSUME NEW m \in S  PROVE ~(m < n)
  BY <1>1, <1>2, Zenon
<1>. QED  BY <1>1, <1>3

\* An observation is accepted only without any objection.
LEMMA ValidHasNoObjection ==
  ASSUME NEW raw \in Raws, Rejection(raw) = None
  PROVE  ContractObjection(raw) = None /\ Objectionable(raw) = {} /\ ~OneSided(raw)
<1>. DEFINE q == raw.citations
            bad == Objectionable(raw)
<1>1. ContractObjection(raw) = None
  BY DEF Rejection, None
<1>2. bad = {}
  <2>. SUFFICES ASSUME bad # {}  PROVE FALSE
    OBVIOUS
  <2>1. FirstObjection(raw) = None
    BY DEF Rejection, None
  <2>2. bad \subseteq Nat
    BY LengthOf, RawsAssumption DEF Objectionable
  <2>3. \E i \in bad : \A j \in bad : i <= j
    BY <2>2, FirstExists
  <2>4. \A i \in bad : Objection(q[i]) # None
    BY DEF Objectionable
  <2>5. FirstObjection(raw) = Objection(q[CHOOSE i \in bad : \A j \in bad : i <= j])
    BY DEF FirstObjection
  <2>. HIDE DEF bad
  <2>. QED  BY <2>1, <2>3, <2>4, <2>5
<1>3. ~OneSided(raw)
  BY <1>1, <1>2 DEF Rejection, None
<1>. QED  BY <1>1, <1>2, <1>3

\* An observation the validator accepts has as many citations as its state asks for.
LEMMA ValidIsNotRefused ==
  ASSUME NEW raw \in Raws, Rejection(raw) = None
  PROVE  ~EvidenceRefused(EvidenceOf(raw))
<1>1. ContractObjection(raw) = None /\ ~OneSided(raw)
  BY ValidHasNoObjection
<1>2. /\ raw.state = "SUPPORTED" => ~(Len(raw.citations) < 1)
      /\ raw.state = "UNKNOWN" => ~(Len(raw.citations) > 0)
  BY <1>1 DEF ContractObjection, None
<1>3. raw.state = "CONFLICT" => ~(Cardinality(CitationIds(EvidenceOf(raw))) < 2)
  BY <1>1, StatementsBoundCitations DEF OneSided
<1>. QED  BY <1>2, <1>3 DEF EvidenceRefused, EvidenceOf


(***************************************************************************)
(* validate_raw_observation: each citation of an observation it accepts    *)
(* quotes a segment.                                                       *)
(***************************************************************************)
LEMMA ValidIsQuoted ==
  ASSUME NEW raw \in Raws, Rejection(raw) = None,
         \A s \in segments : IsSequence(s.text) /\ {s.from, s.to} \subseteq Nat
  PROVE  \A c \in CitationIds(EvidenceOf(raw)) : \E s \in segments : Quotes(c, s)
<1>. DEFINE q == raw.citations
<1>1. ContractObjection(raw) = None /\ Objectionable(raw) = {}
  BY ValidHasNoObjection
<1>3. SUFFICES ASSUME NEW i \in 1..Len(q)  PROVE \E s \in segments : Quotes(q[i], s)
  BY DEF CitationIds, EvidenceOf
<1>. DEFINE c == q[i]
            s == CHOOSE s \in Cited(c) : TRUE
<1>4. Objection(c) = None
  BY <1>1 DEF Objectionable
<1>5. i \in DOMAIN q /\ c.begin \in Nat /\ c.end \in Nat /\ c.at \in Nat
  BY LengthOf, RawsAssumption
<1>6. c.begin < c.end
  BY <1>1, <1>5 DEF ContractObjection, None
<1>7. s \in Cited(c) /\ ~(c.end > Len(s.text)) /\ SubSeq(s.text, c.begin + 1, c.end) = c.quote
      /\ ~(c.at < s.from \/ c.at > s.to)
  BY <1>4 DEF Objection, None
<1>8. /\ s \in segments /\ s.deal = Deal
      /\ s.conversation = c.conversation /\ s.segment = c.segment
  BY <1>7 DEF Cited, OfDeal
<1>9. IsSequence(s.text) /\ s.from \in Nat /\ s.to \in Nat
  BY <1>8
<1>. HIDE DEF c, s
<1>10. \A j \in 1..Len(c.quote) : c.quote[j] = s.text[c.begin + j]
  <2>. DEFINE quote == SubSeq(s.text, c.begin + 1, c.end)
  <2>1. c.end <= Len(s.text)
    BY <1>5, <1>7, <1>9, LengthOf
  <2>2. \A j \in 1..Len(quote) : quote[j] = s.text[c.begin + j]
    BY <1>5, <1>6, <1>9, <2>1, QuotedWordByWord
  <2>3. quote = c.quote
    BY <1>7
  <2>. HIDE DEF quote
  <2>. QED  BY <2>2, <2>3
<1>11. c.at \in s.from..s.to
  BY <1>5, <1>7, <1>9
<1>12. Quotes(c, s)
  BY <1>5, <1>6, <1>7, <1>8, <1>10, <1>11, LengthOf, <1>9 DEF Quotes
<1>. QED  BY <1>8, <1>12 DEF c

-----------------------------------------------------------------------------
(***************************************************************************)
(* The inductive invariant.                                                *)
(***************************************************************************)
\* What the validator accepts against the segments of this run.
Valid == {raw \in Raws : Rejection(raw) = None}

InputType ==
  /\ segments \in Transcripts
  /\ mode = "RECORDED_ANALYST_REPLAY" \/ recordedFrom = segments
  /\ repairs \in [Catalog -> SUBSET Raws]

Known == Catalog \cup {None}

\* A list of quarantine records, each with a label of the catalog.
Labelled(list) == \E S : list \in Seq(S) /\ \A q \in S : q.dimension \in Known

\* The lists are as long as the loop has come, and the evidence is what the
\* observations say.
Progress ==
  /\ candidates \in Seq(Raws)
  /\ observations \in Seq(Valid)
  /\ evidence = [i \in 1..Len(observations) |-> EvidenceOf(observations[i])]
  /\ Labelled(quarantined)
  /\ decided = Len(observations) + Len(quarantined)
  /\ decided <= Len(candidates)

PhaseType ==
  /\ phase \in Phases \ {"CONTRACT"}
  /\ first.dimension \in Known
  /\ phase = "REPAIR" => decided < Len(candidates)
  /\ phase = "DONE" => decided = Len(candidates)
  /\ phase \in {"BEGIN", "PROPOSE", "NOT BOUND"} => decided = 0
  /\ phase \in {"BEGIN", "NOT BOUND"} \/ InputSha256(segments) = InputSha256(recordedFrom)

IInv == InputType /\ Progress /\ PhaseType

\* What the validator accepts depends on the segments only.
LEMMA SameInputSameVerdict ==
  ASSUME segments' = segments
  PROVE  /\ Valid' = Valid
         /\ \A raw : Rejection(raw)' = Rejection(raw)
<1>1. \A c : Cited(c)' = Cited(c)
  BY DEF Cited, OfDeal
<1>2. \A c : Objection(c)' = Objection(c)
  BY <1>1 DEF Objection
<1>3. \A raw : Objectionable(raw)' = Objectionable(raw)
  BY <1>2 DEF Objectionable
<1>4. \A raw : FirstObjection(raw)' = FirstObjection(raw)
  BY <1>2, <1>3 DEF FirstObjection
<1>5. \A raw : Rejection(raw)' = Rejection(raw)
  BY <1>3, <1>4 DEF Rejection, ContractObjection, OneSided, Statements
<1>. QED  BY <1>5 DEF Valid

\* A list is labelled still with one more record.
LEMMA LabelledGrows ==
  ASSUME NEW list, Labelled(list), NEW q, q.dimension \in Known
  PROVE  Labelled(Append(list, q)) /\ Len(Append(list, q)) = Len(list) + 1 /\ Len(list) \in Nat
<1>1. PICK S : list \in Seq(S) /\ \A k \in S : k.dimension \in Known
  BY DEF Labelled
<1>2. list \in Seq(S \cup {q}) /\ \A k \in S \cup {q} : k.dimension \in Known
  BY <1>1
<1>3. Append(list, q) \in Seq(S \cup {q})
  BY <1>2
<1>. QED  BY <1>1, <1>2, <1>3 DEF Labelled

LEMMA LabelledIsList ==
  ASSUME NEW list, Labelled(list)
  PROVE  Len(list) \in Nat
BY DEF Labelled

\* The run begins with nothing proposed and nothing applied.
LEMMA IInvInit == Init => IInv
<1>. SUFFICES ASSUME Init  PROVE IInv
  OBVIOUS
<1>1. Labelled(<<>>)
  <2>1. PICK S : S = {}
    OBVIOUS
  <2>2. <<>> \in Seq(S)
    OBVIOUS
  <2>3. \A q \in S : q.dimension \in Known
    BY <2>1
  <2>. QED  BY <2>2, <2>3, Zenon DEF Labelled
<1>2. evidence = [i \in 1..Len(observations) |-> EvidenceOf(observations[i])]
  BY DEF Init
<1>. QED
  BY <1>1, <1>2 DEF Init, NoFirst, IInv, InputType, Progress, PhaseType, Phases, Causes, Known

\* A run that is lost has kept what it has.
LEMMA LoseStep ==
  ASSUME IInv, NEW cause \in Causes \ {"CONTRACT"}, Lose(cause), cause = "NOT BOUND" => phase = "BEGIN",
         cause # "NOT BOUND" => phase \notin {"BEGIN", "NOT BOUND"}
  PROVE  IInv'
<1>1. UNCHANGED <<input, candidates, decided, first, result>> /\ phase' = cause
  BY DEF Lose
<1>2. InputType' /\ InputSha256(segments)' = InputSha256(segments)
      /\ InputSha256(recordedFrom)' = InputSha256(recordedFrom)
  BY <1>1 DEF IInv, InputType, input, InputSha256, OfDeal
<1>3. Progress'
  BY <1>1, SameInputSameVerdict DEF IInv, Progress, Labelled, result, input
<1>4. PhaseType'
  BY <1>1, <1>2 DEF IInv, PhaseType, Phases, Causes
<1>. QED  BY <1>2, <1>3, <1>4 DEF IInv

\* A valid observation is applied: the contract of its evidence accepts it.
LEMMA ApplyStep ==
  ASSUME IInv, NEW raw \in Raws, Rejection(raw) = None, Apply(raw),
         phase \in {"JUDGE", "REPAIR"}, decided < Len(candidates)
  PROVE  IInv'
<1>1. /\ observations' = Append(observations, raw)
      /\ evidence' = Append(evidence, EvidenceOf(raw))
      /\ decided' = decided + 1
      /\ phase' = "JUDGE" /\ first' = NoFirst
      /\ UNCHANGED <<input, candidates, quarantined>>
  BY ValidIsNotRefused DEF Apply
<1>2. InputType' /\ InputSha256(segments)' = InputSha256(segments)
      /\ InputSha256(recordedFrom)' = InputSha256(recordedFrom)
  BY <1>1 DEF IInv, InputType, input, InputSha256, OfDeal
<1>3. observations' \in Seq(Valid) /\ Len(observations') = Len(observations) + 1
      /\ Len(observations) \in Nat
  BY <1>1 DEF IInv, Progress, Valid
<1>4. evidence' = [i \in 1..Len(observations') |-> EvidenceOf(observations'[i])]
  <2>. DEFINE n == Len(observations)
              E == {EvidenceOf(r) : r \in Valid}
  <2>1. evidence = [i \in 1..n |-> EvidenceOf(observations[i])] /\ n \in Nat
        /\ \A i \in 1..n : observations[i] \in Valid
    BY <1>3 DEF IInv, Progress
  <2>2. evidence \in Seq(E) /\ Len(evidence) = n /\ EvidenceOf(raw) \in E
    BY <2>1 DEF Valid
  <2>3. \A i \in 1..n : observations'[i] = observations[i]
    BY <1>1 DEF IInv, Progress
  <2>4. observations'[n + 1] = raw
    BY <1>1 DEF IInv, Progress
  <2>. HIDE DEF n, E
  <2>5. evidence' \in Seq(E) /\ Len(evidence') = n + 1 /\ evidence'[n + 1] = EvidenceOf(raw)
        /\ \A i \in 1..n : evidence'[i] = evidence[i]
    BY <1>1, <2>2, AppendProperties
  <2>6. evidence' = [i \in 1..n + 1 |-> evidence'[i]]
    BY <2>1, <2>5
  <2>7. \A i \in 1..n + 1 : evidence'[i] = EvidenceOf(observations'[i])
    <3>1. TAKE i \in 1..n + 1
    <3>2. i = n + 1 \/ i \in 1..n
      BY <2>1
    <3>. QED  BY <2>1, <2>3, <2>4, <2>5, <3>2
  <2>8. Len(observations') = n + 1
    BY <1>3 DEF n
  <2>. QED  BY <2>6, <2>7, <2>8
<1>5. Progress'
  BY <1>1, <1>3, <1>4, SameInputSameVerdict, LabelledIsList DEF IInv, Progress, Labelled, input
<1>6. PhaseType'
  BY <1>1, <1>2, <1>3, LabelledIsList DEF IInv, PhaseType, Progress, Phases, Causes, NoFirst, Known
<1>. QED  BY <1>2, <1>5, <1>6 DEF IInv

\* An observation that is quarantined is done with, and nothing is applied.
LEMMA QuarantineStep ==
  ASSUME IInv, NEW dimension \in Known, NEW reason, NEW second,
         Quarantine(dimension, reason, second),
         phase = "REPAIR", decided < Len(candidates)
  PROVE  IInv'
<1>. DEFINE q == [dimension |-> dimension, reason |-> reason, repair |-> second]
<1>1. /\ quarantined' = Append(quarantined, q)
      /\ decided' = decided + 1
      /\ phase' = "JUDGE" /\ first' = NoFirst
      /\ UNCHANGED <<input, candidates, observations, evidence>>
  BY DEF Quarantine
<1>2. InputType' /\ InputSha256(segments)' = InputSha256(segments)
      /\ InputSha256(recordedFrom)' = InputSha256(recordedFrom)
  BY <1>1 DEF IInv, InputType, input, InputSha256, OfDeal
<1>3. Labelled(quarantined)
  BY DEF IInv, Progress
<1>4. q.dimension \in Known
  OBVIOUS
<1>. HIDE DEF q
<1>5. Labelled(quarantined)' /\ Len(quarantined') = Len(quarantined) + 1 /\ Len(quarantined) \in Nat
  <2>1. Labelled(Append(quarantined, q))
    BY <1>3, <1>4, LabelledGrows
  <2>2. Labelled(quarantined)'
    BY <1>1, <2>1 DEF Labelled
  <2>. QED  BY <1>1, <1>3, <1>4, <2>2, LabelledGrows
<1>6. Progress'
  BY <1>1, <1>5, SameInputSameVerdict DEF IInv, Progress, input
<1>7. PhaseType'
  BY <1>1, <1>2, <1>5 DEF IInv, PhaseType, Progress, Phases, Causes, NoFirst, Known
<1>. QED  BY <1>2, <1>6, <1>7 DEF IInv

-----------------------------------------------------------------------------
(***************************************************************************)
(* What is read off the lists at the end.                                  *)
(***************************************************************************)
\* Each evidence is that of a valid observation, and no contract refuses it.
LEMMA AppliedIsValid ==
  ASSUME IInv
  PROVE  /\ Len(observations) \in Nat /\ Len(evidence) = Len(observations)
         /\ \A i \in 1..Len(evidence) :
              /\ observations[i] \in Raws /\ Rejection(observations[i]) = None
              /\ evidence[i] = EvidenceOf(observations[i])
              /\ ~EvidenceRefused(evidence[i])
<1>1. observations \in Seq(Valid) /\ Len(observations) \in Nat
  BY DEF IInv, Progress
<1>2. /\ Len(evidence) = Len(observations)
      /\ \A i \in 1..Len(evidence) : evidence[i] = EvidenceOf(observations[i])
  <2>1. evidence = [i \in 1..Len(observations) |-> EvidenceOf(observations[i])]
    BY DEF IInv, Progress
  <2>2. evidence \in Seq({EvidenceOf(r) : r \in Valid})
    BY <1>1, <2>1
  <2>3. Len(evidence) = Len(observations)
    BY <1>1, <2>1, <2>2
  <2>. QED  BY <2>1, <2>3
<1>3. \A i \in 1..Len(observations) : observations[i] \in Raws /\ Rejection(observations[i]) = None
  BY <1>1 DEF Valid
<1>. QED  BY <1>1, <1>2, <1>3, ValidIsNotRefused

\* compute_readiness: the receipt of a dimension has as many distinct citations as
\* its state asks for, since one of its evidences has them.
LEMMA ReceiptIsAccepted ==
  ASSUME IInv, NEW d \in Accepted
  PROVE  ~ReceiptRefused(DimensionReceipt(d))
<1>. DEFINE items == With(d, {"CONFLICT", "SUPPORTED"})
            of == {CitationIds(evidence[i]) : i \in items}
            receipt == DimensionReceipt(d)
<1>1. /\ receipt.state # "UNKNOWN" => receipt.citations = UNION of
      /\ receipt.state = "SUPPORTED" => With(d, {"SUPPORTED"}) # {}
      /\ receipt.state = "CONFLICT" => With(d, {"CONFLICT"}) # {}
  BY DEF DimensionReceipt
<1>2. \A i \in items : /\ i \in 1..Len(evidence)
                       /\ evidence[i] = EvidenceOf(observations[i]) /\ observations[i] \in Raws
                       /\ ~EvidenceRefused(evidence[i])
  BY AppliedIsValid DEF With
<1>3. IsFiniteSet(UNION of)
  <2>1. IsFiniteSet(items)
    <3>1. IsFiniteSet(1..Len(evidence)) /\ items \in SUBSET (1..Len(evidence))
      BY AppliedIsValid, FS_Interval DEF With
    <3>. QED  BY <3>1, FS_Subset
  <2>2. [i \in items |-> CitationIds(evidence[i])] \in Surjection(items, of)
    BY DEF Surjection
  <2>3. \A ids \in of : IsFiniteSet(ids)
    BY <1>2, CitationsAreFinite
  <2>. HIDE DEF items, of
  <2>. QED  BY <2>1, <2>2, <2>3, FS_Surjection, FS_UNION
<1>4. CASE receipt.state = "SUPPORTED"
  <2>1. PICK i \in With(d, {"SUPPORTED"}) : TRUE
    BY <1>1, <1>4
  <2>2. i \in items /\ evidence[i].state = "SUPPORTED"
    BY <2>1 DEF With
  <2>3. ~(Len(evidence[i].citations) < 1)
    BY <1>2, <2>2 DEF EvidenceRefused
  <2>4. Len(evidence[i].citations) \in Nat
    BY <1>2, <2>2, LengthOf, RawsAssumption DEF EvidenceOf
  <2>5. evidence[i].citations[1] \in CitationIds(evidence[i])
    BY <2>3, <2>4 DEF CitationIds
  <2>6. receipt.citations # {}
    BY <1>1, <1>4, <2>2, <2>5
  <2>. QED  BY <1>4, <2>6 DEF ReceiptRefused
<1>5. CASE receipt.state = "CONFLICT"
  <2>1. PICK i \in With(d, {"CONFLICT"}) : TRUE
    BY <1>1, <1>5
  <2>2. i \in items /\ evidence[i].state = "CONFLICT"
    BY <2>1 DEF With
  <2>3. ~(Cardinality(CitationIds(evidence[i])) < 2)
    BY <1>2, <2>2 DEF EvidenceRefused
  <2>4. CitationIds(evidence[i]) \in SUBSET receipt.citations /\ IsFiniteSet(receipt.citations)
    BY <1>1, <1>3, <1>5, <2>2
  <2>. HIDE DEF receipt
  <2>5. /\ Cardinality(CitationIds(evidence[i])) \in Nat /\ Cardinality(receipt.citations) \in Nat
        /\ Cardinality(CitationIds(evidence[i])) <= Cardinality(receipt.citations)
    BY <2>4, FS_Subset, FS_CardinalityType
  <2>6. ~(Cardinality(receipt.citations) < 2)
    BY <2>3, <2>5
  <2>. QED  BY <1>5, <2>6 DEF ReceiptRefused, receipt
<1>. QED  BY <1>4, <1>5 DEF ReceiptRefused

\* build_analyst_digest and compute_readiness go over the same list: an unknown
\* has no citation to differ in.
LEMMA DigestAgrees == IInv => DigestMatchesReadiness
<1>. SUFFICES ASSUME IInv, NEW d \in Accepted
              PROVE  LET facts == {f \in Facts : f.dimension = d}
                         receipt == DimensionReceipt(d)
                     IN /\ {c.quote : c \in receipt.citations} = UNION {f.quotes : f \in facts}
                        /\ receipt.state = IF \E f \in facts : f.state = "CONFLICT" THEN "CONFLICT"
                                           ELSE IF \E f \in facts : f.state = "SUPPORTED" THEN "SUPPORTED"
                                           ELSE "UNKNOWN"
  BY DEF DigestMatchesReadiness
<1>. DEFINE N == 1..Len(evidence)
            facts == {f \in Facts : f.dimension = d}
            receipt == DimensionReceipt(d)
            FactOf(o) == [dimension |-> o.dimension, state |-> o.state,
                          quotes |-> {o.citations[i].quote : i \in 1..Len(o.citations)}]
            Quoted(o) == {o.citations[i].quote : i \in 1..Len(o.citations)}
<1>1. \A i \in N : /\ evidence[i].dimension = observations[i].dimension
                   /\ evidence[i].state = observations[i].state
                   /\ evidence[i].state \in {"SUPPORTED", "CONFLICT", "UNKNOWN"}
                   /\ {c.quote : c \in CitationIds(evidence[i])} = Quoted(observations[i])
                   /\ evidence[i].state = "UNKNOWN" => Quoted(observations[i]) = {}
  <2>. TAKE i \in N
  <2>1. /\ observations[i] \in Raws /\ evidence[i] = EvidenceOf(observations[i])
        /\ ~EvidenceRefused(evidence[i])
    BY AppliedIsValid
  <2>. DEFINE o == observations[i]
  <2>2. /\ evidence[i].dimension = o.dimension /\ evidence[i].state = o.state
        /\ evidence[i].citations = o.citations
    BY <2>1 DEF EvidenceOf
  <2>3. o.state \in {"SUPPORTED", "CONFLICT", "UNKNOWN"} /\ Len(o.citations) \in Nat
    BY <2>1, RawsAssumption, LengthOf
  <2>4. o.state = "UNKNOWN" => ~(Len(o.citations) > 0)
    BY <2>1, <2>2 DEF EvidenceRefused
  <2>5. {c.quote : c \in CitationIds(evidence[i])} = Quoted(o)
    BY <2>2 DEF CitationIds
  <2>6. o.state = "UNKNOWN" => Quoted(o) = {}
    BY <2>3, <2>4
  <2>. QED  BY <2>2, <2>3, <2>5, <2>6
<1>2. facts = {FactOf(observations[i]) : i \in {i \in N : evidence[i].dimension = d}}
  BY <1>1, AppliedIsValid DEF Facts
<1>3. \A states : With(d, states) = {i \in N : evidence[i].dimension = d /\ evidence[i].state \in states}
  BY DEF With
<1>. DEFINE M == {i \in N : evidence[i].dimension = d}
            Conflicts == \E i \in M : evidence[i].state = "CONFLICT"
            Supports == \E i \in M : evidence[i].state = "SUPPORTED"
<1>4. receipt.state = IF Conflicts THEN "CONFLICT" ELSE IF Supports THEN "SUPPORTED" ELSE "UNKNOWN"
  <2>1. /\ With(d, {"CONFLICT"}) # {} <=> Conflicts
        /\ With(d, {"SUPPORTED"}) # {} <=> Supports
    <3>1. With(d, {"CONFLICT"}) = {i \in M : evidence[i].state = "CONFLICT"}
      BY <1>3
    <3>2. With(d, {"SUPPORTED"}) = {i \in M : evidence[i].state = "SUPPORTED"}
      BY <1>3
    <3>. HIDE DEF M
    <3>. QED  BY <3>1, <3>2
  <2>2. receipt.state = IF With(d, {"CONFLICT"}) # {} THEN "CONFLICT"
                        ELSE IF With(d, {"SUPPORTED"}) # {} THEN "SUPPORTED" ELSE "UNKNOWN"
    BY DEF DimensionReceipt
  <2>. QED  BY <2>1, <2>2
<1>5. /\ (\E f \in facts : f.state = "CONFLICT") <=> Conflicts
      /\ (\E f \in facts : f.state = "SUPPORTED") <=> Supports
      /\ UNION {f.quotes : f \in facts} = UNION {Quoted(observations[i]) : i \in M}
  <2>1. \A i \in M : /\ FactOf(observations[i]).state = evidence[i].state
                     /\ FactOf(observations[i]).quotes = Quoted(observations[i])
    BY <1>1
  <2>2. facts = {FactOf(observations[i]) : i \in M}
    BY <1>2
  <2>. HIDE DEF FactOf, Quoted, M, facts
  <2>. QED  BY <2>1, <2>2
<1>6. {c.quote : c \in receipt.citations} = UNION {Quoted(observations[i]) : i \in M}
  <2>1. receipt.citations =
          UNION {CitationIds(evidence[i]) : i \in {i \in M : evidence[i].state \in {"CONFLICT", "SUPPORTED"}}}
    <3>1. CASE receipt.state # "UNKNOWN"
      BY <1>3, <3>1 DEF DimensionReceipt
    <3>2. CASE receipt.state = "UNKNOWN"
      <4>1. ~Conflicts /\ ~Supports
        BY <1>4, <3>2
      <4>2. receipt.citations = {}
        BY <3>2 DEF DimensionReceipt
      <4>. QED  BY <4>1, <4>2
    <3>. QED  BY <3>1, <3>2
  <2>. HIDE DEF receipt, M, N, Quoted
  <2>2. {c.quote : c \in receipt.citations}
          = UNION {{c.quote : c \in CitationIds(evidence[i])} :
                     i \in {i \in M : evidence[i].state \in {"CONFLICT", "SUPPORTED"}}}
    BY <2>1
  <2>3. \A i \in M : /\ {c.quote : c \in CitationIds(evidence[i])} = Quoted(observations[i])
                     /\ evidence[i].state \notin {"CONFLICT", "SUPPORTED"} => Quoted(observations[i]) = {}
    BY <1>1 DEF M
  <2>4. {c.quote : c \in receipt.citations}
          = UNION {Quoted(observations[i]) :
                     i \in {i \in M : evidence[i].state \in {"CONFLICT", "SUPPORTED"}}}
    BY <2>2, <2>3
  <2>. QED  BY <2>3, <2>4
<1>. HIDE DEF facts, receipt, M, Quoted
<1>7. {c.quote : c \in receipt.citations} = UNION {f.quotes : f \in facts}
  BY <1>5, <1>6
<1>8. receipt.state = IF \E f \in facts : f.state = "CONFLICT" THEN "CONFLICT"
                      ELSE IF \E f \in facts : f.state = "SUPPORTED" THEN "SUPPORTED" ELSE "UNKNOWN"
  BY <1>4, <1>5
<1>. QED  BY <1>7, <1>8 DEF facts, receipt

-----------------------------------------------------------------------------
\* One step per action.
LEMMA IInvStep == IInv /\ [Step]_vars => IInv'
<1>. SUFFICES ASSUME IInv, [Step]_vars  PROVE IInv'
  OBVIOUS
<1>0. /\ \A raw \in Raws : Label(raw) \in Known
      /\ \A raw \in Raws : Label(raw) # None => Label(raw) \in Known
      /\ first.dimension \in Known
  BY DEF Label, Known, IInv, PhaseType
<1>1. CASE VerifyBoundInput
  <2>1. CASE Lose("NOT BOUND")
    BY <1>1, <2>1, LoseStep DEF VerifyBoundInput, Causes
  <2>2. CASE ~Lose("NOT BOUND")
    <3>1. /\ phase = "BEGIN" /\ phase' = "PROPOSE"
          /\ UNCHANGED <<input, candidates, decided, first, result>>
          /\ mode = "RECORDED_ANALYST_REPLAY" => InputSha256(segments) = InputSha256(recordedFrom)
      BY <1>1, <2>2 DEF VerifyBoundInput
    <3>2. InputSha256(segments) = InputSha256(recordedFrom)
      BY <3>1 DEF IInv, InputType
    <3>3. InputType' /\ InputSha256(segments)' = InputSha256(segments)
          /\ InputSha256(recordedFrom)' = InputSha256(recordedFrom)
      BY <3>1 DEF IInv, InputType, input, InputSha256, OfDeal
    <3>4. Progress'
      BY <3>1, SameInputSameVerdict DEF IInv, Progress, Labelled, result, input
    <3>5. PhaseType'
      BY <3>1, <3>2, <3>3 DEF IInv, PhaseType, Phases, Causes
    <3>. QED  BY <3>3, <3>4, <3>5 DEF IInv
  <2>. QED  BY <2>1, <2>2
<1>2. CASE Propose
  <2>1. /\ phase = "PROPOSE" /\ phase' = "JUDGE"
        /\ UNCHANGED <<mode, segments, recordedFrom, decided, first, result>>
        /\ \E n \in 0..MaxCandidates : candidates' \in [1..n -> Raws]
    BY <1>2 DEF Propose
  <2>2. repairs' \in [Catalog -> SUBSET Raws]
    BY <1>2, AcceptedAssumption DEF Propose, IInv, InputType
  <2>3. InputType' /\ InputSha256(segments)' = InputSha256(segments)
        /\ InputSha256(recordedFrom)' = InputSha256(recordedFrom)
    BY <2>1, <2>2 DEF IInv, InputType, InputSha256, OfDeal
  <2>4. candidates' \in Seq(Raws) /\ Len(candidates') \in Nat
    <3>1. PICK n \in 0..MaxCandidates : candidates' \in [1..n -> Raws]
      BY <2>1
    <3>. QED  BY <3>1, BoundAssumption
  <2>5. Progress'
    BY <2>1, <2>4, SameInputSameVerdict DEF IInv, Progress, PhaseType, Labelled, result
  <2>6. PhaseType'
    BY <2>1, <2>3 DEF IInv, PhaseType, Phases, Causes
  <2>. QED  BY <2>3, <2>5, <2>6 DEF IInv
<1>3. CASE ProviderRaises
  BY <1>3, LoseStep DEF ProviderRaises, Causes
<1>4. CASE Judge
  <2>. DEFINE raw == candidates[decided + 1]
  <2>1. raw \in Raws /\ phase = "JUDGE" /\ decided < Len(candidates)
    <3>1. decided \in Nat
      BY LabelledIsList DEF IInv, Progress
    <3>2. candidates \in Seq(Raws)
      BY DEF IInv, Progress
    <3>3. phase = "JUDGE" /\ decided < Len(candidates)
      BY <1>4 DEF Judge
    <3>. QED  BY <3>1, <3>2, <3>3
  <2>. HIDE DEF raw
  <2>2. CASE Rejection(raw) = None
    <3>1. Apply(raw)
      BY <1>4, <2>2 DEF Judge, raw
    <3>. QED  BY <2>1, <2>2, <3>1, ApplyStep
  <2>3. CASE Rejection(raw) # None /\ Unhashable(raw)
    <3>1. Lose("TYPE ERROR")
      BY <1>4, <2>3 DEF Judge, raw
    <3>. QED  BY <2>1, <3>1, LoseStep DEF Causes
  <2>4. CASE Rejection(raw) # None /\ ~Unhashable(raw)
    <3>1. /\ first' = [reason |-> Rejection(raw), dimension |-> Label(raw)]
          /\ phase' = "REPAIR"
          /\ UNCHANGED <<input, candidates, decided, result>>
      BY <1>4, <2>4 DEF Judge, raw
    <3>2. InputType' /\ InputSha256(segments)' = InputSha256(segments)
          /\ InputSha256(recordedFrom)' = InputSha256(recordedFrom)
      BY <3>1 DEF IInv, InputType, input, InputSha256, OfDeal
    <3>3. Progress'
      BY <3>1, SameInputSameVerdict DEF IInv, Progress, Labelled, result, input
    <3>4. first'.dimension = Label(raw)
      BY <3>1
    <3>5. PhaseType'
      BY <1>0, <2>1, <3>1, <3>2, <3>4 DEF IInv, PhaseType, Phases, Causes
    <3>. QED  BY <3>2, <3>3, <3>5 DEF IInv
  <2>. QED  BY <2>2, <2>3, <2>4
<1>5. CASE Repair
  <2>1. phase = "REPAIR" /\ decided < Len(candidates)
    BY <1>5 DEF Repair, IInv, PhaseType
  <2>2. PICK answer \in Offers :
          IF answer = {} THEN Quarantine(first.dimension, first.reason, "REPAIR_UNAVAILABLE")
          ELSE \E raw \in answer :
            IF Rejection(raw) = None THEN Apply(raw)
            ELSE IF Unhashable(raw) THEN Lose("TYPE ERROR")
            ELSE Quarantine(IF Label(raw) = None THEN first.dimension ELSE Label(raw),
                            first.reason, Rejection(raw))
    BY <1>5 DEF Repair
  <2>3. answer \subseteq Raws
    BY <1>0, <2>2 DEF Offers, IInv, InputType, Known
  <2>4. CASE answer = {}
    BY <1>0, <2>1, <2>2, <2>4, QuarantineStep
  <2>5. CASE answer # {}
    <3>1. PICK raw \in answer :
            IF Rejection(raw) = None THEN Apply(raw)
            ELSE IF Unhashable(raw) THEN Lose("TYPE ERROR")
            ELSE Quarantine(IF Label(raw) = None THEN first.dimension ELSE Label(raw),
                            first.reason, Rejection(raw))
      BY <2>2, <2>5
    <3>2. raw \in Raws
      BY <2>3
    <3>3. CASE Rejection(raw) = None
      BY <2>1, <3>1, <3>2, <3>3, ApplyStep
    <3>4. CASE Rejection(raw) # None /\ Unhashable(raw)
      <4>1. Lose("TYPE ERROR")
        BY <3>1, <3>4
      <4>. QED  BY <2>1, <4>1, LoseStep DEF Causes
    <3>5. CASE Rejection(raw) # None /\ ~Unhashable(raw)
      <4>. DEFINE label == IF Label(raw) = None THEN first.dimension ELSE Label(raw)
      <4>1. label \in Known
        BY <1>0, <3>2
      <4>2. Quarantine(label, first.reason, Rejection(raw))
        BY <3>1, <3>5
      <4>. HIDE DEF label
      <4>. QED  BY <2>1, <4>1, <4>2, QuarantineStep
    <3>. QED  BY <3>3, <3>4, <3>5
  <2>. QED  BY <2>4, <2>5
<1>6. CASE Conclude
  <2>1. \A d \in Accepted : ~ReceiptRefused(DimensionReceipt(d))
    BY ReceiptIsAccepted
  <2>2. /\ phase = "JUDGE" /\ decided = Len(candidates) /\ phase' = "DONE"
        /\ UNCHANGED <<input, candidates, decided, first, result>>
    BY <1>6, <2>1 DEF Conclude
  <2>3. InputType' /\ InputSha256(segments)' = InputSha256(segments)
        /\ InputSha256(recordedFrom)' = InputSha256(recordedFrom)
    BY <2>2 DEF IInv, InputType, input, InputSha256, OfDeal
  <2>4. Progress'
    BY <2>2, SameInputSameVerdict DEF IInv, Progress, Labelled, result, input
  <2>5. PhaseType'
    BY <2>2, <2>3 DEF IInv, PhaseType, Phases, Causes
  <2>. QED  BY <2>3, <2>4, <2>5 DEF IInv
<1>7. CASE UNCHANGED vars
  <2>1. UNCHANGED <<input, phase, candidates, decided, first, result>>
    BY <1>7 DEF vars
  <2>2. InputType' /\ InputSha256(segments)' = InputSha256(segments)
        /\ InputSha256(recordedFrom)' = InputSha256(recordedFrom)
    BY <2>1 DEF IInv, InputType, input, InputSha256, OfDeal
  <2>3. Progress'
    BY <2>1, SameInputSameVerdict DEF IInv, Progress, Labelled, result, input
  <2>4. PhaseType'
    BY <2>1, <2>2 DEF IInv, PhaseType
  <2>. QED  BY <2>2, <2>3, <2>4 DEF IInv
<1>. QED  BY <1>1, <1>2, <1>3, <1>4, <1>5, <1>6, <1>7 DEF Step

LEMMA IInvAlways == Spec => []IInv
BY IInvInit, IInvStep, PTL DEF Spec

LEMMA IInvIsTyped == IInv => TypeOK
<1>. SUFFICES ASSUME IInv  PROVE TypeOK
  OBVIOUS
<1>1. phase \in Phases /\ first.dimension \in Known
  BY DEF IInv, PhaseType
<1>2. \A i \in 1..Len(candidates) : candidates[i] \in Raws
  BY DEF IInv, Progress
<1>3. \A i \in 1..Len(evidence) : evidence[i].dimension \in Accepted
  <2>. TAKE i \in 1..Len(evidence)
  <2>1. Rejection(observations[i]) = None /\ evidence[i] = EvidenceOf(observations[i])
        /\ observations[i] \in Raws
    BY AppliedIsValid
  <2>2. observations[i].dimension \in Accepted
    BY <2>1, ValidHasNoObjection DEF Rejection, None
  <2>. QED  BY <2>1, <2>2 DEF EvidenceOf
<1>4. \A i \in 1..Len(quarantined) : quarantined[i].dimension \in Known
  BY DEF IInv, Progress, Labelled
<1>. QED  BY <1>1, <1>2, <1>3, <1>4 DEF TypeOK, Known

\* validate_raw_observation: whatever a provider submits, what readiness reads is
\* quoted word for word from a segment of this deal.
THEOREM AppliedIsQuoted == Spec => []EvidenceIsQuoted
<1>1. ASSUME IInv  PROVE EvidenceIsQuoted
  <2>1. \A s \in segments : IsSequence(s.text) /\ {s.from, s.to} \subseteq Nat
    BY <1>1, TextsAssumption DEF IInv, InputType
  <2>2. ASSUME NEW i \in 1..Len(evidence), NEW c \in CitationIds(evidence[i])
        PROVE  \E s \in segments : Quotes(c, s)
    <3>1. observations[i] \in Raws /\ Rejection(observations[i]) = None
          /\ evidence[i] = EvidenceOf(observations[i])
      BY <1>1, AppliedIsValid
    <3>. QED  BY <2>1, <2>2, <3>1, ValidIsQuoted
  <2>. QED  BY <1>1, <2>2, IInvIsTyped DEF EvidenceIsQuoted
<1>. QED  BY <1>1, IInvAlways, PTL

\* run_analyst: no observation is dropped or decided twice, and the contracts
\* behind the validator refuse nothing that it accepts.
THEOREM CandidatesAreDecidedOnce == Spec => []EveryCandidateIsDecidedOnce
<1>1. IInv => EveryCandidateIsDecidedOnce
  BY AppliedIsValid DEF IInv, Progress, PhaseType, EveryCandidateIsDecidedOnce, Lost
<1>. QED  BY <1>1, IInvAlways, PTL

\* verify_bound_input: what a recording made from other words proposes is not
\* applied.
THEOREM RecordingsMatchTheirInput == Spec => []StaleRecordingIsNotApplied
<1>1. ASSUME IInv, evidence # <<>>  PROVE InputSha256(segments) = InputSha256(recordedFrom)
  <2>1. Len(evidence) # 0
    <3>1. evidence = [i \in 1..Len(observations) |-> EvidenceOf(observations[i])]
      BY <1>1 DEF IInv, Progress
    <3>2. Len(observations) \in Nat /\ Len(evidence) = Len(observations)
      BY <1>1, AppliedIsValid
    <3>. QED  BY <1>1, <3>1, <3>2
  <2>2. decided # 0
    BY <1>1, <2>1, AppliedIsValid, LabelledIsList DEF IInv, Progress
  <2>. QED  BY <1>1, <2>2 DEF IInv, PhaseType
<1>2. ASSUME InputSha256(segments) = InputSha256(recordedFrom), NEW s \in OfDeal(segments)
      PROVE  \E o \in recordedFrom : o.conversation = s.conversation /\ o.segment = s.segment
                                     /\ o.deal = s.deal /\ o.text = s.text
  <2>1. <<s.conversation, s.segment, s.text>> \in InputSha256(recordedFrom)
    BY <1>2 DEF InputSha256
  <2>2. PICK o \in OfDeal(recordedFrom) :
          <<s.conversation, s.segment, s.text>> = <<o.conversation, o.segment, o.text>>
    BY <2>1 DEF InputSha256
  <2>. QED  BY <2>2 DEF OfDeal
<1>3. IInv => StaleRecordingIsNotApplied
  BY <1>1, <1>2 DEF StaleRecordingIsNotApplied
<1>. QED  BY <1>3, IInvAlways, PTL

\* compute_readiness and build_analyst_digest: two readers of one list agree.
THEOREM DigestFollowsReadiness == Spec => []DigestMatchesReadiness
BY DigestAgrees, IInvAlways, PTL

=============================================================================
