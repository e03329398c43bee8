--------------------------- MODULE IngestionProofs ---------------------------
(***************************************************************************)
(* How records come in.  For any records, drivers, overlap, lag and size   *)
(* of a page: no restart leaves a record behind, and no version is         *)
(* accepted twice (SourceResume).  For any files, routes and bound on      *)
(* rows: the counts of an import reconcile, staging settles every route,   *)
(* and a commit publishes what its receipt counts (Intake).                *)
(***************************************************************************)
EXTENDS SourceResume, Intake, FiniteSetTheorems, SequenceTheorems, WellFoundedInduction, TLAPS

-----------------------------------------------------------------------------
(***************************************************************************)
(* The inductive invariant.                                                *)
(***************************************************************************)
\* Queries lag behind the changes, but by no more than Lag.
VendorLags ==
  \A id \in Ids :
    /\ visible[id] <= modified[id] /\ modified[id] <= clock
    /\ visible[id] # modified[id] => clock - modified[id] <= Lag

\* The pages are numbered without a gap, and no driver is ahead of them: a driver
\* that commits a page commits the one after the last.
Numbered(n) ==
  /\ n \in 0..MaxPages
  /\ {c.page : c \in checkpoints} = 1..n
  /\ \A c, k \in checkpoints : c.page = k.page => c = k
  /\ \A d \in Drivers : drivers[d].page <= n

MarksArePast == \A c \in checkpoints : c.high_water_mark <= clock

\* What a driver has found it has still to read unless it is stored.  What it has
\* not found came later than anything it has, but for the lag.
Window(k) ==
  /\ k.rest \subseteq k.found /\ k.found \subseteq records \cup k.rest
  /\ \A w \in k.found : w[2] <= clock
  /\ \A v \in Visible \ k.found, w \in k.found : v[2] >= w[2] - Lag

IInv ==
  /\ TypeOK
  /\ VendorLags
  /\ \E n \in Nat : Numbered(n)
  /\ MarksArePast
  /\ \A d \in Drivers : Window(drivers[d])
  /\ NothingBehindRestart /\ CompleteMeansAll /\ AcceptedOnce

-----------------------------------------------------------------------------
\* A bounded set of times has a last one.
LEMMA LastExists ==
  ASSUME NEW n \in Nat, NEW S, S \subseteq 0..n, S # {}
  PROVE  \E t \in S : \A u \in S : u <= t
<1>. DEFINE Less == OpToRel(<, Nat)
            T == {n - t : t \in S}
<1>1. T \subseteq Nat /\ T # {}
  <2>1. \A t \in S : n - t \in Nat
    OBVIOUS
  <2>. QED  BY <2>1
<1>2. PICK m \in T : \A k \in T : ~(<<k, m>> \in Less)
  <2>. HIDE DEF Less, T
  <2>1. IsWellFoundedOn(Less, Nat)
    BY NatLessThanWellFounded DEF Less
  <2>. QED  BY <1>1, <2>1, WFMin
<1>3. \A k, l \in Nat : k < l => <<k, l>> \in Less
  BY DEF OpToRel
<1>. HIDE DEF Less
<1>4. ASSUME NEW k \in T  PROVE ~(k < m)
  <2>. HIDE DEF T
  <2>. QED  BY <1>1, <1>2, <1>3, Zenon
<1>5. PICK t \in S : m = n - t
  BY <1>2
<1>6. \A u \in S : u <= t
  <2>. TAKE u \in S
  <2>1. ~(n - u < n - t)
    BY <1>4, <1>5
  <2>. QED  BY <2>1
<1>. QED  BY <1>6

\* The high-water mark of a page is the latest of its times.
LEMMA MarkIsLatest ==
  ASSUME NEW page, page \subseteq Versions, page # {}
  PROVE  /\ MarkOf(page) \in Times
         /\ \E w \in page : w[2] = MarkOf(page)
         /\ \A w \in page : w[2] <= MarkOf(page)
<1>. DEFINE S == {v[2] : v \in page}
<1>1. S \subseteq 0..MaxTime /\ S # {}
  BY DEF Versions, Times
<1>2. \E t \in S : \A u \in S : u <= t
  BY <1>1, SizesAssumption, LastExists
<1>3. \E t \in S : \A v \in page : v[2] <= t
  BY <1>2
<1>4. MarkOf(page) \in S /\ \A v \in page : v[2] <= MarkOf(page)
  BY <1>3 DEF MarkOf
<1>. QED  BY <1>1, <1>4 DEF Times

\* source_resume_plan: of pages numbered up to n the last one is the n-th.
LEMMA LastOfNumbered ==
  ASSUME NEW C, NEW n \in Nat, {c.page : c \in C} = 1..n
  PROVE  /\ C = {} <=> n = 0
         /\ C # {} => n = CHOOSE p \in {c.page : c \in C} : \A c \in C : c.page <= p
<1>1. C = {} <=> n = 0
  <2>1. C = {} => 1..n = {}
    OBVIOUS
  <2>2. C # {} => 1..n # {}
    OBVIOUS
  <2>. QED  BY <2>1, <2>2
<1>2. ASSUME C # {}  PROVE n = CHOOSE p \in 1..n : \A c \in C : c.page <= p
  <2>1. \A c \in C : c.page \in 1..n
    OBVIOUS
  <2>2. n \in 1..n
    BY <1>1, <1>2
  <2>3. \E c \in C : c.page = n
    BY <2>2
  <2>4. \A p \in 1..n : (\A c \in C : c.page <= p) <=> p = n
    BY <2>1, <2>3
  <2>. QED  BY <2>2, <2>4
<1>. QED  BY <1>1, <1>2

\* The plan continues after the last page, if there is one.
LEMMA LastPage ==
  ASSUME NEW n \in Nat, Numbered(n)
  PROVE  CommittedPage = n /\ (checkpoints = {} <=> n = 0)
<1>1. {c.page : c \in checkpoints} = 1..n
  BY DEF Numbered
<1>. QED  BY <1>1, LastOfNumbered DEF CommittedPage

\* The mark of the plan is that of the last checkpoint.
LEMMA LastMark ==
  ASSUME NEW n \in Nat, Numbered(n), NEW c \in checkpoints, c.page = n
  PROVE  HighWaterMark = c.high_water_mark
<1>1. CommittedPage = n /\ checkpoints # {}
  BY LastPage
<1>2. HighWaterMark = (CHOOSE k \in checkpoints : k.page = n).high_water_mark
  BY <1>1 DEF HighWaterMark
<1>3. \A k \in checkpoints : k.page = n => k = c
  BY DEF Numbered
<1>. QED  BY <1>2, <1>3

\* The mark of the plan is a time gone by.
LEMMA MarkIsPast ==
  ASSUME TypeOK, MarksArePast, NEW n \in Nat, Numbered(n)
  PROVE  HighWaterMark \in Times /\ HighWaterMark <= clock
<1>1. CASE checkpoints = {}
  BY <1>1, SizesAssumption DEF HighWaterMark, NoMark, Times, TypeOK
<1>2. CASE checkpoints # {}
  <2>1. n \in 1..n
    BY <1>2, LastPage
  <2>2. PICK c \in checkpoints : c.page = n
    BY <2>1 DEF Numbered
  <2>. QED  BY <2>2, LastMark DEF TypeOK, MarksArePast
<1>. QED  BY <1>1, <1>2

\* Nothing has been read at first.
LEMMA IInvInit == Init => IInv
<1>. SUFFICES ASSUME Init  PROVE IInv
  OBVIOUS
<1>1. TypeOK
  BY SizesAssumption, OverlapAssumption
     DEF Init, TypeOK, Times, Versions, Idle, SourceStates
<1>2. VendorLags
  BY DEF Init, VendorLags
<1>3. Numbered(0)
  BY SizesAssumption DEF Init, Numbered, Idle
<1>4. \A d \in Drivers : Window(drivers[d])
  BY DEF Init, Window, Idle
<1>5. NothingBehindRestart
  BY DEF Init, NothingBehindRestart, RestartHighWater, HighWaterMark, NoMark, Visible
<1>. QED
  BY <1>1, <1>2, <1>3, <1>4, <1>5 DEF IInv, Init, MarksArePast, CompleteMeansAll, AcceptedOnce, Versions

-----------------------------------------------------------------------------
(***************************************************************************)
(* Steps.  The vendor's first: what becomes visible is as old as the lag.  *)
(***************************************************************************)
\* Types of what the steps below compare.
LEMMA Typed ==
  ASSUME TypeOK
  PROVE  /\ clock \in Nat /\ Lag \in Nat /\ Overlap \in Nat /\ Lag <= Overlap
         /\ \A id \in Ids : modified[id] \in Nat /\ visible[id] \in Nat
         /\ \A v \in Versions : v[1] \in Ids /\ v[2] \in Nat
         /\ Visible \subseteq Versions
         /\ \A d \in Drivers : /\ drivers[d].rest \subseteq Versions
                               /\ drivers[d].found \subseteq Versions
                               /\ drivers[d].page \in Nat
BY LagAssumption, OverlapAssumption DEF TypeOK, Times, Versions, Visible

LEMMA PublishStep ==
  ASSUME IInv, NEW id \in Ids, Publish(id)
  PROVE  IInv'
<1>. DEFINE v0 == <<id, modified[id]>>
<1>0. /\ visible' = [visible EXCEPT ![id] = modified[id]] /\ visible[id] # modified[id]
      /\ UNCHANGED <<clock, modified, sourceState, checkpoints, records, drivers, reports, completed>>
  BY DEF Publish
<1>1. TypeOK'
  BY <1>0 DEF IInv, TypeOK
<1>2. VendorLags'
  BY <1>0, Typed DEF IInv, VendorLags, TypeOK
<1>3. (\E n \in Nat : Numbered(n))'
  BY <1>0 DEF IInv, Numbered
<1>4. MarksArePast'
  BY <1>0 DEF IInv, MarksArePast
<1>5. /\ Visible' \subseteq Visible \cup {v0}
      /\ modified[id] \in Nat /\ clock - modified[id] <= Lag
  BY <1>0, Typed DEF IInv, VendorLags, TypeOK, Visible
<1>6. \A d \in Drivers : Window(drivers[d])'
  <2>. TAKE d \in Drivers
  <2>1. Window(drivers[d]) /\ \A w \in drivers[d].found : w[2] \in Nat /\ w[2] <= clock
    BY Typed DEF IInv, Window
  <2>2. \A w \in drivers[d].found : v0[2] >= w[2] - Lag
    BY <1>5, <2>1, Typed DEF IInv
  <2>. QED  BY <1>0, <1>5, <2>1, <2>2 DEF Window
<1>7. NothingBehindRestart'
  <2>1. RestartHighWater' = RestartHighWater
    BY <1>0 DEF RestartHighWater, HighWaterMark, CommittedPage
  <2>2. HighWaterMark \in Nat /\ HighWaterMark <= clock
    BY MarkIsPast DEF IInv, Times
  <2>3. ~(v0[2] < RestartHighWater)
    BY <1>5, <2>2, Typed DEF IInv, RestartHighWater, NoMark
  <2>. QED  BY <1>0, <1>5, <2>1, <2>3 DEF IInv, NothingBehindRestart
<1>8. CompleteMeansAll' /\ AcceptedOnce'
  BY <1>0 DEF IInv, CompleteMeansAll, AcceptedOnce
<1>. QED  BY <1>1, <1>2, <1>3, <1>4, <1>6, <1>7, <1>8 DEF IInv

\* A step that leaves tables, drivers and what queries return alone.
LEMMA QuietStep ==
  ASSUME IInv, TypeOK', VendorLags', clock <= clock',
         UNCHANGED <<visible, checkpoints, records, drivers, reports>>,
         completed' = completed \/ completed' \subseteq records
  PROVE  IInv'
<1>1. (\E n \in Nat : Numbered(n))'
  BY DEF IInv, Numbered
<1>2. MarksArePast'
  <2>1. \A c \in checkpoints : c.high_water_mark \in Nat
    BY DEF IInv, TypeOK, Times
  <2>. QED  BY <2>1, Typed DEF IInv, MarksArePast, TypeOK, Times
<1>3. \A d \in Drivers : Window(drivers[d])'
  <2>. TAKE d \in Drivers
  <2>1. Window(drivers[d]) /\ \A w \in drivers[d].found : w[2] \in Nat
    BY Typed DEF IInv
  <2>. QED  BY <2>1, Typed DEF IInv, Window, Visible, TypeOK, Times
<1>4. NothingBehindRestart'
  <2>1. Visible' = Visible /\ RestartHighWater' = RestartHighWater
    BY DEF RestartHighWater, HighWaterMark, CommittedPage, Visible
  <2>. QED  BY <2>1 DEF IInv, NothingBehindRestart
<1>5. CompleteMeansAll' /\ AcceptedOnce'
  BY DEF IInv, CompleteMeansAll, AcceptedOnce
<1>. QED  BY <1>1, <1>2, <1>3, <1>4, <1>5 DEF IInv

\* What the tables say stands when only a driver changes.
LEMMA TablesStand ==
  ASSUME IInv,
         UNCHANGED <<clock, modified, visible, sourceState, checkpoints, records, reports, completed>>
  PROVE  MarksArePast' /\ VendorLags' /\ CompleteMeansAll' /\ AcceptedOnce' /\ NothingBehindRestart'
<1>1. MarksArePast' /\ VendorLags'
  BY DEF IInv, MarksArePast, VendorLags
<1>2. CompleteMeansAll' /\ AcceptedOnce'
  BY DEF IInv, CompleteMeansAll, AcceptedOnce
<1>3. Visible' = Visible
  BY DEF Visible
<1>4. RestartHighWater' = RestartHighWater
  BY DEF RestartHighWater, HighWaterMark, CommittedPage
<1>5. NothingBehindRestart'
  BY <1>3, <1>4 DEF IInv, NothingBehindRestart
<1>. QED  BY <1>1, <1>2, <1>5

\* A new process finds stored what is older than its restart point.
LEMMA ResumeStep ==
  ASSUME IInv, NEW d \in Drivers, Resume(d)
  PROVE  IInv'
<1>. DEFINE k == [active |-> TRUE, page |-> CommittedPage, restart |-> RestartHighWater,
                  rest |-> Query(RestartHighWater), found |-> Visible]
<1>0. /\ drivers' = [drivers EXCEPT ![d] = k]
      /\ UNCHANGED <<clock, modified, visible, sourceState, checkpoints, records, reports, completed>>
  BY DEF Resume, vendorVars
<1>1. PICK n \in Nat : Numbered(n)
  BY DEF IInv
<1>2. CommittedPage = n /\ HighWaterMark \in Times
  BY <1>1, LastPage, MarkIsPast DEF IInv
<1>3. RestartHighWater \in (0 - Overlap)..MaxTime
  BY <1>2, OverlapAssumption, SizesAssumption DEF RestartHighWater, NoMark, Times
<1>4. Visible \subseteq Versions /\ Query(RestartHighWater) \subseteq Visible
  BY Typed DEF IInv, Query
<1>5. TypeOK'
  <2>1. k \in [active : BOOLEAN, page : 0..MaxPages, restart : (0 - Overlap)..MaxTime,
               rest : SUBSET Versions, found : SUBSET Versions]
    BY <1>1, <1>2, <1>3, <1>4 DEF Numbered
  <2>. QED  BY <1>0, <2>1 DEF IInv, TypeOK
<1>6. Numbered(n)'
  BY <1>0, <1>1, <1>2 DEF Numbered, IInv, TypeOK
<1>7. Window(k)
  <2>1. \A v \in Visible : v[2] \in Nat /\ v[2] <= clock
    BY Typed DEF IInv, VendorLags, Visible
  <2>2. \A v \in Visible : v \in records \cup Query(RestartHighWater)
    <3>. TAKE v \in Visible
    <3>1. CASE v[2] < RestartHighWater
      BY <3>1 DEF IInv, NothingBehindRestart
    <3>2. CASE ~(v[2] < RestartHighWater)
      BY <1>3, <2>1, <3>2, OverlapAssumption, SizesAssumption DEF Query
    <3>. QED  BY <3>1, <3>2
  <2>. QED  BY <1>4, <2>1, <2>2 DEF Window
<1>8. \A o \in Drivers : Window(drivers[o])'
  <2>. TAKE o \in Drivers
  <2>1. Window(drivers'[o])
    BY <1>0, <1>7 DEF IInv, TypeOK
  <2>. QED  BY <1>0, <2>1 DEF Window, Visible
<1>9. MarksArePast' /\ VendorLags' /\ CompleteMeansAll' /\ AcceptedOnce' /\ NothingBehindRestart'
  BY <1>0, TablesStand
<1>. QED  BY <1>5, <1>6, <1>8, <1>9 DEF IInv

\* A process that ends leaves nothing but its tables.
LEMMA CrashStep ==
  ASSUME IInv, NEW d \in Drivers, Crash(d)
  PROVE  IInv'
<1>0. /\ drivers' = [drivers EXCEPT ![d] = Idle]
      /\ UNCHANGED <<clock, modified, visible, sourceState, checkpoints, records, reports, completed>>
  BY DEF Crash, vendorVars
<1>1. PICK n \in Nat : Numbered(n)
  BY DEF IInv
<1>2. TypeOK'
  BY <1>0, SizesAssumption, OverlapAssumption DEF IInv, TypeOK, Idle
<1>3. Numbered(n)'
  BY <1>0, <1>1 DEF Numbered, IInv, TypeOK, Idle
<1>4. \A o \in Drivers : Window(drivers[o])'
  <2>. TAKE o \in Drivers
  <2>1. Window(drivers'[o])
    BY <1>0 DEF IInv, TypeOK, Window, Idle
  <2>. QED  BY <1>0, <2>1 DEF Window, Visible
<1>5. MarksArePast' /\ VendorLags' /\ CompleteMeansAll' /\ AcceptedOnce' /\ NothingBehindRestart'
  BY <1>0, TablesStand
<1>. QED  BY <1>2, <1>3, <1>4, <1>5 DEF IInv

\* commit_source_checkpoint: the page is the one after the last, and what is older
\* than its mark by the overlap is stored, or it would have been found and still
\* be ahead of the page.
LEMMA CommitStep ==
  ASSUME IInv, NEW d \in Drivers, NEW page, CommitSourceCheckpoint(d, page)
  PROVE  IInv'
<1>. DEFINE k == drivers[d]
            c0 == [page |-> k.page + 1, high_water_mark |-> MarkOf(page)]
<1>0. /\ records' = records \cup page
      /\ reports' = [v \in Versions |-> reports[v] + (IF v \in page \ records THEN 1 ELSE 0)]
      /\ checkpoints' = checkpoints \cup {c0}
      /\ drivers' = [drivers EXCEPT ![d].page = @ + 1, ![d].rest = @ \ page]
      /\ UNCHANGED <<clock, modified, visible, sourceState, completed>>
  BY DEF CommitSourceCheckpoint, vendorVars
<1>1. /\ page \subseteq k.rest /\ k.page < MaxPages
      /\ \A c \in checkpoints : c.page # k.page + 1
      /\ \A v \in page, w \in k.rest \ page : v[2] <= w[2]
  BY DEF CommitSourceCheckpoint, NextPage
<1>2. k.rest \subseteq k.found /\ page \subseteq Versions /\ k.found \subseteq Versions /\ k.page \in Nat
  BY <1>1, Typed DEF IInv, Window
<1>3. PICK n \in Nat : Numbered(n)
  BY DEF IInv
<1>4. k.page = n
  <2>1. k.page <= n /\ k.page + 1 \notin 1..n
    BY <1>1, <1>3 DEF Numbered
  <2>. QED  BY <1>2, <2>1
<1>5. /\ drivers'[d].page = n + 1 /\ drivers'[d].rest = k.rest \ page
      /\ drivers'[d].found = k.found
      /\ \A o \in Drivers \ {d} : drivers'[o] = drivers[o]
  BY <1>0, <1>4 DEF IInv, TypeOK
<1>6. MarkOf(page) \in Times /\ MarkOf(page) <= clock
  <2>1. CASE page = {}
    BY <2>1, SizesAssumption DEF MarkOf, NoMark, Times, IInv, TypeOK
  <2>2. CASE page # {}
    <3>1. MarkOf(page) \in Times /\ \E w \in page : w[2] = MarkOf(page)
      BY <1>2, <2>2, MarkIsLatest
    <3>2. \A w \in page : w[2] <= clock
      BY <1>1, <1>2 DEF IInv, Window
    <3>. QED  BY <3>1, <3>2
  <2>. QED  BY <2>1, <2>2
<1>7. TypeOK'
  <2>1. checkpoints' \subseteq [page : 1..MaxPages, high_water_mark : Times]
    <3>1. k.page + 1 \in 1..MaxPages
      BY <1>1, <1>2, SizesAssumption
    <3>. QED  BY <1>0, <1>6, <3>1 DEF IInv, TypeOK
  <2>2. records' \subseteq Versions
    BY <1>0, <1>2 DEF IInv, TypeOK
  <2>3. drivers' \in [Drivers -> [active : BOOLEAN, page : 0..MaxPages,
                                  restart : (0 - Overlap)..MaxTime,
                                  rest : SUBSET Versions, found : SUBSET Versions]]
    <3>. DEFINE D == [active : BOOLEAN, page : 0..MaxPages, restart : (0 - Overlap)..MaxTime,
                      rest : SUBSET Versions, found : SUBSET Versions]
                k1 == [[k EXCEPT !.page = @ + 1] EXCEPT !.rest = @ \ page]
    <3>1. k \in D /\ drivers \in [Drivers -> D]
      BY DEF IInv, TypeOK
    <3>2. k1 \in D
      <4>1. k.page + 1 \in 0..MaxPages /\ k.rest \ page \in SUBSET Versions
        BY <1>1, <1>2, SizesAssumption
      <4>2. [k EXCEPT !.page = @ + 1] \in D
        BY <3>1, <4>1
      <4>3. k1 = [[k EXCEPT !.page = @ + 1] EXCEPT !.rest = k.rest \ page]
        BY <3>1
      <4>. HIDE DEF k1
      <4>. QED  BY <4>1, <4>2, <4>3
    <3>3. drivers' = [drivers EXCEPT ![d] = k1]
      BY <1>0, <3>1
    <3>. HIDE DEF D, k1
    <3>4. drivers' \in [Drivers -> D]
      BY <3>1, <3>2, <3>3
    <3>. QED  BY <3>4 DEF D
  <2>4. reports' \in [Versions -> Nat]
    BY <1>0 DEF IInv, TypeOK
  <2>. QED  BY <1>0, <2>1, <2>2, <2>3, <2>4 DEF IInv, TypeOK
<1>8. Numbered(n + 1)'
  <2>1. n + 1 \in 0..MaxPages
    BY <1>1, <1>4, SizesAssumption
  <2>2. {c.page : c \in checkpoints'} = 1..n + 1
    <3>1. c0.page = n + 1 /\ checkpoints' = checkpoints \cup {c0}
      BY <1>0, <1>4
    <3>. HIDE DEF c0
    <3>2. {c.page : c \in checkpoints'} = {c.page : c \in checkpoints} \cup {n + 1}
      BY <3>1
    <3>3. 1..n + 1 = (1..n) \cup {n + 1}
      OBVIOUS
    <3>. QED  BY <1>3, <3>2, <3>3 DEF Numbered
  <2>3. \A c, o \in checkpoints' : c.page = o.page => c = o
    BY <1>0, <1>1, <1>3 DEF Numbered
  <2>4. \A o \in Drivers : drivers'[o].page <= n + 1
    <3>. TAKE o \in Drivers
    <3>1. CASE o = d
      BY <1>5, <3>1
    <3>2. CASE o # d
      BY <1>3, <1>5, <3>2, Typed DEF Numbered, IInv
    <3>. QED  BY <3>1, <3>2
  <2>. QED  BY <2>1, <2>2, <2>3, <2>4 DEF Numbered
<1>9. MarksArePast'
  BY <1>0, <1>6 DEF IInv, MarksArePast
<1>10. \A o \in Drivers : Window(drivers[o])'
  <2>. TAKE o \in Drivers
  <2>1. drivers'[o].found = drivers[o].found
        /\ drivers[o].rest \ page \subseteq drivers'[o].rest /\ drivers'[o].rest \subseteq drivers[o].rest
    BY <1>5
  <2>2. Window(drivers[o])
    BY DEF IInv
  <2>. QED  BY <1>0, <2>1, <2>2 DEF Window, Visible
<1>11. NothingBehindRestart'
  <2>1. HighWaterMark' = MarkOf(page)
    <3>1. c0 \in checkpoints' /\ c0.page = n + 1
      BY <1>0, <1>4
    <3>2. \A c \in checkpoints' : c.page = n + 1 => HighWaterMark' = c.high_water_mark
      <4>1. CommittedPage' = n + 1 /\ checkpoints' # {}
        <5>1. {c.page : c \in checkpoints'} = 1..n + 1
          BY <1>8 DEF Numbered
        <5>2. checkpoints' # {} /\ n + 1 \in Nat
          BY <3>1
        <5>. QED  BY <5>1, <5>2, LastOfNumbered DEF CommittedPage
      <4>2. HighWaterMark' = (CHOOSE c \in checkpoints' : c.page = n + 1).high_water_mark
        BY <4>1 DEF HighWaterMark
      <4>3. \A c \in checkpoints' : c.page = n + 1 => c = c0
        BY <1>8, <3>1 DEF Numbered
      <4>. QED  BY <3>1, <4>2, <4>3
    <3>. QED  BY <3>1, <3>2
  <2>2. RestartHighWater' = IF MarkOf(page) = NoMark THEN 0 ELSE MarkOf(page) - Overlap
    BY <2>1 DEF RestartHighWater
  <2>3. ASSUME NEW v \in Visible, v[2] < RestartHighWater'  PROVE v \in records'
    <3>1. v \in Versions /\ v[2] \in Nat
      BY <2>3, Typed DEF IInv
    <3>2. MarkOf(page) # NoMark /\ v[2] < MarkOf(page) - Overlap
      BY <2>2, <2>3, <3>1
    <3>3. page # {}
      BY <3>2 DEF MarkOf
    <3>4. PICK w \in page : w[2] = MarkOf(page)
      BY <1>2, <3>3, MarkIsLatest
    <3>5. w \in k.found /\ w[2] \in Nat
      BY <1>1, <1>2, Typed DEF IInv
    <3>6. v[2] < w[2] /\ v[2] < w[2] - Lag
      BY <3>1, <3>2, <3>4, <3>5, Typed DEF IInv
    <3>7. v \in k.found
      BY <2>3, <3>1, <3>5, <3>6, Typed DEF IInv, Window
    <3>8. v \notin k.rest \ page
      BY <1>1, <3>1, <3>5, <3>6
    <3>. QED  BY <1>0, <3>7, <3>8 DEF IInv, Window
  <2>. QED  BY <1>0, <2>3 DEF NothingBehindRestart, Visible
<1>12. CompleteMeansAll'
  BY <1>0 DEF IInv, CompleteMeansAll
<1>13. AcceptedOnce'
  BY <1>0, <1>2 DEF IInv, AcceptedOnce
<1>14. VendorLags'
  BY <1>0 DEF IInv, VendorLags
<1>15. (\E m \in Nat : Numbered(m))'
  BY <1>8
<1>. QED  BY <1>7, <1>9, <1>10, <1>11, <1>12, <1>13, <1>14, <1>15 DEF IInv

\* No step of the vendor or of a driver breaks the invariant.
LEMMA IInvStep == IInv /\ [Next]_vars => IInv'
<1>. SUFFICES ASSUME IInv, [Next]_vars  PROVE IInv'
  OBVIOUS
<1>0. TypeOK /\ VendorLags
  BY DEF IInv
<1>1. ASSUME NEW id \in Ids, Modify(id)  PROVE IInv'
  <2>1. /\ modified' = [modified EXCEPT ![id] = clock]
        /\ UNCHANGED <<clock, visible, sourceState, checkpoints, records, drivers, reports, completed>>
    BY <1>1 DEF Modify
  <2>2. TypeOK' /\ clock <= clock'
    BY <1>0, <2>1, Typed DEF TypeOK
  <2>3. VendorLags'
    BY <1>0, <2>1, Typed DEF VendorLags, TypeOK
  <2>. QED  BY <2>1, <2>2, <2>3, QuietStep
<1>2. ASSUME NEW id \in Ids, Publish(id)  PROVE IInv'
  BY <1>2, PublishStep
<1>3. CASE Tick
  <2>1. /\ clock < MaxTime /\ clock' = clock + 1
        /\ \A id \in Ids : visible[id] # modified[id] => clock - modified[id] < Lag
        /\ UNCHANGED <<modified, visible, sourceState, checkpoints, records, drivers, reports, completed>>
    BY <1>3 DEF Tick
  <2>2. TypeOK' /\ clock <= clock'
    BY <1>0, <2>1, Typed, SizesAssumption DEF TypeOK, Times
  <2>3. VendorLags'
    BY <1>0, <2>1, Typed DEF VendorLags
  <2>. QED  BY <2>1, <2>2, <2>3, QuietStep
<1>4. ASSUME NEW d \in Drivers, Resume(d)  PROVE IInv'
  BY <1>4, ResumeStep
<1>5. ASSUME NEW d \in Drivers, NEW page, CommitSourceCheckpoint(d, page)  PROVE IInv'
  BY <1>5, CommitStep
<1>6. ASSUME NEW d \in Drivers, CompleteSource(d)  PROVE IInv'
  <2>1. /\ drivers[d].rest = {} /\ sourceState' = "COMPLETE" /\ completed' = drivers[d].found
        /\ UNCHANGED <<clock, modified, visible, checkpoints, records, drivers, reports>>
    BY <1>6 DEF CompleteSource, vendorVars
  <2>2. completed' \subseteq records
    BY <2>1 DEF IInv, Window
  <2>3. TypeOK' /\ clock <= clock'
    BY <1>0, <2>1, Typed DEF TypeOK, SourceStates
  <2>4. VendorLags'
    BY <1>0, <2>1 DEF VendorLags
  <2>. QED  BY <2>1, <2>2, <2>3, <2>4, QuietStep
<1>7. ASSUME NEW d \in Drivers, Crash(d)  PROVE IInv'
  BY <1>7, CrashStep
<1>8. ASSUME NEW new \in Moves, TransitionSource(new)  PROVE IInv'
  <2>1. /\ sourceState' = new
        /\ UNCHANGED <<clock, modified, visible, checkpoints, records, drivers, reports, completed>>
    BY <1>8 DEF TransitionSource, vendorVars
  <2>2. TypeOK' /\ clock <= clock'
    BY <1>0, <2>1, Typed, MovesAssumption DEF TypeOK
  <2>3. VendorLags'
    BY <1>0, <2>1 DEF VendorLags
  <2>. QED  BY <2>1, <2>2, <2>3, QuietStep
<1>9. CASE UNCHANGED vars
  <2>1. TypeOK' /\ clock <= clock'
    BY <1>0, <1>9, Typed DEF TypeOK, vars
  <2>2. VendorLags'
    BY <1>0, <1>9 DEF VendorLags, vars
  <2>. QED  BY <1>9, <2>1, <2>2, QuietStep DEF vars
<1>. QED  BY <1>1, <1>2, <1>3, <1>4, <1>5, <1>6, <1>7, <1>8, <1>9 DEF Next

\* The invariant holds throughout.
LEMMA IInvAlways == Spec => []IInv
BY IInvInit, IInvStep, PTL DEF Spec

\* source_resume_plan and commit_source_checkpoint: whatever dies on the way, no
\* record is left behind a restart point or missing from a completed source.
THEOREM RestartsLoseNothing == Spec => []NothingIsLost
<1>1. IInv => NothingIsLost
  BY DEF IInv, NothingIsLost
<1>. QED  BY <1>1, IInvAlways, PTL

\* commit_source_checkpoint: however windows and processes overlap, a version is
\* returned as accepted once.
THEOREM VersionsAreAcceptedOnce == Spec => []AcceptedOnce
<1>1. IInv => AcceptedOnce
  BY DEF IInv
<1>. QED  BY <1>1, IInvAlways, PTL

-----------------------------------------------------------------------------
(***************************************************************************)
(* Induction without an operator parameter, by sets of good values.        *)
(***************************************************************************)
(***************************************************************************)
(* A set of numbers that holds 0 and the successor of each of its members  *)
(* holds them all.                                                         *)
(***************************************************************************)
LEMMA NaturalsByStep ==
  ASSUME NEW Good, 0 \in Good, \A n \in Nat : n \in Good => n + 1 \in Good
  PROVE  Nat \subseteq Good
<1> DEFINE Less == OpToRel(<, Nat)
           Bad == Nat \ Good
<1>1. SUFFICES ASSUME Bad # {} PROVE FALSE
  OBVIOUS
<1>2. \E n \in Bad : \A m \in Bad : ~(<<m, n>> \in Less)
  <2>1. IsWellFoundedOn(Less, Nat)
    BY NatLessThanWellFounded
  <2>2. Bad \subseteq Nat
    OBVIOUS
  <2> HIDE DEF Less, Bad
  <2> QED
    BY <1>1, <2>1, <2>2, WFMin
<1>3. PICK n \in Bad : \A m \in Bad : ~(<<m, n>> \in Less)
  BY <1>2
<1>4. n \in Nat /\ n # 0 /\ n - 1 \in Nat /\ n - 1 < n /\ (n - 1) + 1 = n
  OBVIOUS
<1>5. <<n - 1, n>> \in Less
  BY <1>4 DEF OpToRel
<1> QED
  BY <1>3, <1>4, <1>5

(***************************************************************************)
(* What holds of a set when it holds of the set without any one of its     *)
(* elements, holds of a finite set and its subsets.                        *)
(***************************************************************************)
LEMMA FiniteByRemoval ==
  ASSUME NEW S, IsFiniteSet(S), NEW Good,
         \A T \in SUBSET S : (\A x \in T : T \ {x} \in Good) => T \in Good
  PROVE  SUBSET S \subseteq Good
<1> DEFINE Sizes == {n \in Nat : \A T \in SUBSET S : Cardinality(T) = n => T \in Good}
<1>1. \A T \in SUBSET S : IsFiniteSet(T) /\ Cardinality(T) \in Nat
  BY FS_Subset, FS_CardinalityType
<1>2. 0 \in Sizes
  <2>1. ASSUME NEW T \in SUBSET S, Cardinality(T) = 0 PROVE T \in Good
    <3>1. T = {}
      BY <1>1, <2>1, FS_EmptySet
    <3> QED
      BY <3>1
  <2> QED
    BY <2>1
<1>3. ASSUME NEW n \in Nat, n \in Sizes PROVE n + 1 \in Sizes
  <2>1. SUFFICES ASSUME NEW T \in SUBSET S, Cardinality(T) = n + 1 PROVE T \in Good
    BY <1>3
  <2>2. ASSUME NEW x \in T PROVE T \ {x} \in Good
    <3>1. Cardinality(T \ {x}) = Cardinality(T) - 1
      BY <1>1, FS_RemoveElement
    <3>2. Cardinality(T \ {x}) = n
      BY <2>1, <3>1
    <3> QED
      BY <1>3, <3>2
  <2> QED
    BY <2>2
<1>4. Nat \subseteq Sizes
  <2> HIDE DEF Sizes
  <2> QED
    BY <1>2, <1>3, NaturalsByStep
<1> QED
  BY <1>1, <1>4

-----------------------------------------------------------------------------
(***************************************************************************)
(* Routes.  A group of them has a first one in every order of numbers, and *)
(* an authority.                                                           *)
(***************************************************************************)
LEMMA GroupHasFirst ==
  ASSUME NEW g, IsFiniteSet(g), g # {}, NEW f, \A r \in g : f[r] \in Int
  PROVE  \E r \in g : \A s \in g : f[r] <= f[s]
<1> DEFINE Good == {T \in SUBSET g : T # {} => \E r \in T : \A s \in T : f[r] <= f[s]}
<1>1. ASSUME NEW T \in SUBSET g, \A x \in T : T \ {x} \in Good PROVE T \in Good
  <2> SUFFICES ASSUME T # {}
               PROVE  \E r \in T : \A s \in T : f[r] <= f[s]
    OBVIOUS
  <2>1. PICK x \in T : TRUE
    OBVIOUS
  <2>2. CASE T \ {x} = {}
    BY <2>1, <2>2
  <2>3. CASE T \ {x} # {}
    <3>1. PICK y \in T \ {x} : \A s \in T \ {x} : f[y] <= f[s]
      BY <1>1, <2>1, <2>3
    <3>2. f[x] \in Int /\ f[y] \in Int /\ \A s \in T : f[s] \in Int
      BY <2>1, <3>1
    <3>3. CASE f[x] <= f[y]
      BY <2>1, <3>1, <3>2, <3>3
    <3>4. CASE f[y] <= f[x]
      BY <2>1, <3>1, <3>2, <3>4
    <3> QED
      BY <3>2, <3>3, <3>4
  <2> QED
    BY <2>2, <2>3
<1>2. SUBSET g \subseteq Good
  <2> HIDE DEF Good
  <2> QED
    BY <1>1, FiniteByRemoval
<1> QED
  BY <1>2

\* The authority of a group is a member of it.
LEMMA GroupHasAuthority ==
  ASSUME NEW routes, AreRoutes(routes), NEW g \in SUBSET routes, g # {}
  PROVE  Authoritative(g) \in g
<1>1. IsFiniteSet(g) /\ \A r \in g : r.id \in Int /\ r.file \in BOOLEAN
  BY FS_Subset DEF AreRoutes
<1>2. \A r, s \in g : r.id = s.id => r = s
  BY DEF AreRoutes
<1>3. ASSUME NEW h \in SUBSET g, h # {}, \A r, s \in h : r.file = s.file,
             \A r \in h, s \in g \ h : s.file /\ ~r.file
      PROVE  \E r \in g : \A s \in g \ {r} : Precedes(r, s)
  <2> DEFINE id == [r \in h |-> r.id]
  <2>1. IsFiniteSet(h) /\ \A r \in h : id[r] \in Int /\ id[r] = r.id
    BY <1>1, FS_Subset
  <2>2. PICK r \in h : \A s \in h : id[r] <= id[s]
    <3> HIDE DEF id
    <3> QED
      BY <1>3, <2>1, GroupHasFirst
  <2>3. ASSUME NEW s \in g \ {r} PROVE Precedes(r, s)
    <3>1. CASE s \in h
      <4>1. r.id <= s.id /\ r.id # s.id /\ r.file = s.file
        BY <1>2, <1>3, <2>1, <2>2, <3>1
      <4> QED
        BY <1>1, <4>1 DEF Precedes
    <3>2. CASE s \notin h
      <4>1. s.file /\ ~r.file
        BY <1>3, <3>2
      <4> QED
        BY <4>1 DEF Precedes
    <3> QED
      BY <3>1, <3>2
  <2> QED
    BY <2>2, <2>3
<1>4. \E r \in g : \A s \in g \ {r} : Precedes(r, s)
  <2>1. CASE \E r \in g : ~r.file
    <3>1. PICK h \in SUBSET g : h = {r \in g : ~r.file}
      OBVIOUS
    <3>2. h # {} /\ \A r \in h, s \in g \ h : s.file /\ ~r.file
      BY <2>1, <3>1
    <3>3. \A r, s \in h : r.file = s.file
      BY <1>1, <3>1
    <3> QED
      BY <1>3, <3>2, <3>3
  <2>2. CASE \A r \in g : r.file
    BY <1>1, <1>3, <2>2
  <2> QED
    BY <2>1, <2>2
<1> QED
  BY <1>4 DEF Authoritative

-----------------------------------------------------------------------------
(***************************************************************************)
(* The staging of transcripts, for any routes and confirmed pairs.         *)
(***************************************************************************)
\* Routes of one origin are one group, and selected routes of one content another.
LEMMA GroupsAreShared ==
  ASSUME NEW routes, NEW r \in routes
  PROVE  /\ r \in SameOrigin(routes, r) /\ SameOrigin(routes, r) \subseteq routes
         /\ Selected(routes) \subseteq routes /\ SameContent(routes, r) \subseteq Selected(routes)
         /\ \A s \in routes : s.origin = r.origin => SameOrigin(routes, s) = SameOrigin(routes, r)
         /\ \A s : s.content = r.content => SameContent(routes, s) = SameContent(routes, r)
BY DEF SameOrigin, Selected, SameContent

\* A selected route's content has a winner, which is selected and wins against all.
LEMMA ContentHasWinner ==
  ASSUME NEW routes, AreRoutes(routes), NEW r \in Selected(routes)
  PROVE  LET w == Authoritative(SameContent(routes, r))
         IN /\ w \in Selected(routes) /\ w \in routes /\ w.content = r.content
            /\ w \in SameContent(routes, r) /\ SameContent(routes, w) = SameContent(routes, r)
<1> DEFINE w == Authoritative(SameContent(routes, r))
<1>1. r \in routes /\ r \in SameContent(routes, r) /\ SameContent(routes, r) \in SUBSET routes
  BY DEF Selected, SameContent
<1>2. w \in SameContent(routes, r)
  BY <1>1, GroupHasAuthority
<1> HIDE DEF w
<1>3. w \in Selected(routes) /\ w \in routes /\ w.content = r.content
  BY <1>2 DEF SameContent, Selected
<1>4. SameContent(routes, w) = SameContent(routes, r)
  BY <1>3 DEF SameContent
<1> QED
  BY <1>2, <1>3, <1>4 DEF w

\* In a group of two or more, each route has a neighbour in the order of ids.
LEMMA NeighbourExists ==
  ASSUME NEW routes, AreRoutes(routes), NEW g \in SUBSET routes, NEW r \in g, NEW s \in g, s # r
  PROVE  \E t \in g : Neighbours(g, r, t) \/ Neighbours(g, t, r)
<1>1. IsFiniteSet(g) /\ \A x \in g : x.id \in Int
  BY FS_Subset DEF AreRoutes
<1>2. \A x, y \in g : x.id = y.id => x = y
  BY DEF AreRoutes
<1>3. CASE r.id < s.id
  <2> DEFINE after == {x \in g : r.id < x.id}
             id == [x \in after |-> x.id]
  <2>1. IsFiniteSet(after) /\ after # {} /\ \A x \in after : id[x] \in Int
    BY <1>1, <1>3, FS_Subset
  <2>2. \A x \in after : id[x] = x.id
    OBVIOUS
  <2>3. PICK t \in after : \A x \in after : id[t] <= id[x]
    <3> HIDE DEF after, id
    <3> QED
      BY <2>1, GroupHasFirst
  <2>4. t \in g /\ r.id < t.id /\ \A x \in g : r.id < x.id => t.id <= x.id
    BY <2>2, <2>3
  <2>5. ~\E x \in g : r.id < x.id /\ x.id < t.id
    BY <1>1, <2>4
  <2> QED
    BY <2>4, <2>5 DEF Neighbours
<1>4. CASE s.id < r.id
  <2> DEFINE before == {x \in g : x.id < r.id}
             down == [x \in before |-> 0 - x.id]
  <2>1. IsFiniteSet(before) /\ before # {} /\ \A x \in before : down[x] \in Int
    BY <1>1, <1>4, FS_Subset
  <2>2. \A x \in before : down[x] = 0 - x.id
    OBVIOUS
  <2>3. PICK t \in before : \A x \in before : down[t] <= down[x]
    <3> HIDE DEF before, down
    <3> QED
      BY <2>1, GroupHasFirst
  <2>4. t \in g /\ t.id < r.id /\ \A x \in g : x.id < r.id => x.id <= t.id
    BY <1>1, <2>2, <2>3
  <2>5. ~\E x \in g : t.id < x.id /\ x.id < r.id
    BY <1>1, <2>4
  <2> QED
    BY <2>4, <2>5 DEF Neighbours
<1> QED
  BY <1>1, <1>2, <1>3, <1>4

\* A route whose origin disagrees is in a conflict.
LEMMA DisputedIsReported ==
  ASSUME NEW routes, AreRoutes(routes), NEW pairs, NEW r \in routes, ~OriginAgrees(routes, r)
  PROVE  \E c \in Conflicts(routes, pairs) : r.id \in c
<1> DEFINE g == SameOrigin(routes, r)
<1>1. r \in g /\ g \subseteq routes
  BY GroupsAreShared
<1>2. PICK s \in g : s.content # r.content
  BY DEF OriginAgrees
<1>3. PICK t \in g : Neighbours(g, r, t) \/ Neighbours(g, t, r)
  <2> HIDE DEF g
  <2> QED
    BY <1>1, <1>2, NeighbourExists
<1>4. t \in routes /\ t.origin = r.origin /\ SameOrigin(routes, t) = g
  BY <1>1, <1>3 DEF SameOrigin
<1>5. ~OriginAgrees(routes, t)
  BY <1>1, <1>2, <1>4 DEF OriginAgrees
<1>6. {r.id, t.id} \in Conflicts(routes, pairs)
  <2>1. CASE Neighbours(g, r, t)
    <3>1. <<r, t>> \in routes \X routes /\ <<r, t>>[1] = r /\ <<r, t>>[2] = t
      BY <1>4
    <3> QED
      BY <1>4, <2>1, <3>1 DEF Conflicts
  <2>2. CASE Neighbours(g, t, r)
    <3>1. <<t, r>> \in routes \X routes /\ <<t, r>>[1] = t /\ <<t, r>>[2] = r
      BY <1>4
    <3>2. {t.id, r.id} \in Conflicts(routes, pairs)
      BY <1>4, <1>5, <2>2, <3>1 DEF Conflicts
    <3> QED
      BY <3>2
  <2> QED
    BY <1>3, <2>1, <2>2
<1> QED
  BY <1>6

\* A selected route that is not confirmed against its winner is in a conflict with it.
LEMMA UnconfirmedIsReported ==
  ASSUME NEW routes, AreRoutes(routes), NEW pairs, NEW w \in Selected(routes),
         w = Authoritative(SameContent(routes, w)),
         NEW r \in SameContent(routes, w) \ {w}, ~Confirmed(pairs, r, w)
  PROVE  {r.id, w.id} \in Conflicts(routes, pairs)
<1>1. r \in Selected(routes) /\ SameContent(routes, r) = SameContent(routes, w)
  BY DEF SameContent
<1> QED
  BY <1>1 DEF Conflicts

\* No route gets lost: whatever is confirmed, it is retained, a duplicate or in a conflict.
LEMMA EveryRouteIsTold ==
  ASSUME NEW routes, AreRoutes(routes), NEW pairs, NEW r \in routes
  PROVE  \/ r \in Retained(routes, pairs)
         \/ \E e \in Duplicates(routes, pairs) : e.duplicate = r.id
         \/ \E c \in Conflicts(routes, pairs) : r.id \in c
<1>1. CASE ~OriginAgrees(routes, r)
  BY <1>1, DisputedIsReported
<1>2. CASE OriginAgrees(routes, r) /\ r \notin Selected(routes)
  <2>1. Edge(r, Authoritative(SameOrigin(routes, r)), "SAME_NATIVE_ID_AND_CONTENT_HASH")
          \in Duplicates(routes, pairs)
    BY <1>2 DEF Duplicates
  <2> QED
    BY <2>1 DEF Edge
<1>3. CASE r \in Selected(routes)
  <2>1. PICK w : w = Authoritative(SameContent(routes, r))
    OBVIOUS
  <2>2. /\ w \in Selected(routes) /\ SameContent(routes, w) = SameContent(routes, r)
        /\ r \in SameContent(routes, w) /\ w = Authoritative(SameContent(routes, w))
    <3>1. w \in Selected(routes) /\ SameContent(routes, w) = SameContent(routes, r)
      BY <1>3, <2>1, ContentHasWinner
    <3>2. r \in SameContent(routes, r)
      BY <1>3 DEF SameContent
    <3> QED
      BY <2>1, <3>1, <3>2
  <2>3. CASE r = w
    <3>1. CASE \A x \in SameContent(routes, w) \ {w} : Confirmed(pairs, x, w)
      BY <2>2, <2>3, <3>1 DEF Retained
    <3>2. CASE \E x \in SameContent(routes, w) \ {w} : ~Confirmed(pairs, x, w)
      <4>1. PICK x \in SameContent(routes, w) \ {w} : ~Confirmed(pairs, x, w)
        BY <3>2
      <4>2. {x.id, w.id} \in Conflicts(routes, pairs)
        BY <2>2, <4>1, UnconfirmedIsReported
      <4>3. r.id \in {x.id, w.id}
        BY <2>3
      <4> QED
        BY <4>2, <4>3
    <3> QED
      BY <3>1, <3>2
  <2>4. CASE r # w /\ Confirmed(pairs, r, w)
    <3>1. Edge(r, w, "CONFIRMED_HASH_MATCH") \in Duplicates(routes, pairs)
      BY <1>3, <2>1, <2>4 DEF Duplicates
    <3> QED
      BY <3>1 DEF Edge
  <2>5. CASE r # w /\ ~Confirmed(pairs, r, w)
    <3>1. {r.id, w.id} \in Conflicts(routes, pairs)
      BY <2>2, <2>5, UnconfirmedIsReported
    <3> QED
      BY <3>1
  <2> QED
    BY <2>3, <2>4, <2>5
<1> QED
  BY <1>1, <1>2, <1>3 DEF Selected

\* What the call tells of are routes it was given.
LEMMA OnlyRoutesAreTold ==
  ASSUME NEW routes, AreRoutes(routes), NEW pairs
  PROVE  /\ Retained(routes, pairs) \subseteq routes
         /\ \A e \in Duplicates(routes, pairs) : \E r \in routes : e.duplicate = r.id
         /\ \A c \in Conflicts(routes, pairs) :
              \/ \E r, s \in routes : /\ c = {r.id, s.id} /\ ~OriginAgrees(routes, r)
                                      /\ r.origin = s.origin
              \/ \E w \in Selected(routes) : \E r \in SameContent(routes, w) \ {w} :
                   /\ c = {r.id, w.id} /\ ~Confirmed(pairs, r, w)
                   /\ w = Authoritative(SameContent(routes, w))
<1>1. Retained(routes, pairs) \subseteq routes
  BY DEF Retained, Selected
<1>2. ASSUME NEW e \in Duplicates(routes, pairs)
      PROVE  \E r \in routes : e.duplicate = r.id
  BY DEF Duplicates, Edge, Selected
<1>3. ASSUME NEW c \in Conflicts(routes, pairs)
      PROVE  \/ \E r, s \in routes : /\ c = {r.id, s.id} /\ ~OriginAgrees(routes, r)
                                     /\ r.origin = s.origin
             \/ \E w \in Selected(routes) : \E r \in SameContent(routes, w) \ {w} :
                  /\ c = {r.id, w.id} /\ ~Confirmed(pairs, r, w)
                  /\ w = Authoritative(SameContent(routes, w))
  <2>1. CASE \E p \in routes \X routes : /\ c = {p[1].id, p[2].id} /\ p[1].origin = p[2].origin
                                         /\ ~OriginAgrees(routes, p[1])
    BY <2>1
  <2>2. CASE \E r \in Selected(routes) :
               LET w == Authoritative(SameContent(routes, r))
               IN c = {r.id, w.id} /\ w # r /\ ~Confirmed(pairs, r, w)
    <3>1. PICK r \in Selected(routes) :
            LET w == Authoritative(SameContent(routes, r))
            IN c = {r.id, w.id} /\ w # r /\ ~Confirmed(pairs, r, w)
      BY <2>2
    <3>2. PICK w : w = Authoritative(SameContent(routes, r))
      OBVIOUS
    <3>3. /\ w \in Selected(routes) /\ SameContent(routes, w) = SameContent(routes, r)
          /\ r \in SameContent(routes, w)
      BY <3>2, ContentHasWinner DEF SameContent
    <3> QED
      BY <3>1, <3>2, <3>3
  <2> QED
    BY <2>1, <2>2 DEF Conflicts
<1> QED
  BY <1>1, <1>2, <1>3

\* A retained route is in no conflict, and alone with its content.
LEMMA RetainedRoutesAreSettled ==
  ASSUME NEW routes, AreRoutes(routes), NEW pairs, NEW r \in Retained(routes, pairs)
  PROVE  /\ \A c \in Conflicts(routes, pairs) : r.id \notin c
         /\ \A s \in Retained(routes, pairs) : s.content = r.content => s = r
<1>1. /\ r \in routes /\ r \in Selected(routes) /\ OriginAgrees(routes, r)
      /\ r = Authoritative(SameContent(routes, r))
      /\ \A x \in SameContent(routes, r) \ {r} : Confirmed(pairs, x, r)
  BY DEF Retained, Selected
<1>2. ASSUME NEW c \in Conflicts(routes, pairs), r.id \in c PROVE FALSE
  <2>1. CASE \E p, s \in routes : /\ c = {p.id, s.id} /\ ~OriginAgrees(routes, p)
                                  /\ p.origin = s.origin
    <3>1. PICK p, s \in routes : /\ c = {p.id, s.id} /\ ~OriginAgrees(routes, p)
                                 /\ p.origin = s.origin
      BY <2>1
    <3>2. r = p \/ r = s
      BY <1>1, <1>2, <3>1 DEF AreRoutes
    <3>3. ~OriginAgrees(routes, s)
      BY <3>1 DEF OriginAgrees, SameOrigin
    <3> QED
      BY <1>1, <3>1, <3>2, <3>3
  <2>2. CASE \E w \in Selected(routes) : \E x \in SameContent(routes, w) \ {w} :
               /\ c = {x.id, w.id} /\ ~Confirmed(pairs, x, w)
               /\ w = Authoritative(SameContent(routes, w))
    <3>1. PICK w \in Selected(routes), x \in Selected(routes) :
            /\ x \in SameContent(routes, w) \ {w}
            /\ c = {x.id, w.id} /\ ~Confirmed(pairs, x, w)
            /\ w = Authoritative(SameContent(routes, w))
      BY <2>2 DEF SameContent
    <3>2. r = x \/ r = w
      BY <1>1, <1>2, <3>1 DEF AreRoutes, Selected
    <3>3. SameContent(routes, x) = SameContent(routes, w)
      BY <3>1 DEF SameContent
    <3> QED
      BY <1>1, <3>1, <3>2, <3>3
  <2> QED
    BY <1>2, <2>1, <2>2, OnlyRoutesAreTold
<1>3. ASSUME NEW s \in Retained(routes, pairs), s.content = r.content PROVE s = r
  <2>1. s = Authoritative(SameContent(routes, s))
    BY DEF Retained
  <2>2. SameContent(routes, s) = SameContent(routes, r)
    BY <1>3 DEF SameContent
  <2> QED
    BY <1>1, <2>1, <2>2
<1> QED
  BY <1>2, <1>3

\* Without conflicts, every content is retained.
LEMMA ContentsAreRetained ==
  ASSUME NEW routes, AreRoutes(routes), NEW pairs, Conflicts(routes, pairs) = {}, NEW r \in routes
  PROVE  \E s \in Retained(routes, pairs) : s.content = r.content
<1>1. OriginAgrees(routes, r)
  BY DisputedIsReported
<1>2. PICK u : u = Authoritative(SameOrigin(routes, r))
  OBVIOUS
<1>3. u \in SameOrigin(routes, r)
  BY <1>2, GroupsAreShared, GroupHasAuthority
<1>4. /\ u \in routes /\ SameOrigin(routes, u) = SameOrigin(routes, r)
      /\ u.content = r.content /\ OriginAgrees(routes, u)
  BY <1>1, <1>3 DEF SameOrigin, OriginAgrees
<1>5. u \in Selected(routes)
  BY <1>2, <1>4 DEF Selected
<1>6. PICK w : w = Authoritative(SameContent(routes, u))
  OBVIOUS
<1>7. /\ w \in Selected(routes) /\ w.content = r.content
      /\ w = Authoritative(SameContent(routes, w))
  BY <1>4, <1>5, <1>6, ContentHasWinner
<1>8. \A x \in SameContent(routes, w) \ {w} : Confirmed(pairs, x, w)
  BY <1>7, UnconfirmedIsReported
<1> QED
  BY <1>7, <1>8 DEF Retained

\* More confirmations retain more.
LEMMA ConfirmingRetains ==
  ASSUME NEW routes, NEW pairs, NEW more, pairs \subseteq more
  PROVE  Retained(routes, pairs) \subseteq Retained(routes, more)
BY DEF Retained, Confirmed

-----------------------------------------------------------------------------
(***************************************************************************)
(* The inductive invariant.  Every row the import has passed is counted    *)
(* once, and what it accepted is staged.                                   *)
(***************************************************************************)
IsJob(j) ==
  j = [kind |-> j.kind, rows |-> j.rows, next |-> j.next, complete |-> j.complete,
       seen |-> j.seen, unmapped |-> j.unmapped, issues |-> j.issues,
       conflicts |-> j.conflicts, repeated |-> j.repeated]

JobIsSound(j) ==
  /\ IsJob(j)
  /\ j.kind \in DOMAIN input.files \ DOMAIN populations
  /\ Len(j.rows) \in 0..MaxRows /\ j.next \in 1..(Len(j.rows) + 1)
  /\ {j.unmapped, j.issues, j.conflicts, j.repeated} \subseteq Nat
  /\ IsFiniteSet(DOMAIN j.seen)
  /\ j.next - 1 = Cardinality(DOMAIN j.seen) + (j.unmapped + j.issues - j.conflicts) + j.repeated
  /\ Accepted(j) \subseteq staged

PopulationIsSound(p, kind) ==
  /\ p.parsed = Cardinality(p.accepted) + p.quarantined + p.duplicate
  /\ p.accepted \subseteq staged
  /\ \A a \in p.accepted : a.kind = kind
  /\ \A a, b \in p.accepted : a.native = b.native => a = b

PopulationsAreSound == \A k \in DOMAIN populations : PopulationIsSound(populations[k], k)

\* A staged row is counted by an import, or by the one under way, or abandoned.
StagedIsKnown ==
  /\ \A a \in staged \cup committed : a.kind \in DOMAIN input.files
  /\ \A a \in staged : \/ a \in AcceptedOf(populations) \/ a \in abandoned
                       \/ job # NoJob /\ a \in Accepted(job)
  /\ abandoned \subseteq staged

\* A receipt that accepts is about what the driver has in memory.
AcceptedIsCurrent ==
  health # None =>
    (health.accepted => job = NoJob /\ health.populations = populations /\ Missing = {})

\* What was staged of transcripts was so with confirmations that still stand.
StagedRoutesStand ==
  /\ transcripts # None =>
       \E pairs \in SUBSET confirmed :
         transcripts = StageTranscriptsInMemory(input.routes, pairs)
  /\ \A m \in metadata : \E r \in Retained(input.routes, confirmed) : OriginId(r) = m

IntakeInv ==
  /\ IsInput(input)
  /\ job # NoJob => JobIsSound(job)
  /\ PopulationsAreSound
  /\ StagedIsKnown
  /\ AcceptedIsCurrent
  /\ StagedRoutesStand

-----------------------------------------------------------------------------
\* What an import accepted is one row for each native id.
LEMMA AcceptedIsCounted ==
  ASSUME NEW j, IsFiniteSet(DOMAIN j.seen)
  PROVE  /\ Cardinality(Accepted(j)) = Cardinality(DOMAIN j.seen)
         /\ \A a \in Accepted(j) : a.kind = j.kind
         /\ \A a, b \in Accepted(j) : a.native = b.native => a = b
<1> DEFINE row(n) == [kind |-> j.kind, native |-> n, version |-> j.seen[n]]
           f == [n \in DOMAIN j.seen |-> row(n)]
<1>1. \A n \in DOMAIN j.seen : row(n).native = n
  OBVIOUS
<1>2. f \in Bijection(DOMAIN j.seen, Accepted(j))
  <2>1. f \in [DOMAIN j.seen -> Accepted(j)]
    BY DEF Accepted
  <2>2. \A a, b \in DOMAIN j.seen : f[a] = f[b] => a = b
    <3>1. \A a \in DOMAIN j.seen : f[a] = row(a)
      OBVIOUS
    <3> HIDE DEF row, f
    <3> QED
      BY <1>1, <3>1
  <2>3. \A t \in Accepted(j) : \E n \in DOMAIN j.seen : f[n] = t
    BY DEF Accepted
  <2> HIDE DEF f
  <2> QED
    BY <2>1, <2>2, <2>3 DEF Bijection, Injection, Surjection, IsInjective
<1>3. Cardinality(Accepted(j)) = Cardinality(DOMAIN j.seen)
  <2> HIDE DEF f
  <2> QED
    BY <1>2, FS_Bijection DEF ExistsBijection
<1> QED
  BY <1>3 DEF Accepted

\* The lesser of two numbers.
LEMMA LesserIsMin ==
  ASSUME NEW a \in Int, NEW b \in Int
  PROVE  Min({a, b}) = IF a <= b THEN a ELSE b
BY DEF Min

\* A reader stops at the bound.
LEMMA ReadsAreBounded ==
  ASSUME NEW file \in Seq(Rows)
  PROVE  Len(Read(file)) \in 0..MaxRows
<1>1. PICK n \in Nat : n = Len(file)
  OBVIOUS
<1>2. PICK m \in Nat : m = Min({n, MaxRows}) /\ m <= n /\ m <= MaxRows
  BY LesserIsMin, BoundsAssumption
<1>3. Len(SubSeq(file, 1, m)) = m
  BY <1>1, <1>2, SubSeqProperties
<1>4. m \in 0..MaxRows
  BY <1>2, BoundsAssumption
<1> QED
  BY <1>1, <1>2, <1>3, <1>4 DEF Read

\* A run begins with nothing read and nothing stored.
LEMMA IntakeInvInit == IntakeInit => IntakeInv
<1> SUFFICES ASSUME IntakeInit
             PROVE  IntakeInv
  OBVIOUS
<1>1. IsInput(input)
  BY InputsAssumption DEF IntakeInit
<1> QED
  BY <1>1 DEF IntakeInit, IntakeInv, StagedIsKnown, AcceptedIsCurrent, StagedRoutesStand, PopulationsAreSound,
     NoPopulations

\* An import under way is told from none by its fields.
LEMMA JobsAreThere ==
  ASSUME NEW j, IsJob(j)
  PROVE  j # NoJob
<1>1. "next" \in DOMAIN j
  BY DEF IsJob
<1>2. "next" \notin DOMAIN NoJob
  BY DEF NoJob
<1> QED
  BY <1>1, <1>2

\* What the parts of the invariant need to be left alone.
LEMMA PopulationsStand ==
  ASSUME PopulationsAreSound, UNCHANGED populations, staged \subseteq staged'
  PROVE  PopulationsAreSound'
BY DEF PopulationsAreSound, PopulationIsSound

\* What was staged of routes stands as long as nothing of it changes.
LEMMA RoutesStand ==
  ASSUME StagedRoutesStand, UNCHANGED <<confirmed, metadata, transcripts>>,
         input'.routes = input.routes
  PROVE  StagedRoutesStand'
BY DEF StagedRoutesStand

\* An accepting receipt stays current while nothing is imported or assessed.
LEMMA CurrentStands ==
  ASSUME AcceptedIsCurrent, UNCHANGED <<input, populations, health>>, UNCHANGED job \/ job # NoJob
  PROVE  AcceptedIsCurrent'
<1>1. Missing' = Missing
  BY DEF Missing
<1> QED
  BY <1>1 DEF AcceptedIsCurrent

\* An import begins with nothing counted and no row passed.
LEMMA StartImportKeeps ==
  ASSUME IntakeInv, NEW kind \in Kinds, StartImport(kind)
  PROVE  IntakeInv'
<1>1. /\ UNCHANGED <<input, confirmed, staged, committed, metadata, populations, transcripts, health, abandoned>>
      /\ job = NoJob /\ kind \in DOMAIN input.files \ DOMAIN populations
      /\ (health # None => ~health.accepted)
      /\ job' = [kind |-> kind, rows |-> Read(input.files[kind]), next |-> 1,
                 complete |-> Len(input.files[kind]) <= MaxRows, seen |-> NoPopulations,
                 unmapped |-> 0, issues |-> 0, conflicts |-> 0, repeated |-> 0]
  BY DEF StartImport, Undecided, tables
<1>2. Len(Read(input.files[kind])) \in 0..MaxRows
  BY <1>1, ReadsAreBounded DEF IntakeInv, IsInput
<1>3. IsFiniteSet(DOMAIN NoPopulations) /\ Cardinality(DOMAIN NoPopulations) = 0
      /\ DOMAIN NoPopulations = {}
  BY FS_EmptySet DEF NoPopulations
<1>4. JobIsSound(job)'
  BY <1>1, <1>2, <1>3 DEF JobIsSound, IsJob, Accepted
<1>5. StagedIsKnown'
  BY <1>1 DEF IntakeInv, StagedIsKnown, AcceptedOf
<1>6. AcceptedIsCurrent' /\ StagedRoutesStand'
  <2>1. AcceptedIsCurrent'
    BY <1>1 DEF AcceptedIsCurrent
  <2> QED
    BY <1>1, <2>1, RoutesStand DEF IntakeInv
<1>7. PopulationsAreSound'
  BY <1>1, PopulationsStand DEF IntakeInv
<1>8. IsInput(input)'
  BY <1>1 DEF IntakeInv
<1> QED
  BY <1>4, <1>5, <1>6, <1>7, <1>8 DEF IntakeInv

-----------------------------------------------------------------------------
(***************************************************************************)
(* The rows of an import, and its end.                                     *)
(***************************************************************************)
\* A row is counted once, and staged when it is accepted.
LEMMA ImportRowKeeps ==
  ASSUME IntakeInv, ImportRow
  PROVE  IntakeInv'
<1> DEFINE row == job.rows[job.next]
           artifact == Artifact(job.kind, row)
           counted == [job EXCEPT !.next = @ + 1]
           reaches == row.mapped /\ Projects(job.kind, row) /\ row.native # None
<1>1. /\ UNCHANGED <<input, confirmed, committed, metadata, populations, transcripts, health>>
      /\ job # NoJob /\ job.next <= Len(job.rows)
      /\ JobIsSound(job)
  BY DEF ImportRow, IntakeInv
<1>2. PICK n \in Nat : n = Len(job.rows) /\ n <= MaxRows
  BY <1>1, BoundsAssumption DEF JobIsSound
<1>3. /\ job.next \in 1..n /\ job.next + 1 \in 1..(n + 1)
      /\ {job.unmapped, job.issues, job.conflicts, job.repeated} \subseteq Nat
      /\ Cardinality(DOMAIN job.seen) \in Nat /\ IsFiniteSet(DOMAIN job.seen)
      /\ job.next - 1 = Cardinality(DOMAIN job.seen) + (job.unmapped + job.issues - job.conflicts)
                        + job.repeated
  BY <1>1, <1>2, FS_CardinalityType DEF JobIsSound
<1>4. ASSUME UNCHANGED <<staged, abandoned>>, IsJob(job'),
             job'.kind = job.kind, job'.rows = job.rows, job'.seen = job.seen,
             job'.next = job.next + 1,
             {job'.unmapped, job'.issues, job'.conflicts, job'.repeated} \subseteq Nat,
             job'.next - 1 = Cardinality(DOMAIN job.seen)
                             + (job'.unmapped + job'.issues - job'.conflicts) + job'.repeated
      PROVE  IntakeInv'
  <2>1. Accepted(job)' = Accepted(job)
    BY <1>4 DEF Accepted
  <2>3. JobIsSound(job)'
    BY <1>1, <1>2, <1>3, <1>4, <2>1 DEF JobIsSound
  <2>4. StagedIsKnown'
    <3>1. job' # NoJob
      BY <1>4, JobsAreThere
    <3> QED
      BY <1>1, <1>4, <2>1, <3>1 DEF IntakeInv, StagedIsKnown, AcceptedOf
  <2>5. AcceptedIsCurrent' /\ StagedRoutesStand' /\ PopulationsAreSound' /\ IsInput(input)'
    BY <1>1, <1>4, CurrentStands, RoutesStand, PopulationsStand DEF IntakeInv
  <2> QED
    BY <2>3, <2>4, <2>5 DEF IntakeInv
<1>5. CASE ~row.mapped /\ job' = [counted EXCEPT !.unmapped = @ + 1]
           /\ UNCHANGED <<staged, abandoned>>
  <2>1. job' = [kind |-> job.kind, rows |-> job.rows, next |-> job.next + 1,
                complete |-> job.complete, seen |-> job.seen, unmapped |-> job.unmapped + 1,
                issues |-> job.issues, conflicts |-> job.conflicts,
                repeated |-> job.repeated]
    BY <1>1, <1>5 DEF JobIsSound, IsJob
  <2>2. /\ IsJob(job')
        /\ job'.kind = job.kind /\ job'.rows = job.rows /\ job'.seen = job.seen
        /\ job'.next = job.next + 1 /\ job'.unmapped = job.unmapped + 1
        /\ job'.issues = job.issues /\ job'.conflicts = job.conflicts
        /\ job'.repeated = job.repeated
    BY <2>1 DEF IsJob
  <2>3. {job'.unmapped, job'.issues, job'.conflicts, job'.repeated} \subseteq Nat
    BY <1>3, <2>2
  <2>4. UNCHANGED <<staged, abandoned>>
    BY <1>5
  <2>5. job'.next - 1 = Cardinality(DOMAIN job.seen)
                        + (job'.unmapped + job'.issues - job'.conflicts) + job'.repeated
    BY <1>3, <2>2
  <2> QED
    BY <1>4, <2>2, <2>3, <2>4, <2>5
<1>6. CASE job' = [counted EXCEPT !.issues = @ + 1]
           /\ UNCHANGED <<staged, abandoned>>
  <2>1. job' = [kind |-> job.kind, rows |-> job.rows, next |-> job.next + 1,
                complete |-> job.complete, seen |-> job.seen, unmapped |-> job.unmapped,
                issues |-> job.issues + 1, conflicts |-> job.conflicts,
                repeated |-> job.repeated]
    BY <1>1, <1>6 DEF JobIsSound, IsJob
  <2>2. /\ IsJob(job')
        /\ job'.kind = job.kind /\ job'.rows = job.rows /\ job'.seen = job.seen
        /\ job'.next = job.next + 1 /\ job'.unmapped = job.unmapped
        /\ job'.issues = job.issues + 1 /\ job'.conflicts = job.conflicts
        /\ job'.repeated = job.repeated
    BY <2>1 DEF IsJob
  <2>3. {job'.unmapped, job'.issues, job'.conflicts, job'.repeated} \subseteq Nat
    BY <1>3, <2>2
  <2>4. UNCHANGED <<staged, abandoned>>
    BY <1>6
  <2>5. job'.next - 1 = Cardinality(DOMAIN job.seen)
                        + (job'.unmapped + job'.issues - job'.conflicts) + job'.repeated
    BY <1>3, <2>2
  <2> QED
    BY <1>4, <2>2, <2>3, <2>4, <2>5
<1>7. CASE \E d \in {0, 1} :
             /\ job' = [counted EXCEPT !.repeated = @ + 1, !.issues = @ + d, !.conflicts = @ + d]
             /\ UNCHANGED <<staged, abandoned>>
  <2>1. PICK d \in {0, 1} :
          /\ job' = [counted EXCEPT !.repeated = @ + 1, !.issues = @ + d, !.conflicts = @ + d]
          /\ UNCHANGED <<staged, abandoned>>
    BY <1>7
  <2>2. job' = [kind |-> job.kind, rows |-> job.rows, next |-> job.next + 1,
                complete |-> job.complete, seen |-> job.seen, unmapped |-> job.unmapped,
                issues |-> job.issues + d, conflicts |-> job.conflicts + d,
                repeated |-> job.repeated + 1]
    BY <1>1, <2>1 DEF JobIsSound, IsJob
  <2>3. /\ IsJob(job')
        /\ job'.kind = job.kind /\ job'.rows = job.rows /\ job'.seen = job.seen
        /\ job'.next = job.next + 1 /\ job'.unmapped = job.unmapped
        /\ job'.issues = job.issues + d /\ job'.conflicts = job.conflicts + d
        /\ job'.repeated = job.repeated + 1
    BY <2>2 DEF IsJob
  <2>4. {job'.unmapped, job'.issues, job'.conflicts, job'.repeated} \subseteq Nat
    BY <1>3, <2>1, <2>3
  <2>5. UNCHANGED <<staged, abandoned>>
    BY <2>1
  <2>6. job'.next - 1 = Cardinality(DOMAIN job.seen)
                        + (job'.unmapped + job'.issues - job'.conflicts) + job'.repeated
    BY <1>3, <2>1, <2>3
  <2> QED
    BY <1>4, <2>3, <2>4, <2>5, <2>6
<1>8. CASE /\ row.native \notin DOMAIN job.seen
           /\ staged' = staged \cup {artifact}
           /\ job' = [counted EXCEPT !.seen = Seen(row)]
           /\ UNCHANGED abandoned
  <2>1. PICK native, version, seen :
          native = row.native /\ version = row.version /\ seen = Seen(row)
    OBVIOUS
  <2>2. /\ DOMAIN seen = DOMAIN job.seen \cup {native} /\ native \notin DOMAIN job.seen
        /\ seen[native] = version /\ \A m \in DOMAIN job.seen : seen[m] = job.seen[m]
    BY <1>8, <2>1 DEF Seen
  <2>3. /\ artifact = [kind |-> job.kind, native |-> native, version |-> version]
        /\ job' = [counted EXCEPT !.seen = seen]
    BY <1>8, <2>1 DEF Artifact
  <2> HIDE DEF row, artifact
  <2>4. IsFiniteSet(DOMAIN seen) /\ Cardinality(DOMAIN seen) = Cardinality(DOMAIN job.seen) + 1
    BY <1>3, <2>2, FS_AddElement
  <2>5. /\ job'.seen = seen /\ job'.kind = job.kind /\ job'.rows = job.rows
        /\ job'.next = job.next + 1 /\ job'.unmapped = job.unmapped /\ job'.issues = job.issues
        /\ job'.conflicts = job.conflicts /\ job'.repeated = job.repeated
        /\ job'.complete = job.complete
        /\ job' = [kind |-> job.kind, rows |-> job.rows, next |-> job.next + 1,
                   complete |-> job.complete, seen |-> seen, unmapped |-> job.unmapped,
                   issues |-> job.issues, conflicts |-> job.conflicts, repeated |-> job.repeated]
    BY <1>1, <2>3 DEF JobIsSound, IsJob
  <2>6. Accepted(job)' = Accepted(job) \cup {artifact}
    BY <2>2, <2>3, <2>5 DEF Accepted
  <2>7. Accepted(job)' \subseteq staged'
    BY <1>1, <1>8, <2>6 DEF JobIsSound
  <2>8. JobIsSound(job)'
    BY <1>1, <1>2, <1>3, <2>4, <2>5, <2>7 DEF JobIsSound, IsJob
  <2>9. artifact.kind \in DOMAIN input.files
    BY <1>1, <2>3 DEF JobIsSound, IsJob
  <2>10. StagedIsKnown'
    <3>1. job' # NoJob
      BY <2>8, JobsAreThere DEF JobIsSound
    <3> QED
      BY <1>1, <1>8, <2>3, <2>5, <2>6, <2>9, <3>1 DEF IntakeInv, StagedIsKnown, AcceptedOf
  <2>11. AcceptedIsCurrent' /\ StagedRoutesStand' /\ PopulationsAreSound'
    BY <1>1, <1>8, CurrentStands, RoutesStand, PopulationsStand DEF IntakeInv
  <2> QED
    BY <1>1, <1>8, <2>8, <2>10, <2>11 DEF IntakeInv
<1>9. CASE /\ job' = NoJob /\ abandoned' = abandoned \cup Accepted(job) /\ UNCHANGED staged
  <2>1. StagedIsKnown'
    BY <1>1, <1>9 DEF IntakeInv, StagedIsKnown, AcceptedOf, JobIsSound
  <2>2. AcceptedIsCurrent' /\ StagedRoutesStand' /\ PopulationsAreSound'
    BY <1>1, <1>9, CurrentStands, RoutesStand, PopulationsStand DEF IntakeInv
  <2> QED
    BY <1>1, <1>9, <2>1, <2>2 DEF IntakeInv
<1> QED
  BY <1>5, <1>6, <1>7, <1>8, <1>9 DEF ImportRow, Repeats

\* An import that ends returns what it counted.
LEMMA FinishImportKeeps ==
  ASSUME IntakeInv, FinishImport
  PROVE  IntakeInv'
<1>1. /\ UNCHANGED <<input, confirmed, staged, committed, metadata, transcripts, health, abandoned>>
      /\ job # NoJob /\ job.next > Len(job.rows) /\ job' = NoJob /\ JobIsSound(job)
  BY DEF FinishImport, IntakeInv, tables
<1>2. PICK p : p = Population
  OBVIOUS
<1>3. PopulationIsSound(p, job.kind)
  <2>1. PICK n \in Nat : n = Len(job.rows)
    BY <1>1, BoundsAssumption DEF JobIsSound
  <2>2. /\ job.next = n + 1
        /\ Cardinality(DOMAIN job.seen) \in Nat
        /\ {job.unmapped, job.issues, job.conflicts, job.repeated} \subseteq Nat
        /\ job.next - 1 = Cardinality(DOMAIN job.seen) + (job.unmapped + job.issues - job.conflicts)
                          + job.repeated
    <3>1. job.next \in 1..(n + 1) /\ job.next > n
      BY <1>1, <2>1 DEF JobIsSound
    <3>2. job.next = n + 1
      BY <2>1, <3>1
    <3>3. Cardinality(DOMAIN job.seen) \in Nat
      BY <1>1, FS_CardinalityType DEF JobIsSound
    <3> QED
      BY <1>1, <3>2, <3>3 DEF JobIsSound
  <2>3. /\ p.accepted = Accepted(job) /\ p.parsed = n /\ p.duplicate = job.repeated
        /\ p.quarantined = job.unmapped + job.issues - job.conflicts
    BY <1>2, <2>1 DEF Population
  <2>4. /\ Cardinality(Accepted(job)) = Cardinality(DOMAIN job.seen)
        /\ \A a \in Accepted(job) : a.kind = job.kind
        /\ \A a, b \in Accepted(job) : a.native = b.native => a = b
    BY <1>1, AcceptedIsCounted DEF JobIsSound
  <2>5. Accepted(job) \subseteq staged
    BY <1>1 DEF JobIsSound
  <2> QED
    BY <2>2, <2>3, <2>4, <2>5 DEF PopulationIsSound
<1>4. /\ DOMAIN populations' = DOMAIN populations \cup {job.kind}
      /\ populations'[job.kind] = p
      /\ \A k \in DOMAIN populations \ {job.kind} : populations'[k] = populations[k]
  BY <1>2 DEF FinishImport
<1>5. PopulationsAreSound'
  <2>1. \A k \in DOMAIN populations \ {job.kind} : PopulationIsSound(populations[k], k)
    BY DEF IntakeInv, PopulationsAreSound
  <2>2. \A q, k : PopulationIsSound(q, k) => PopulationIsSound(q, k)'
    BY <1>1 DEF PopulationIsSound
  <2>3. ASSUME NEW k \in DOMAIN populations' PROVE PopulationIsSound(populations'[k], k)
    BY <1>3, <1>4, <2>1
  <2> QED
    BY <1>1, <2>3 DEF PopulationsAreSound, PopulationIsSound
<1>6. AcceptedOf(populations)' = AcceptedOf(populations) \cup Accepted(job)
  <2>1. job.kind \notin DOMAIN populations /\ p.accepted = Accepted(job)
    BY <1>1, <1>2 DEF JobIsSound, Population
  <2> QED
    BY <1>4, <2>1 DEF AcceptedOf
<1>7. StagedIsKnown'
  BY <1>1, <1>6 DEF IntakeInv, StagedIsKnown
<1>8. AcceptedIsCurrent' /\ StagedRoutesStand' /\ PopulationsAreSound'
  <2>1. AcceptedIsCurrent'
    BY <1>1 DEF IntakeInv, AcceptedIsCurrent
  <2> QED
    BY <1>1, <1>5, <2>1, RoutesStand DEF IntakeInv, PopulationsAreSound
<1> QED
  BY <1>1, <1>7, <1>8 DEF IntakeInv

-----------------------------------------------------------------------------
(***************************************************************************)
(* The rest of the driver's calls.                                         *)
(***************************************************************************)
\* A receipt is taken of what the driver has, when no import is under way.
LEMMA AssessDataHealthKeeps ==
  ASSUME IntakeInv, AssessDataHealth
  PROVE  IntakeInv'
<1>1. /\ UNCHANGED <<input, confirmed, staged, committed, metadata, job, populations, transcripts,
                     abandoned>>
      /\ job = NoJob
      /\ health' = [populations |-> populations,
                    accepted |-> Missing = {} /\ ConversationConflicts = {}]
  BY DEF AssessDataHealth, tables
<1>2. Missing' = Missing
  BY <1>1 DEF Missing
<1>3. AcceptedIsCurrent'
  BY <1>1, <1>2 DEF AcceptedIsCurrent
<1>4. StagedIsKnown'
  BY <1>1 DEF IntakeInv, StagedIsKnown, AcceptedOf
<1>5. StagedRoutesStand' /\ PopulationsAreSound' /\ IsInput(input)'
  BY <1>1, RoutesStand, PopulationsStand DEF IntakeInv
<1>6. (job # NoJob => JobIsSound(job))'
  BY <1>1
<1> QED
  BY <1>3, <1>4, <1>5, <1>6 DEF IntakeInv

\* Staged rows leave together, and what was counted in memory is forgotten.
LEMMA CommitOperationalKeeps ==
  ASSUME IntakeInv, CommitOperational
  PROVE  IntakeInv'
<1>1. /\ UNCHANGED <<input, confirmed, metadata, job>>
      /\ populations' = NoPopulations /\ transcripts' = None /\ health' = None
      /\ health # None /\ health.accepted
  BY DEF CommitOperational
<1>2. job = NoJob
  BY <1>1 DEF IntakeInv, AcceptedIsCurrent
<1>3. StagedIsKnown'
  <2>1. CASE committed' = committed \cup staged /\ staged' = {} /\ abandoned' = {}
    BY <1>1, <2>1 DEF IntakeInv, StagedIsKnown
  <2>2. CASE abandoned' = staged /\ UNCHANGED <<staged, committed>>
    BY <1>1, <2>2 DEF IntakeInv, StagedIsKnown
  <2> QED
    BY <2>1, <2>2 DEF CommitOperational
<1>4. PopulationsAreSound' /\ AcceptedIsCurrent'
  BY <1>1 DEF PopulationsAreSound, NoPopulations, AcceptedIsCurrent
<1>5. StagedRoutesStand'
  BY <1>1 DEF IntakeInv, StagedRoutesStand
<1>6. IsInput(input)' /\ (job # NoJob => JobIsSound(job))'
  BY <1>1, <1>2 DEF IntakeInv
<1> QED
  BY <1>3, <1>4, <1>5, <1>6 DEF IntakeInv

\* What is confirmed adds to what stands.
LEMMA ConfirmKeeps ==
  ASSUME IntakeInv, Confirm
  PROVE  IntakeInv'
<1>1. /\ UNCHANGED <<input, staged, committed, metadata, job, populations, transcripts, health,
                     abandoned>>
      /\ confirmed \subseteq confirmed'
  BY DEF Confirm, tables
<1>2. StagedRoutesStand'
  <2>1. Retained(input.routes, confirmed) \subseteq Retained(input.routes, confirmed')
    BY <1>1, ConfirmingRetains
  <2> QED
    BY <1>1, <2>1 DEF IntakeInv, StagedRoutesStand
<1>3. StagedIsKnown'
  BY <1>1 DEF IntakeInv, StagedIsKnown, AcceptedOf
<1>4. AcceptedIsCurrent' /\ PopulationsAreSound' /\ IsInput(input)'
  BY <1>1, CurrentStands, PopulationsStand DEF IntakeInv
<1>5. (job # NoJob => JobIsSound(job))'
  BY <1>1 DEF IntakeInv, JobIsSound
<1> QED
  BY <1>2, <1>3, <1>4, <1>5 DEF IntakeInv

\* The confirmations that staging used stand from then on.
LEMMA StageTranscriptsKeeps ==
  ASSUME IntakeInv, StageTranscripts
  PROVE  IntakeInv'
<1>1. /\ UNCHANGED <<input, confirmed, staged, committed, metadata, job, populations, health,
                     abandoned>>
      /\ transcripts' = StageTranscriptsInMemory(input.routes, confirmed)
      /\ job = NoJob
  BY DEF StageTranscripts, tables
<1>2. StagedRoutesStand'
  BY <1>1 DEF IntakeInv, StagedRoutesStand
<1>3. StagedIsKnown'
  BY <1>1 DEF IntakeInv, StagedIsKnown, AcceptedOf
<1>4. AcceptedIsCurrent' /\ PopulationsAreSound' /\ IsInput(input)'
  BY <1>1, CurrentStands, PopulationsStand DEF IntakeInv
<1>5. (job # NoJob => JobIsSound(job))'
  BY <1>1
<1> QED
  BY <1>2, <1>3, <1>4, <1>5 DEF IntakeInv

\* Only what is retained is stored.
LEMMA PersistKeeps ==
  ASSUME IntakeInv, NEW r, PersistConversationMetadata(r)
  PROVE  IntakeInv'
<1>1. /\ UNCHANGED <<input, confirmed, staged, committed, job, populations, transcripts, health,
                     abandoned>>
      /\ transcripts # None /\ r \in transcripts.retained
      /\ metadata' = metadata \cup {OriginId(r)}
  BY DEF PersistConversationMetadata
<1>2. r \in Retained(input.routes, confirmed)
  <2>1. PICK pairs \in SUBSET confirmed :
               transcripts = StageTranscriptsInMemory(input.routes, pairs)
    BY <1>1 DEF IntakeInv, StagedRoutesStand
  <2>2. r \in Retained(input.routes, pairs)
    BY <1>1, <2>1 DEF StageTranscriptsInMemory
  <2> QED
    BY <2>1, <2>2, ConfirmingRetains
<1>3. StagedRoutesStand'
  BY <1>1, <1>2 DEF IntakeInv, StagedRoutesStand
<1>4. StagedIsKnown'
  BY <1>1 DEF IntakeInv, StagedIsKnown, AcceptedOf
<1>5. AcceptedIsCurrent' /\ PopulationsAreSound' /\ IsInput(input)'
  BY <1>1, CurrentStands, PopulationsStand DEF IntakeInv
<1>6. (job # NoJob => JobIsSound(job))'
  BY <1>1 DEF IntakeInv, JobIsSound
<1> QED
  BY <1>3, <1>4, <1>5, <1>6 DEF IntakeInv

\* A driver that is gone leaves what it staged abandoned, a reset leaves nothing.
LEMMA DriverForgets ==
  ASSUME IntakeInv, ResetRun \/ DriverDies
  PROVE  IntakeInv'
<1>1. /\ UNCHANGED <<input, confirmed>>
      /\ populations' = NoPopulations /\ transcripts' = None /\ health' = None /\ job' = NoJob
  BY DEF ResetRun, DriverDies
<1>2. StagedIsKnown'
  <2>1. CASE staged' = {} /\ committed' = {} /\ abandoned' = {}
    BY <2>1 DEF StagedIsKnown
  <2>2. CASE abandoned' = staged /\ UNCHANGED <<staged, committed>>
    BY <1>1, <2>2 DEF IntakeInv, StagedIsKnown
  <2> QED
    BY <2>1, <2>2 DEF ResetRun, DriverDies, tables
<1>3. StagedRoutesStand'
  <2>1. metadata' \subseteq metadata
    BY DEF ResetRun, DriverDies, tables
  <2> QED
    BY <1>1, <2>1 DEF IntakeInv, StagedRoutesStand
<1>4. PopulationsAreSound' /\ AcceptedIsCurrent' /\ IsInput(input)'
  BY <1>1 DEF IntakeInv, PopulationsAreSound, NoPopulations, AcceptedIsCurrent
<1> QED
  BY <1>1, <1>2, <1>3, <1>4 DEF IntakeInv

\* A correction changes the files, and no kind goes away.
LEMMA CorrectKeeps ==
  ASSUME IntakeInv, Correct
  PROVE  IntakeInv'
<1>1. /\ UNCHANGED <<confirmed, staged, committed, metadata, job, populations, transcripts, health,
                     abandoned>>
      /\ job = NoJob
      /\ input' = [input EXCEPT !.files = input.corrected]
  BY DEF Correct, tables
<1>2. /\ DOMAIN input' = DOMAIN input /\ input'.files = input.corrected
      /\ input'.corrected = input.corrected /\ input'.lane = input.lane
      /\ input'.routes = input.routes
      /\ input'.completeConsultants = input.completeConsultants
  BY <1>1 DEF IntakeInv, IsInput
<1>3. IsInput(input)'
  BY <1>2 DEF IntakeInv, IsInput
<1>4. StagedIsKnown'
  BY <1>1, <1>2 DEF IntakeInv, IsInput, StagedIsKnown, AcceptedOf
<1>5. Missing' = Missing
  BY <1>1, <1>2 DEF Missing
<1>6. AcceptedIsCurrent'
  BY <1>1, <1>5 DEF IntakeInv, AcceptedIsCurrent
<1>7. StagedRoutesStand' /\ PopulationsAreSound'
  BY <1>1, <1>2, RoutesStand, PopulationsStand DEF IntakeInv
<1> QED
  BY <1>1, <1>3, <1>4, <1>6, <1>7 DEF IntakeInv

\* No call of the driver breaks the invariant.
LEMMA IntakeInvStep == IntakeInv /\ [IntakeNext]_intakeVars => IntakeInv'
<1> SUFFICES ASSUME IntakeInv, [IntakeNext]_intakeVars
             PROVE  IntakeInv'
  OBVIOUS
<1>1. ASSUME UNCHANGED intakeVars PROVE IntakeInv'
  <2>1. UNCHANGED <<input, confirmed, staged, committed, metadata, job, populations, transcripts,
                    health, abandoned>>
    BY <1>1 DEF intakeVars, tables
  <2>2. StagedIsKnown'
    BY <2>1 DEF IntakeInv, StagedIsKnown, AcceptedOf
  <2>3. /\ AcceptedIsCurrent' /\ StagedRoutesStand' /\ PopulationsAreSound' /\ IsInput(input)'
        /\ (job # NoJob => JobIsSound(job))'
    BY <2>1, CurrentStands, RoutesStand, PopulationsStand DEF IntakeInv, JobIsSound
  <2> QED
    BY <2>2, <2>3 DEF IntakeInv
<1> QED
  BY <1>1, StartImportKeeps, ImportRowKeeps, FinishImportKeeps, StageTranscriptsKeeps, ConfirmKeeps,
     PersistKeeps, AssessDataHealthKeeps, CommitOperationalKeeps, DriverForgets, CorrectKeeps
     DEF IntakeNext

\* The invariant holds throughout.
LEMMA IntakeInvHolds == IntakeSpec => []IntakeInv
BY IntakeInvInit, IntakeInvStep, PTL DEF IntakeSpec

-----------------------------------------------------------------------------
(***************************************************************************)
(* What the invariant gives.                                               *)
(***************************************************************************)
\* The files of a run are of known kinds.
LEMMA FilesAreOfKinds ==
  ASSUME IsInput(input)
  PROVE  DOMAIN input.files \subseteq Kinds
BY DEF IsInput

\* Types follow from the invariant.
LEMMA IntakeIsTyped ==
  ASSUME IntakeInv
  PROVE  IntakeTypeOK
<1>1. ASSUME job # NoJob
      PROVE  /\ job.kind \in Kinds /\ job.next \in 1..(MaxRows + 1)
             /\ Accepted(job) \subseteq staged
  <2>1. JobIsSound(job) /\ DOMAIN input.files \subseteq Kinds
    BY <1>1, FilesAreOfKinds DEF IntakeInv
  <2>2. job.kind \in Kinds /\ Accepted(job) \subseteq staged
    BY <2>1 DEF JobIsSound
  <2>3. PICK n : n = Len(job.rows)
    OBVIOUS
  <2>4. n \in 0..MaxRows /\ job.next \in 1..(n + 1)
    BY <2>1, <2>3 DEF JobIsSound
  <2>5. job.next \in 1..(MaxRows + 1)
    BY <2>4, BoundsAssumption
  <2> QED
    BY <2>2, <2>5
<1>2. AcceptedOf(populations) \subseteq staged
  BY DEF IntakeInv, PopulationsAreSound, PopulationIsSound, AcceptedOf
<1>3. abandoned \subseteq staged /\ \A a \in staged \cup committed : a.kind \in DOMAIN input.files
  BY DEF IntakeInv, StagedIsKnown
<1> QED
  BY <1>1, <1>2, <1>3 DEF IntakeTypeOK

(***************************************************************************)
(* Whatever a file brings, the parsed rows of an import are its accepted,  *)
(* quarantined and duplicate rows, and the accepted ones are staged, one   *)
(* for each native id.                                                     *)
(***************************************************************************)
THEOREM CountsStayReconciled == IntakeSpec => []CountsReconcile
<1>1. IntakeInv => CountsReconcile
  BY IntakeIsTyped DEF CountsReconcile, IntakeInv, PopulationsAreSound, PopulationIsSound
<1> QED
  BY <1>1, IntakeInvHolds, PTL

\* What a staging returned is settled, whichever pairs it was made with.
LEMMA StagedTranscriptsAreSettled ==
  ASSUME IntakeInv, transcripts # None
  PROVE  NoRouteIsLost(transcripts) /\ RetainedIsUndisputed(transcripts) /\ DuplicatesLeadToRetained(transcripts)
<1>1. PICK routes : routes = input.routes
  OBVIOUS
<1>2. AreRoutes(routes)
  BY <1>1 DEF IntakeInv, IsInput
<1>3. PICK pairs : transcripts = StageTranscriptsInMemory(routes, pairs)
  BY <1>1 DEF IntakeInv, StagedRoutesStand
<1>4. /\ transcripts.retained = Retained(routes, pairs)
      /\ transcripts.duplicates = Duplicates(routes, pairs)
      /\ transcripts.conflicts = Conflicts(routes, pairs)
  BY <1>3 DEF StageTranscriptsInMemory
<1>5. RouteIds(routes) \subseteq
        RouteIds(Retained(routes, pairs)) \cup {e.duplicate : e \in Duplicates(routes, pairs)}
          \cup UNION Conflicts(routes, pairs)
  BY <1>2, EveryRouteIsTold DEF RouteIds
<1>6. UNION Conflicts(routes, pairs) \subseteq RouteIds(routes)
  <2> SUFFICES ASSUME NEW c \in Conflicts(routes, pairs)
               PROVE  c \subseteq RouteIds(routes)
    OBVIOUS
  <2>1. \E r, s \in routes : c = {r.id, s.id}
    <3>1. CASE \E r, s \in routes : c = {r.id, s.id} /\ ~OriginAgrees(routes, r) /\ r.origin = s.origin
      BY <3>1
    <3>2. CASE \E w \in Selected(routes) : \E r \in SameContent(routes, w) \ {w} :
                 /\ c = {r.id, w.id} /\ ~Confirmed(pairs, r, w)
                 /\ w = Authoritative(SameContent(routes, w))
      BY <3>2 DEF SameContent, Selected
    <3> QED
      BY <1>2, <3>1, <3>2, OnlyRoutesAreTold
  <2> QED
    BY <2>1 DEF RouteIds
<1>7. /\ RouteIds(Retained(routes, pairs)) \subseteq RouteIds(routes)
      /\ {e.duplicate : e \in Duplicates(routes, pairs)} \subseteq RouteIds(routes)
  BY <1>2, OnlyRoutesAreTold DEF RouteIds
<1>8. NoRouteIsLost(transcripts)
  BY <1>1, <1>4, <1>5, <1>6, <1>7 DEF NoRouteIsLost
<1>9. RetainedIsUndisputed(transcripts)
  <2>1. \A r \in Retained(routes, pairs) :
          /\ \A c \in Conflicts(routes, pairs) : r.id \notin c
          /\ \A s \in Retained(routes, pairs) : s.content = r.content => s = r
    BY <1>2, RetainedRoutesAreSettled
  <2>2. RouteIds(Retained(routes, pairs)) \cap UNION Conflicts(routes, pairs) = {}
    BY <2>1 DEF RouteIds
  <2>3. \A r, s \in Retained(routes, pairs) : r.content = s.content => r = s
    BY <2>1
  <2>4. PICK kept, disputed : /\ kept = Retained(routes, pairs)
                              /\ disputed = UNION Conflicts(routes, pairs)
    OBVIOUS
  <2>5. RouteIds(kept) \cap disputed = {} /\ \A r, s \in kept : r.content = s.content => r = s
    BY <2>2, <2>3, <2>4
  <2>6. transcripts.retained = kept /\ UNION transcripts.conflicts = disputed
    BY <1>4, <2>4
  <2> QED
    BY <2>5, <2>6 DEF RetainedIsUndisputed
<1>10. DuplicatesLeadToRetained(transcripts)
  <2>1. Conflicts(routes, pairs) = {} =>
          \A r \in routes : \E s \in Retained(routes, pairs) : s.content = r.content
    BY <1>2, ContentsAreRetained
  <2> QED
    BY <1>1, <1>4, <2>1 DEF DuplicatesLeadToRetained
<1> QED
  BY <1>8, <1>9, <1>10

(***************************************************************************)
(* No route gets lost, no content is retained twice or while it is         *)
(* disputed, without conflicts every content is retained, and stored       *)
(* metadata stays that of a retained route as confirmations are added.     *)
(***************************************************************************)
THEOREM StagingStaysSettled == IntakeSpec => []StagingIsSettled
<1>1. IntakeInv => StagingIsSettled
  BY StagedTranscriptsAreSettled DEF StagingIsSettled, IntakeInv, StagedRoutesStand
<1> QED
  BY <1>1, IntakeInvHolds, PTL

(***************************************************************************)
(* A commit publishes all that its receipt counts, a deal among it, and    *)
(* beyond that only leftovers of imports whose outcome was lost; two       *)
(* versions of one record appear together only by such a leftover.         *)
(***************************************************************************)
THEOREM CommitsPublishTheirCounts == IntakeSpec => CommitPublishesCounts
<1> DEFINE Publishes ==
             committed' \ committed # {} =>
               LET published == committed' \ committed
                   counted == AcceptedOf(health.populations)
               IN /\ counted \subseteq published /\ published \ counted \subseteq abandoned
                  /\ \E a \in counted : a.kind = Deal
                  /\ \A a, b \in published :
                       a # b /\ a.kind = b.kind /\ a.native = b.native => {a, b} \cap abandoned # {}
<1>1. IntakeInv /\ [IntakeNext]_intakeVars => Publishes
  <2> SUFFICES ASSUME IntakeInv, [IntakeNext]_intakeVars, committed' \ committed # {}
               PROVE  Publishes
    OBVIOUS
  <2>1. CommitOperational
    <3>1. CASE UNCHANGED intakeVars
      BY <3>1 DEF intakeVars, tables
    <3>2. ASSUME NEW kind \in Kinds, StartImport(kind) PROVE FALSE
      BY <3>2 DEF StartImport, tables
    <3>3. ASSUME NEW r \in input.routes, PersistConversationMetadata(r) PROVE FALSE
      BY <3>3 DEF PersistConversationMetadata
    <3>4. ASSUME ImportRow \/ FinishImport \/ StageTranscripts \/ Confirm PROVE FALSE
      BY <3>4 DEF ImportRow, FinishImport, StageTranscripts, Confirm, tables
    <3>5. ASSUME AssessDataHealth \/ ResetRun \/ DriverDies \/ Correct PROVE FALSE
      BY <3>5 DEF AssessDataHealth, ResetRun, DriverDies, Correct, tables
    <3> QED
      BY <3>1, <3>2, <3>3, <3>4, <3>5 DEF IntakeNext
  <2>2. /\ staged \cap committed = {} /\ committed' = committed \cup staged
        /\ health # None /\ health.accepted
    BY <2>1 DEF CommitOperational
  <2>3. job = NoJob /\ health.populations = populations /\ Missing = {}
    BY <2>2 DEF IntakeInv, AcceptedIsCurrent
  <2>4. PICK published : published = committed' \ committed
    OBVIOUS
  <2>5. PICK counted : counted = AcceptedOf(populations)
    OBVIOUS
  <2>6. published = staged
    BY <2>2, <2>4
  <2>7. counted \subseteq published
    BY <2>5, <2>6, IntakeIsTyped DEF IntakeTypeOK
  <2>8. published \ counted \subseteq abandoned
    BY <2>3, <2>5, <2>6 DEF IntakeInv, StagedIsKnown
  <2>9. \E a \in counted : a.kind = Deal
    <3>1. Deal \in RequiredPopulationsByLane[input.lane]
      BY DEF IntakeInv, IsInput, RequiredPopulationsByLane, Kinds
    <3>2. Deal \in DOMAIN populations /\ populations[Deal].accepted # {}
      BY <2>3, <3>1 DEF Missing
    <3> QED
      BY <2>5, <3>2 DEF AcceptedOf, IntakeInv, PopulationsAreSound, PopulationIsSound
  <2>10. ASSUME NEW a \in published, NEW b \in published, a # b, a.kind = b.kind, a.native = b.native
         PROVE  {a, b} \cap abandoned # {}
    <3> SUFFICES ASSUME a \notin abandoned, b \notin abandoned
                 PROVE  FALSE
      OBVIOUS
    <3>1. PICK k \in DOMAIN populations : a \in populations[k].accepted
      BY <2>5, <2>8 DEF AcceptedOf
    <3>2. PICK l \in DOMAIN populations : b \in populations[l].accepted
      BY <2>5, <2>8 DEF AcceptedOf
    <3>3. a.kind = k /\ b.kind = l
      BY <3>1, <3>2 DEF IntakeInv, PopulationsAreSound, PopulationIsSound
    <3> QED
      BY <2>10, <3>1, <3>2, <3>3 DEF IntakeInv, PopulationsAreSound, PopulationIsSound
  <2>11. counted = AcceptedOf(health.populations)
    BY <2>3, <2>5
  <2> QED
    BY <2>4, <2>7, <2>8, <2>9, <2>10, <2>11
<1>2. IntakeSpec => [][Publishes]_intakeVars
  BY <1>1, IntakeInvHolds, PTL DEF IntakeSpec
<1> QED
  BY <1>2 DEF CommitPublishesCounts

=============================================================================
