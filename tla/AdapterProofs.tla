---------------------------- MODULE AdapterProofs ----------------------------
(***************************************************************************)
(* For any records, runs, windows, lag of the feed and length of a second: *)
(* what is stored of deletions agrees with the feed, and a refused receipt *)
(* leaves nothing undone.  For any limits, delays and cursors: what a      *)
(* session of an adapter sends a vendor is bounded over every window, and  *)
(* the refusals of its limiter end.                                        *)
(***************************************************************************)
EXTENDS Deletions, ConnectorSession, FiniteSetTheorems, SequenceTheorems, TLAPS

-----------------------------------------------------------------------------
(***************************************************************************)
(* The inductive invariant.  The clock and the feed:                       *)
(***************************************************************************)
VendorType ==
  /\ now \in Times /\ oldest \in Times
  /\ deletedAt \in [Records -> Times \cup {Live}]

\* `x` was deleted, and still is, in the whole seconds of the window
DeletedWithin(x, begin, end) == deletedAt[x] \in begin..(Second(end) - 1)

\* The driver holds at most one receipt.  A complete one has a window that is
\* over, so that nothing is deleted within it any more, and lists what was.
HeldIsComplete(h) ==
  h.complete =>
    /\ h.end <= now
    /\ \A x \in Records : DeletedWithin(x, h.begin, h.end) => x \in Ids(h)

HeldType ==
  /\ held = {} \/ \E h : held = {h}
  /\ \A h \in held : h.begin \in Nat /\ h.end \in Nat

\* A receipt lists what its id was made of, and each record it lists has a
\* tombstone of its run.
ReceiptType ==
  \A r \in receipts :
    /\ r.begin \in Nat /\ r.end \in Nat
    /\ r.ids = {row[1] : row \in r.id[3]}

ListedAreTombstoned ==
  \A r \in receipts : \A x \in r.ids : \E t \in tombstones : t.run = r.run /\ t.record = x

ConfirmedIsOver ==
  \A r \in receipts : r.state = "DELETIONS_CONFIRMED" => r.end <= now

Bounded == IsFiniteSet(receipts) /\ Cardinality(receipts) <= MaxReceipts

ReceiptsAreDistinct == \A r, s \in receipts : r.id = s.id => r = s

TombstonesAreDistinct ==
  \A t, u \in tombstones : t.run = u.run /\ t.record = u.record => t = u

IInv ==
  /\ VendorType /\ HeldType /\ (\A h \in held : HeldIsComplete(h))
  /\ ReceiptType /\ Bounded /\ ReceiptsAreDistinct /\ TombstonesAreDistinct
  /\ ListedAreTombstoned /\ TombstonesAreExplained
  /\ ConfirmedIsOver /\ ConfirmedMeansAll

-----------------------------------------------------------------------------
\* A request starts and ends no later than the window it is made for.
LEMMA SecondIsBegun ==
  ASSUME NEW t \in Nat
  PROVE  Second(t) \in Int /\ Second(t) <= t
BY SecondsAssumption DEF Second

\* What a step of the clock or of the vendor may do to the receipts: nothing
\* is deleted before the present, and what is restored is not deleted.
LEMMA VendorStep ==
  ASSUME VendorType, VendorType', now <= now',
         \A x \in Records : deletedAt'[x] \in {deletedAt[x], Live, now},
         NEW x \in Records, NEW begin \in Nat, NEW end \in Nat, end <= now,
         DeletedWithin(x, begin, end)'
  PROVE  DeletedWithin(x, begin, end)
<1>1. Second(end) \in Int /\ Second(end) <= end
  BY SecondIsBegun
<1>2. Second(end)' = Second(end)
  BY DEF Second
<1>3. deletedAt'[x] # Live /\ deletedAt'[x] # now
  BY <1>1, <1>2 DEF DeletedWithin, Live, VendorType, Times
<1>. QED  BY <1>2, <1>3 DEF DeletedWithin

-----------------------------------------------------------------------------
\* Before anything is read or stored.
LEMMA IInvInit == Init => IInv
<1>. SUFFICES ASSUME Init  PROVE IInv
  OBVIOUS
<1>1. IsFiniteSet(receipts) /\ Cardinality(receipts) = 0
  BY FS_EmptySet DEF Init
<1>2. Bounded
  BY <1>1, BoundsAssumption DEF Bounded
<1>3. VendorType
  BY BoundsAssumption DEF Init, VendorType, Times
<1>. QED
  BY <1>2, <1>3 DEF Init, IInv, HeldType, ReceiptType, ReceiptsAreDistinct,
     TombstonesAreDistinct, ListedAreTombstoned, TombstonesAreExplained,
     ConfirmedIsOver, ConfirmedMeansAll

\* Steps that leave the tables and the driver alone.
LEMMA QuietStep ==
  ASSUME IInv, UNCHANGED <<held, stored>>, VendorType', now <= now',
         \A x \in Records : deletedAt'[x] \in {deletedAt[x], Live, now}
  PROVE  IInv'
<1>. USE DEF stored
<1>1. HeldType' /\ ReceiptType' /\ Bounded' /\ ReceiptsAreDistinct' /\ TombstonesAreDistinct'
      /\ ListedAreTombstoned' /\ TombstonesAreExplained'
  BY DEF IInv, HeldType, ReceiptType, Bounded, ReceiptsAreDistinct, TombstonesAreDistinct,
     ListedAreTombstoned, TombstonesAreExplained
<1>2. now \in Int /\ now' \in Int
  BY DEF IInv, VendorType, Times
<1>3. ConfirmedIsOver'
  BY <1>2 DEF IInv, ConfirmedIsOver, ReceiptType
<1>4. ASSUME NEW h \in held, h.complete  PROVE HeldIsComplete(h)'
  <2>1. h.begin \in Nat /\ h.end \in Nat /\ h.end <= now
    BY <1>4 DEF IInv, HeldType, HeldIsComplete
  <2>2. h.end <= now'
    BY <2>1, <1>2
  <2>3. ASSUME NEW x \in Records, DeletedWithin(x, h.begin, h.end)'  PROVE x \in Ids(h)
    <3>1. DeletedWithin(x, h.begin, h.end)
      BY <2>1, <2>3, VendorStep DEF IInv
    <3>. QED  BY <3>1, <1>4 DEF IInv, HeldIsComplete
  <2>. QED  BY <2>2, <2>3 DEF HeldIsComplete, Ids
<1>5. ASSUME NEW r \in receipts, r.state = "DELETIONS_CONFIRMED",
             NEW x \in Records, DeletedWithin(x, r.begin, r.end)'
      PROVE  \E t \in tombstones : t.run = r.run /\ t.record = x
  <2>1. r.begin \in Nat /\ r.end \in Nat /\ r.end <= now
    BY <1>5 DEF IInv, ReceiptType, ConfirmedIsOver
  <2>2. DeletedWithin(x, r.begin, r.end)
    BY <2>1, <1>5, VendorStep DEF IInv
  <2>. QED  BY <2>2, <1>5 DEF IInv, ConfirmedMeansAll, DeletedWithin
<1>6. ConfirmedMeansAll'
  BY <1>5 DEF ConfirmedMeansAll, DeletedWithin
<1>7. \A h \in held' : HeldIsComplete(h)'
  BY <1>4 DEF HeldIsComplete
<1>. QED  BY <1>1, <1>3, <1>6, <1>7 DEF IInv

\* A receipt that is complete lists all of its window.
LEMMA ReadStep ==
  ASSUME IInv, NEW run \in Runs, NEW w \in Windows, NEW expected \in BOOLEAN,
         GetDeletionReceipt(run, w[1], w[2], expected)
  PROVE  IInv'
<1>. DEFINE begin == w[1]
            end == w[2]
<1>1. begin \in Nat /\ end \in Nat
  BY WindowsAssumption
<1>. DEFINE Replied(covered, dates) ==
              [run |-> run, begin |-> begin, end |-> end,
               deleted |-> Feed(Second(begin), Second(end), covered), dates |-> dates,
               complete |-> expected /\ CoverageComplete(begin, end, dates[1], dates[2])]
<1>2. PICK covered \in {t \in Times : t <= now /\ now - t <= Lag} :
        \E dates \in {<<oldest, covered>>, <<Unsaid, Unsaid>>} : held' = {Replied(covered, dates)}
  BY DEF GetDeletionReceipt
<1>3. PICK dates \in {<<oldest, covered>>, <<Unsaid, Unsaid>>} : held' = {Replied(covered, dates)}
  BY <1>2
<1>4. PICK h : held' = {h} /\ h = Replied(covered, dates)
  BY <1>3
<1>5. /\ h.begin = begin /\ h.end = end
      /\ h.deleted = Feed(Second(begin), Second(end), covered)
      /\ h.complete => CoverageComplete(begin, end, dates[1], dates[2])
  BY <1>4
<1>6. UNCHANGED <<now, oldest, deletedAt, runs, receipts, tombstones>>
  BY DEF GetDeletionReceipt, vendor, stored
<1>7. now \in Nat /\ oldest \in Nat /\ covered \in Nat /\ covered <= now
  BY DEF IInv, VendorType, Times
<1>. HIDE DEF begin, end, Replied
<1>8. ASSUME h.complete  PROVE HeldIsComplete(h)
  <2>1. dates = <<oldest, covered>>
    BY <1>5, <1>8 DEF CoverageComplete
  <2>2. oldest <= begin /\ end <= covered
    BY <1>1, <1>5, <1>7, <1>8, <2>1 DEF CoverageComplete
  <2>3. Second(begin) \in Int /\ Second(begin) <= begin /\ Second(end) \in Int /\ Second(end) <= end
    BY <1>1, SecondIsBegun
  <2>4. ASSUME NEW x \in Records, DeletedWithin(x, begin, end)
        PROVE  <<x, deletedAt[x]>> \in h.deleted
    <3>1. deletedAt[x] \in Int /\ begin <= deletedAt[x] /\ deletedAt[x] <= Second(end) - 1
      BY <1>1, <2>3, <2>4 DEF DeletedWithin
    <3>2. deletedAt[x] \in Second(begin)..(Second(end) - 1)
      BY <1>1, <2>3, <3>1
    <3>3. deletedAt[x] \in oldest..(covered - 1)
      BY <1>1, <1>7, <2>2, <2>3, <3>1
    <3>. QED  BY <1>5, <3>2, <3>3 DEF Feed
  <2>5. ASSUME NEW x \in Records, DeletedWithin(x, begin, end)  PROVE x \in Ids(h)
    <3>1. <<x, deletedAt[x]>>[1] = x
      OBVIOUS
    <3>. QED  BY <2>4, <2>5, <3>1 DEF Ids
  <2>. QED  BY <1>1, <1>5, <1>7, <2>2, <2>5 DEF HeldIsComplete
<1>9. HeldIsComplete(h)'
  BY <1>6, <1>8 DEF HeldIsComplete, DeletedWithin, Second, Ids
<1>10. HeldType' /\ \A g \in held' : HeldIsComplete(g)'
  BY <1>1, <1>4, <1>5, <1>9 DEF HeldType
<1>11. VendorType' /\ ReceiptType' /\ Bounded' /\ ReceiptsAreDistinct' /\ TombstonesAreDistinct'
      /\ ListedAreTombstoned' /\ TombstonesAreExplained' /\ ConfirmedIsOver' /\ ConfirmedMeansAll'
  BY <1>6 DEF IInv, VendorType, ReceiptType, Bounded, ReceiptsAreDistinct, TombstonesAreDistinct,
     ListedAreTombstoned, TombstonesAreExplained, ConfirmedIsOver, ConfirmedMeansAll, Second
<1>. QED  BY <1>10, <1>11 DEF IInv

\* The receipt and its tombstones are stored together.
LEMMA PersistStep ==
  ASSUME IInv, NEW h \in held, PersistDeletionReceipt(h)
  PROVE  IInv'
<1>1. UNCHANGED <<now, oldest, deletedAt, held, runs>>
  BY DEF PersistDeletionReceipt, vendor
<1>2. VendorType' /\ HeldType' /\ \A g \in held' : HeldIsComplete(g)'
  BY <1>1 DEF IInv, VendorType, HeldType, HeldIsComplete, DeletedWithin, Second, Ids
<1>3. CASE UNCHANGED <<receipts, tombstones>>
  BY <1>1, <1>2, <1>3 DEF IInv, ReceiptType, Bounded, ReceiptsAreDistinct, TombstonesAreDistinct,
     ListedAreTombstoned, TombstonesAreExplained, ConfirmedIsOver, ConfirmedMeansAll, Second
<1>4. CASE h.run \in runs /\ \A r \in receipts : r.id # ReceiptId(h)
  <2>. DEFINE Untold == {y \in Ids(h) : \A t \in tombstones : t.run = h.run => t.record # y}
              Stone(x) == [run |-> h.run, record |-> x, receipt |-> ReceiptId(h)]
  <2>1. /\ Cardinality(receipts) < MaxReceipts
        /\ receipts' = receipts \cup {Row(h)}
        /\ tombstones' = tombstones \cup {Stone(x) : x \in Untold}
    BY <1>4 DEF PersistDeletionReceipt
  <2>2. /\ Row(h).id = ReceiptId(h) /\ Row(h).run = h.run /\ Row(h).ids = Ids(h)
        /\ Row(h).begin = h.begin /\ Row(h).end = h.end
        /\ Row(h).state = "DELETIONS_CONFIRMED" => h.complete
    BY DEF Row
  <2>3. h.begin \in Nat /\ h.end \in Nat
    BY DEF IInv, HeldType
  <2>4. ReceiptId(h)[3] = h.deleted
    BY DEF ReceiptId
  <2>5. ReceiptType'
    BY <2>1, <2>2, <2>3, <2>4 DEF IInv, ReceiptType, Ids
  <2>6. Bounded'
    <3>1. Row(h) \notin receipts
      BY <1>4, <2>2
    <3>2. IsFiniteSet(receipts') /\ Cardinality(receipts') = Cardinality(receipts) + 1
      BY <2>1, <3>1, FS_AddElement DEF IInv, Bounded
    <3>3. Cardinality(receipts) \in Nat /\ MaxReceipts \in Nat
      BY FS_CardinalityType, BoundsAssumption DEF IInv, Bounded
    <3>. QED  BY <2>1, <3>2, <3>3 DEF Bounded
  <2>7. ReceiptsAreDistinct'
    BY <1>4, <2>1, <2>2 DEF IInv, ReceiptsAreDistinct
  <2>8. TombstonesAreDistinct'
    BY <2>1 DEF IInv, TombstonesAreDistinct
  <2>9. \A x \in Ids(h) : \E t \in tombstones' : t.run = h.run /\ t.record = x
    <3>. SUFFICES ASSUME NEW x \in Ids(h)
                  PROVE  \E t \in tombstones' : t.run = h.run /\ t.record = x
      OBVIOUS
    <3>1. CASE x \in Untold
      <4>1. Stone(x) \in tombstones' /\ Stone(x).run = h.run /\ Stone(x).record = x
        BY <2>1, <3>1
      <4>. QED  BY <4>1
    <3>2. CASE x \notin Untold
      BY <2>1, <3>2
    <3>. QED  BY <3>1, <3>2
  <2>10. ListedAreTombstoned'
    BY <2>1, <2>2, <2>9 DEF IInv, ListedAreTombstoned
  <2>11. TombstonesAreExplained'
    <3>. SUFFICES ASSUME NEW t \in tombstones'
                  PROVE  \E r \in receipts' : r.id = t.receipt /\ r.run = t.run /\ t.record \in r.ids
      BY DEF TombstonesAreExplained
    <3>1. CASE t \in tombstones
      BY <2>1, <3>1 DEF IInv, TombstonesAreExplained
    <3>2. CASE \E x \in Untold : t = Stone(x)
      BY <2>1, <2>2, <3>2
    <3>. QED  BY <2>1, <3>1, <3>2
  <2>12. h.complete => h.end <= now /\ \A x \in Records : DeletedWithin(x, h.begin, h.end) => x \in Ids(h)
    BY DEF IInv, HeldIsComplete
  <2>13. ConfirmedIsOver'
    BY <1>1, <2>1, <2>2, <2>12 DEF IInv, ConfirmedIsOver
  <2>14. ConfirmedMeansAll'
    <3>. SUFFICES ASSUME NEW r \in receipts', r.state = "DELETIONS_CONFIRMED", NEW x \in Records,
                         DeletedWithin(x, r.begin, r.end)
                  PROVE  \E t \in tombstones' : t.run = r.run /\ t.record = x
      BY <1>1 DEF ConfirmedMeansAll, DeletedWithin, Second
    <3>1. CASE r \in receipts
      BY <2>1, <3>1 DEF IInv, ConfirmedMeansAll, DeletedWithin
    <3>2. CASE r = Row(h)
      BY <2>2, <2>9, <2>12, <3>2
    <3>. QED  BY <2>1, <3>1, <3>2
  <2>. QED
    BY <1>2, <2>5, <2>6, <2>7, <2>8, <2>10, <2>11, <2>13, <2>14 DEF IInv
<1>. QED  BY <1>3, <1>4 DEF PersistDeletionReceipt

\* A purged run takes its receipts and its tombstones along, and no others.
LEMMA ResetStep ==
  ASSUME IInv, NEW run \in Runs, ResetRun(run)
  PROVE  IInv'
<1>1. /\ UNCHANGED <<now, oldest, deletedAt, held>>
      /\ receipts' = {r \in receipts : r.run # run}
      /\ tombstones' = {t \in tombstones : t.run # run}
  BY DEF ResetRun, vendor
<1>2. VendorType' /\ HeldType' /\ \A g \in held' : HeldIsComplete(g)'
  BY <1>1 DEF IInv, VendorType, HeldType, HeldIsComplete, DeletedWithin, Second, Ids
<1>3. Bounded'
  <2>1. IsFiniteSet(receipts') /\ Cardinality(receipts') <= Cardinality(receipts)
    BY <1>1, FS_Subset DEF IInv, Bounded
  <2>2. Cardinality(receipts) \in Nat /\ Cardinality(receipts') \in Nat /\ MaxReceipts \in Nat
    BY <2>1, FS_CardinalityType, BoundsAssumption DEF IInv, Bounded
  <2>. QED  BY <2>1, <2>2 DEF IInv, Bounded
<1>4. ReceiptType' /\ ReceiptsAreDistinct' /\ TombstonesAreDistinct' /\ ConfirmedIsOver'
  BY <1>1 DEF IInv, ReceiptType, ReceiptsAreDistinct, TombstonesAreDistinct, ConfirmedIsOver
<1>5. ListedAreTombstoned'
  BY <1>1 DEF IInv, ListedAreTombstoned
<1>6. TombstonesAreExplained'
  BY <1>1 DEF IInv, TombstonesAreExplained
<1>7. ConfirmedMeansAll'
  BY <1>1 DEF IInv, ConfirmedMeansAll, Second
<1>. QED  BY <1>2, <1>3, <1>4, <1>5, <1>6, <1>7 DEF IInv

\* Inductive step of the invariant.
LEMMA IInvStep == IInv /\ [Next]_vars => IInv'
<1>. SUFFICES ASSUME IInv, [Next]_vars  PROVE IInv'
  OBVIOUS
<1>. USE DEF vendor, stored
<1>0. now \in Nat /\ oldest \in Nat /\ now <= MaxTime /\ MaxTime \in Nat
  BY BoundsAssumption DEF IInv, VendorType, Times
<1>1. CASE Tick
  <2>1. VendorType'
    BY <1>0, <1>1 DEF Tick, IInv, VendorType, Times
  <2>. QED  BY <1>0, <1>1, <2>1, QuietStep DEF Tick
<1>2. CASE Forget
  <2>1. VendorType'
    BY <1>0, <1>2 DEF Forget, IInv, VendorType, Times
  <2>. QED  BY <1>0, <1>2, <2>1, QuietStep DEF Forget
<1>3. ASSUME NEW x \in Records, Delete(x) \/ Restore(x)  PROVE IInv'
  <2>1. VendorType' /\ \A y \in Records : deletedAt'[y] \in {deletedAt[y], Live, now}
    BY <1>3 DEF Delete, Restore, IInv, VendorType
  <2>2. UNCHANGED <<now, held, stored>>
    BY <1>3 DEF Delete, Restore
  <2>. QED  BY <1>0, <2>1, <2>2, QuietStep
<1>4. CASE \E run \in Runs, w \in Windows, expected \in BOOLEAN :
             GetDeletionReceipt(run, w[1], w[2], expected)
  BY <1>4, ReadStep
<1>5. CASE \E h \in held : PersistDeletionReceipt(h)
  BY <1>5, PersistStep
<1>6. CASE Drop
  BY <1>6 DEF Drop, IInv, VendorType, HeldType, ReceiptType, Bounded, ReceiptsAreDistinct,
     TombstonesAreDistinct, ListedAreTombstoned, TombstonesAreExplained, ConfirmedIsOver,
     ConfirmedMeansAll, Second
<1>7. CASE \E run \in Runs : ResetRun(run)
  BY <1>7, ResetStep
<1>8. CASE UNCHANGED vars
  BY <1>8 DEF vars, IInv, VendorType, HeldType, HeldIsComplete, DeletedWithin, Ids, ReceiptType,
     Bounded, ReceiptsAreDistinct, TombstonesAreDistinct, ListedAreTombstoned,
     TombstonesAreExplained, ConfirmedIsOver, ConfirmedMeansAll, Second
<1>. QED  BY <1>1, <1>2, <1>3, <1>4, <1>5, <1>6, <1>7, <1>8 DEF Next

\* The invariant holds in every reachable state.
LEMMA IInvAlways == Spec => []IInv
BY IInvInit, IInvStep, PTL DEF Spec

-----------------------------------------------------------------------------
\* The invariant is what is wanted and more.
LEMMA IInvImplies == IInv => DeletionsAreAccountedFor
<1>. SUFFICES ASSUME IInv  PROVE DeletionsAreAccountedFor
  OBVIOUS
<1>1. Cardinality(held) <= 1
  <2>1. CASE held = {}
    BY <2>1, FS_EmptySet
  <2>2. CASE \E h : held = {h}
    <3>1. PICK h : held = {h}
      BY <2>2
    <3>2. Cardinality({h}) = 1
      BY FS_Singleton
    <3>. QED  BY <3>1, <3>2
  <2>. QED  BY <2>1, <2>2 DEF IInv, HeldType
<1>. QED
  BY <1>1 DEF IInv, VendorType, Bounded, ReceiptsAreDistinct, TombstonesAreDistinct,
     DeletionsAreAccountedFor, TypeOK

\* A confirmed receipt has missed nothing of its whole seconds, and a tombstone
\* stands beside the receipt of its run that explains it.
THEOREM DeletionsStayAccountedFor == Spec => []DeletionsAreAccountedFor
BY IInvAlways, IInvImplies, PTL

\* get_deletion_receipt, persist_deletion_receipt and reset_run: a receipt that
\* is refused leaves nothing undone, unless another run has stored the answer.
THEOREM RetriesLoseNothing == Spec => RefusalsLoseNothing
<1>1. ASSUME IInv, [Next]_vars, vars' # vars, NEW h \in held, outcome' = "RAISED", h.run \in runs
      PROVE  \/ \A x \in Ids(h) : \E t \in tombstones : t.run = h.run /\ t.record = x
             \/ \E r \in receipts : r.id = ReceiptId(h) /\ r.run # h.run
  <2>1. PICK g \in held : PersistDeletionReceipt(g)
    BY <1>1 DEF Next, Tick, Forget, Delete, Restore, GetDeletionReceipt, Drop, ResetRun
  <2>2. g = h
    BY <1>1 DEF IInv, HeldType
  <2>3. PICK r \in receipts : r.id = ReceiptId(h)
    BY <1>1, <2>1, <2>2 DEF PersistDeletionReceipt
  <2>4. r.ids = Ids(h)
    <3>1. r.id[3] = h.deleted
      BY <2>3 DEF ReceiptId
    <3>. QED  BY <1>1, <3>1 DEF IInv, ReceiptType, Ids
  <2>. QED  BY <1>1, <2>3, <2>4 DEF IInv, ListedAreTombstoned
<1>. DEFINE Fine ==
       \A h \in held : outcome' = "RAISED" /\ h.run \in runs =>
         \/ \A x \in Ids(h) : \E t \in tombstones : t.run = h.run /\ t.record = x
         \/ \E r \in receipts : r.id = ReceiptId(h) /\ r.run # h.run
<1>2. IInv /\ [Next]_vars => [Fine]_vars
  BY <1>1
<1>. QED  BY <1>2, IInvAlways, PTL DEF Spec, RefusalsLoseNothing

-----------------------------------------------------------------------------
(***************************************************************************)
(* Session of an adapter.  A deque of a limiter follows a history if for   *)
(* every age the youngest entries, as many as the history says, are those  *)
(* of that age or less: entries are in the order of their age, and none    *)
(* that is still in a window was dropped or counted twice.                 *)
(***************************************************************************)
Follows(ages, h) ==
  \A k \in Ages :
    /\ h[k] \in 0..Len(ages)
    /\ \A i \in 1..Len(ages) : ages[i] <= k <=> i > Len(ages) - h[k]

LimitersFollow ==
  /\ Follows(window, granted) /\ Follows(heavy, grantedHeavy)
  /\ \A k \in Ages : grantedHeavy[k] <= granted[k]
  /\ grantedToday = DayCount /\ (dayIsOver => adapter = "GONG")

\* Within any number of ticks a grant has four requests, the call in progress those it
\* had so far, and a call that began before at most three.
RequestsOf(attempt) == IF attempt = 0 THEN 3 ELSE attempt - 1

RequestsFollow ==
  \A k \in Ages : /\ sent[k] <= 4 * granted[k] + RequestsOf(call.attempt)
                  /\ adapter = "SALESFORCE" => sent[k] = 0

\* A call that may be sent again has attempts left, one that may fail has tries left.
CallIsUnderway ==
  /\ call.phase = "SLEEPING" => call.attempt < 4
  /\ call.phase # "IDLE" /\ call.cursor # Transcript => tries > 0

CursorsFollow == \A c \in Cursors : given[c] = IF c \in seen THEN 1 ELSE 0

\* Nothing was granted since the last refusal.
NothingSinceRefusal ==
  refused <= Window => \A k \in Ages : k < refused => granted[k] = 0

\* The invariant, by what its parts speak of; the types are those of SessionTypeOK.
LimiterInv ==
  /\ window \in Seq(0..Window) /\ heavy \in Seq(0..Window)
  /\ heavyLimit \in {HeavyLimit, TightLimit}
  /\ dayCount \in 0..DayLimit /\ dayIsOver \in BOOLEAN
  /\ granted \in [Ages -> Nat] /\ grantedHeavy \in [Ages -> Nat] /\ grantedToday \in Nat
  /\ refused \in 0..NotRefused
  /\ GrantsWithinLimits /\ LimitersFollow /\ NothingSinceRefusal

WireInv == sent \in [Ages -> Nat] /\ RequestsFollow

CallInv ==
  /\ call \in [phase : {"IDLE", "SENT", "SLEEPING"}, cursor : Cursors \cup {First, Transcript},
               attempt : 0..4, wait : 0..MaxDelay]
  /\ call.phase = "IDLE" <=> call.attempt = 0
  /\ next \in Cursors \cup {First, End} /\ tries \in 0..MaxTries
  /\ CallIsUnderway

CursorInv == seen \subseteq Cursors /\ given \in [Cursors -> 0..2] /\ CursorsFollow

SessionInv == adapter \in Adapters /\ LimiterInv /\ WireInv /\ CallInv /\ CursorInv

\* A limiter's window is longer than nothing, and so are the ages.
LEMMA AgesReachTheWindow ==
  /\ Window \in Nat /\ 1 <= Window /\ Window - 1 \in Ages /\ 0 \in Ages
  /\ \A k \in Ages : k \in Nat /\ k <= Window - 1 /\ (k # 0 => k - 1 \in Ages)
  BY LimitsAssumption DEF Ages

\* Older entries are counted by a history as well.
LEMMA HistoriesGrow ==
  ASSUME NEW ages \in Seq(0..Window), NEW h, Follows(ages, h), NEW k \in Ages
  PROVE  h[k] <= h[Window - 1]
<1>1. /\ h[k] \in 0..Len(ages) /\ h[Window - 1] \in 0..Len(ages) /\ Len(ages) \in Nat
      /\ k <= Window - 1 /\ k \in Nat /\ Window \in Nat
  BY AgesReachTheWindow DEF Follows
<1>2. CASE h[k] = 0
  BY <1>1, <1>2
<1>3. CASE h[k] # 0
  <2>1. PICK i \in 1..Len(ages) : i = Len(ages) - h[k] + 1
    BY <1>1, <1>3
  <2>2. ages[i] <= k /\ ages[i] \in 0..Window
    <3>1. ages[i] \in 0..Window
      BY <2>1, ElementOfSeq
    <3>2. i > Len(ages) - h[k]
      BY <1>1, <2>1
    <3> QED
      BY <2>1, <3>1, <3>2 DEF Follows
  <2>3. ages[i] <= Window - 1
    BY <1>1, <2>2
  <2>4. i > Len(ages) - h[Window - 1]
    BY <2>3, AgesReachTheWindow DEF Follows
  <2> QED
    BY <1>1, <2>1, <2>4
<1> QED
  BY <1>2, <1>3

\* What is left of a sequence without its first m elements.
LEMMA Suffixes ==
  ASSUME NEW S, NEW s \in Seq(S), NEW m \in 0..Len(s)
  PROVE  /\ SubSeq(s, m + 1, Len(s)) \in Seq(S)
         /\ Len(SubSeq(s, m + 1, Len(s))) = Len(s) - m
         /\ \A i \in 1..(Len(s) - m) : SubSeq(s, m + 1, Len(s))[i] = s[m + i]
  OBVIOUS

\* popleft leaves what the history of the whole window counts.
LEMMA PrunedIsTheWindow ==
  ASSUME NEW ages \in Seq(0..Window), NEW h, Follows(ages, h)
  PROVE  /\ Pruned(ages) \in Seq(0..Window) /\ Len(Pruned(ages)) = h[Window - 1]
         /\ Follows(Pruned(ages), h)
<1> DEFINE m == Len(ages) - h[Window - 1]
<1>1. /\ Len(ages) \in Nat /\ h[Window - 1] \in 0..Len(ages) /\ m \in 0..Len(ages)
      /\ \A i \in 1..Len(ages) : ages[i] \in 0..Window /\ (Gone(ages[i]) <=> i <= m)
  <2>1. h[Window - 1] \in 0..Len(ages) /\ Len(ages) \in Nat
    BY AgesReachTheWindow DEF Follows
  <2>2. ASSUME NEW i \in 1..Len(ages)
        PROVE  ages[i] \in 0..Window /\ (Gone(ages[i]) <=> i <= m)
    <3>1. ages[i] \in 0..Window
      BY ElementOfSeq
    <3>2. ages[i] <= Window - 1 <=> i > m
      BY AgesReachTheWindow DEF Follows
    <3> QED
      BY <2>1, <3>1, <3>2, AgesReachTheWindow DEF Gone
  <2> QED
    BY <2>1, <2>2
<1> HIDE DEF m
<1> DEFINE Popped(n) == /\ \A i \in 1..n : Gone(ages[i])
                        /\ n < Len(ages) => ~Gone(ages[n + 1])
<1>2. \A n \in 0..Len(ages) : Popped(n) <=> n = m
  <2> SUFFICES ASSUME NEW n \in 0..Len(ages)
               PROVE  Popped(n) <=> n = m
    OBVIOUS
  <2>1. CASE n = m
    BY <1>1, <2>1
  <2>2. CASE n < m
    <3>1. n + 1 \in 1..Len(ages) /\ n + 1 <= m
      BY <1>1, <2>2
    <3> QED
      BY <1>1, <2>2, <3>1
  <2>3. CASE n > m
    <3>1. m + 1 \in 1..n /\ m + 1 \in 1..Len(ages) /\ ~(m + 1 <= m)
      BY <1>1, <2>3
    <3> QED
      BY <1>1, <2>3, <3>1
  <2> QED
    BY <1>1, <2>1, <2>2, <2>3
<1>3. (CHOOSE n \in 0..Len(ages) : Popped(n)) = m
  BY <1>1, <1>2
<1>4. Pruned(ages) = SubSeq(ages, m + 1, Len(ages))
  BY <1>3 DEF Pruned
<1>5. /\ Pruned(ages) \in Seq(0..Window) /\ Len(Pruned(ages)) = Len(ages) - m
      /\ \A i \in 1..(Len(ages) - m) : Pruned(ages)[i] = ages[m + i]
  BY <1>1, <1>4, Suffixes
<1>6. Follows(Pruned(ages), h)
  <2> SUFFICES ASSUME NEW k \in Ages
               PROVE  /\ h[k] \in 0..Len(Pruned(ages))
                      /\ \A i \in 1..Len(Pruned(ages)) :
                           Pruned(ages)[i] <= k <=> i > Len(Pruned(ages)) - h[k]
    BY DEF Follows
  <2>1. h[k] \in 0..Len(ages) /\ h[k] <= h[Window - 1]
    BY HistoriesGrow DEF Follows
  <2>2. h[k] \in 0..Len(Pruned(ages))
    BY <1>1, <1>5, <2>1 DEF m
  <2>3. ASSUME NEW i \in 1..(Len(ages) - m)
        PROVE  Pruned(ages)[i] <= k <=> i > (Len(ages) - m) - h[k]
    <3>1. m + i \in 1..Len(ages)
      BY <1>1
    <3>2. ages[m + i] <= k <=> m + i > Len(ages) - h[k]
      BY <3>1 DEF Follows
    <3> QED
      BY <1>1, <1>5, <2>1, <3>2
  <2> QED
    BY <1>5, <2>2, <2>3
<1> QED
  BY <1>1, <1>5, <1>6 DEF m

\* A grant is entered at the end.
LEMMA AppendFollows ==
  ASSUME NEW ages \in Seq(0..Window), NEW h \in [Ages -> Nat], Follows(ages, h)
  PROVE  Append(ages, 0) \in Seq(0..Window) /\ Follows(Append(ages, 0), NewOne(h))
<1>1. /\ Len(ages) \in Nat /\ Len(Append(ages, 0)) = Len(ages) + 1
      /\ \A i \in 1..Len(ages) : Append(ages, 0)[i] = ages[i]
      /\ Append(ages, 0)[Len(ages) + 1] = 0
  OBVIOUS
<1>2. Append(ages, 0) \in Seq(0..Window)
  BY AgesReachTheWindow
<1>3. ASSUME NEW k \in Ages
      PROVE  /\ NewOne(h)[k] \in 0..(Len(ages) + 1)
             /\ \A i \in 1..(Len(ages) + 1) :
                  Append(ages, 0)[i] <= k <=> i > (Len(ages) + 1) - NewOne(h)[k]
  <2>1. NewOne(h)[k] = h[k] + 1 /\ h[k] \in 0..Len(ages) /\ 0 <= k
    BY AgesReachTheWindow DEF NewOne, Follows
  <2>2. ASSUME NEW i \in 1..(Len(ages) + 1)
        PROVE  Append(ages, 0)[i] <= k <=> i > (Len(ages) + 1) - NewOne(h)[k]
    <3>1. CASE i = Len(ages) + 1
      BY <1>1, <2>1, <3>1
    <3>2. CASE i # Len(ages) + 1
      <4>1. i \in 1..Len(ages)
        BY <1>1, <3>2
      <4>2. ages[i] <= k <=> i > Len(ages) - h[k]
        BY <4>1 DEF Follows
      <4> QED
        BY <1>1, <2>1, <4>1, <4>2
    <3> QED
      BY <3>1, <3>2
  <2> QED
    BY <1>1, <2>1, <2>2
<1> QED
  BY <1>1, <1>2, <1>3 DEF Follows

\* Deque and history age together.
LEMMA AgingFollows ==
  ASSUME NEW ages \in Seq(0..Window), NEW h \in [Ages -> Nat], Follows(ages, h)
  PROVE  /\ [i \in DOMAIN ages |-> Aged(ages[i])] \in Seq(0..Window)
         /\ Follows([i \in DOMAIN ages |-> Aged(ages[i])], Older(h))
<1> DEFINE older == [i \in DOMAIN ages |-> Aged(ages[i])]
<1>1. /\ Len(ages) \in Nat /\ DOMAIN ages = 1..Len(ages)
      /\ \A i \in 1..Len(ages) : ages[i] \in 0..Window /\ Aged(ages[i]) \in 0..Window
  BY AgesReachTheWindow DEF Aged
<1>2. older \in [1..Len(ages) -> 0..Window]
  BY <1>1
<1>3. older \in Seq(0..Window) /\ Len(older) = Len(ages)
  BY <1>1, <1>2, SeqDef
<1>4. ASSUME NEW k \in Ages
      PROVE  /\ Older(h)[k] \in 0..Len(ages)
             /\ \A i \in 1..Len(ages) : older[i] <= k <=> i > Len(ages) - Older(h)[k]
  <2>1. CASE k = 0
    <3>1. Older(h)[k] = 0
      BY <2>1 DEF Older
    <3>2. \A i \in 1..Len(ages) : older[i] > 0
      BY <1>1, AgesReachTheWindow DEF Aged
    <3> QED
      BY <1>1, <1>2, <2>1, <3>1, <3>2
  <2>2. CASE k # 0
    <3>1. Older(h)[k] = h[k - 1] /\ k - 1 \in Ages /\ k <= Window - 1 /\ k \in Nat
      BY <2>2, AgesReachTheWindow DEF Older
    <3>2. \A i \in 1..Len(ages) : older[i] <= k <=> ages[i] <= k - 1
      BY <1>1, <3>1, AgesReachTheWindow DEF Aged
    <3> QED
      BY <1>1, <3>1, <3>2 DEF Follows
  <2> QED
    BY <2>1, <2>2
<1> QED
  BY <1>3, <1>4 DEF Follows

\* The limiter lets a call through.
LEMMA GrantedKeeps ==
  ASSUME LimiterInv, adapter \in Adapters, adapter' = adapter, NEW c, Granted(c)
  PROVE  /\ LimiterInv'
         /\ IF adapter = "SALESFORCE" THEN granted' = granted ELSE granted' = NewOne(granted)
<1>1. CASE adapter = "SALESFORCE"
  BY <1>1 DEF Granted, LimiterInv, limiterVars, grantVars, GrantsWithinLimits, InWindow,
     LimitersFollow, Follows, DayCount, NothingSinceRefusal
<1>2. CASE adapter # "SALESFORCE"
  <2>1. /\ window' = Append(Pruned(window), 0) /\ granted' = NewOne(granted)
        /\ ~Full(Pruned(window), Limit)
        /\ heavy' = IF IsHeavy(c) THEN Append(Pruned(heavy), 0) ELSE heavy
        /\ grantedHeavy' = IF IsHeavy(c) THEN NewOne(grantedHeavy) ELSE grantedHeavy
        /\ IsHeavy(c) => ~Full(Pruned(heavy), heavyLimit)
        /\ heavyLimit' = heavyLimit /\ refused' = NotRefused
    BY <1>2 DEF Granted, WindowIsFull
  <2>2. /\ Window \in Nat /\ 1 <= Window /\ Limit \in Nat /\ HeavyLimit \in Nat
        /\ TightLimit \in Nat /\ TightLimit <= HeavyLimit /\ DayLimit \in Nat
    BY LimitsAssumption
  <2>3. /\ Pruned(window) \in Seq(0..Window) /\ Len(Pruned(window)) = granted[Window - 1]
        /\ Follows(Pruned(window), granted)
    BY PrunedIsTheWindow DEF LimiterInv, LimitersFollow
  <2>4. /\ Pruned(heavy) \in Seq(0..Window) /\ Len(Pruned(heavy)) = grantedHeavy[Window - 1]
        /\ Follows(Pruned(heavy), grantedHeavy)
    BY PrunedIsTheWindow DEF LimiterInv, LimitersFollow
  <2>5. granted \in [Ages -> Nat] /\ grantedHeavy \in [Ages -> Nat] /\ Window - 1 \in Ages
    BY AgesReachTheWindow DEF LimiterInv
  <2>6. /\ window' \in Seq(0..Window) /\ Follows(window', granted')
        /\ granted' \in [Ages -> Nat] /\ granted'[Window - 1] <= Limit
    <3>1. granted[Window - 1] < Limit
      BY <2>1, <2>2, <2>3, <2>5 DEF Full
    <3>2. granted' \in [Ages -> Nat] /\ granted'[Window - 1] = granted[Window - 1] + 1
      <4>1. \A a \in Ages : granted[a] + 1 \in Nat
        BY <2>5
      <4>2. granted' = [a \in Ages |-> granted[a] + 1]
        BY <2>1 DEF NewOne
      <4> QED
        BY <2>5, <4>1, <4>2
    <3> QED
      BY <2>1, <2>2, <2>3, <2>5, <3>1, <3>2, AppendFollows
  <2>7. /\ heavy' \in Seq(0..Window) /\ Follows(heavy', grantedHeavy')
        /\ grantedHeavy' \in [Ages -> Nat] /\ grantedHeavy'[Window - 1] <= HeavyLimit
        /\ \A k \in Ages : grantedHeavy'[k] <= granted'[k]
    <3>1. CASE IsHeavy(c)
      <4>1. grantedHeavy[Window - 1] < HeavyLimit
        BY <2>1, <2>2, <2>4, <2>5, <3>1 DEF Full, LimiterInv
      <4>2. grantedHeavy' \in [Ages -> Nat] /\ \A k \in Ages : grantedHeavy'[k] = grantedHeavy[k] + 1
        BY <2>1, <2>5, <3>1 DEF NewOne
      <4>3. \A k \in Ages : granted'[k] = granted[k] + 1
        BY <2>1, <2>5 DEF NewOne
      <4>4. \A k \in Ages : grantedHeavy'[k] <= granted'[k]
        BY <2>5, <4>2, <4>3 DEF LimiterInv, LimitersFollow
      <4>5. heavy' \in Seq(0..Window) /\ Follows(heavy', grantedHeavy')
        BY <2>1, <2>4, <2>5, <3>1, AppendFollows
      <4> QED
        BY <2>2, <2>5, <4>1, <4>2, <4>4, <4>5
    <3>2. CASE ~IsHeavy(c)
      <4>1. heavy' = heavy /\ grantedHeavy' = grantedHeavy
        BY <2>1, <3>2
      <4>2. \A k \in Ages : grantedHeavy[k] <= granted'[k]
        BY <2>1, <2>5 DEF NewOne, LimiterInv, LimitersFollow
      <4> QED
        BY <2>5, <4>1, <4>2 DEF LimiterInv, LimitersFollow, GrantsWithinLimits, InWindow
    <3> QED
      BY <3>1, <3>2
  <2>8. /\ dayCount' \in 0..DayLimit /\ dayIsOver' = FALSE /\ grantedToday' \in Nat
        /\ grantedToday' <= DayLimit /\ grantedToday' = DayCount'
    BY <1>2, <2>2 DEF Granted, DayIsFull, DayCount, LimiterInv, LimitersFollow, GrantsWithinLimits
  <2>9. refused' = Window + 1 /\ NothingSinceRefusal'
    BY <2>1, <2>2 DEF NotRefused, NothingSinceRefusal
  <2>10. GrantsWithinLimits'
    BY <2>6, <2>7, <2>8 DEF GrantsWithinLimits, InWindow
  <2>11. LimitersFollow'
    BY <2>6, <2>7, <2>8 DEF LimitersFollow
  <2>12. refused' \in 0..NotRefused /\ dayIsOver' \in BOOLEAN /\ heavyLimit' \in {HeavyLimit, TightLimit}
    <3>1. refused' \in 0..NotRefused
      BY <2>2, <2>9 DEF NotRefused
    <3>2. heavyLimit' \in {HeavyLimit, TightLimit}
      BY <2>1 DEF LimiterInv
    <3> QED
      BY <2>8, <3>1, <3>2
  <2> QED
    <3>1. LimiterInv'
      BY <2>6, <2>7, <2>8, <2>9, <2>10, <2>11, <2>12 DEF LimiterInv
    <3> QED
      BY <1>2, <2>1, <3>1
<1> QED
  BY <1>1, <1>2

\* The limiter refuses a call: it only forgets what has left the window.
LEMMA RefusedKeeps ==
  ASSUME LimiterInv, adapter \in Adapters, adapter' = adapter, NEW c, Refused(c)
  PROVE  LimiterInv' /\ granted' = granted
<1>1. /\ window' = Pruned(window) /\ heavyLimit' = heavyLimit
      /\ granted' = granted /\ grantedHeavy' = grantedHeavy /\ grantedToday' = grantedToday
      /\ heavy' = heavy \/ heavy' = Pruned(heavy)
      /\ dayCount' = DayCount /\ dayIsOver' = FALSE
      /\ refused' = refused \/ refused' = 0
  BY DEF Refused
<1>2. window' \in Seq(0..Window) /\ Follows(window', granted')
  BY <1>1, PrunedIsTheWindow DEF LimiterInv, LimitersFollow
<1>3. heavy' \in Seq(0..Window) /\ Follows(heavy', grantedHeavy')
  BY <1>1, PrunedIsTheWindow DEF LimiterInv, LimitersFollow
<1>4. dayCount' \in 0..DayLimit /\ grantedToday' = DayCount' /\ dayIsOver' \in BOOLEAN
  <2>1. DayCount' = dayCount'
    BY <1>1 DEF DayCount
  <2>2. DayCount \in 0..DayLimit
    BY LimitsAssumption DEF DayCount, LimiterInv
  <2> QED
    BY <1>1, <2>1, <2>2 DEF LimiterInv, LimitersFollow
<1>5. refused' \in 0..NotRefused /\ NothingSinceRefusal'
  <2>1. \A k \in Ages : ~(k < 0)
    BY AgesReachTheWindow
  <2> QED
    BY <1>1, <2>1, LimitsAssumption DEF LimiterInv, NothingSinceRefusal, NotRefused
<1>6. GrantsWithinLimits'
  BY <1>1 DEF LimiterInv, GrantsWithinLimits, InWindow
<1> QED
  BY <1>1, <1>2, <1>3, <1>4, <1>5, <1>6 DEF LimiterInv, LimitersFollow

\* Time passes for the limiter.
LEMMA TimeKeepsTheLimiter ==
  ASSUME LimiterInv, TimePasses
  PROVE  LimiterInv'
<1>1. /\ window' = [i \in DOMAIN window |-> Aged(window[i])]
      /\ heavy' = [i \in DOMAIN heavy |-> Aged(heavy[i])]
      /\ granted' = Older(granted) /\ grantedHeavy' = Older(grantedHeavy)
      /\ refused' = Aged(refused) /\ adapter' = adapter /\ heavyLimit' = heavyLimit
      /\ dayCount' = dayCount /\ dayIsOver' = dayIsOver /\ grantedToday' = grantedToday
  BY DEF TimePasses
<1>2. /\ granted \in [Ages -> Nat] /\ grantedHeavy \in [Ages -> Nat]
      /\ granted' \in [Ages -> Nat] /\ grantedHeavy' \in [Ages -> Nat]
      /\ \A k \in Ages : /\ granted'[k] = IF k = 0 THEN 0 ELSE granted[k - 1]
                         /\ grantedHeavy'[k] = IF k = 0 THEN 0 ELSE grantedHeavy[k - 1]
  BY <1>1, AgesReachTheWindow DEF LimiterInv, Older
<1>3. window' \in Seq(0..Window) /\ Follows(window', granted')
  BY <1>1, <1>2, AgingFollows DEF LimiterInv, LimitersFollow
<1>4. heavy' \in Seq(0..Window) /\ Follows(heavy', grantedHeavy')
  BY <1>1, <1>2, AgingFollows DEF LimiterInv, LimitersFollow
<1>5. \A k \in Ages : grantedHeavy'[k] <= granted'[k]
  <2> SUFFICES ASSUME NEW k \in Ages
               PROVE  grantedHeavy'[k] <= granted'[k]
    OBVIOUS
  <2>1. CASE k = 0
    BY <1>2, <2>1
  <2>2. CASE k # 0
    <3>1. k - 1 \in Ages
      BY <2>2, AgesReachTheWindow
    <3> QED
      BY <1>2, <2>2, <3>1 DEF LimiterInv, LimitersFollow
  <2> QED
    BY <2>1, <2>2
<1>6. granted'[Window - 1] <= Limit /\ grantedHeavy'[Window - 1] <= HeavyLimit
  <2>1. /\ \A k \in Ages : granted[k] <= granted[Window - 1]
        /\ \A k \in Ages : grantedHeavy[k] <= grantedHeavy[Window - 1]
    BY HistoriesGrow DEF LimiterInv, LimitersFollow
  <2>2. /\ granted[Window - 1] \in Nat /\ granted[Window - 1] <= Limit
        /\ grantedHeavy[Window - 1] \in Nat /\ grantedHeavy[Window - 1] <= HeavyLimit
    BY <1>2, AgesReachTheWindow DEF LimiterInv, GrantsWithinLimits, InWindow
  <2>3. Limit \in Nat /\ HeavyLimit \in Nat
    BY LimitsAssumption
  <2>4. CASE Window - 1 = 0
    BY <1>2, <2>3, <2>4, AgesReachTheWindow
  <2>5. CASE Window - 1 # 0
    <3> DEFINE k == (Window - 1) - 1
    <3>1. k \in Ages
      BY <2>5, AgesReachTheWindow
    <3>2. granted'[Window - 1] = granted[k] /\ grantedHeavy'[Window - 1] = grantedHeavy[k]
      BY <1>2, <2>5, AgesReachTheWindow
    <3>3. granted[k] \in Nat /\ grantedHeavy[k] \in Nat
      BY <1>2, <3>1
    <3> HIDE DEF k
    <3> QED
      BY <2>1, <2>2, <2>3, <3>1, <3>2, <3>3
  <2> QED
    BY <2>4, <2>5
<1>7. refused' \in 0..NotRefused
  BY <1>1, LimitsAssumption DEF LimiterInv, Aged, NotRefused
<1>8. NothingSinceRefusal'
  <2> SUFFICES ASSUME refused' <= Window, NEW k \in Ages, k < refused'
               PROVE  granted'[k] = 0
    BY DEF NothingSinceRefusal
  <2>1. CASE k = 0
    BY <1>2, <2>1
  <2>2. CASE k # 0
    <3>1. refused \in 0..(Window + 1) /\ Window \in Nat /\ k \in Nat /\ k - 1 \in Ages
            /\ k <= Window - 1
      BY <2>2, AgesReachTheWindow DEF LimiterInv, NotRefused
    <3>2. refused <= Window /\ k - 1 < refused
      BY <1>1, <3>1 DEF Aged
    <3> QED
      BY <1>2, <2>2, <3>1, <3>2 DEF LimiterInv, NothingSinceRefusal
  <2> QED
    BY <2>1, <2>2
<1>9. DayCount' = DayCount
  BY <1>1 DEF DayCount
<1> QED
  BY <1>1, <1>2, <1>3, <1>4, <1>5, <1>6, <1>7, <1>8, <1>9
  DEF LimiterInv, GrantsWithinLimits, InWindow, LimitersFollow

\* What does not ask the limiter leaves it alone.
LEMMA LimiterStays ==
  ASSUME LimiterInv, UNCHANGED <<limiterVars, grantVars, adapter>>
  PROVE  LimiterInv' /\ granted' = granted
  BY DEF LimiterInv, limiterVars, grantVars, GrantsWithinLimits, InWindow, LimitersFollow, Follows,
     DayCount, NothingSinceRefusal

\* A cursor is asked for, or received, for the first time.
LEMMA RememberKeeps ==
  ASSUME CursorInv, NEW c \in Cursors, c \notin seen, Remember(c)
  PROVE  CursorInv'
  BY DEF CursorInv, CursorsFollow, Remember, OneMore

\* Salesforce and Gong remember what they are asked for, which they were not asked before.
LEMMA RememberAskedKeeps ==
  ASSUME CursorInv, NEW c, ~Repeated(c), RememberAsked(c)
  PROVE  CursorInv'
<1>1. CASE RemembersAsked /\ c \in Cursors
  BY <1>1, RememberKeeps DEF RememberAsked, Repeated
<1>2. CASE ~(RemembersAsked /\ c \in Cursors)
  BY <1>2 DEF RememberAsked, CursorInv, CursorsFollow
<1> QED
  BY <1>1, <1>2

\* A driver's try that failed, before it asked or after.
LEMMA FailKeepsTheCall ==
  ASSUME CallInv, NEW c, c # Transcript => tries > 0, Fail(c)
  PROVE  CallInv' /\ call'.attempt = 0
<1>1. call' = Idle /\ next' = next /\ tries' \in 0..MaxTries
  BY DriverAssumption DEF Fail, CallInv
<1>2. call' \in [phase : {"IDLE", "SENT", "SLEEPING"}, cursor : Cursors \cup {First, Transcript},
                 attempt : 0..4, wait : 0..MaxDelay]
  BY <1>1, DelaysAssumption DEF Idle
<1>3. call'.phase = "IDLE" /\ call'.attempt = 0
  BY <1>1 DEF Idle
<1> QED
  BY <1>1, <1>2, <1>3 DEF CallInv, CallIsUnderway

\* The requests of a call that leaves the wire, or is over, stay counted.
LEMMA QuietWireKeeps ==
  ASSUME WireInv, CallInv, LimiterInv, granted' = granted, sent' = sent, adapter' = adapter,
         call'.attempt = call.attempt \/ call'.attempt = 0
  PROVE  WireInv'
<1>1. call.attempt \in 0..4
  BY DEF CallInv
<1>2. RequestsOf(call.attempt) <= RequestsOf(call'.attempt) /\ RequestsOf(call.attempt) \in Nat
        /\ RequestsOf(call'.attempt) \in Nat
  BY <1>1 DEF RequestsOf
<1>3. ASSUME NEW k \in Ages
      PROVE  sent'[k] <= 4 * granted'[k] + RequestsOf(call'.attempt)
  <2>1. sent[k] \in Nat /\ granted[k] \in Nat /\ sent[k] <= 4 * granted[k] + RequestsOf(call.attempt)
    BY DEF WireInv, RequestsFollow, LimiterInv
  <2> QED
    BY <1>2, <2>1
<1> QED
  BY <1>3 DEF WireInv, RequestsFollow

\* A call is let through and sent: one grant more, one request more, the call's first.
LEMMA AskKeeps ==
  ASSUME SessionInv, NEW c \in Cursors \cup {First, End, Transcript}, Ask(c)
  PROVE  SessionInv'
<1>1. /\ call.phase = "IDLE" /\ call.attempt = 0 /\ adapter' = adapter /\ next' = next /\ tries' = tries
      /\ call' = [phase |-> "SENT", cursor |-> c, attempt |-> 1, wait |-> 0]
      /\ c \in Cursors \cup {First, Transcript} /\ (c # Transcript => tries > 0)
      /\ sent' = IF adapter = "SALESFORCE" THEN sent ELSE NewOne(sent)
  BY DEF Ask, CanAsk, Send, SessionInv, CallInv
<1>2. /\ LimiterInv'
      /\ IF adapter = "SALESFORCE" THEN granted' = granted ELSE granted' = NewOne(granted)
  BY <1>1, GrantedKeeps DEF Ask, SessionInv
<1>3. CursorInv'
  BY RememberAskedKeeps DEF Ask, SessionInv
<1>4. CallInv'
  BY <1>1, DelaysAssumption DEF SessionInv, CallInv, CallIsUnderway
<1>5. sent' \in [Ages -> Nat] /\ \A k \in Ages : adapter' = "SALESFORCE" => sent'[k] = 0
  BY <1>1 DEF SessionInv, WireInv, RequestsFollow, NewOne
<1>6. ASSUME NEW k \in Ages
      PROVE  sent'[k] <= 4 * granted'[k] + RequestsOf(call'.attempt)
  <2>1. /\ sent[k] \in Nat /\ granted[k] \in Nat /\ granted \in [Ages -> Nat]
        /\ sent[k] <= 4 * granted[k] + 3 /\ (adapter = "SALESFORCE" => sent[k] = 0)
    BY <1>1 DEF SessionInv, WireInv, RequestsFollow, RequestsOf, LimiterInv
  <2>2. RequestsOf(call'.attempt) = 0
    BY <1>1 DEF RequestsOf
  <2>3. CASE adapter = "SALESFORCE"
    BY <1>1, <1>2, <2>1, <2>2, <2>3
  <2>4. CASE adapter # "SALESFORCE"
    <3>1. sent'[k] = sent[k] + 1 /\ granted'[k] = granted[k] + 1
      BY <1>1, <1>2, <2>1, <2>4 DEF NewOne, SessionInv, WireInv
    <3> QED
      BY <2>1, <2>2, <3>1
  <2> QED
    BY <2>3, <2>4
<1> QED
  BY <1>1, <1>2, <1>3, <1>4, <1>5, <1>6 DEF SessionInv, WireInv, RequestsFollow

\* A call the limiter refuses has cost its cursor, and a page one of its tries.
LEMMA AskRefusedKeeps ==
  ASSUME SessionInv, NEW c, AskRefused(c)
  PROVE  SessionInv'
<1>1. adapter' = adapter /\ sent' = sent /\ (c # Transcript => tries > 0)
  BY DEF AskRefused, CanAsk
<1>2. LimiterInv' /\ granted' = granted
  BY <1>1, RefusedKeeps DEF AskRefused, SessionInv
<1>3. CursorInv'
  BY RememberAskedKeeps DEF AskRefused, SessionInv
<1>4. CallInv' /\ call'.attempt = 0
  BY <1>1, FailKeepsTheCall DEF AskRefused, SessionInv
<1>5. WireInv'
  BY <1>1, <1>2, <1>4, QuietWireKeeps DEF SessionInv
<1> QED
  BY <1>1, <1>2, <1>3, <1>4, <1>5 DEF SessionInv

\* A page the driver cannot have, for whatever reason: nothing but the try is lost.
LEMMA FailingKeeps ==
  ASSUME SessionInv, NEW c, c # Transcript => tries > 0, Fail(c),
         UNCHANGED <<adapter, limiterVars, seen, grantVars, sent, given>>
  PROVE  SessionInv'
<1>1. LimiterInv' /\ granted' = granted
  BY LimiterStays DEF SessionInv
<1>2. CursorInv'
  BY DEF SessionInv, CursorInv, CursorsFollow
<1>3. CallInv' /\ call'.attempt = 0
  BY FailKeepsTheCall DEF SessionInv
<1>4. WireInv'
  BY <1>1, <1>3, QuietWireKeeps DEF SessionInv
<1> QED
  BY <1>1, <1>2, <1>3, <1>4 DEF SessionInv

\* A cursor that was asked for before.
LEMMA AskRepeatedKeeps ==
  ASSUME SessionInv, NEW c, AskRepeated(c)
  PROVE  SessionInv'
  BY FailingKeeps DEF AskRepeated, CanAsk

\* A call that fails for good.
LEMMA GiveUpKeeps ==
  ASSUME SessionInv, GiveUp
  PROVE  SessionInv'
  BY FailingKeeps DEF GiveUp, SessionInv, CallInv, CallIsUnderway

\* A delay of the vendor's or the backoff.
LEMMA RetryKeeps ==
  ASSUME SessionInv, Retry
  PROVE  SessionInv'
<1>1. call.attempt \in 1..3
  BY DEF Retry, Exhausted, SessionInv, CallInv
<1>2. Backoff(call.attempt) \in 0..MaxDelay
  BY <1>1, DelaysAssumption DEF Backoff
<1>3. PICK delay \in RetryAfter \cup {Backoff(call.attempt)} :
        call' = [call EXCEPT !.phase = "SLEEPING", !.wait = delay]
  BY DEF Retry
<1>4. delay \in 0..MaxDelay
  BY <1>2, <1>3, DelaysAssumption
<1>5. LimiterInv' /\ granted' = granted
  BY LimiterStays DEF Retry, SessionInv
<1>6. CursorInv'
  BY DEF Retry, SessionInv, CursorInv, CursorsFollow
<1>7. CallInv' /\ call'.attempt = call.attempt
  <2>1. next' = next /\ tries' = tries /\ call.phase = "SENT"
    BY DEF Retry
  <2>2. /\ call'.phase = "SLEEPING" /\ call'.cursor = call.cursor /\ call'.attempt = call.attempt
        /\ call' \in [phase : {"IDLE", "SENT", "SLEEPING"}, cursor : Cursors \cup {First, Transcript},
                     attempt : 0..4, wait : 0..MaxDelay]
    BY <1>3, <1>4 DEF SessionInv, CallInv
  <2>3. call.phase # "IDLE" /\ call.cursor # Transcript => tries > 0
    BY DEF SessionInv, CallInv, CallIsUnderway
  <2>4. CallIsUnderway'
    BY <1>1, <2>1, <2>2, <2>3 DEF CallIsUnderway
  <2> QED
    BY <1>1, <2>1, <2>2, <2>4 DEF SessionInv, CallInv
<1>8. WireInv'
  BY <1>5, <1>7, QuietWireKeeps DEF Retry, SessionInv
<1> QED
  BY <1>5, <1>6, <1>7, <1>8 DEF Retry, SessionInv

\* The next attempt of the call in progress: one request more, without a grant.
LEMMA ResendKeeps ==
  ASSUME SessionInv, Resend
  PROVE  SessionInv'
<1>1. /\ call.attempt \in 1..3 /\ adapter' = adapter
      /\ call' = [phase |-> "SENT", cursor |-> call.cursor, attempt |-> call.attempt + 1, wait |-> 0]
      /\ sent' = IF adapter = "SALESFORCE" THEN sent ELSE NewOne(sent)
  BY DEF Resend, Send, SessionInv, CallInv, CallIsUnderway
<1>2. LimiterInv' /\ granted' = granted
  BY LimiterStays DEF Resend, SessionInv
<1>3. CursorInv'
  BY DEF Resend, SessionInv, CursorInv, CursorsFollow
<1>4. CallInv'
  BY <1>1, DelaysAssumption DEF Resend, SessionInv, CallInv, CallIsUnderway
<1>5. sent' \in [Ages -> Nat] /\ \A k \in Ages : adapter' = "SALESFORCE" => sent'[k] = 0
  BY <1>1 DEF SessionInv, WireInv, RequestsFollow, NewOne
<1>6. ASSUME NEW k \in Ages
      PROVE  sent'[k] <= 4 * granted'[k] + RequestsOf(call'.attempt)
  <2>1. /\ sent[k] \in Nat /\ granted[k] \in Nat /\ sent[k] <= 4 * granted[k] + (call.attempt - 1)
    <3>1. RequestsOf(call.attempt) = call.attempt - 1
      BY <1>1 DEF RequestsOf
    <3> QED
      BY <3>1 DEF SessionInv, WireInv, RequestsFollow, LimiterInv
  <2>2. RequestsOf(call'.attempt) = call.attempt
    <3>1. call'.attempt = call.attempt + 1 /\ call'.attempt # 0
      BY <1>1
    <3> QED
      BY <1>1, <3>1 DEF RequestsOf
  <2>3. sent'[k] \in {sent[k], sent[k] + 1}
    BY <1>1 DEF NewOne, SessionInv, WireInv
  <2> QED
    BY <1>1, <1>2, <2>1, <2>2, <2>3
<1> QED
  BY <1>1, <1>2, <1>3, <1>4, <1>5, <1>6 DEF SessionInv, WireInv, RequestsFollow

\* A page arrives, or does not count as one.
LEMMA PageKeeps ==
  ASSUME SessionInv, NEW n \in Cursors \cup {End}, Page(n)
  PROVE  SessionInv'
<1>1. CASE Cyclic(n)
  BY <1>1, FailingKeeps DEF Page, SessionInv, CallInv, CallIsUnderway
<1>2. CASE ~Cyclic(n)
  <2>1. /\ call' = Idle /\ next' = n /\ tries' = MaxTries /\ sent' = sent /\ adapter' = adapter
        /\ IF adapter = "FATHOM" /\ n # End THEN Remember(n) ELSE UNCHANGED <<seen, given>>
    BY <1>2 DEF Page
  <2>2. LimiterInv' /\ granted' = granted
    BY LimiterStays DEF Page, SessionInv
  <2>3. CallInv' /\ call'.attempt = 0
    BY <2>1, DelaysAssumption, DriverAssumption DEF CallInv, CallIsUnderway, Idle
  <2>4. CursorInv'
    <3>1. CASE adapter = "FATHOM" /\ n # End
      BY <1>2, <2>1, <3>1, RememberKeeps DEF Cyclic, SessionInv
    <3>2. CASE ~(adapter = "FATHOM" /\ n # End)
      BY <2>1, <3>2 DEF SessionInv, CursorInv, CursorsFollow
    <3> QED
      BY <3>1, <3>2
  <2>5. WireInv'
    BY <2>1, <2>2, <2>3, QuietWireKeeps DEF SessionInv
  <2> QED
    BY <2>1, <2>2, <2>3, <2>4, <2>5 DEF SessionInv
<1> QED
  BY <1>1, <1>2

\* A transcript arrives, which has no cursor.
LEMMA TranscriptArrivesKeeps ==
  ASSUME SessionInv, TranscriptArrives
  PROVE  SessionInv'
<1>1. LimiterInv' /\ granted' = granted
  BY LimiterStays DEF TranscriptArrives, SessionInv
<1>2. CallInv' /\ call'.attempt = 0
  BY DelaysAssumption DEF TranscriptArrives, SessionInv, CallInv, CallIsUnderway, Idle
<1>3. CursorInv'
  BY DEF TranscriptArrives, SessionInv, CursorInv, CursorsFollow
<1>4. WireInv'
  BY <1>1, <1>2, QuietWireKeeps DEF TranscriptArrives, SessionInv
<1> QED
  BY <1>1, <1>2, <1>3, <1>4 DEF TranscriptArrives, SessionInv

\* The tighter limit is asked by later calls only.
LEMMA TightenKeeps ==
  ASSUME SessionInv, TightenHeavyToFive
  PROVE  SessionInv'
  BY DEF TightenHeavyToFive, SessionInv, LimiterInv, GrantsWithinLimits, InWindow, LimitersFollow,
     Follows, DayCount, NothingSinceRefusal, grantVars, WireInv, RequestsFollow, CallInv,
     CallIsUnderway, CursorInv, CursorsFollow

\* The day's count is not reset until the limiter is asked again.
LEMMA MidnightKeeps ==
  ASSUME SessionInv, Midnight
  PROVE  SessionInv'
<1>1. LimiterInv'
  <2>1. /\ dayIsOver' = TRUE /\ grantedToday' = 0 /\ DayCount' = 0 /\ adapter' = adapter
        /\ adapter = "GONG"
        /\ UNCHANGED <<window, heavy, heavyLimit, dayCount, granted, grantedHeavy, refused>>
    BY DEF Midnight, DayCount
  <2>2. 0 <= DayLimit
    BY LimitsAssumption
  <2> QED
    BY <2>1, <2>2 DEF SessionInv, LimiterInv, GrantsWithinLimits, InWindow, LimitersFollow, Follows,
       NothingSinceRefusal
<1> QED
  BY <1>1 DEF Midnight, SessionInv, WireInv, RequestsFollow, CallInv, CallIsUnderway, CursorInv,
     CursorsFollow

\* A tick: all that is in a window grows older, the call in progress keeps its attempt.
LEMMA TimePassesKeeps ==
  ASSUME SessionInv, TimePasses
  PROVE  SessionInv'
<1>1. LimiterInv'
  BY TimeKeepsTheLimiter DEF SessionInv
<1>2. /\ call' = [call EXCEPT !.wait = IF @ > 0 THEN @ - 1 ELSE 0] /\ sent' = Older(sent)
      /\ granted' = Older(granted) /\ adapter' = adapter
      /\ UNCHANGED <<seen, given, next, tries>>
  BY DEF TimePasses
<1>3. CallInv' /\ call'.attempt = call.attempt
  BY <1>2, DelaysAssumption DEF SessionInv, CallInv, CallIsUnderway
<1>4. CursorInv'
  BY <1>2 DEF SessionInv, CursorInv, CursorsFollow
<1>5. /\ sent' \in [Ages -> Nat]
      /\ \A k \in Ages : /\ sent'[k] = IF k = 0 THEN 0 ELSE sent[k - 1]
                         /\ granted'[k] = IF k = 0 THEN 0 ELSE granted[k - 1]
  BY <1>2, AgesReachTheWindow DEF SessionInv, WireInv, Older
<1>6. ASSUME NEW k \in Ages
      PROVE  /\ sent'[k] <= 4 * granted'[k] + RequestsOf(call'.attempt)
             /\ adapter' = "SALESFORCE" => sent'[k] = 0
  <2>1. RequestsOf(call.attempt) \in Nat
    BY DEF SessionInv, CallInv, RequestsOf
  <2>2. CASE k = 0
    BY <1>3, <1>5, <2>1, <2>2
  <2>3. CASE k # 0
    <3>1. k - 1 \in Ages
      BY <2>3, AgesReachTheWindow
    <3> QED
      BY <1>2, <1>3, <1>5, <2>3, <3>1 DEF SessionInv, WireInv, RequestsFollow
  <2> QED
    BY <2>2, <2>3
<1> QED
  BY <1>1, <1>2, <1>3, <1>4, <1>5, <1>6 DEF SessionInv, WireInv, RequestsFollow

\* Another walk of the driver.
LEMMA StartWalkKeeps ==
  ASSUME SessionInv, StartWalk
  PROVE  SessionInv'
<1>1. LimiterInv' /\ granted' = granted
  BY LimiterStays DEF StartWalk, SessionInv
<1>2. CallInv'
  BY DriverAssumption DEF StartWalk, SessionInv, CallInv, CallIsUnderway
<1> QED
  BY <1>1, <1>2 DEF StartWalk, SessionInv, WireInv, RequestsFollow, CursorInv, CursorsFollow

\* The invariant is inductive: one step per action ...
LEMMA SessionInvStep == SessionInv /\ [SessionNext]_sessionVars => SessionInv'
<1> SUFFICES ASSUME SessionInv, [SessionNext]_sessionVars
             PROVE  SessionInv'
  OBVIOUS
<1>1. next \in Cursors \cup {First, End, Transcript}
  BY DEF SessionInv, CallInv
<1>2. CASE AskForPage
  BY <1>1, <1>2, AskRepeatedKeeps, AskRefusedKeeps, AskKeeps DEF AskForPage
<1>3. CASE AskForTranscript
  BY <1>3, AskRefusedKeeps, AskKeeps DEF AskForTranscript
<1>4. CASE Answer
  BY <1>4, RetryKeeps, GiveUpKeeps, PageKeeps, TranscriptArrivesKeeps DEF Answer
<1>5. CASE Resend
  BY <1>5, ResendKeeps
<1>6. CASE TightenHeavyToFive
  BY <1>6, TightenKeeps
<1>7. CASE TimePasses
  BY <1>7, TimePassesKeeps
<1>8. CASE Midnight
  BY <1>8, MidnightKeeps
<1>9. CASE StartWalk
  BY <1>9, StartWalkKeeps
<1>10. CASE UNCHANGED sessionVars
  BY <1>10 DEF sessionVars, limiterVars, grantVars, SessionInv, LimiterInv, GrantsWithinLimits,
     InWindow, LimitersFollow, Follows, DayCount, NothingSinceRefusal, WireInv, RequestsFollow,
     CallInv, CallIsUnderway, CursorInv, CursorsFollow
<1> QED
  BY <1>2, <1>3, <1>4, <1>5, <1>6, <1>7, <1>8, <1>9, <1>10 DEF SessionNext

\* ... and holds of a new session.
LEMMA SessionInvInit == SessionInit => SessionInv
<1> SUFFICES ASSUME SessionInit
             PROVE  SessionInv
  OBVIOUS
<1>1. LimiterInv
  <2>1. Follows(window, granted) /\ Follows(heavy, grantedHeavy)
    BY DEF SessionInit, Follows
  <2>2. granted[Window - 1] = 0 /\ grantedHeavy[Window - 1] = 0
    BY AgesReachTheWindow DEF SessionInit
  <2>3. \A k \in Ages : grantedHeavy[k] <= granted[k]
    BY DEF SessionInit
  <2> QED
    <3>1. GrantsWithinLimits
      BY <2>2, LimitsAssumption DEF SessionInit, GrantsWithinLimits, InWindow
    <3>2. LimitersFollow
      BY <2>1, <2>3 DEF SessionInit, LimitersFollow, DayCount
    <3>3. NothingSinceRefusal
      BY LimitsAssumption DEF SessionInit, NothingSinceRefusal, NotRefused
    <3>4. window \in Seq(0..Window) /\ heavy \in Seq(0..Window)
      BY DEF SessionInit
    <3>5. dayCount \in 0..DayLimit /\ grantedToday \in Nat /\ refused \in 0..NotRefused
      BY LimitsAssumption DEF SessionInit, NotRefused
    <3> QED
      BY <3>1, <3>2, <3>3, <3>4, <3>5 DEF SessionInit, LimiterInv
<1>2. WireInv
  BY DEF SessionInit, WireInv, RequestsFollow, RequestsOf, Idle
<1>3. CallInv
  BY DelaysAssumption, DriverAssumption DEF SessionInit, CallInv, CallIsUnderway, Idle
<1>4. CursorInv
  BY DEF SessionInit, CursorInv, CursorsFollow
<1> QED
  BY <1>1, <1>2, <1>3, <1>4 DEF SessionInit, SessionInv

\* For any limits and whatever the vendor answers, grants, requests on the wire and the use
\* of a cursor stay bounded over every window.
THEOREM SessionsStayBounded == SessionSpec => []SessionIsBounded
<1>1. SessionInv => SessionIsBounded
  <2> SUFFICES ASSUME SessionInv
               PROVE  SessionIsBounded
    OBVIOUS
  <2>1. SessionTypeOK
    BY DEF SessionInv, LimiterInv, WireInv, CallInv, CursorInv, SessionTypeOK
  <2>2. InWindow(sent) <= 4 * Limit + 3
    <3>1. /\ sent[Window - 1] \in Nat /\ granted[Window - 1] \in Nat
          /\ sent[Window - 1] <= 4 * granted[Window - 1] + RequestsOf(call.attempt)
      BY AgesReachTheWindow DEF SessionInv, WireInv, RequestsFollow, LimiterInv
    <3>2. granted[Window - 1] <= Limit
      BY DEF SessionInv, LimiterInv, GrantsWithinLimits, InWindow
    <3>3. RequestsOf(call.attempt) \in 0..3
      BY DEF SessionInv, CallInv, RequestsOf
    <3> QED
      BY <3>1, <3>2, <3>3, LimitsAssumption DEF InWindow
  <2>3. \A c \in Cursors : given[c] <= 1
    BY DEF SessionInv, CursorInv, CursorsFollow
  <2> QED
    BY <2>1, <2>2, <2>3 DEF SessionInv, LimiterInv, SessionIsBounded, WireIsBounded, NoCursorTwice
<1> QED
  BY <1>1, SessionInvInit, SessionInvStep, PTL DEF SessionSpec

\* Who waits a window after a refusal is not refused again, but for the day's limit.
THEOREM RefusalsEndInAWindow == SessionSpec => RefusalsEnd
<1>1. SessionInv /\ [SessionNext]_sessionVars => [refused = Window => refused' # 0]_sessionVars
  <2> SUFFICES ASSUME SessionInv, SessionNext, refused = Window, refused' = 0
               PROVE  FALSE
    OBVIOUS
  <2>1. Window \in Nat /\ 1 <= Window
    BY AgesReachTheWindow
  <2>2. PICK c : Refused(c) /\ ~DayIsFull
    <3>1. refused' # refused
      BY <2>1
    <3>2. CASE TimePasses
      BY <2>1, <3>2 DEF TimePasses, Aged
    <3>3. ASSUME NEW c, Ask(c)
          PROVE  FALSE
      BY <2>1, <3>1, <3>3 DEF Ask, Granted, grantVars, NotRefused
    <3>4. ASSUME NEW c, AskRefused(c)
          PROVE  Refused(c) /\ ~DayIsFull
      BY <2>1, <3>1, <3>4 DEF AskRefused, Refused
    <3>5. ~AskRepeated(next) /\ ~Answer /\ ~Resend /\ ~TightenHeavyToFive /\ ~Midnight /\ ~StartWalk
      BY <3>1 DEF AskRepeated, Answer, Retry, GiveUp, Page, TranscriptArrives, Resend,
         TightenHeavyToFive, Midnight, StartWalk, grantVars
    <3> QED
      BY <3>2, <3>3, <3>4, <3>5 DEF SessionNext, AskForPage, AskForTranscript
  <2>3. granted[Window - 1] = 0 /\ grantedHeavy[Window - 1] = 0
    <3>1. granted[Window - 1] = 0
      BY <2>1, AgesReachTheWindow DEF SessionInv, LimiterInv, NothingSinceRefusal
    <3> QED
      BY <3>1, AgesReachTheWindow DEF SessionInv, LimiterInv, LimitersFollow
  <2>4. Len(Pruned(window)) = 0 /\ Len(Pruned(heavy)) = 0
    BY <2>3, PrunedIsTheWindow DEF SessionInv, LimiterInv, LimitersFollow
  <2>5. ~WindowIsFull(c)
    BY <2>4, LimitsAssumption DEF WindowIsFull, Full, SessionInv, LimiterInv
  <2> QED
    BY <2>2, <2>5 DEF Refused
<1> QED
  BY <1>1, SessionInvInit, SessionInvStep, PTL DEF SessionSpec, RefusalsEnd
=============================================================================
