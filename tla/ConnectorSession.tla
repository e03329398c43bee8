-------------------------- MODULE ConnectorSession --------------------------
(***************************************************************************)
(* One session of a vendor adapter: the limiter it asks, the transport     *)
(* that retries, the cursors it remembers.  A session belongs to one       *)
(* driver, which makes one call at a time; the adapter is picked once.     *)
(*                                                                         *)
(*   SALESFORCE  no limiter       retries     cursor remembered on asking  *)
(*   CLICKUP     window           one request page numbers, none remembered*)
(*   FATHOM      window, heavy    retries     cursor remembered on receipt *)
(*   GONG        window and day   retries     cursor remembered on asking  *)
(*                                                                         *)
(* Time passes in ticks, and what is kept of a request is its age, since   *)
(* limiters only ask whether it is still in the window.  A driver walks a  *)
(* listing page by page and asks again for a page that failed, up to       *)
(* MaxTries times; it is external, as is the vendor.                       *)
(***************************************************************************)
EXTENDS Integers, Sequences

CONSTANTS
  Window,       \* ticks of a limiter's window (60 s; 1 s for Gong)
  Limit,        \* grants per window (ClickUp 100, Fathom 60, Gong 3)
  HeavyLimit,   \* heavy grants per window of Fathom (30) ...
  TightLimit,   \* ... and once tightened (5)
  DayLimit,     \* grants per UTC day of Gong (10,000)
  MaxDelay,     \* longest delay between two attempts (8 s)
  RetryAfter,   \* bound: delays a vendor asks for, those within MaxDelay
  LastCursor,   \* bound: cursors a vendor hands out
  MaxTries      \* bound: how often a driver asks for a page that fails

ASSUME LimitsAssumption ==
  /\ Window \in Nat \ {0} /\ Limit \in Nat \ {0} /\ DayLimit \in Nat \ {0}
  /\ HeavyLimit \in 1..Limit /\ TightLimit \in 1..HeavyLimit
ASSUME DelaysAssumption == MaxDelay \in Nat \ {0} /\ RetryAfter \subseteq 0..MaxDelay
ASSUME DriverAssumption == LastCursor \in Nat \ {0} /\ MaxTries \in Nat \ {0}

VARIABLES
  adapter,      \* which adapter the session uses
  window,       \* limiter: ages of the grants kept, the oldest first
  heavy,        \* FathomRateLimiter._heavy
  heavyLimit,   \* FathomRateLimiter._heavy_limit
  dayCount,     \* GongProactiveLimiter._daily_count
  dayIsOver,    \* the UTC date differs from GongProactiveLimiter._day
  seen,         \* _seen_cursors
  call,         \* the call in progress
  next,         \* driver: the page to ask for
  tries,        \* driver: attempts left for it; 0: the walk is over
  granted,      \* history: grants of the last ticks, by their number
  grantedHeavy, \* history: heavy grants of the last ticks
  grantedToday, \* history: grants since midnight
  sent,         \* history: requests of a limited adapter on the wire in the last ticks
  given,        \* history: how often the adapter accepted each cursor (2: or more)
  refused       \* history: age of the last refusal, if nothing was granted since

sessionVars ==
  <<adapter, window, heavy, heavyLimit, dayCount, dayIsOver, seen, call, next, tries,
    granted, grantedHeavy, grantedToday, sent, given, refused>>
limiterVars == <<window, heavy, heavyLimit, dayCount, dayIsOver>>
grantVars == <<granted, grantedHeavy, grantedToday, refused>>

Adapters == {"SALESFORCE", "CLICKUP", "FATHOM", "GONG"}
Cursors == 1..LastCursor
First == 0                \* a listing without a cursor
End == LastCursor + 1     \* the vendor has no further page
Transcript == -1          \* a transcript of Fathom: heavy, without a cursor
NotRefused == Window + 1

\* A history says for each age how many are as old as that or younger.
Ages == 0..(Window - 1)
Older(h) == [a \in Ages |-> IF a = 0 THEN 0 ELSE h[a - 1]]
NewOne(h) == [a \in Ages |-> h[a] + 1]
InWindow(h) == h[Window - 1]

Idle == [phase |-> "IDLE", cursor |-> First, attempt |-> 0, wait |-> 0]

SessionTypeOK ==
  /\ adapter \in Adapters
  /\ window \in Seq(0..Window) /\ heavy \in Seq(0..Window)
  /\ heavyLimit \in {HeavyLimit, TightLimit}
  /\ dayCount \in 0..DayLimit /\ dayIsOver \in BOOLEAN
  /\ seen \subseteq Cursors
  /\ call \in [phase : {"IDLE", "SENT", "SLEEPING"}, cursor : Cursors \cup {First, Transcript},
               attempt : 0..4, wait : 0..MaxDelay]
  /\ call.phase = "IDLE" <=> call.attempt = 0
  /\ next \in Cursors \cup {First, End} /\ tries \in 0..MaxTries
  /\ granted \in [Ages -> Nat] /\ grantedHeavy \in [Ages -> Nat] /\ grantedToday \in Nat
  /\ sent \in [Ages -> Nat] /\ given \in [Cursors -> 0..2]
  /\ refused \in 0..NotRefused

SessionInit ==
  /\ adapter \in Adapters
  /\ window = <<>> /\ heavy = <<>> /\ heavyLimit = HeavyLimit
  /\ dayCount = 0 /\ dayIsOver = FALSE
  /\ seen = {} /\ call = Idle
  /\ next = First /\ tries = MaxTries
  /\ granted = [a \in Ages |-> 0] /\ grantedHeavy = [a \in Ages |-> 0]
  /\ grantedToday = 0
  /\ sent = [a \in Ages |-> 0]
  /\ given = [c \in Cursors |-> 0]
  /\ refused = NotRefused

-----------------------------------------------------------------------------
(***************************************************************************)
(* The limiters.  acquire first drops the grants that left the window;     *)
(* Gong counts the day before it looks at the window, Fathom the standard  *)
(* window before the heavy one.  A refusal records nothing.                *)
(***************************************************************************)
GoneLate(age) == age > Window   \* mutant: now - oldest > 60

Gone(age) == age >= Window

\* popleft, as long as the oldest is gone
Pruned(ages) ==
  LET popped == CHOOSE n \in 0..Len(ages) :
                  /\ \A i \in 1..n : Gone(ages[i])
                  /\ n < Len(ages) => ~Gone(ages[n + 1])
  IN SubSeq(ages, popped + 1, Len(ages))

FullBeyond(ages, limit) == Len(ages) > limit   \* mutant: one request too many

Full(ages, limit) == Len(ages) >= limit

DayCount == IF dayIsOver THEN 0 ELSE dayCount
DayIsFull == adapter = "GONG" /\ DayCount >= DayLimit
IsHeavy(c) == adapter = "FATHOM" /\ c = Transcript

WindowIsFull(c) ==
  \/ Full(Pruned(window), Limit)
  \/ IsHeavy(c) /\ Full(Pruned(heavy), heavyLimit)

Granted(c) ==
  /\ IF adapter = "SALESFORCE" THEN UNCHANGED <<limiterVars, grantVars>>
     ELSE /\ ~DayIsFull /\ ~WindowIsFull(c)
          /\ window' = Append(Pruned(window), 0)
          /\ heavy' = IF IsHeavy(c) THEN Append(Pruned(heavy), 0) ELSE heavy
          /\ dayCount' = IF adapter = "GONG" THEN DayCount + 1 ELSE dayCount
          /\ dayIsOver' = FALSE
          /\ granted' = NewOne(granted)
          /\ grantedHeavy' = IF IsHeavy(c) THEN NewOne(grantedHeavy) ELSE grantedHeavy
          /\ grantedToday' = IF adapter = "GONG" THEN grantedToday + 1 ELSE grantedToday
          /\ refused' = NotRefused
          /\ UNCHANGED heavyLimit

Refused(c) ==
  /\ adapter # "SALESFORCE"
  /\ DayIsFull \/ WindowIsFull(c)
  /\ window' = Pruned(window)
  /\ heavy' = IF IsHeavy(c) /\ ~Full(Pruned(window), Limit) THEN Pruned(heavy) ELSE heavy
  /\ dayCount' = DayCount /\ dayIsOver' = FALSE
  /\ refused' = IF DayIsFull THEN refused ELSE 0
  /\ UNCHANGED <<heavyLimit, granted, grantedHeavy, grantedToday>>

-----------------------------------------------------------------------------
(***************************************************************************)
(* Asking for a page or a transcript.  Salesforce and Gong refuse a cursor *)
(* of this session they were asked for before, and remember the others     *)
(* before the limiter and the transport have their say.                    *)
(***************************************************************************)
RemembersAsked == adapter \in {"SALESFORCE", "GONG"}
Repeated(c) == RemembersAsked /\ c \in seen

OneMore(count) == IF count = 0 THEN 1 ELSE 2   \* counting no further than two

Remember(c) ==
  /\ seen' = seen \cup {c}
  /\ given' = [given EXCEPT ![c] = OneMore(@)]

RememberAsked(c) ==
  IF RemembersAsked /\ c \in Cursors THEN Remember(c) ELSE UNCHANGED <<seen, given>>

Send(c, attempt) ==
  /\ call' = [phase |-> "SENT", cursor |-> c, attempt |-> attempt, wait |-> 0]
  /\ sent' = IF adapter = "SALESFORCE" THEN sent ELSE NewOne(sent)

\* The driver sees the call fail: it may ask for a page again.
Fail(c) ==
  /\ call' = Idle
  /\ tries' = IF c = Transcript THEN tries ELSE tries - 1
  /\ UNCHANGED next

CanAsk(c) ==
  /\ call.phase = "IDLE"
  /\ IF c = Transcript THEN adapter = "FATHOM" ELSE c = next /\ next # End /\ tries > 0

AskRepeated(c) ==
  /\ CanAsk(c) /\ Repeated(c)
  /\ Fail(c)
  /\ UNCHANGED <<adapter, limiterVars, seen, grantVars, sent, given>>

AskRefused(c) ==
  /\ CanAsk(c) /\ ~Repeated(c)
  /\ RememberAsked(c)
  /\ Refused(c)
  /\ Fail(c)
  /\ UNCHANGED <<adapter, sent>>

Ask(c) ==
  /\ CanAsk(c) /\ ~Repeated(c)
  /\ RememberAsked(c)
  /\ Granted(c)
  /\ Send(c, 1)
  /\ UNCHANGED <<adapter, next, tries>>

-----------------------------------------------------------------------------
(***************************************************************************)
(* request_with_retry: a transport error or a retryable status is tried up *)
(* to four times, after the delay the vendor asked for when it is short    *)
(* enough (it may be zero), and after 1, 2, 4 seconds otherwise.  ClickUp  *)
(* sends its requests once.                                                *)
(***************************************************************************)
Backoff(attempt) ==
  LET doubled == <<1, 2, 4>>[attempt]
  IN IF doubled < MaxDelay THEN doubled ELSE MaxDelay

Exhausted(attempt) == attempt = 4

Retry ==
  /\ call.phase = "SENT"
  /\ adapter # "CLICKUP" /\ ~Exhausted(call.attempt)
  /\ \E delay \in RetryAfter \cup {Backoff(call.attempt)} :
       call' = [call EXCEPT !.phase = "SLEEPING", !.wait = delay]
  /\ UNCHANGED <<adapter, limiterVars, seen, next, tries, grantVars, sent, given>>

Resend ==
  /\ call.phase = "SLEEPING" /\ call.wait = 0
  /\ Send(call.cursor, call.attempt + 1)
  /\ UNCHANGED <<adapter, limiterVars, seen, next, tries, grantVars, given>>

\* An error that is not retried, a denied redirect, a page that breaks its contract.
GiveUp ==
  /\ call.phase = "SENT"
  /\ Fail(call.cursor)
  /\ UNCHANGED <<adapter, limiterVars, seen, grantVars, sent, given>>

-----------------------------------------------------------------------------
(***************************************************************************)
(* A page arrives, with the cursor of the next one.  ClickUp counts its    *)
(* pages itself.  Fathom refuses a cursor it received before, and the      *)
(* cursor it has just asked with.                                          *)
(***************************************************************************)
NextCursors(c) ==
  IF adapter = "CLICKUP" THEN {c + 1, End} \cap (Cursors \cup {End}) ELSE Cursors \cup {End}

CyclicAtOnce(n) ==   \* mutant: _seen_cursors is not asked
  adapter = "FATHOM" /\ n = call.cursor

Cyclic(n) == adapter = "FATHOM" /\ (n \in seen \/ n = call.cursor)

Page(n) ==
  /\ call.phase = "SENT" /\ call.cursor # Transcript
  /\ n \in NextCursors(call.cursor)
  /\ IF Cyclic(n)
     THEN Fail(call.cursor) /\ UNCHANGED <<seen, given>>
     ELSE /\ call' = Idle /\ next' = n /\ tries' = MaxTries
          /\ IF adapter = "FATHOM" /\ n # End THEN Remember(n) ELSE UNCHANGED <<seen, given>>
  /\ UNCHANGED <<adapter, limiterVars, grantVars, sent>>

TranscriptArrives ==
  /\ call.phase = "SENT" /\ call.cursor = Transcript
  /\ call' = Idle
  /\ UNCHANGED <<adapter, limiterVars, seen, next, tries, grantVars, sent, given>>

-----------------------------------------------------------------------------
(***************************************************************************)
(* tighten_heavy_to_five; and what happens around the session: time, the   *)
(* change of the UTC date, a driver that starts another walk.              *)
(***************************************************************************)
TightenHeavyToFive ==
  /\ adapter = "FATHOM"
  /\ heavyLimit' = TightLimit
  /\ UNCHANGED <<adapter, window, heavy, dayCount, dayIsOver, seen, call, next, tries,
                 grantVars, sent, given>>

Aged(a) == IF a < Window THEN a + 1 ELSE a

TimePasses ==
  /\ window' = [i \in DOMAIN window |-> Aged(window[i])]
  /\ heavy' = [i \in DOMAIN heavy |-> Aged(heavy[i])]
  /\ call' = [call EXCEPT !.wait = IF @ > 0 THEN @ - 1 ELSE 0]
  /\ granted' = Older(granted) /\ grantedHeavy' = Older(grantedHeavy)
  /\ sent' = Older(sent)
  /\ refused' = Aged(refused)
  /\ UNCHANGED <<adapter, heavyLimit, dayCount, dayIsOver, seen, next, tries,
                 grantedToday, given>>

Midnight ==
  /\ adapter = "GONG"
  /\ dayIsOver' = TRUE /\ grantedToday' = 0
  /\ UNCHANGED <<adapter, window, heavy, heavyLimit, dayCount, seen, call, next, tries,
                 granted, grantedHeavy, sent, given, refused>>

StartWalk ==
  /\ call.phase = "IDLE"
  /\ next = End \/ tries = 0
  /\ next' = First /\ tries' = MaxTries
  /\ UNCHANGED <<adapter, limiterVars, seen, call, grantVars, sent, given>>

AskForPage == AskRepeated(next) \/ AskRefused(next) \/ Ask(next)
AskForTranscript == AskRefused(Transcript) \/ Ask(Transcript)

Answer ==
  \/ Retry \/ GiveUp
  \/ \E n \in Cursors \cup {End} : Page(n)
  \/ TranscriptArrives

SessionNext ==
  \/ AskForPage \/ AskForTranscript
  \/ Answer \/ Resend
  \/ TightenHeavyToFive \/ TimePasses \/ Midnight \/ StartWalk

(***************************************************************************)
(* Every request is answered or times out (httpx, 20 s), time passes, a    *)
(* sleep ends, and a driver in a walk asks for the page it needs now and   *)
(* then, transcripts in between or not.  Nothing makes it start a walk.    *)
(***************************************************************************)
SessionSpec ==
  /\ SessionInit /\ [][SessionNext]_sessionVars
  /\ WF_sessionVars(Answer) /\ WF_sessionVars(Resend) /\ WF_sessionVars(TimePasses)
  /\ SF_sessionVars(AskForPage)

-----------------------------------------------------------------------------
(***************************************************************************)
(* What a limiter lets through stays within its limits over every window,  *)
(* not only from one check to the next, and within the day's.              *)
(***************************************************************************)
GrantsWithinLimits ==
  /\ InWindow(granted) <= Limit
  /\ InWindow(grantedHeavy) <= HeavyLimit
  /\ grantedToday <= DayLimit

(***************************************************************************)
(* The limiter is asked once per call and the transport may send four      *)
(* requests for it, so the vendor may see more than the limit: up to four  *)
(* for each grant of the window and three of the call it began with.       *)
(***************************************************************************)
WireIsBounded == InWindow(sent) <= 4 * Limit + 3

(***************************************************************************)
(* A cursor is accepted at most once in a session, whatever the vendor     *)
(* answers and however often the driver starts over: asked for at most     *)
(* once with Salesforce and Gong, received at most once with Fathom.       *)
(***************************************************************************)
NoCursorTwice == \A c \in Cursors : given[c] <= 1

(***************************************************************************)
(* What one session may do is bounded whatever the vendor answers: its     *)
(* grants, its requests and how often it takes up a cursor. (Types are     *)
(* checked along with it.)                                                 *)
(***************************************************************************)
SessionIsBounded == SessionTypeOK /\ GrantsWithinLimits /\ WireIsBounded /\ NoCursorTwice

(***************************************************************************)
(* retry_after_seconds is enough: a driver that waits a whole window after *)
(* a refusal is not refused again, with the heavy limit tightened meanwhile*)
(* or not (the day's limit aside).                                         *)
(***************************************************************************)
RefusalsEnd == [][refused = Window => refused' # 0]_sessionVars

(***************************************************************************)
(* A walk over the pages ends, even with a vendor that keeps handing out   *)
(* cursors in circles, unless the pages are counted by ClickUp's adapter,  *)
(* which goes on for as long as full pages come.                           *)
(***************************************************************************)
WalkIsOver == next = End \/ tries = 0

WalksEnd == (adapter # "CLICKUP") ~> WalkIsOver

=============================================================================
