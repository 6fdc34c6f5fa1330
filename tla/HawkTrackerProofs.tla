-------------------------- MODULE HawkTrackerProofs --------------------------
(***************************************************************************)
(* Proofs of the safety properties of HawkTracker: type correctness, and   *)
(* that rows are marked and logged where the address differs, two at most  *)
(* for each change of the line while all polls are answered.               *)
(***************************************************************************)
EXTENDS HawkTracker, TLAPS

\* What the tracker knows in each stage of a poll.
StagesOK ==
    /\ tracker.stage \in {"start", "table", "v4", "log"} => tracker.v4 = None /\ tracker.v6 = None
    /\ tracker.stage = "v6" => tracker.v4 # None /\ tracker.v6 = None
    /\ tracker.stage \in {"compare", "insert"} => tracker.v4 # None /\ tracker.v6 # None
    /\ tracker.stage = "insert" => (tracker.change <=> db # <<>> /\ Differs)
    /\ tracker.change => tracker.stage \in {"insert", "log"} /\ db # <<>>
    /\ tracker.v4 \in Words => unanswered # 0

RowsOK ==
    \A i \in 1..Len(db) :
        db[i].change <=> i > 1 /\ (db[i].v4 # db[i - 1].v4 \/ db[i].v6 # db[i - 1].v6)

Distance(x, y) == IF x = y THEN 0 ELSE 1

From(some, last, x) == IF some THEN Distance(last, x) ELSE 0

\* How often a family's address differs on the way from the last row, if there is some,
\* over the poll in progress to the line: the rows that may yet be marked on its account.
Way(some, last, polled, now) ==
    IF polled = None THEN From(some, last, now) ELSE From(some, last, polled) + Distance(polled, now)

Way4 == Way(db # <<>>, Last(db).v4, tracker.v4, line.v4)
Way6 == Way(db # <<>>, Last(db).v6, tracker.v6, line.v6)

\* Marked rows, and those that are still to come, are accounted for.
Accounted == unanswered = 0 => Recorded + (Way4 + Way6) <= 2 * changes

Told == IF tracker.stage = "log" /\ tracker.change THEN log + 1 ELSE log

LogOK == Told <= Recorded /\ Recorded <= Told + restarts

IInv == TypeOK /\ StagesOK /\ RowsOK /\ Accounted /\ LogOK /\ unanswered <= faults

-----------------------------------------------------------------------------
(* Lemmas on the way of a family's address *)

\* A way has at most two steps.
LEMMA WayBound ==
    ASSUME NEW some \in BOOLEAN, NEW last, NEW polled, NEW now
    PROVE  Way(some, last, polled, now) \in 0..2
BY DEF Way, From, Distance

\* An answer is on the way; so is nothing that was there before if the poll is given up.
LEMMA WayAnswered ==
    ASSUME NEW some \in BOOLEAN, NEW last, NEW polled, NEW now, now # None
    PROVE  /\ Way(some, last, now, now) = Way(some, last, None, now)
           /\ Way(some, last, None, now) <= Way(some, last, polled, now)
BY DEF Way, From, Distance

\* Another address of the line makes the way longer by one step at most.
LEMMA WayLine ==
    ASSUME NEW some \in BOOLEAN, NEW last, NEW polled, NEW now, NEW next
    PROVE  Way(some, last, polled, next) <= Way(some, last, polled, now) + 1
BY DEF Way, From, Distance

-----------------------------------------------------------------------------
(* The invariant *)

\* The words of a page are told from addresses and from nothing at all.
LEMMA WordsApart == None \notin Words /\ (\A a \in V4 : a \notin Words)
BY ValueAssumption

LEMMA InitInv == Init => IInv
<1> SUFFICES ASSUME Init PROVE IInv
  OBVIOUS
<1> USE DEF Init
<1>1. line.v4 \in V4 /\ line.v6 \in V6 \union {Unknown}
  BY DEF Lines
<1>2. tracker = Fresh /\ tracker.stage = "start" /\ tracker.v4 = None /\ tracker.v6 = None
      /\ tracker.change = FALSE /\ tracker \in TrackerType
  BY BoundAssumption DEF Fresh, TrackerType
<1>3. /\ query \in [Fetches -> [Endpoints -> QueryType]]
      /\ page \in PageType
  BY DEF QueryType, NoQuery, PageType
<1>4. TypeOK
  BY <1>2, <1>3, BoundAssumption DEF TypeOK
<1>5. StagesOK /\ RowsOK
  BY <1>2, WordsApart DEF StagesOK, RowsOK
<1>6. Recorded = 0 /\ Told = 0
  BY <1>2 DEF Recorded, Told
<1>7. Way4 = 0 /\ Way6 = 0
  BY <1>2 DEF Way4, Way6, Way, From
<1>8. Accounted /\ LogOK
  BY <1>6, <1>7 DEF Accounted, LogOK
<1> QED BY <1>4, <1>5, <1>8 DEF IInv

\* What the typed state gives to arithmetic.
LEMMA Numbers ==
    ASSUME TypeOK
    PROVE  /\ Recorded \in Nat /\ Told \in Nat
           /\ Way4 \in 0..2 /\ Way6 \in 0..2
           /\ changes \in Nat /\ unanswered \in Nat /\ faults \in Nat /\ restarts \in Nat
           /\ line.v4 # None /\ line.v6 # None
<1>1. db = <<>> \/ (Len(db) \in Nat /\ Len(db) # 0)
  BY DEF TypeOK
<1>2. Recorded \in Nat
  BY <1>1 DEF Recorded
<1>3. Told \in Nat
  BY DEF TypeOK, Told
<1>4. Way4 \in 0..2 /\ Way6 \in 0..2
  BY WayBound DEF Way4, Way6
<1>5. line.v4 # None /\ line.v6 # None
  BY ValueAssumption DEF TypeOK, Lines
<1> QED BY <1>2, <1>3, <1>4, <1>5, BoundAssumption DEF TypeOK

\* Rows and ways within twice the budget stay within it if the ways grow as it does.
LEMMA Budget ==
    ASSUME NEW r \in Nat, NEW w \in Int, NEW x \in Int, NEW b \in Int, NEW c \in Int,
           r + w <= b, x + b <= w + c
    PROVE  r + x <= c
OBVIOUS

\* A step of the tracker that leaves the table alone keeps the rest in order if the new
\* state of the poll is in order and the ways do not outgrow what accounts for them.
LEMMA PollStep ==
    ASSUME IInv, UNCHANGED db, TypeOK', StagesOK', unanswered' <= faults',
           unanswered' = 0 =>
               /\ unanswered = 0
               /\ (Way4' + Way6') + 2 * changes <= (Way4 + Way6) + 2 * changes',
           restarts' = restarts, Told' = Told
    PROVE  IInv'
<1>1. RowsOK'
  BY DEF IInv, RowsOK
<1>2. Recorded' = Recorded
  BY DEF Recorded
<1>3. Accounted'
  <2> SUFFICES ASSUME unanswered' = 0 PROVE Recorded + (Way4' + Way6') <= 2 * changes'
    BY <1>2 DEF Accounted
  <2>1. Way4 \in 0..2 /\ Way6 \in 0..2 /\ Recorded \in Nat /\ changes \in Nat
    BY Numbers DEF IInv
  <2>2. Way4' \in 0..2 /\ Way6' \in 0..2
    BY WayBound DEF Way4, Way6
  <2>3. changes' \in Nat
    BY BoundAssumption DEF TypeOK
  <2>4. Recorded + (Way4 + Way6) <= 2 * changes
    BY DEF IInv, Accounted
  <2>5. Way4 + Way6 \in Int /\ Way4' + Way6' \in Int /\ 2 * changes \in Int /\ 2 * changes' \in Int
    BY <2>1, <2>2, <2>3
  <2> QED BY <2>1, <2>4, <2>5, Budget
<1>4. LogOK'
  BY <1>2 DEF IInv, LogOK
<1> QED BY <1>1, <1>3, <1>4 DEF IInv

\* Two ways grow by a step each at most: what one more change allows.
LEMMA Farther ==
    ASSUME NEW w \in 0..2, NEW x \in 0..2, NEW v \in 0..2, NEW y \in 0..2, NEW b \in Int, NEW c \in Int,
           v <= w + 1, y <= x + 1, c = b + 2
    PROVE  (v + y) + b <= (w + x) + c
OBVIOUS

\* A step of the line or of the database leaves the tracker alone, except that it starts anew.
LEMMA StepLine ==
    ASSUME IInv, LineChanges
    PROVE  IInv'
<1> USE DEF LineChanges
<1>1. TypeOK'
  BY BoundAssumption DEF IInv, TypeOK, dashboard
<1>2. StagesOK' /\ Told' = Told
  BY DEF IInv, StagesOK, Differs, Last, Told
<1>3. Way4' <= Way4 + 1 /\ Way6' <= Way6 + 1
  BY WayLine DEF Way4, Way6, Last
<1>4. Way4' \in 0..2 /\ Way6' \in 0..2
  BY WayBound DEF Way4, Way6
<1>5. (Way4' + Way6') + 2 * changes <= (Way4 + Way6) + 2 * changes'
  <2>1. Way4 \in 0..2 /\ Way6 \in 0..2
    BY Numbers DEF IInv
  <2>2. 2 * changes' = 2 * changes + 2
        /\ 2 * changes' \in Int /\ 2 * changes \in Int
    <3>1. changes' = changes + 1
      OBVIOUS
    <3>2. changes \in Nat
      BY Numbers DEF IInv
    <3> HIDE DEF LineChanges
    <3> QED BY <3>1, <3>2
  <2> QED BY <1>3, <1>4, <2>1, <2>2, Farther
<1> QED BY <1>1, <1>2, <1>5, PollStep DEF IInv

\* What is still to come does not grow when a poll is given up.
LEMMA GivenUp ==
    ASSUME IInv, UNCHANGED <<line, db, changes, unanswered>>, tracker'.v4 = None, tracker'.v6 = None
    PROVE  (Way4' + Way6') + 2 * changes <= (Way4 + Way6) + 2 * changes'
<1>1. Way4' <= Way4 /\ Way6' <= Way6
  BY WayAnswered, Numbers DEF IInv, Way4, Way6, Last
<1>2. Way4' \in 0..2 /\ Way6' \in 0..2
  BY WayBound DEF Way4, Way6
<1> QED BY <1>1, <1>2, Numbers DEF IInv

LEMMA StepRestart ==
    ASSUME IInv, Restart
    PROVE  IInv'
<1> USE DEF Restart
<1>1. tracker' = Fresh /\ tracker'.stage = "start" /\ tracker'.v4 = None /\ tracker'.v6 = None
      /\ tracker'.change = FALSE /\ tracker' \in TrackerType
  BY BoundAssumption DEF Fresh, TrackerType
<1>2. TypeOK'
  BY <1>1, BoundAssumption DEF IInv, TypeOK, dashboard
<1>3. StagesOK' /\ RowsOK' /\ Recorded' = Recorded
  BY <1>1, WordsApart DEF IInv, StagesOK, RowsOK, Recorded
<1>4. Accounted'
  <2> SUFFICES ASSUME unanswered' = 0 PROVE Recorded' + (Way4' + Way6') <= 2 * changes'
    BY DEF Accounted
  <2>1. (Way4' + Way6') + 2 * changes <= (Way4 + Way6) + 2 * changes'
    BY <1>1, GivenUp
  <2>2. Way4' \in 0..2 /\ Way6' \in 0..2
    BY WayBound DEF Way4, Way6
  <2>3. Recorded + (Way4 + Way6) <= 2 * changes
    BY DEF IInv, Accounted
  <2>4. Recorded + (Way4' + Way6') <= 2 * changes'
    <3> DEFINE w == Way4 + Way6
               x == Way4' + Way6'
               b == 2 * changes
               c == 2 * changes'
    <3>1. w \in Int /\ x \in Int /\ b \in Int /\ c \in Int /\ Recorded \in Nat
      BY <2>2, Numbers DEF IInv
    <3>2. Recorded + w <= b /\ x + b <= w + c
      BY <2>1, <2>3
    <3> HIDE DEF w, x, b, c
    <3>3. Recorded + x <= c
      BY <3>1, <3>2, Budget
    <3> QED BY <3>3 DEF x, c
  <2> QED BY <1>3, <2>4
<1>5. LogOK'
  <2>1. Told' = log /\ log \in Nat /\ log <= Told /\ Told <= log + 1
    BY <1>1 DEF Told, IInv, TypeOK
  <2>2. Told <= Recorded /\ Recorded <= Told + restarts /\ restarts' = restarts + 1
    BY DEF IInv, LogOK
  <2> QED BY <1>3, <2>1, <2>2, Numbers DEF LogOK, IInv
<1> QED BY <1>2, <1>3, <1>4, <1>5 DEF IInv

\* The steps of init_database, and the end of a poll: no address is known.
LEMMA StepFile ==
    ASSUME IInv, CreateFile \/ CreateTable \/ FileExists
    PROVE  IInv'
<1> PICK s \in {"table", "v4"} : Stage(s)
  BY DEF CreateFile, CreateTable, FileExists
<1>1. /\ tracker.stage \in {"start", "table"} /\ file' \in {file, "created", "ready"}
      /\ UNCHANGED <<line, db, log, dashboard, counters>>
  BY DEF CreateFile, CreateTable, FileExists
<1>2. tracker.v4 = None /\ tracker.v6 = None /\ tracker.change = FALSE /\ tracker \in TrackerType
  BY <1>1 DEF IInv, StagesOK, TypeOK, TrackerType
<1>3. tracker'.stage = s /\ tracker'.v4 = None /\ tracker'.v6 = None
      /\ tracker'.change = FALSE /\ tracker' \in TrackerType
  BY <1>2 DEF Stage, TrackerType
<1>4. TypeOK'
  BY <1>1, <1>3 DEF IInv, TypeOK, dashboard, counters
<1>5. StagesOK' /\ Told' = Told
  BY <1>1, <1>2, <1>3, WordsApart DEF StagesOK, Told
<1>6. (Way4' + Way6') + 2 * changes <= (Way4 + Way6) + 2 * changes'
  BY <1>1, <1>3, GivenUp DEF counters
<1> QED BY <1>1, <1>4, <1>5, <1>6, PollStep DEF IInv, counters

LEMMA StepPolled ==
    ASSUME IInv, PollV4 \/ PollV6
    PROVE  IInv'
<1>1. tracker \in TrackerType /\ tracker.change = FALSE /\ UNCHANGED <<line, file, db, log, dashboard, counters>>
  BY DEF PollV4, PollV6, IInv, StagesOK, TypeOK, TrackerType
<1>2. line.v4 \in V4 /\ line.v6 \in V6 \union {Unknown} /\ line.v4 # None /\ line.v6 # None
  BY Numbers DEF IInv, TypeOK, Lines
<1>3. CASE PollV4
  <2>1. tracker.stage = "v4" /\ tracker.v4 = None /\ tracker.v6 = None
    BY <1>3 DEF PollV4, IInv, StagesOK
  <2>2. /\ tracker'.stage = "v6" /\ tracker'.v4 = line.v4 /\ tracker'.v6 = None
        /\ tracker'.change = FALSE /\ tracker' \in TrackerType
    BY <1>1, <1>2, <1>3, <2>1 DEF PollV4, TrackerType, Polled4
  <2>3. TypeOK' /\ StagesOK' /\ Told' = Told
    BY <1>1, <1>2, <2>1, <2>2, WordsApart DEF IInv, TypeOK, StagesOK, Told, dashboard, counters
  <2>4. Way4' = Way4 /\ Way6' = Way6
    <3> DEFINE some == db # <<>>
               last == Last(db).v4
               now == line.v4
    <3>1. some \in BOOLEAN /\ now # None
      BY <1>2
    <3>2. Way4 = Way(some, last, None, now) /\ Way4' = Way(some, last, now, now)
      BY <1>1, <2>1, <2>2 DEF Way4, Last
    <3>3. Way6' = Way6
      BY <1>1, <2>1, <2>2 DEF Way6, Last
    <3> HIDE DEF some, last, now
    <3> QED BY <3>1, <3>2, <3>3, WayAnswered
  <2>5. (Way4' + Way6') + 2 * changes <= (Way4 + Way6) + 2 * changes'
    BY <1>1, <2>4, Numbers DEF IInv, counters
  <2> QED BY <1>1, <2>3, <2>5, PollStep DEF IInv, counters
<1>4. CASE PollV6
  <2>1. tracker.stage = "v6" /\ tracker.v4 # None /\ tracker.v6 = None
    BY <1>4 DEF PollV6, IInv, StagesOK
  <2>2. PICK w \in Polled6 :
            /\ tracker' = [tracker EXCEPT !.stage = "compare", !.v6 = w]
            /\ w \in Words \/ w = line.v6
            /\ w # line.v6 => tracker.v4 \in Words
    BY <1>2, <1>4 DEF PollV6, PolledV6, ReadAs, Polled6
  <2> HIDE DEF PollV6
  <2>3. /\ tracker'.stage = "compare" /\ tracker'.v4 = tracker.v4 /\ tracker'.v6 = w /\ w # None
        /\ tracker'.change = FALSE /\ tracker' \in TrackerType
    BY <1>1, <2>1, <2>2, ValueAssumption DEF TrackerType, Polled6
  <2>4. TypeOK' /\ StagesOK' /\ Told' = Told
    BY <1>1, <1>2, <2>1, <2>3 DEF IInv, TypeOK, StagesOK, Told, dashboard, counters
  <2>5. ASSUME unanswered' = 0
        PROVE  (Way4' + Way6') + 2 * changes <= (Way4 + Way6) + 2 * changes'
    <3> DEFINE some == db # <<>>
               last == Last(db).v6
               now == line.v6
    <3>1. some \in BOOLEAN /\ now # None
      BY <1>2
    <3>2. tracker'.v6 = now
      <4>1. tracker.v4 \notin Words
        BY <1>1, <2>5 DEF IInv, StagesOK, counters
      <4> QED BY <2>2, <2>3, <4>1
    <3>3. Way6 = Way(some, last, None, now) /\ Way6' = Way(some, last, now, now)
      BY <1>1, <2>1, <3>2 DEF Way6, Last
    <3>4. Way4' = Way4
      BY <1>1, <2>1, <2>3 DEF Way4, Last
    <3> HIDE DEF some, last, now
    <3>5. Way6' = Way6
      BY <3>1, <3>3, WayAnswered
    <3> QED BY <1>1, <3>4, <3>5, Numbers DEF IInv, counters
  <2> QED BY <1>1, <2>4, <2>5, PollStep DEF IInv, counters
<1> QED BY <1>3, <1>4

\* The state of a poll before its first request, and after its end.
LEMMA FreshPoll ==
    /\ Fresh \in TrackerType
    /\ Fresh.v4 = None /\ Fresh.v6 = None /\ Fresh.change = FALSE
BY BoundAssumption DEF Fresh, TrackerType

\* A request that is not answered, or by a page, ends the accounting.
LEMMA StepNotPolled ==
    ASSUME IInv, PollV4Fails \/ PollV4Misread \/ PollV6Fails \/ PollV6Misread
    PROVE  IInv'
<1>1. /\ tracker \in TrackerType /\ tracker.change = FALSE /\ tracker.stage \in {"v4", "v6"}
      /\ UNCHANGED <<line, file, db, log, dashboard, changes, restarts>>
      /\ faults + restarts < MaxFaults /\ faults' = faults + 1 /\ unanswered' = unanswered + 1
  BY DEF PollV4Fails, PollV4Misread, PollV6Fails, PollV6Misread, Fault, IInv, StagesOK, TypeOK, TrackerType
<1>2. PICK s \in {"v6", "compare"}, v4 \in Polled4, v6 \in Polled6 \union {None} :
          /\ tracker' = [tracker EXCEPT !.stage = s, !.v4 = v4, !.v6 = v6]
          /\ s = "v6" <=> v6 = None
  <2>1. CASE PollV4Fails \/ PollV4Misread
    <3>1. PICK w \in Polled4 : tracker' = [tracker EXCEPT !.stage = "v6", !.v4 = w]
      BY <2>1 DEF PollV4Fails, PollV4Misread, Polled4
    <3>2. tracker.v6 = None
      BY <2>1 DEF PollV4Fails, PollV4Misread, IInv, StagesOK
    <3>3. tracker' = [tracker EXCEPT !.stage = "v6", !.v4 = w, !.v6 = None]
      BY <1>1, <3>1, <3>2 DEF TrackerType
    <3> QED BY <3>3
  <2>2. CASE PollV6Fails \/ PollV6Misread
    <3>1. PICK w \in Polled6 : tracker' = [tracker EXCEPT !.stage = "compare", !.v6 = w]
      BY <2>2 DEF PollV6Fails, PollV6Misread, PolledV6, ReadAs, Polled6
    <3>2. tracker.v4 \in Polled4 /\ w # None
      BY <1>1, <2>2, ValueAssumption
      DEF PollV6Fails, PollV6Misread, IInv, StagesOK, TrackerType, Polled4, Polled6
    <3>3. tracker' = [tracker EXCEPT !.stage = "compare", !.v4 = tracker.v4, !.v6 = w]
      BY <1>1, <3>1 DEF TrackerType
    <3> QED BY <3>2, <3>3
  <2> QED BY <2>1, <2>2
<1>3. unanswered' <= faults' /\ unanswered' \in 0..MaxFaults /\ faults' \in 0..MaxFaults /\ unanswered' # 0
  BY <1>1, Numbers, BoundAssumption DEF IInv
<1>4. /\ tracker' \in TrackerType /\ tracker'.stage = s /\ tracker'.change = FALSE
      /\ tracker'.v4 = v4 /\ tracker'.v6 = v6 /\ v4 # None
  BY <1>1, <1>2, ValueAssumption DEF TrackerType, Polled4
<1>5. TypeOK'
  BY <1>1, <1>3, <1>4 DEF IInv, TypeOK, dashboard
<1>6. StagesOK'
  BY <1>2, <1>3, <1>4 DEF StagesOK
<1>7. Told' = Told
  BY <1>1, <1>4 DEF Told
<1> QED BY <1>1, <1>3, <1>5, <1>6, <1>7, PollStep

LEMMA StepCompare ==
    ASSUME IInv, Compare
    PROVE  IInv'
<1>1. tracker \in TrackerType /\ tracker.stage = "compare" /\ UNCHANGED <<line, file, db, log, dashboard, counters>>
  BY DEF Compare, IInv, TypeOK
<1>2. /\ tracker' \in TrackerType /\ tracker'.stage = "insert"
      /\ tracker'.v4 = tracker.v4 /\ tracker'.v6 = tracker.v6
      /\ tracker'.change = (db # <<>> /\ Differs)
  <2> DEFINE c == db # <<>> /\ Differs
  <2>1. c \in BOOLEAN
    OBVIOUS
  <2>2. tracker' = [tracker EXCEPT !.stage = "insert", !.attempt = 1, !.change = c]
    BY DEF Compare
  <2> HIDE DEF c
  <2>3. /\ tracker' \in TrackerType /\ tracker'.stage = "insert"
        /\ tracker'.v4 = tracker.v4 /\ tracker'.v6 = tracker.v6 /\ tracker'.change = c
    <3>1. 1 \in 1..MaxRetries
      BY BoundAssumption
    <3>2. tracker' \in TrackerType
      BY <1>1, <2>1, <2>2, <3>1 DEF TrackerType
    <3>3. /\ tracker'.stage = "insert" /\ tracker'.v4 = tracker.v4 /\ tracker'.v6 = tracker.v6
          /\ tracker'.change = c
      BY <1>1, <2>2 DEF TrackerType
    <3> QED BY <3>2, <3>3
  <2> QED BY <2>3 DEF c
<1>3. Differs' = Differs
  BY <1>1, <1>2 DEF Differs, Last
<1>4. TypeOK'
  BY <1>1, <1>2 DEF IInv, TypeOK, dashboard, counters
<1>5. StagesOK'
  BY <1>1, <1>2, <1>3 DEF IInv, StagesOK, counters
<1>6. Told' = Told /\ Way4' = Way4 /\ Way6' = Way6
  BY <1>1, <1>2 DEF Told, Way4, Way6, Last
<1>7. (Way4' + Way6') + 2 * changes <= (Way4 + Way6) + 2 * changes'
  BY <1>1, <1>6, Numbers DEF IInv, counters
<1> QED BY <1>1, <1>4, <1>5, <1>6, <1>7, PollStep DEF IInv, counters

\* The end of a poll that leaves the table alone.
LEMMA StepLog ==
    ASSUME IInv, LogPoll
    PROVE  IInv'
<1>1. tracker.stage = "log" /\ UNCHANGED <<line, file, db, dashboard, counters>>
  BY DEF LogPoll
<1>2. /\ tracker' \in TrackerType /\ tracker'.stage = "v4"
      /\ tracker'.v4 = None /\ tracker'.v6 = None /\ tracker'.change = FALSE
  <2>1. tracker' = [Fresh EXCEPT !.stage = "v4"]
    BY DEF LogPoll
  <2> QED BY <2>1, FreshPoll DEF TrackerType
<1>3. log' = Told /\ Told \in Nat
  BY <1>1, Numbers DEF LogPoll, Told, IInv
<1>4. TypeOK' /\ StagesOK' /\ Told' = Told
  BY <1>1, <1>2, <1>3 DEF IInv, TypeOK, StagesOK, Told, dashboard, counters
<1>5. (Way4' + Way6') + 2 * changes <= (Way4 + Way6) + 2 * changes'
  BY <1>1, <1>2, GivenUp DEF counters
<1> QED BY <1>1, <1>4, <1>5, PollStep DEF IInv, counters

LEMMA StepNotInserted ==
    ASSUME IInv, InsertFails
    PROVE  IInv'
<1>1. /\ tracker \in TrackerType /\ tracker.stage = "insert"
      /\ UNCHANGED <<line, file, db, log, dashboard, unanswered, changes, restarts>>
  BY DEF InsertFails, NoFault, Fault, IInv, TypeOK
<1>2. faults' \in 0..MaxFaults /\ unanswered' <= faults'
  BY <1>1, Numbers, BoundAssumption DEF InsertFails, NoFault, Fault, IInv, TypeOK
<1>3. CASE tracker.attempt < MaxRetries
  <2>1. /\ tracker' \in TrackerType /\ tracker'.stage = "insert" /\ tracker'.change = tracker.change
        /\ tracker'.v4 = tracker.v4 /\ tracker'.v6 = tracker.v6
    BY <1>1, <1>3, BoundAssumption DEF InsertFails, TrackerType
  <2>2. TypeOK' /\ Told' = Told
    BY <1>1, <1>2, <2>1 DEF IInv, TypeOK, Told, dashboard
  <2>3. StagesOK'
    BY <1>1, <2>1 DEF IInv, StagesOK, Differs, Last
  <2>4. Way4' = Way4 /\ Way6' = Way6
    BY <1>1, <2>1 DEF Way4, Way6, Last
  <2>5. (Way4' + Way6') + 2 * changes <= (Way4 + Way6) + 2 * changes'
    BY <1>1, <2>4, Numbers DEF IInv
  <2> QED BY <1>1, <1>2, <2>2, <2>3, <2>5, PollStep
<1>4. CASE ~(tracker.attempt < MaxRetries)
  <2>1. /\ tracker' \in TrackerType /\ tracker'.stage = "log" /\ tracker'.change = FALSE
        /\ tracker'.v4 = None /\ tracker'.v6 = None
    <3>1. tracker' = [Fresh EXCEPT !.stage = "log", !.change = FALSE]
      BY <1>4 DEF InsertFails, ToLog
    <3> QED BY <3>1, FreshPoll DEF TrackerType
  <2>2. TypeOK' /\ Told' = Told /\ StagesOK'
    BY <1>1, <1>2, <2>1, WordsApart DEF IInv, TypeOK, Told, StagesOK, dashboard
  <2>3. (Way4' + Way6') + 2 * changes <= (Way4 + Way6) + 2 * changes'
    BY <1>1, <2>1, GivenUp
  <2> QED BY <1>1, <1>2, <2>2, <2>3, PollStep
<1> QED BY <1>3, <1>4

\* Queries and pages leave the tracker and its table alone.
LEMMA StepDashboard ==
    ASSUME IInv, NEW f \in Fetches, Dashboard(f)
    PROVE  IInv'
<1>1. UNCHANGED <<line, file, db, log, tracker, unanswered, changes, restarts>>
  BY DEF Dashboard, FetchBegins, FetchResolved, FetchRejected, Settles, QueryAnswered, QueryFails,
         NoFault, Fault, counters
<1>2. faults' \in 0..MaxFaults /\ unanswered' <= faults'
  BY <1>1, Numbers, BoundAssumption
  DEF Dashboard, FetchBegins, FetchResolved, FetchRejected, Settles, QueryAnswered, QueryFails,
      NoFault, Fault, counters, IInv, TypeOK
<1>3. query \in [Fetches -> [Endpoints -> QueryType]] /\ page \in PageType /\ Len(db) \in Nat
  BY DEF IInv, TypeOK
<1>4. query' \in [Fetches -> [Endpoints -> QueryType]] /\ page' \in PageType
  <2>1. CASE FetchBegins(f)
    BY <1>3, <2>1 DEF FetchBegins, NoQuery, QueryType
  <2>2. CASE FetchResolved(f)
    <3>1. \A e \in Endpoints : query[f][e].rows \in Nat
      BY <1>3 DEF QueryType
    <3>2. page' \in PageType
      BY <2>2, <3>1 DEF FetchResolved, PageType
    <3> QED BY <1>3, <2>2, <3>2 DEF FetchResolved, Settles, NoQuery, QueryType
  <2>3. CASE FetchRejected(f)
    <3>1. page' \in PageType
      BY <1>3, <2>3 DEF FetchRejected, PageType
    <3> QED BY <1>3, <2>3, <3>1 DEF FetchRejected, Settles, NoQuery, QueryType
  <2>4. ASSUME NEW e \in Endpoints, QueryAnswered(f, e) \/ QueryFails(f, e)
        PROVE  query' \in [Fetches -> [Endpoints -> QueryType]] /\ page' \in PageType
    <3>1. PICK q \in QueryType : query' = [query EXCEPT ![f][e] = q]
      BY <1>3, <2>4 DEF QueryAnswered, QueryFails, NoQuery, QueryType
    <3>2. page' = page
      BY <2>4 DEF QueryAnswered, QueryFails
    <3> QED BY <1>3, <3>1, <3>2
  <2> QED BY <2>1, <2>2, <2>3, <2>4 DEF Dashboard
<1>5. TypeOK'
  BY <1>1, <1>2, <1>4 DEF IInv, TypeOK
<1>6. StagesOK' /\ Told' = Told /\ Way4' = Way4 /\ Way6' = Way6
  BY <1>1 DEF IInv, StagesOK, Differs, Last, Told, Way4, Way6
<1>7. (Way4' + Way6') + 2 * changes <= (Way4 + Way6) + 2 * changes'
  BY <1>1, <1>6, Numbers DEF IInv
<1> QED BY <1>1, <1>2, <1>5, <1>6, <1>7, PollStep

\* Two ways become shorter by what has been gone of both.
LEMMA Shorter ==
    ASSUME NEW w \in Int, NEW x \in Int, NEW v \in Int, NEW y \in Int,
           NEW a \in Int, NEW b \in Int, NEW s \in Int,
           v + a = w, y + b = x, a + b >= s
    PROVE  v + y + s <= w + x
OBVIOUS

LEMMA Spent ==
    ASSUME NEW r \in Int, NEW s \in Int, NEW w \in Int, NEW x \in Int, NEW v \in Int, NEW y \in Int,
           NEW b \in Int, v + y + s <= w + x, r + (w + x) <= b
    PROVE  (r + s) + (v + y) <= b
OBVIOUS

\* What is recorded becomes the last row; its changes are no longer still to come.
LEMMA StepInsert ==
    ASSUME IInv, Insert
    PROVE  IInv'
<1>1. /\ tracker \in TrackerType /\ tracker.stage = "insert" /\ tracker.v4 # None /\ tracker.v6 # None
      /\ tracker.change <=> db # <<>> /\ Differs
      /\ db \in Seq(Rows) /\ UNCHANGED <<line, file, log, dashboard, counters>>
  BY DEF Insert, IInv, TypeOK, StagesOK
<1>2. /\ tracker' \in TrackerType /\ tracker'.stage = "log"
      /\ tracker'.change = tracker.change /\ tracker'.v4 = None /\ tracker'.v6 = None
  <2> DEFINE c == tracker.change
  <2>1. c \in BOOLEAN /\ tracker' = [Fresh EXCEPT !.stage = "log", !.change = c]
    BY <1>1 DEF Insert, ToLog, TrackerType
  <2> HIDE DEF c
  <2>2. tracker' \in TrackerType /\ tracker'.stage = "log" /\ tracker'.change = c
        /\ tracker'.v4 = None /\ tracker'.v6 = None
    BY <2>1, FreshPoll DEF TrackerType
  <2> QED BY <2>2 DEF c
<1>3. CASE db # <<>> /\ ~tracker.change
  <2>1. db' = db /\ tracker.v4 = Last(db).v4 /\ tracker.v6 = Last(db).v6
    BY <1>1, <1>3 DEF Insert, Differs
  <2>2. TypeOK' /\ StagesOK' /\ Told' = Told
    BY <1>1, <1>2, <1>3, <2>1, WordsApart DEF IInv, TypeOK, StagesOK, Told, dashboard, counters
  <2>3. (Way4' + Way6') + 2 * changes <= (Way4 + Way6) + 2 * changes'
    BY <1>1, <1>2, <2>1, GivenUp DEF counters
  <2> QED BY <1>1, <2>1, <2>2, <2>3, PollStep DEF IInv, counters
<1>4. CASE db = <<>> \/ tracker.change
  <2> DEFINE n == Len(db)
  <2>1. db' = Append(db, Row) /\ Row \in Rows
    <3>1. tracker.v4 \in Polled4 /\ tracker.v6 \in Polled6 /\ tracker.change \in BOOLEAN
      BY <1>1 DEF TrackerType
    <3> QED BY <1>1, <1>4, <3>1 DEF Insert, Row, Rows
  <2>2. /\ db' \in Seq(Rows) /\ Len(db') = n + 1 /\ n \in Nat /\ db' # <<>>
        /\ \A i \in 1..n : db'[i] = db[i]
        /\ db'[n + 1] = Row
    BY <1>1, <2>1
  <2>3. Last(db').v4 = tracker.v4 /\ Last(db').v6 = tracker.v6
    BY <2>2 DEF Last, Row
  <2>4. db = <<>> <=> n = 0
    BY <1>1
  <2>5. TypeOK' /\ StagesOK'
    BY <1>1, <1>2, <2>2, WordsApart DEF IInv, TypeOK, StagesOK, dashboard, counters
  <2>6. RowsOK'
    <3> SUFFICES ASSUME NEW i \in 1..(n + 1)
                 PROVE  db'[i].change <=> i > 1 /\ (db'[i].v4 # db'[i - 1].v4 \/ db'[i].v6 # db'[i - 1].v6)
      BY <2>2 DEF RowsOK
    <3>1. CASE i \in 1..n
      <4>1. db'[i] = db[i] /\ (i > 1 => db'[i - 1] = db[i - 1])
        BY <2>2, <3>1
      <4> QED BY <3>1, <4>1 DEF IInv, RowsOK
    <3>2. CASE i = n + 1 /\ n = 0
      <4>1. ~tracker.change /\ db'[i].change = tracker.change
        BY <1>1, <2>2, <2>4, <3>2 DEF Row
      <4> QED BY <3>2, <4>1
    <3>3. CASE i = n + 1 /\ n # 0
      <4>1. db'[i] = Row /\ db'[i - 1] = Last(db) /\ i > 1
        BY <2>2, <3>3 DEF Last
      <4> QED BY <1>1, <2>4, <3>3, <4>1 DEF Row, Differs
    <3> QED BY <2>2, <3>1, <3>2, <3>3
  <2> DEFINE step == IF tracker.change THEN 1 ELSE 0
  <2>7. Recorded' = Recorded + step
    <3>1. Recorded' = n
      BY <2>2 DEF Recorded
    <3>2. CASE db = <<>>
      <4>1. ~tracker.change
        BY <1>1, <3>2
      <4>2. step = 0 /\ Recorded = 0
        BY <3>2, <4>1 DEF Recorded
      <4> QED BY <2>4, <3>1, <3>2, <4>2
    <3>3. CASE db # <<>>
      BY <1>4, <2>2, <3>1, <3>3 DEF Recorded
    <3> QED BY <3>2, <3>3
  <2>8. Way4' + Way6' + step <= Way4 + Way6
    <3> DEFINE some == db # <<>>
               from4 == From(some, Last(db).v4, tracker.v4)
               from6 == From(some, Last(db).v6, tracker.v6)
    <3>1. Way4' = Way(TRUE, tracker.v4, None, line.v4) /\ Way6' = Way(TRUE, tracker.v6, None, line.v6)
      BY <1>1, <1>2, <2>2, <2>3 DEF Way4, Way6
    <3>2. Way4' + from4 = Way4 /\ Way6' + from6 = Way6
      <4>1. some \in BOOLEAN
        OBVIOUS
      <4>2. /\ Way(TRUE, tracker.v4, None, line.v4) + from4 = Way(some, Last(db).v4, tracker.v4, line.v4)
            /\ Way(TRUE, tracker.v6, None, line.v6) + from6 = Way(some, Last(db).v6, tracker.v6, line.v6)
        <5> DEFINE l4 == Last(db).v4
                   l6 == Last(db).v6
                   p4 == tracker.v4
                   p6 == tracker.v6
        <5>1. p4 # None /\ p6 # None
          BY <1>1
        <5> HIDE DEF some, l4, l6, p4, p6
        <5>2. Way(TRUE, p4, None, line.v4) + From(some, l4, p4) = Way(some, l4, p4, line.v4)
          BY <4>1, <5>1 DEF Way, From, Distance
        <5>3. Way(TRUE, p6, None, line.v6) + From(some, l6, p6) = Way(some, l6, p6, line.v6)
          BY <4>1, <5>1 DEF Way, From, Distance
        <5> QED BY <5>2, <5>3 DEF l4, l6, p4, p6
      <4> QED BY <3>1, <4>2 DEF Way4, Way6
    <3>3. from4 \in 0..1 /\ from6 \in 0..1 /\ (tracker.change => from4 + from6 >= 1)
      BY <1>1 DEF From, Distance, Differs
    <3>4. Way4' \in 0..2 /\ Way6' \in 0..2
      BY WayBound DEF Way4, Way6
    <3>5. step \in 0..1 /\ (step = 1 => from4 + from6 >= 1)
      BY <3>3
    <3> HIDE DEF step, from4, from6
    <3>6. from4 + from6 >= step
      BY <3>3, <3>5
    <3>7. Way4 \in Int /\ Way6 \in Int /\ Way4' \in Int /\ Way6' \in Int
      BY <3>4, Numbers DEF IInv
    <3>8. from4 \in Int /\ from6 \in Int /\ step \in Int
      BY <3>3, <3>5
    <3> QED BY <3>2, <3>6, <3>7, <3>8, Shorter
  <2>9. Accounted'
    <3> SUFFICES ASSUME unanswered' = 0 PROVE Recorded' + (Way4' + Way6') <= 2 * changes'
      BY DEF Accounted
    <3>1. Way4' \in 0..2 /\ Way6' \in 0..2
      BY WayBound DEF Way4, Way6
    <3>2. Recorded + (Way4 + Way6) <= 2 * changes
      BY <1>1 DEF IInv, Accounted, counters
    <3>3. changes' = changes
      BY <1>1 DEF counters
    <3> HIDE DEF step
    <3>4. step \in 0..1
      BY DEF step
    <3>5. Recorded \in Int /\ Way4 \in Int /\ Way6 \in Int /\ Way4' \in Int /\ Way6' \in Int
          /\ step \in Int /\ 2 * changes \in Int
      BY <3>1, <3>4, Numbers DEF IInv
    <3>6. (Recorded + step) + (Way4' + Way6') <= 2 * changes
      <4> DEFINE v == Way4'
                 y == Way6'
                 b == 2 * changes
      <4>1. v \in Int /\ y \in Int /\ b \in Int /\ v + y + step <= Way4 + Way6 /\ Recorded + (Way4 + Way6) <= b
        BY <2>8, <3>2, <3>5
      <4> HIDE DEF v, y, b
      <4>2. (Recorded + step) + (v + y) <= b
        BY <3>5, <4>1, Spent
      <4> QED BY <4>2 DEF v, y, b
    <3> QED BY <2>7, <3>3, <3>6
  <2>10. LogOK' /\ unanswered' <= faults'
    <3>1. Told' = Told + step
      BY <1>1, <1>2, Numbers DEF Told, IInv, TypeOK
    <3>2. restarts' = restarts /\ unanswered' = unanswered /\ faults' = faults
      BY <1>1 DEF counters
    <3>3. Told <= Recorded /\ Recorded <= Told + restarts /\ unanswered <= faults
      BY DEF IInv, LogOK
    <3> QED BY <2>7, <3>1, <3>2, <3>3, Numbers DEF LogOK, IInv
  <2> QED BY <2>5, <2>6, <2>9, <2>10 DEF IInv
<1> QED BY <1>1, <1>3, <1>4

LEMMA Step == IInv /\ [Next]_vars => IInv'
<1> SUFFICES ASSUME IInv, [Next]_vars PROVE IInv'
  OBVIOUS
<1>1. CASE LineChanges
  BY <1>1, StepLine
<1>2. CASE Restart
  BY <1>2, StepRestart
<1>3. CASE CreateFile \/ CreateTable \/ FileExists
  BY <1>3, StepFile
<1>4. CASE PollV4 \/ PollV6
  BY <1>4, StepPolled
<1>5. CASE PollV4Fails \/ PollV4Misread \/ PollV6Fails \/ PollV6Misread
  BY <1>5, StepNotPolled
<1>6. CASE Compare
  BY <1>6, StepCompare
<1>7. CASE Insert
  BY <1>7, StepInsert
<1>8. CASE InsertFails
  BY <1>8, StepNotInserted
<1>9. CASE LogPoll
  BY <1>9, StepLog
<1>10. ASSUME NEW f \in Fetches, Dashboard(f)
       PROVE  IInv'
  BY <1>10, StepDashboard
<1>11. CASE UNCHANGED vars
  BY <1>11 DEF vars, IInv, TypeOK, StagesOK, Differs, RowsOK, Accounted, LogOK, Recorded, Told, Way4, Way6
<1> QED
  BY <1>1, <1>2, <1>3, <1>4, <1>5, <1>6, <1>7, <1>8, <1>9, <1>10, <1>11 DEF Next, Tracker

LEMMA Invariance == Spec => []IInv
<1>1. Init => IInv
  BY InitInv
<1>2. IInv /\ [Next]_vars => IInv'
  BY Step
<1> QED BY <1>1, <1>2, PTL DEF Spec

-----------------------------------------------------------------------------

\* Type correctness, for any addresses and any number of retries, changes and failures
\* (the variables of entrypoint.sh, api.js and Dashboard.jsx).
THEOREM TypeCorrect == Spec => []TypeOK
<1>1. IInv => TypeOK
  BY DEF IInv
<1> QED BY <1>1, Invariance, PTL

\* Rows are marked and logged exactly where the address differs, and as long as all polls
\* are answered there are at most two for each change of the line, however polls, failing
\* inserts and restarts follow each other (insert_and_detect_change and the loop of
\* entrypoint.sh).
THEOREM OnlyChangesTold == Spec => []ChangesAreReal
<1>1. IInv => ChangesAreReal
  <2> SUFFICES ASSUME IInv PROVE ChangesAreReal
    OBVIOUS
  <2>1. unanswered = 0 => Recorded <= 2 * changes
    <3> SUFFICES ASSUME unanswered = 0 PROVE Recorded <= 2 * changes
      OBVIOUS
    <3>1. Recorded + (Way4 + Way6) <= 2 * changes
      BY DEF IInv, Accounted
    <3> QED BY <3>1, Numbers DEF IInv
  <2>2. RowsOK /\ LogOK
    BY DEF IInv
  <2> QED BY <2>1, <2>2 DEF ChangesAreReal, RowsOK, LogOK, Told
<1> QED BY <1>1, Invariance, PTL
=============================================================================
