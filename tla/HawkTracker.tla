---------------------------- MODULE HawkTracker ----------------------------
(***************************************************************************)
(* The IP tracker: addons/homerouter-hawk.  entrypoint.sh polls the        *)
(* router's public addresses and records them in an SQLite table, marking  *)
(* the rows that differ from the one before; ui/server/api.js answers      *)
(* queries about the table, and ui/src/pages/Dashboard.jsx asks three of   *)
(* them at a time and shows the answers.                                   *)
(*                                                                         *)
(* Tracker, queries and pages run concurrently and share the table only.   *)
(* A step of the tracker is one command of its script; a query sees the    *)
(* table as it is at one moment.  The tracker is the only writer, and the  *)
(* reader of a page may make it wait, never the other way round.           *)
(***************************************************************************)
EXTENDS Integers, Sequences

CONSTANTS
    V4, V6,       \* addresses the provider may assign
    Unknown,      \* recorded where there is no answer, or no IPv6 address in it
    Words,        \* what is recorded of an answer that is an error page
    None,         \* not asked for yet
    Endpoints,    \* what a page asks for: the history, the latest row and the changes
    Fetches,      \* the calls of fetchData that a page may have under way at a time
    MaxRetries,   \* MAX_RETRIES
    MaxChanges,   \* bound on the changes of the line
    MaxFaults     \* bound on failures and restarts together

ASSUME ValueAssumption ==
    /\ Unknown \notin V4 \union V6 \union Words
    /\ None \notin V4 \union V6 \union Words \union {Unknown}
    /\ Words \intersect (V4 \union V6) = {}
ASSUME BoundAssumption ==
    MaxRetries \in Nat \ {0} /\ MaxChanges \in Nat /\ MaxFaults \in Nat

VARIABLES
    line,     \* the addresses of the router, by family; a line may be without IPv6
    file,     \* ip-tracker.db: "absent", "created" without its table, or "ready"
    db,       \* the rows; one that repeats the row before it is left out
    log,      \* number of "IP CHANGE" lines in ip-changes.log
    tracker,  \* stage, the addresses of this poll, what the comparison said, attempt
    query,    \* for each call of fetchData and each of its requests: stage and answer
    page,     \* what the page shows: for each request the rows there were, and an error
    (* for the model only *)
    changes, unanswered, faults, restarts  \* counters; a page for an answer is none

vars == <<line, file, db, log, tracker, query, page, changes, unanswered, faults, restarts>>

Lines == [v4 : V4, v6 : V6 \union {Unknown}]

Polled4 == V4 \union Words \union {Unknown}
Polled6 == V6 \union Words \union {Unknown}

Rows == [v4 : Polled4, v6 : Polled6, change : BOOLEAN]

Fresh == [stage |-> "start", v4 |-> None, v6 |-> None, change |-> FALSE, attempt |-> 1]

TrackerType ==
    [stage : {"start", "table", "v4", "v6", "compare", "insert", "log"},
     v4 : Polled4 \union {None}, v6 : Polled6 \union {None}, change : BOOLEAN,
     attempt : 1..MaxRetries]

\* A query is answered from a table that only grows: by its rows up to some length.
QueryType == [stage : {"idle", "asked", "answered", "failed"}, rows : Nat]

NoQuery == [stage |-> "idle", rows |-> 0]

PageType == [shown : [Endpoints -> Nat], error : BOOLEAN, loading : BOOLEAN]

TypeOK ==
    /\ line \in Lines
    /\ file \in {"absent", "created", "ready"}
    /\ db \in Seq(Rows)
    /\ log \in Nat
    /\ tracker \in TrackerType
    /\ query \in [Fetches -> [Endpoints -> QueryType]]
    /\ page \in PageType
    /\ changes \in 0..MaxChanges
    /\ unanswered \in 0..MaxFaults
    /\ faults \in 0..MaxFaults
    /\ restarts \in 0..MaxFaults

Init ==
    /\ line \in Lines
    /\ file = "absent"
    /\ db = <<>>
    /\ log = 0
    /\ tracker = Fresh
    /\ query = [f \in Fetches |-> [e \in Endpoints |-> NoQuery]]
    /\ page = [shown |-> [e \in Endpoints |-> 0], error |-> FALSE, loading |-> TRUE]
    /\ changes = 0 /\ unanswered = 0 /\ faults = 0 /\ restarts = 0

counters == <<changes, unanswered, faults, restarts>>
dashboard == <<query, page>>

Fault == faults + restarts < MaxFaults /\ faults' = faults + 1 /\ UNCHANGED <<changes, restarts>>

NoFault == UNCHANGED <<changes, faults, restarts>>

-----------------------------------------------------------------------------
(* The line and the containers *)

\* The provider assigns other addresses, of one family or of both.
LineChanges ==
    /\ changes < MaxChanges
    /\ changes' = changes + 1
    /\ line' \in Lines \ {line}
    /\ UNCHANGED <<file, db, log, tracker, dashboard, unanswered, faults, restarts>>

\* The tracker's container is stopped at any point and started again.
Restart ==
    /\ faults + restarts < MaxFaults
    /\ restarts' = restarts + 1
    /\ tracker' = Fresh
    /\ UNCHANGED <<line, file, db, log, dashboard, changes, unanswered, faults>>

-----------------------------------------------------------------------------
(* entrypoint.sh *)

Stage(s) == tracker' = [tracker EXCEPT !.stage = s]

\* init_database: sqlite3 creates the file, then the table ...
CreateFile ==
    /\ tracker.stage = "start" /\ file = "absent"
    /\ file' = "created"
    /\ Stage("table")
    /\ UNCHANGED <<line, db, log, dashboard, counters>>

CreateTable ==
    /\ tracker.stage = "table"
    /\ file' = "ready"
    /\ Stage("v4")
    /\ UNCHANGED <<line, db, log, dashboard, counters>>

\* ... and does neither if there is a file.
FileExists ==
    /\ tracker.stage = "start" /\ file # "absent"
    /\ Stage("v4")
    /\ UNCHANGED <<line, file, db, log, dashboard, counters>>

\* get_ips: an attempt is answered with the line's address at that moment ...
PollV4 ==
    /\ tracker.stage = "v4"
    /\ tracker' = [tracker EXCEPT !.stage = "v6", !.v4 = line.v4]
    /\ UNCHANGED <<line, file, db, log, dashboard, counters>>

\* ... or none of them is ...
PollV4Fails ==
    /\ tracker.stage = "v4"
    /\ tracker' = [tracker EXCEPT !.stage = "v6", !.v4 = Unknown]
    /\ unanswered' = unanswered + 1
    /\ Fault
    /\ UNCHANGED <<line, file, db, log, dashboard>>

\* ... or the answer is an error page: curl does not look at the status, and whatever is
\* not empty is taken for an address.
PollV4Misread ==
    /\ tracker.stage = "v4"
    /\ \E w \in Words : tracker' = [tracker EXCEPT !.stage = "v6", !.v4 = w]
    /\ unanswered' = unanswered + 1
    /\ Fault
    /\ UNCHANGED <<line, file, db, log, dashboard>>

\* get_ips prints one line of both: the loop reads the first word as the one and the rest as
\* the other, so that the words of a page get in the way of an IPv6 address.
ReadAs(v6) == {v6} \union (IF tracker.v4 \in Words THEN Words ELSE {})

PolledV6(v6) ==
    \E w \in ReadAs(v6) : tracker' = [tracker EXCEPT !.stage = "compare", !.v6 = w]

\* The IPv6 service answers a line without IPv6 with its IPv4 address, which is dropped.
PollV6 ==
    /\ tracker.stage = "v6"
    /\ PolledV6(line.v6)
    /\ UNCHANGED <<line, file, db, log, dashboard, counters>>

\* No attempt is answered, or by a page without a colon.
PollV6Fails ==
    /\ tracker.stage = "v6"
    /\ PolledV6(Unknown)
    /\ unanswered' = unanswered + 1
    /\ Fault
    /\ UNCHANGED <<line, file, db, log, dashboard>>

\* The answer is a page with a colon.
PollV6Misread ==
    /\ tracker.stage = "v6"
    /\ \E w \in Words : PolledV6(w)
    /\ unanswered' = unanswered + 1
    /\ Fault
    /\ UNCHANGED <<line, file, db, log, dashboard>>

Last(s) == s[Len(s)]

Differs == tracker.v4 # Last(db).v4 \/ tracker.v6 # Last(db).v6

\* insert_and_detect_change looks at the last row; without one nothing has changed.
Compare ==
    /\ tracker.stage = "compare"
    /\ tracker' = [tracker EXCEPT !.stage = "insert", !.attempt = 1,
                                  !.change = db # <<>> /\ Differs]
    /\ UNCHANGED <<line, file, db, log, dashboard, counters>>

Row == [v4 |-> tracker.v4, v6 |-> tracker.v6, change |-> tracker.change]

ToLog(change) == [Fresh EXCEPT !.stage = "log", !.change = change]

Insert ==
    /\ tracker.stage = "insert" /\ file = "ready"
    /\ db' = IF db # <<>> /\ ~tracker.change /\ ~Differs THEN db ELSE Append(db, Row)
    /\ tracker' = ToLog(tracker.change)
    /\ UNCHANGED <<line, file, log, dashboard, counters>>

\* Some query is under way, and may be reading the table.
Querying == \E f \in Fetches, e \in Endpoints : query[f][e].stage = "asked"

\* Variant: a poll that was lost is reported with the change it found.
InsertFailsTold ==
    /\ tracker.stage = "insert"
    /\ tracker' = IF tracker.attempt < MaxRetries
                  THEN [tracker EXCEPT !.attempt = @ + 1]
                  ELSE ToLog(tracker.change)
    /\ \/ (file # "ready" \/ Querying) /\ NoFault
       \/ Fault
    /\ UNCHANGED <<line, file, db, log, dashboard, unanswered>>

\* Variant: one attempt too many.
InsertFailsOneMore ==
    /\ tracker.stage = "insert"
    /\ tracker' = IF tracker.attempt <= MaxRetries
                  THEN [tracker EXCEPT !.attempt = @ + 1]
                  ELSE ToLog(FALSE)
    /\ \/ (file # "ready" \/ Querying) /\ NoFault
       \/ Fault
    /\ UNCHANGED <<line, file, db, log, dashboard, unanswered>>

\* The insert is refused: there is no table, a query is reading it, or the disk fails (or a
\* quote in the page that is to be recorded ends the statement early).
\* It is tried again, and in the end the poll is lost and reported as one without change.
InsertFails ==
    /\ tracker.stage = "insert"
    /\ tracker' = IF tracker.attempt < MaxRetries
                  THEN [tracker EXCEPT !.attempt = @ + 1]
                  ELSE ToLog(FALSE)
    /\ \/ (file # "ready" \/ Querying) /\ NoFault
       \/ Fault
    /\ UNCHANGED <<line, file, db, log, dashboard, unanswered>>

\* The poll is logged; the next one begins after a pause.
LogPoll ==
    /\ tracker.stage = "log"
    /\ log' = IF tracker.change THEN log + 1 ELSE log
    /\ tracker' = [Fresh EXCEPT !.stage = "v4"]
    /\ UNCHANGED <<line, file, db, dashboard, counters>>

-----------------------------------------------------------------------------
(* api.js and Dashboard.jsx *)

\* fetchData, when the page is opened and every five minutes: three requests at once.
\* The dashboard's container waits for the database file.
FetchBegins(f) ==
    /\ file # "absent"
    /\ \A e \in Endpoints : query[f][e].stage = "idle"
    /\ query' = [query EXCEPT ![f] = [e \in Endpoints |-> [NoQuery EXCEPT !.stage = "asked"]]]
    /\ UNCHANGED <<line, file, db, log, tracker, page, counters>>

QueryAnswered(f, e) ==
    /\ query[f][e].stage = "asked" /\ file = "ready"
    /\ query' = [query EXCEPT ![f][e] = [stage |-> "answered", rows |-> Len(db)]]
    /\ UNCHANGED <<line, file, db, log, tracker, page, counters>>

\* There is no table, or the request fails on its way.
QueryFails(f, e) ==
    /\ query[f][e].stage = "asked"
    /\ query' = [query EXCEPT ![f][e] = [NoQuery EXCEPT !.stage = "failed"]]
    /\ (file # "ready" /\ NoFault) \/ Fault
    /\ UNCHANGED <<line, file, db, log, tracker, page, unanswered>>

Settles(f) ==
    /\ query' = [query EXCEPT ![f] = [e \in Endpoints |-> NoQuery]]
    /\ UNCHANGED <<line, file, db, log, tracker, counters>>

\* Variant: an error stays on the page.
FetchResolvedErrorStays(f) ==
    /\ \A e \in Endpoints : query[f][e].stage = "answered"
    /\ page' = [page EXCEPT !.shown = [e \in Endpoints |-> query[f][e].rows], !.loading = FALSE]
    /\ Settles(f)

\* Promise.all resolves: the page shows the three answers.
FetchResolved(f) ==
    /\ \A e \in Endpoints : query[f][e].stage = "answered"
    /\ page' = [shown |-> [e \in Endpoints |-> query[f][e].rows], error |-> FALSE, loading |-> FALSE]
    /\ Settles(f)

\* It rejects: the page keeps what it shows, with an error.  (The other requests of the
\* call, whose answers are dropped, end first here.)
FetchRejected(f) ==
    /\ \A e \in Endpoints : query[f][e].stage \in {"answered", "failed"}
    /\ \E e \in Endpoints : query[f][e].stage = "failed"
    /\ page' = [page EXCEPT !.error = TRUE, !.loading = FALSE]
    /\ Settles(f)

-----------------------------------------------------------------------------

Tracker ==
    \/ CreateFile \/ CreateTable \/ FileExists
    \/ PollV4 \/ PollV4Fails \/ PollV4Misread
    \/ PollV6 \/ PollV6Fails \/ PollV6Misread
    \/ Compare \/ Insert \/ InsertFails \/ LogPoll

Dashboard(f) ==
    \/ FetchBegins(f) \/ FetchResolved(f) \/ FetchRejected(f)
    \/ \E e \in Endpoints : QueryAnswered(f, e) \/ QueryFails(f, e)

Next ==
    \/ LineChanges
    \/ Restart
    \/ Tracker
    \/ \E f \in Fetches : Dashboard(f)

Spec == Init /\ [][Next]_vars

\* The script's loop and the page's timer go on and requests end.  An insert is tried
\* three times, two seconds apart, and a query holds the table for milliseconds every
\* five minutes: not every attempt for ever meets one.
FairSpec ==
    /\ Spec
    /\ WF_vars(Tracker) /\ SF_vars(Insert)
    /\ \A f \in Fetches : WF_vars(Dashboard(f))

-----------------------------------------------------------------------------
(* Properties *)

\* The rows marked as changes.
Recorded == IF db = <<>> THEN 0 ELSE Len(db) - 1

\* A row is marked exactly if it differs from the one before.  While every poll is answered
\* there are two marked rows at most for each change of the line, whatever inserts fail and
\* restarts come between (two if the change comes between the requests of a poll).  And each
\* marked row is logged, once, unless a restart comes before that.
ChangesAreReal ==
    /\ \A i \in 1..Len(db) :
          db[i].change <=> i > 1 /\ (db[i].v4 # db[i - 1].v4 \/ db[i].v6 # db[i - 1].v6)
    /\ unanswered = 0 => Recorded <= 2 * changes
    /\ LET told == IF tracker.stage = "log" /\ tracker.change THEN log + 1 ELSE log
       IN  told <= Recorded /\ Recorded <= told + restarts

\* What the documents say of the marked rows: 1 if either address changed since the last
\* poll, and 0 otherwise.  The line whose addresses never change has none.
ChangeMeansChanged == (\E i \in 1..Len(db) : db[i].change) => changes > 0

\* Once the line is stable and failures have ended, the page shows its addresses and every
\* marked row of the table, without an error, whatever polls and answers were lost or
\* overtaken before, unless a restart has left a database file without its table.  (Of
\* a longer table a page asks for the last 500 rows and the last 100 changes.)
DashboardCatchesUp ==
    <>[](file # "created" =>
            /\ db # <<>> /\ Last(db).v4 = line.v4 /\ Last(db).v6 = line.v6
            /\ ~page.error /\ ~page.loading
            /\ \A e \in Endpoints : page.shown[e] = Len(db))
=============================================================================
