----------------------------- MODULE Retention -----------------------------
(***************************************************************************)
(* Retention (store/retention.go, started by App.maintenance) and the      *)
(* reports on usage (UsageReport and Dashboard in store/store.go,          *)
(* TokenHeatmap in store/heatmap.go), which add what the request logs and  *)
(* the daily rollups hold while retention moves the one into the other.    *)
(*                                                                         *)
(* A job goes through eight operations, round by round, until a round does *)
(* nothing or its time is up. Every operation is a transaction of its own  *)
(* that gives up when another job holds the advisory lock: it selects the  *)
(* oldest rows that are due, up to a batch, locks them and deletes them.   *)
(* Until it commits nobody sees any of it.                                 *)
(*                                                                         *)
(* Usage is counted in requests by day: tokens and costs are added in the  *)
(* same statements. What a row is (its table, its day, whether it failed)  *)
(* never changes and is given with the row.                                *)
(***************************************************************************)
EXTENDS Naturals, FiniteSets, Sequences

CONSTANTS
    Items,    \* rows of the tables
    Days,
    Jobs,     \* retention runs: one server's, or those of several
    Reports,  \* requests for a report
    Keep,     \* RetentionPolicy: how long each operation leaves a row; 0 is never
    Batch,    \* BatchSize
    Plans,    \* what the tables hold, what is added, and what is asked for
    MaxDay    \* bound: the last day

Operations == <<"scrub", "success", "details", "events", "reservations", "logs",
                "observations", "invitations">>
NoLock == "none"

ASSUME RetentionAssumption ==
    /\ IsFiniteSet(Items) /\ IsFiniteSet(Days) /\ Batch \in Nat \ {0} /\ MaxDay \in Nat
    /\ Keep \in [{"success", "details", "events", "failed events", "reservations", "incomplete",
                  "logs", "observations", "invitations"} -> Nat]
    /\ NoLock \notin Jobs

(* The rows of a database, with those still to come: a detail belongs to a *)
(* log, and does not come before it.                                       *)
ASSUME PlansAssumption ==
    \A p \in Plans :
        /\ DOMAIN p.rows \subseteq Items /\ p.clock \in Nat
        /\ \A i \in DOMAIN p.rows : p.rows[i].kind = "detail" =>
              /\ p.rows[i].log \in DOMAIN p.rows /\ p.rows[p.rows[i].log].kind = "log"
              /\ p.rows[i].later \/ ~p.rows[p.rows[i].log].later

VARIABLES
    table,    \* the rows there are
    at,       \* when each was created, completed or settled
    open,     \* active reservations, unused invitations, unprocessed events
    payload,  \* events that still have their bodies
    rollups,  \* usage_daily_rollups, by day
    clock,
    lock,     \* holder of the advisory lock, or none
    job,
    report,
    written,  \* history: the rows that ever were
    plan      \* the member of Plans this is

retentionVars == <<table, at, open, payload, rollups, clock, lock, job, report, written, plan>>

(* A run: where it is, with which operation and since when, whether its    *)
(* round did something, whether it ever gave way, the rows it has locked,  *)
(* and those it should remove.                                             *)
Job == [pc : {"idle", "next", "select", "commit", "finished", "stopped"}, op : 1..Len(Operations),
        now : Nat, progress : BOOLEAN, missed : BOOLEAN, ids : SUBSET Items, due : SUBSET Items]
NoJob == [pc |-> "idle", op |-> 1, now |-> 0, progress |-> FALSE, missed |-> FALSE,
          ids |-> {}, due |-> {}]
NoUsage == [d \in Days |-> 0]
ReportType == [kind : {"none", "usage", "heatmap"}, pc : {"new", "reading", "done"},
               seen : [Days -> Nat], low : [Days -> Nat]]
NoReport == [kind |-> "none", pc |-> "new", seen |-> NoUsage, low |-> NoUsage]

RetentionInit ==
    /\ plan \in Plans
    /\ table = {i \in DOMAIN plan.rows : ~plan.rows[i].later}
    /\ at = [i \in Items |-> 0]
    /\ open = {i \in table : plan.rows[i].open}
    /\ payload = {i \in table : plan.rows[i].kind = "event"}
    /\ rollups = NoUsage /\ clock = plan.clock /\ lock = NoLock
    /\ job = [j \in Jobs |-> NoJob] /\ report = [q \in Reports |-> NoReport]
    /\ written = table

-----------------------------------------------------------------------------
Row(i) == plan.rows[i]

(* generationLogSQL, and the condition of the rollup: a settled and        *)
(* completely priced step that cost something.                             *)
Counted(i, d) == Row(i).kind = "log" /\ Row(i).counts /\ Row(i).day = d
LogUsage(ids) == [d \in Days |-> Cardinality({i \in ids : Counted(i, d)})]
Plus(f, g) == [d \in Days |-> f[d] + g[d]]
Usage == Plus(rollups, LogUsage(table))

(* A row is older than the policy keeps it, seen from the start of a run.  *)
OlderThan(i, rule, now) == Keep[rule] > 0 /\ at[i] + Keep[rule] < now

(* The rows each operation selects. Details of an error are kept longer    *)
(* than those of a success, failed events longer than others, incompletely *)
(* priced reservations longer than settled ones.                           *)
scrubLifecyclePayloads(i) == Row(i).kind = "event" /\ i \notin open /\ i \in payload
deleteSuccessDetails(i, now) ==
    /\ Row(i).kind = "detail" /\ Row(i).log \in table /\ ~Row(Row(i).log).failed
    /\ OlderThan(Row(i).log, "success", now)
deleteOldDetails(i, now) == Row(i).kind = "detail" /\ OlderThan(i, "details", now)
deleteLifecycle(i, now) ==
    /\ Row(i).kind = "event" /\ Keep["events"] > 0 /\ Keep["failed events"] > 0
    /\ OlderThan(i, IF i \notin open /\ Row(i).failed THEN "failed events" ELSE "events", now)
deleteReservations(i, now) ==
    /\ Row(i).kind = "reservation" /\ Keep["reservations"] > 0 /\ Keep["incomplete"] > 0
    /\ i \notin open
    /\ OlderThan(i, IF Row(i).failed THEN "incomplete" ELSE "reservations", now)
OldLog(i, now) == Row(i).kind = "log" /\ OlderThan(i, "logs", now)
deleteQuotaObservations(i, now) == Row(i).kind = "observation" /\ OlderThan(i, "observations", now)
deleteInvitations(i, now) ==
    Row(i).kind = "invitation" /\ i \notin open /\ OlderThan(i, "invitations", now)

Selects(op, i, now) ==
    CASE op = "scrub" -> scrubLifecyclePayloads(i)
      [] op = "success" -> deleteSuccessDetails(i, now)
      [] op = "details" -> deleteOldDetails(i, now)
      [] op = "events" -> deleteLifecycle(i, now)
      [] op = "reservations" -> deleteReservations(i, now)
      [] op = "logs" -> OldLog(i, now)
      [] op = "observations" -> deleteQuotaObservations(i, now)
      [] op = "invitations" -> deleteInvitations(i, now)
Due(op, now) == {i \in table : Selects(op, i, now)}
AllDue(now) == UNION {Due(Operations[n], now) : n \in 2..Len(Operations)}

-----------------------------------------------------------------------------
(* RunRetention, once at the start and then hourly. What is due when it    *)
(* begins is what it should remove.                                        *)
RunRetention(j) ==
    /\ job[j].pc \in {"idle", "finished", "stopped"} /\ job[j].now < clock /\ j \in plan.jobs
    /\ job' = [job EXCEPT ![j] = [NoJob EXCEPT !.pc = "next", !.now = clock, !.due = AllDue(clock)]]
    /\ UNCHANGED <<table, at, open, payload, rollups, clock, lock, report, written, plan>>

(* The operation is over: the next one, another round, or the end of the   *)
(* run when the whole round did nothing.                                   *)
Advance(j, did, missed) ==
    LET progress == job[j].progress \/ did
        more == job[j].op < Len(Operations)
        last == [job[j] EXCEPT !.ids = {}, !.missed = @ \/ missed]
    IN job' = [job EXCEPT ![j] =
          IF more THEN [last EXCEPT !.pc = "next", !.op = @ + 1, !.progress = progress]
          ELSE IF progress THEN [last EXCEPT !.pc = "next", !.op = 1, !.progress = FALSE]
          ELSE [last EXCEPT !.pc = "finished"]]

(* retentionTx: an operation does nothing while another one is under way.  *)
retentionTx(j) ==
    /\ job[j].pc = "next"
    /\ IF lock = NoLock THEN lock' = j /\ job' = [job EXCEPT ![j].pc = "select"]
       ELSE Advance(j, FALSE, TRUE) /\ UNCHANGED lock
    /\ UNCHANGED <<table, at, open, payload, rollups, clock, report, written, plan>>

(* SELECT ... ORDER BY age LIMIT batch FOR UPDATE.                         *)
SelectBatch(j) ==
    /\ job[j].pc = "select"
    /\ LET due == Due(Operations[job[j].op], job[j].now) IN
       \E ids \in SUBSET due :
          /\ Cardinality(ids) = Batch \/ (ids = due /\ Cardinality(ids) < Batch)
          /\ \A i \in ids, k \in due \ ids : at[i] <= at[k]
          /\ job' = [job EXCEPT ![j].pc = "commit", ![j].ids = ids]
    /\ UNCHANGED <<table, at, open, payload, rollups, clock, lock, report, written, plan>>

Commits(j, ops) == job[j].pc = "commit" /\ Operations[job[j].op] \in ops
Committed(j) ==
    /\ lock' = NoLock /\ Advance(j, job[j].ids # {}, FALSE)
    /\ UNCHANGED <<at, open, clock, report, written, plan>>

ScrubBatch(j) ==
    /\ Commits(j, {"scrub"}) /\ Committed(j)
    /\ payload' = payload \ job[j].ids
    /\ UNCHANGED <<table, rollups>>

DeleteBatch(j) ==
    /\ Commits(j, {"success", "details", "events", "reservations", "observations", "invitations"})
    /\ Committed(j)
    /\ table' = table \ job[j].ids
    /\ UNCHANGED <<payload, rollups>>

(* What hangs on a log: its details and events.                            *)
Attached(ids) == {i \in table : Row(i).kind \in {"detail", "event"} /\ Row(i).log \in ids}

(* Mutant of compactRequestLogs: the rollup of a day is replaced.          *)
ReplaceRollup(j) ==
    /\ Commits(j, {"logs"}) /\ Committed(j)
    /\ LET sums == LogUsage(job[j].ids) IN
       rollups' = [d \in Days |-> IF sums[d] > 0 THEN sums[d] ELSE rollups[d]]
    /\ table' = table \ (job[j].ids \cup Attached(job[j].ids))
    /\ UNCHANGED payload

(* The usage of the batch is added to the rollups of its days, and the     *)
(* logs go with all that hangs on them.                                    *)
compactRequestLogs(j) ==
    /\ Commits(j, {"logs"}) /\ Committed(j)
    /\ rollups' = Plus(rollups, LogUsage(job[j].ids))
    /\ table' = table \ (job[j].ids \cup Attached(job[j].ids))
    /\ UNCHANGED payload

(* A statement fails or the process ends: the transaction is rolled back.  *)
RetentionFails(j) ==
    /\ job[j].pc \in {"select", "commit"}
    /\ job' = [job EXCEPT ![j].pc = "stopped", ![j].ids = {}] /\ lock' = NoLock
    /\ UNCHANGED <<table, at, open, payload, rollups, clock, report, written, plan>>

(* MaxRuntime is over.                                                     *)
Deadline(j) ==
    /\ job[j].pc = "next" /\ job' = [job EXCEPT ![j].pc = "stopped"]
    /\ UNCHANGED <<table, at, open, payload, rollups, clock, lock, report, written, plan>>

-----------------------------------------------------------------------------
Locked == UNION {job[j].ids : j \in Jobs}

(* writeLog: a log with its detail.                                        *)
WriteLog(i) ==
    /\ i \in DOMAIN plan.rows \ written /\ Row(i).kind = "log"
    /\ LET new == {i} \cup {k \in DOMAIN plan.rows : Row(k).kind = "detail" /\ Row(k).log = i} IN
       /\ table' = table \cup new /\ written' = written \cup new
       /\ at' = [k \in Items |-> IF k \in new THEN clock ELSE at[k]]
    /\ UNCHANGED <<open, payload, rollups, clock, lock, job, report, plan>>

(* A reservation is settled, an invitation used, revoked or expired.       *)
(* Events are leftovers of older versions: nothing processes one now.      *)
CloseRow(i) ==
    /\ i \in open \ Locked /\ Row(i).kind \in {"reservation", "invitation"} /\ open' = open \ {i}
    /\ at' = IF Row(i).kind = "reservation" THEN [at EXCEPT ![i] = clock] ELSE at
    /\ UNCHANGED <<table, payload, rollups, clock, lock, job, report, written, plan>>

NextDay ==
    /\ clock < MaxDay /\ clock' = clock + 1
    /\ UNCHANGED <<table, at, open, payload, rollups, lock, job, report, written, plan>>

-----------------------------------------------------------------------------
Asks(q, kind) == report[q].pc = "new" /\ kind \in plan.reports
OnlyReport == UNCHANGED <<table, at, open, payload, rollups, clock, lock, job, written, plan>>

(* Mutant of ReadOrder: the rollups are read first.                        *)
RollupsFirst == <<"rollups", "logs">>

(* UsageReport and Dashboard read the logs, and then the rollups, each     *)
(* with a statement of its own.                                            *)
ReadOrder == <<"logs", "rollups">>
Read(n) == IF ReadOrder[n] = "logs" THEN LogUsage(table) ELSE rollups

UsageReport(q) ==
    /\ Asks(q, "usage")
    /\ report' = [report EXCEPT ![q] =
          [kind |-> "usage", pc |-> "reading", seen |-> Read(1), low |-> Usage]]
    /\ OnlyReport

ReportSecond(q) ==
    /\ report[q].pc = "reading"
    /\ report' = [report EXCEPT ![q].pc = "done", ![q].seen = Plus(@, Read(2))]
    /\ OnlyReport

(* TokenHeatmap reads both with one statement.                             *)
TokenHeatmap(q) ==
    /\ Asks(q, "heatmap")
    /\ report' = [report EXCEPT ![q] =
          [kind |-> "heatmap", pc |-> "done", seen |-> Usage, low |-> Usage]]
    /\ OnlyReport

RetentionNext ==
    \/ \E j \in Jobs : \/ RunRetention(j) \/ retentionTx(j) \/ SelectBatch(j) \/ ScrubBatch(j)
                       \/ DeleteBatch(j) \/ compactRequestLogs(j) \/ RetentionFails(j) \/ Deadline(j)
    \/ \E i \in Items : WriteLog(i) \/ CloseRow(i)
    \/ \E q \in Reports : UsageReport(q) \/ ReportSecond(q) \/ TokenHeatmap(q)
    \/ NextDay

Retention == RetentionInit /\ [][RetentionNext]_retentionVars

-----------------------------------------------------------------------------
(* The rows that exist were written, details hang on a log that exists,    *)
(* and only the holder of the advisory lock has rows locked.               *)
RetentionTypeOK ==
    /\ table \subseteq written /\ written \subseteq Items /\ rollups \in [Days -> Nat]
    /\ job \in [Jobs -> Job] /\ report \in [Reports -> ReportType]
    /\ \A i \in table : Row(i).kind = "detail" => Row(i).log \in table
    /\ lock \in Jobs \cup {NoLock}
    /\ \A j \in Jobs : job[j].pc \in {"select", "commit"} <=> lock = j

(* However batches, failures, other jobs and new logs interleave, the      *)
(* rollups of a day and the logs of that day that are left count every     *)
(* settled request of it once. (compactRequestLogs)                        *)
UsageConserved == Usage = LogUsage(written)

(* A run that ends because a round of it had nothing left to do, and never *)
(* gave way to another job, has removed all that was due when it began,    *)
(* although it takes a batch at a time and the operations decide by        *)
(* different tables. (RunRetention)                                        *)
RunLeavesNothingOld ==
    \A j \in Jobs : job[j].pc = "finished" /\ ~job[j].missed => job[j].due \cap table = {}

(* A usage report counts every request settled before it was asked for,    *)
(* also when retention moves logs into rollups while it is being put       *)
(* together: it reads the logs first. It may count one twice. (UsageReport,*)
(* Dashboard)                                                              *)
ReportCoversUsage ==
    \A q \in Reports : report[q].kind = "usage" /\ report[q].pc = "done"
        => \A d \in Days : report[q].seen[d] >= report[q].low[d]

(* The heatmap neither misses a request nor counts one twice.              *)
(* (TokenHeatmap)                                                          *)
HeatmapExact ==
    \A q \in Reports : report[q].kind = "heatmap" /\ report[q].pc = "done"
        => \A d \in Days : report[q].seen[d] \in report[q].low[d]..Usage[d]

(* Compaction loses and invents no usage, and a run that ends leaves        *)
(* nothing that is past its time.                                           *)
UsageKept == RetentionTypeOK /\ UsageConserved /\ RunLeavesNothingOld

(* A report never shows less than what was used, however compaction moves   *)
(* rows under it; the heatmap shows exactly that.                           *)
ReportsCoverUsage == ReportCoversUsage /\ HeatmapExact
=============================================================================
