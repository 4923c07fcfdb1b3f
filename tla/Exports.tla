------------------------------ MODULE Exports ------------------------------
(***************************************************************************)
(* The activity reports: how a period and a set of employees are cut into  *)
(* files (helpers/export_chunking.py, helpers/xls), and the task that      *)
(* makes them while the user watches, downloads or cancels                 *)
(* (helpers/celery, controllers/company.py).                               *)
(*                                                                         *)
(* Days are numbers, MonthLength to a month and YearLength to a year.  A   *)
(* file is the rows it lists: the complete work days of its employees      *)
(* between its dates.  The broker hands a message out once: what a worker  *)
(* that dies was at is lost.  An employee of two companies is two elements *)
(* of Employee.                                                            *)
(***************************************************************************)
EXTENDS Integers, Sequences, FiniteSets

CONSTANTS
    Employee,           \* identifiers of the employees, numbers
    WorkedOn,           \* their complete work days, <<employee, day>>
    ExportCompany,      \* the companies of the user who asks
    StaffOf,            \* [company -> the employees he may have the data of]
    ExportWorker,       \* worker processes of the task queue
    LastDate,           \* the days are 0..LastDate
    MonthLength, YearLength,
    MonthSplit,         \* MAX_DAYS_FOR_MONTH_SPLIT
    YearSplit,          \* MAX_DAYS_FOR_YEAR_SPLIT
    UsersPerBatch,      \* MAX_USERS_PER_BATCH
    MaxExports          \* bound on the reports asked for

ASSUME ExportAssumption ==
    /\ Employee \subseteq Int /\ IsFiniteSet(Employee)
    /\ StaffOf \in [ExportCompany -> SUBSET Employee]
    /\ LastDate \in Nat
    /\ {MonthLength, YearLength, UsersPerBatch} \subseteq Nat \ {0}

VARIABLES
    broker,         \* the messages of the task queue, oldest first
    exports,        \* rows of the table export, in order of creation
    exportTasks,    \* [worker -> what it is doing]
    bucket,         \* the files uploaded, by position of the export
    checkout,       \* the exports the user's request found ready
    transferred,    \* transferred_data_date of the user is set
    lost,           \* history: the messages that were taken and left no row
    broken,         \* history: the exports that failed and could not say so
    dropped         \* history: the exports cancelled before it was too late

historyOfExports == <<lost, broken, dropped>>

exportVars ==
    <<broker, exports, exportTasks, bucket, checkout, transferred,
      historyOfExports>>

---------------------------------------------------------------------------
(* get_export_chunks.                                                      *)
Dates(from, to) == [from |-> from, to |-> to]

YearOf(day) == day \div YearLength

SplitIntoYears(from, to) ==
    [i \in 1..(YearOf(to) - YearOf(from) + 1) |->
        LET year == YearOf(from) + i - 1
        IN  Dates(IF year = YearOf(from) THEN from ELSE year * YearLength,
                  IF year = YearOf(to) THEN to
                  ELSE (year + 1) * YearLength - 1)]

MonthOf(day) == day \div MonthLength

SplitIntoMonths(from, to) ==
    [i \in 1..(MonthOf(to) - MonthOf(from) + 1) |->
        LET month == MonthOf(from) + i - 1
            end == (month + 1) * MonthLength - 1
        IN  Dates(IF i = 1 THEN from ELSE month * MonthLength,
                  IF end < to THEN end ELSE to)]

Sorted(users) ==
    CHOOSE s \in [1..Cardinality(users) -> users] :
        \A i, j \in DOMAIN s : i < j => s[i] < s[j]

SplitIntoBatches(users) ==
    LET sorted == Sorted(users)
        count == (Len(sorted) + UsersPerBatch - 1) \div UsersPerBatch
    IN  [i \in 1..count |->
            {sorted[j] : j \in {k \in DOMAIN sorted :
                 (k - 1) \div UsersPerBatch = i - 1}}]

Chunk(users, range) == [users |-> users, from |-> range.from, to |-> range.to]

(* Every element of one list with every element of another.                *)
Crossed(batches, ranges) ==
    UNION {{Chunk(batches[i], ranges[j]) : i \in DOMAIN batches} :
              j \in DOMAIN ranges}

Singles(users) == [i \in 1..Cardinality(users) |-> {Sorted(users)[i]}]

ExportChunks(users, from, to, oneFileByEmployee) ==
    LET days == to - from + 1
    IN  IF days >= YearSplit
        THEN Crossed(Singles(users), SplitIntoYears(from, to))
        ELSE IF days > MonthSplit
        THEN Crossed(SplitIntoBatches(users), SplitIntoMonths(from, to))
        ELSE IF Cardinality(users) > UsersPerBatch
        THEN Crossed(SplitIntoBatches(users), <<Dates(from, to)>>)
        ELSE IF oneFileByEmployee
        THEN Crossed(Singles(users), <<Dates(from, to)>>)
        ELSE {Chunk(users, Dates(from, to))}

(* generate_admin_export_file_from_chunks: one file for each chunk.  The   *)
(* work days kept for all the chunks of an export by month are those of    *)
(* the whole period, cut again for each file.  A file has a line for each  *)
(* work day, and the names of the employees who have none.                 *)
WorkDaysFor(chunk, work) ==
    {row \in work : row[1] \in chunk.users /\ row[2] \in chunk.from..chunk.to}

FileOf(chunk, work) ==
    LET rows == WorkDaysFor(chunk, work)
    IN  [chunk |-> chunk, rows |-> rows,
         without |-> chunk.users \ {row[1] : row \in rows}]

FilesOf(message, work) == {FileOf(c, work) : c \in message.chunks}

---------------------------------------------------------------------------
Idle == [at |-> "idle", export |-> 0, files |-> {}]
NoCheckout == [at |-> "none", ready |-> {}]

ExportInit ==
    /\ broker = <<>>
    /\ exports = <<>>
    /\ exportTasks = [w \in ExportWorker |-> Idle]
    /\ bucket = [n \in {} |-> {}]
    /\ checkout = NoCheckout
    /\ transferred = FALSE
    /\ lost = 0 /\ broken = {} /\ dropped = {}

Taken == Len(exports) + lost

Requested == Len(broker) + Taken

(* download_activity_report: an admin asks for some employees and dates.   *)
RequestReport(users, from, to, oneFileByEmployee) ==
    /\ Requested < MaxExports
    /\ broker' = Append(broker,
           [type |-> "excel", users |-> users, from |-> from, to |-> to,
            chunks |-> ExportChunks(users, from, to, oneFileByEmployee)])
    /\ UNCHANGED <<exports, exportTasks, bucket, checkout,
                   transferred, historyOfExports>>

FullReport(company) ==
    [type |-> "refused_cgu", users |-> StaffOf[company],
     from |-> 0, to |-> LastDate,
     chunks |-> ExportChunks(StaffOf[company], 0, LastDate, FALSE)]

(* download_full_data_report: everything, for a user who refused the terms *)
(* of use.  One message for each of his companies, in any order; an error  *)
(* on the way leaves those that were sent.                                 *)
RequestFullData ==
    \E sent \in 1..Cardinality(ExportCompany) :
        \E order \in [1..sent -> ExportCompany] :
            /\ \A i, j \in 1..sent : i # j => order[i] # order[j]
            /\ Requested + sent <= MaxExports
            /\ broker' = broker \o [i \in 1..sent |-> FullReport(order[i])]
            /\ UNCHANGED <<exports, exportTasks, bucket, checkout,
                           transferred, historyOfExports>>

---------------------------------------------------------------------------
(* async_export_excel, commit by commit.                                   *)
Task(w) == exportTasks[w]
Status(n) == exports[n].status

Step(w, task) == exportTasks' = [exportTasks EXCEPT ![w] = task]
StartExport(w) ==
    /\ Task(w).at = "idle"
    /\ broker # <<>>
    /\ exports' = Append(exports, [message |-> Head(broker), status |-> "wip",
                                   path |-> FALSE])
    /\ broker' = Tail(broker)
    /\ Step(w, [Idle EXCEPT !.at = "generate", !.export = Len(exports) + 1])
    /\ UNCHANGED <<bucket, checkout, transferred, historyOfExports>>

(* The row is not committed: the message is gone.                          *)
LoseMessage(w) ==
    /\ Task(w).at = "idle"
    /\ broker # <<>>
    /\ broker' = Tail(broker)
    /\ lost' = lost + 1
    /\ UNCHANGED <<exports, exportTasks, bucket, checkout, transferred,
                   broken, dropped>>

Generate(w) ==
    /\ Task(w).at = "generate"
    /\ Step(w, [Task(w) EXCEPT !.at = "refresh",
                   !.files = FilesOf(exports[Task(w).export].message, WorkedOn)])
    /\ UNCHANGED <<broker, exports, bucket, checkout, transferred,
                   historyOfExports>>

(* The row is read again: a cancelled export is not uploaded.              *)
AbortIfCancelled(w) ==
    /\ Task(w).at = "refresh"
    /\ Step(w, IF Status(Task(w).export) = "cancelled" THEN Idle
               ELSE [Task(w) EXCEPT !.at = "upload"])
    /\ UNCHANGED <<broker, exports, bucket, checkout, transferred,
                   historyOfExports>>

Upload(w) ==
    /\ Task(w).at = "upload"
    /\ bucket' = [n \in DOMAIN bucket \cup {Task(w).export} |->
                     IF n = Task(w).export THEN Task(w).files ELSE bucket[n]]
    /\ Step(w, [Task(w) EXCEPT !.at = "commit"])
    /\ UNCHANGED <<broker, exports, checkout, transferred, historyOfExports>>

\* Seeded fault: the export is ready before its files are sent.
BeforeUpload(task) == task.at \in {"upload", "commit"}

AfterRefresh(task) == task.at = "commit"

MarkReady(w) ==
    /\ AfterRefresh(Task(w))
    /\ exports' = [exports EXCEPT ![Task(w).export].status = "ready",
                                  ![Task(w).export].path = TRUE]
    /\ Step(w, Idle)
    /\ UNCHANGED <<broker, bucket, checkout, transferred, historyOfExports>>

MarkFailed(export) == [export EXCEPT !.status = "failed"]

FailExport(w) ==
    /\ Task(w).at # "idle"
    /\ exports' = [exports EXCEPT ![Task(w).export] = MarkFailed(@)]
    /\ Step(w, Idle)
    /\ UNCHANGED <<broker, bucket, checkout, transferred, historyOfExports>>

(* After an error of the database the handler commits without a rollback,  *)
(* which fails too, and a worker that dies writes nothing: the row stays.  *)
BreakExport(w) ==
    /\ Task(w).at # "idle"
    /\ broken' = broken \cup {Task(w).export}
    /\ Step(w, Idle)
    /\ UNCHANGED <<broker, exports, bucket, checkout, transferred, lost, dropped>>

---------------------------------------------------------------------------
(* cancel_exports: one UPDATE for all the exports that are not finished.   *)
IsCancellable(status) == status \in {"wip", "ready"}

(* Its task has read the row for the last time, or a checkout has.         *)
IsTooLate(n) ==
    \/ \E w \in ExportWorker :
           Task(w).export = n /\ Task(w).at \in {"upload", "commit"}
    \/ checkout.at = "write" /\ n \in checkout.ready

CancelExports ==
    /\ \E n \in DOMAIN exports : IsCancellable(Status(n))
    /\ exports' = [n \in DOMAIN exports |->
                      IF IsCancellable(Status(n))
                      THEN [exports[n] EXCEPT !.status = "cancelled"]
                      ELSE exports[n]]
    /\ dropped' = dropped \cup {n \in DOMAIN exports :
                                   IsCancellable(Status(n)) /\ ~IsTooLate(n)}
    /\ UNCHANGED <<broker, exportTasks, bucket, checkout, transferred,
                   lost, broken>>

IsReady(status) == status = "ready"

(* checkout_exports: the ready exports are read, a link is made for each   *)
(* (or is not), and their rows are written; the date of the transfer is a  *)
(* transaction of its own.                                                 *)
BeginCheckout ==
    /\ checkout.at = "none"
    /\ LET ready == {n \in DOMAIN exports : IsReady(Status(n))}
       IN  /\ ready # {}
           /\ checkout' = [at |-> "write", ready |-> ready]
    /\ UNCHANGED <<broker, exports, exportTasks, bucket, transferred,
                   historyOfExports>>

IsTransfer(n, linked) == n \in linked /\ exports[n].message.type = "refused_cgu"

CommitCheckout(linked) ==
    /\ checkout.at = "write"
    /\ exports' = [n \in DOMAIN exports |->
                      IF n \notin checkout.ready THEN exports[n]
                      ELSE [exports[n] EXCEPT
                               !.status = IF n \in linked THEN "downloaded"
                                          ELSE "failed"]]
    /\ LET transfers == {n \in checkout.ready : IsTransfer(n, linked)}
       IN  checkout' = IF transfers = {} THEN NoCheckout
                       ELSE [at |-> "date", ready |-> transfers]
    /\ UNCHANGED <<broker, exportTasks, bucket, transferred, historyOfExports>>

CommitTransferDate ==
    /\ checkout.at = "date"
    /\ transferred' = TRUE
    /\ checkout' = NoCheckout
    /\ UNCHANGED <<broker, exports, exportTasks, bucket, historyOfExports>>

AbandonCheckout ==
    /\ checkout.at # "none"
    /\ checkout' = NoCheckout
    /\ UNCHANGED <<broker, exports, exportTasks, bucket, transferred,
                   historyOfExports>>

TaskStep(w) ==
    \/ StartExport(w)
    \/ LoseMessage(w)
    \/ Generate(w)
    \/ AbortIfCancelled(w)
    \/ Upload(w)
    \/ MarkReady(w)
    \/ FailExport(w)
    \/ BreakExport(w)

ExportNext ==
    \/ \E users \in (SUBSET Employee) \ {{}}, from, to \in 0..LastDate,
          oneFileByEmployee \in BOOLEAN :
           from <= to /\ RequestReport(users, from, to, oneFileByEmployee)
    \/ RequestFullData
    \/ \E w \in ExportWorker : TaskStep(w)
    \/ CancelExports
    \/ BeginCheckout
    \/ \E linked \in SUBSET checkout.ready : CommitCheckout(linked)
    \/ CommitTransferDate
    \/ AbandonCheckout

(* A worker of the queue that lives takes the messages and goes on with    *)
(* what it started.                                                        *)
ExportFairness == \A w \in ExportWorker : WF_exportVars(TaskStep(w))

ExportSpec == ExportInit /\ [][ExportNext]_exportVars /\ ExportFairness

---------------------------------------------------------------------------
(* An export is worked on by one task, which finds it in progress, if not  *)
(* cancelled: a checkout or an older task never ends it before.            *)
ExportTypeOK ==
    /\ \A n \in DOMAIN exports :
           Status(n) \in {"wip", "ready", "downloaded", "cancelled", "failed"}
    /\ \A w, x \in ExportWorker :
           Task(w).at # "idle" /\ Task(x).at # "idle" /\ w # x =>
               Task(w).export # Task(x).export
    /\ \A w \in ExportWorker :
           Task(w).at # "idle" => Status(Task(w).export) \in {"wip", "cancelled"}
    /\ DOMAIN bucket \subseteq DOMAIN exports

(* Whatever the strategy, the files of a report give each work day of each *)
(* employee of the period once and nothing else: the years, the months and *)
(* the batches of employees neither overlap nor leave a gap                *)
(* (get_export_chunks, generate_admin_export_file_from_chunks).            *)
EachDayInOneFile ==
    \A n \in DOMAIN bucket :
        LET asked == exports[n].message
            expected == WorkDaysFor(asked, WorkedOn)
        IN  \A row \in Employee \X (0..LastDate) :
                Cardinality({f \in bucket[n] : row \in f.rows})
                    = IF row \in expected THEN 1 ELSE 0

(* An export that is ready or was downloaded has its file in the bucket,   *)
(* whatever the cancellations, the failures and the other tasks.           *)
DownloadedHasFile ==
    \A n \in DOMAIN exports :
        Status(n) \in {"ready", "downloaded"} =>
            n \in DOMAIN bucket /\ exports[n].path

(* The date of the transfer is written only for a user who was given the   *)
(* link to his data in one of his companies: a checkout dates it at the    *)
(* first, while the reports of the others may be on their way or fail      *)
(* (checkout_exports, download_full_data_report).                          *)
TransferredWasDownloaded ==
    transferred => \E n \in DOMAIN exports :
                       /\ exports[n].message.type = "refused_cgu"
                       /\ Status(n) = "downloaded"

(* An export that was cancelled while its task could still see it, and no  *)
(* checkout had read it, is not given to the user afterwards: the task     *)
(* reads the row again before it sends the file (async_export_excel).      *)
(* Later a cancellation may be undone.                                     *)
DroppedStaysDropped ==
    \A n \in dropped : Status(n) \in {"cancelled", "failed"}

(* As long as the workers live, a message that was queued is taken up, and *)
(* an export that was begun does not stay in progress, unless its failure  *)
(* could not be written.                                                   *)
EveryExportEnds ==
    \A n \in 1..MaxExports :
        [](n <= Requested =>
             <>(/\ n <= Taken
                /\ \A m \in (1..n) \cap DOMAIN exports :
                      Status(m) # "wip" \/ m \in broken))

(* An export that can be downloaded has its files, which hold each day     *)
(* asked for once; what was cancelled in time is not given, and a transfer *)
(* is dated by a download: though workers fail and users cancel.           *)
ExportsAreWhole ==
  /\ ExportTypeOK
  /\ EachDayInOneFile
  /\ DownloadedHasFile
  /\ DroppedStaysDropped
  /\ TransferredWasDownloaded
===========================================================================
