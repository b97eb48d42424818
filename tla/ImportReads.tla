----------------------------- MODULE ImportReads -----------------------------
(***************************************************************************)
(* What clients are shown of import jobs: the job's row, with its counters *)
(* and its status, and its rows are two statements at READ COMMITTED, and  *)
(* importers commit rows between them.  The answers to a new job and to a  *)
(* retry show the job as that session has it in memory, for the session    *)
(* keeps its objects after a commit, with the rows as they are by then.    *)
(***************************************************************************)
EXTENDS ImportJobs

CONSTANT Readers   \* requests that answer with a job

VARIABLE view      \* view[q]: what reader q has so far of the job it shows

iviews == <<vars, view>>
NoView == [step |-> 0]

IReadsInit == Init /\ view = [q \in Readers |-> NoView]

(* (mutant) the rows are selected before the job                           *)
Selects_RowsFirst == <<"rows", "job">>

(* get_import_job, list_import_jobs: selectinload follows the jobs' select *)
Selects == <<"job", "rows">>

Selected(x, what) ==
  [x EXCEPT !.step = @ + 1,
            !.row = IF what = "job" THEN job[x.job] ELSE @,
            !.rows = IF what = "rows" THEN items[x.job] ELSE @]

ReadJob(q, j) ==
  /\ view[q] = NoView /\ job[j].status # "absent"
  /\ view' = [view EXCEPT ![q] =
       Selected([step |-> 0, job |-> j, row |-> NoJob, rows |-> <<>>], Selects[1])]
  /\ UNCHANGED vars

(* create_import_job, retry_import: the rows are loaded after the commit,  *)
(* the job stays as the session wrote it (expire_on_commit=False)          *)
AnswerChange(q, j) ==
  /\ view[q] = NoView
  /\ Ask(j) \/ RetryImport(j)
  /\ view' = [view EXCEPT ![q] =
       [step |-> 1, job |-> j, row |-> job'[j], rows |-> <<>>]]

ReadRows(q) ==
  /\ view[q].step = 1
  /\ view' = [view EXCEPT ![q] = Selected(@, Selects[2])]
  /\ UNCHANGED vars

Done(q) == /\ view[q] # NoView
           /\ view' = [view EXCEPT ![q] = NoView]
           /\ UNCHANGED vars

Import == \/ \E j \in Jobs : DelayElapses(j)
          \/ \E s \in Slugs : CreateArticle(s)
          \/ \E w \in Workers : Step(w)

IReadsNext == \/ Import /\ UNCHANGED view
              \/ \E q \in Readers, j \in Jobs : ReadJob(q, j) \/ AnswerChange(q, j)
              \/ \E q \in Readers : ReadRows(q) \/ Done(q)

IReadsSpec == IReadsInit /\ [][IReadsNext]_iviews

-----------------------------------------------------------------------------
(* Progress that is shown is never ahead of the rows shown with it: the    *)
(* rows that the counters count are decided, as many of them refused as    *)
(* are counted, and a completed job is shown without a pending row, with a *)
(* refused one exactly when its status says so.                            *)
ProgressNotAhead ==
  \A q \in Readers :
    LET x == view[q]
        refused(n) == {p \in 1..n : x.rows[p].status = "failed"}
    IN x.step = 2 =>
         /\ x.row.processed <= Len(x.rows)
         /\ \A p \in 1..x.row.processed : x.rows[p].status # "pending"
         /\ Cardinality(refused(x.row.processed)) = x.row.failed
         /\ x.row.status \in Completed =>
              /\ x.row.processed = Len(x.rows)
              /\ x.row.status = "completed" <=> refused(Len(x.rows)) = {}
=============================================================================
