--------------------------- MODULE ImportMigration ---------------------------
(***************************************************************************)
(* Import jobs over a change of the schema and back, with API and workers  *)
(* stopped: attempts and next_attempt_at are dropped by downgrade, and an  *)
(* upgrade starts each job without an attempt and due at once.  Status,    *)
(* counters and rows stay.  Jobs that became due together are ordered by   *)
(* created_at, here any of them is the first.  Between the migrations      *)
(* clients watch their jobs as in ImportReads.                             *)
(***************************************************************************)
EXTENDS ImportReads

CONSTANT Downgrades   \* how often the schema is downgraded (a bound)

VARIABLES schema,     \* the revision of the schema in alembic_version
          downgrades  \* how often the schema was downgraded

imvars == <<iviews, schema, downgrades>>

Initial == "20260831_0001"
Attempts == "20260927_0002"

MigrationInit == IReadsInit /\ schema = Attempts /\ downgrades = 0

Stopped == /\ \A w \in Workers : worker[w] = Idle
           /\ \A q \in Readers : view[q] = NoView

(* (mutant) an upgrade resumes the jobs that have stopped                  *)
Restarted_Resumed(x) ==
  [x EXCEPT !.attempts = 0, !.status = IF @ = "failed" THEN "processing" ELSE @]

(* The server's default of attempts                                        *)
Restarted(x) == [x EXCEPT !.attempts = 0]

Downgrade ==
  /\ schema = Attempts /\ Stopped
  /\ downgrades < Downgrades /\ downgrades' = downgrades + 1
  /\ schema' = Initial
  /\ job' = [j \in Jobs |-> [job[j] EXCEPT !.attempts = 0]]
  /\ UNCHANGED <<items, article, announced, requested, waiting, ahead, lock, claim,
                 worker, view>>

(* next_attempt_at is the time of the upgrade                              *)
Upgrade ==
  /\ schema = Initial /\ schema' = Attempts
  /\ job' = [j \in Jobs |-> Restarted(job[j])]
  /\ waiting' = {} /\ ahead' = [j \in Jobs |-> {}]
  /\ UNCHANGED <<items, article, announced, requested, lock, claim, worker, view,
                 downgrades>>

Work == schema = Attempts /\ IReadsNext /\ UNCHANGED <<schema, downgrades>>

MigrationNext == Work \/ Downgrade \/ Upgrade

MigrationSpec == MigrationInit /\ [][MigrationNext]_imvars

-----------------------------------------------------------------------------
(* A job that has stopped stays so until an editor asks for a retry,       *)
(* although after a migration it has no attempts: nothing else, and no     *)
(* failure recorded late, resumes it.                                      *)
StoppedUntilRetry ==
  [][\A j \in Jobs : job[j].status = "failed" /\ job'[j] # job[j] =>
       \/ requested'[j] = requested[j] + 1
       \/ schema' # schema /\ job'[j].status = "failed"]_imvars
=============================================================================
