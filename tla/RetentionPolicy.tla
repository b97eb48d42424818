--------------------------- MODULE RetentionPolicy ---------------------------
(***************************************************************************)
(* The retention command: it first puts the policy of the article queue    *)
(* into the broker, over the HTTP management API, and then deletes one     *)
(* batch of old events by SQL.  The two are not atomic: a command may fail *)
(* at any step, a request that timed out may still take effect later, and  *)
(* several commands and an operator may be at work at once.                *)
(*                                                                         *)
(* A run is one invocation of the command; an event is the number of its   *)
(* place in the order of published_at.  Which events are old enough is     *)
(* modelled in Outbox: here all of them are.                               *)
(***************************************************************************)
EXTENDS Naturals, FiniteSets

CONSTANTS Runs,       \* invocations of the command
          Own,        \* POLICY_NAME
          Others,     \* the names of other policies of the virtual host
          Events,     \* old published article events
          BatchSize,  \* article_retention_batch_size
          Changes     \* how often an operator changes a policy (a bound)

Names == Others \cup {Own}

ASSUME RetentionAssumption ==
  /\ Own \notin Others
  /\ Events \subseteq Nat /\ IsFiniteSet(Events)
  /\ BatchSize \in Nat \ {0} /\ Changes \in Nat

VARIABLES policy,    \* policy[n]: scope of the policy named n in the broker
          flight,    \* runs whose request the broker has not executed yet
          executed,  \* runs whose request it has executed
          rows,      \* the events that are still in outbox_events
          run,       \* run[r]: mode, next step and selected ids of run r
          altered,   \* altered[r]: policies changed by others since r looked
          changes    \* changes made by the operator

vars == <<policy, flight, executed, rows, run, altered, changes>>

(***************************************************************************)
(* The scope of a policy: the queue of article events as this command      *)
(* writes it, another that includes this queue, or one without it.         *)
(***************************************************************************)
Scopes == {"ours", "wider", "apart"}
Foreign == {"wider", "apart"}
Covering == {"ours", "wider"}

Modes == {"apply", "dry-run", "remove"}
Steps == {"new", "check", "list", "send", "wait", "select", "delete", "print",
          "done", "refused", "failed"}
Run == [mode : Modes \cup {"none"}, step : Steps, ids : SUBSET Events]
NewRun == [mode |-> "none", step |-> "new", ids |-> {}]

Init == /\ policy = [n \in Names |-> "none"]
        /\ flight = {} /\ executed = {}
        /\ rows = Events
        /\ run = [r \in Runs |-> NewRun]
        /\ altered = [r \in Runs |-> {}]
        /\ changes = 0

At(r, step) == run[r].step = step
Goto(r, step) == run' = [run EXCEPT ![r].step = step]

(* apply_policy and remove_policy look first; a dry run asks no broker     *)
FirstStep(mode) == IF mode = "dry-run" THEN "select" ELSE "check"

(***************************************************************************)
(* Without ARTICLE_RETENTION_SECONDS the command only removes the policy.  *)
(***************************************************************************)
Invoke(r, mode, configured) ==
  /\ At(r, "new")
  /\ run' = [run EXCEPT ![r].mode = mode,
       ![r].step = IF configured \/ mode = "remove" THEN FirstStep(mode) ELSE "failed"]
  /\ UNCHANGED <<policy, flight, executed, rows, altered, changes>>

(* (mutant) pattern and apply-to are not both compared                     *)
IsForeign_Half(scope) == scope = "wider"
IsForeign(scope) == scope \in Foreign

(* check_policy_scope                                                      *)
CheckPolicyScope(r) ==
  /\ At(r, "check")
  /\ Goto(r, IF IsForeign(policy[Own]) THEN "refused"
             ELSE IF run[r].mode = "apply" THEN "list" ELSE "send")
  /\ altered' = [altered EXCEPT ![r] = {}]
  /\ UNCHANGED <<policy, flight, executed, rows, changes>>

ListPolicies(r) ==
  /\ At(r, "list")
  /\ Goto(r, IF \E n \in Others : policy[n] \in Covering THEN "refused" ELSE "send")
  /\ altered' = [altered EXCEPT ![r] = @ \cap {Own}]
  /\ UNCHANGED <<policy, flight, executed, rows, changes>>

Send(r) == /\ At(r, "send") /\ Goto(r, "wait")
           /\ flight' = flight \cup {r}
           /\ UNCHANGED <<policy, executed, rows, altered, changes>>

(***************************************************************************)
(* The broker (external): it executes a request sooner or later, whether   *)
(* or not the run still waits, or never.                                   *)
(***************************************************************************)
SetBy(who, n, scope) ==
  /\ policy' = [policy EXCEPT ![n] = scope]
  /\ altered' = [r \in Runs |-> IF r \in who THEN altered[r] ELSE altered[r] \cup {n}]

Written_AllQueues == "wider"   \* (mutant) another pattern than is looked for
Written == "ours"              \* policy_definition

Execute(r) == /\ r \in flight /\ flight' = flight \ {r}
              /\ executed' = executed \cup {r}
              /\ SetBy({r}, Own, IF run[r].mode = "apply" THEN Written ELSE "none")
              /\ UNCHANGED <<rows, run, changes>>

Lose(r) == /\ r \in flight /\ flight' = flight \ {r}
           /\ UNCHANGED <<policy, executed, rows, run, altered, changes>>

Operate(n, scope) == /\ changes < Changes /\ changes' = changes + 1
                     /\ policy[n] # scope /\ SetBy({}, n, scope)
                     /\ UNCHANGED <<flight, executed, rows, run>>

(* (mutant) a request that is not answered in time is taken for done       *)
Answered_Anyway(r) == At(r, "wait")
Answered(r) == At(r, "wait") /\ r \in executed

Receive(r) == /\ Answered(r)
              /\ Goto(r, IF run[r].mode = "apply" THEN "select" ELSE "done")
              /\ UNCHANGED <<policy, flight, executed, rows, altered, changes>>

-----------------------------------------------------------------------------
Locked == UNION {run[r].ids : r \in {q \in Runs : At(q, "delete")}}

(* (mutant) busy rows are selected too                                     *)
Selectable_Busy(mode) == rows

(* SKIP LOCKED; a dry run locks nothing and skips nothing                  *)
Selectable(mode) == IF mode = "apply" THEN rows \ Locked ELSE rows

(* order_by(published_at), limit(batch size): the oldest rows of S         *)
Smallest(S) == {T \in SUBSET S :
  /\ Cardinality(T) <= BatchSize
  /\ T # S => Cardinality(T) = BatchSize
  /\ \A t \in T, s \in S \ T : t < s}

Select(r) ==
  /\ At(r, "select")
  /\ \E ids \in Smallest(Selectable(run[r].mode)) :
       run' = [run EXCEPT ![r].ids = ids,
                ![r].step = IF run[r].mode = "apply" THEN "delete" ELSE "print"]
  /\ UNCHANGED <<policy, flight, executed, rows, altered, changes>>

DeleteRows(r) == /\ At(r, "delete") /\ Goto(r, "print")
                 /\ rows' = rows \ run[r].ids
                 /\ UNCHANGED <<policy, flight, executed, altered, changes>>

PrintIds(r) == /\ At(r, "print") /\ Goto(r, "done")
               /\ UNCHANGED <<policy, flight, executed, rows, altered, changes>>

(* HTTP and SQL errors, timeouts, kill: the transaction is rolled back     *)
Fail(r) == /\ run[r].step \in Steps \ {"new", "done", "refused", "failed"}
           /\ run' = [run EXCEPT ![r].step = "failed", ![r].ids = {}]
           /\ UNCHANGED <<policy, flight, executed, rows, altered, changes>>

Main(r) == \/ \E mode \in Modes, configured \in BOOLEAN : Invoke(r, mode, configured)
           \/ CheckPolicyScope(r) \/ ListPolicies(r) \/ Send(r) \/ Receive(r)
           \/ Select(r) \/ DeleteRows(r) \/ PrintIds(r) \/ Fail(r)

Next == \/ \E r \in Runs : Main(r) \/ Execute(r) \/ Lose(r)
        \/ \E n \in Names, scope \in Scopes \cup {"none"} : Operate(n, scope)

Spec == Init /\ [][Next]_vars

-----------------------------------------------------------------------------
(* Everything has its type; ids are one batch at most, and only of a run   *)
(* that has selected them; only a run that has sent its request is with    *)
(* the broker.                                                             *)
TypeOK ==
  /\ policy \in [Names -> Scopes \cup {"none"}]
  /\ flight \subseteq Runs /\ executed \subseteq Runs
  /\ rows \subseteq Events
  /\ run \in [Runs -> Run]
  /\ altered \in [Runs -> SUBSET Names]
  /\ changes \in 0..Changes
  /\ \A r \in Runs :
       /\ Cardinality(run[r].ids) <= BatchSize
       /\ run[r].step \notin {"delete", "print", "done"} => run[r].ids = {}
       /\ r \in flight \cup executed => run[r].step \notin {"new", "check", "list", "send"}

(* Rows are deleted only under the policy: whenever a batch is deleted the *)
(* article queue has the command's own policy and no other, unless someone *)
(* else has changed one since this very run looked.  So a failure of the   *)
(* broker, before or after it took the request, leaves the rows.           *)
DeletedUnderPolicy ==
  [][\A r \in Runs : At(r, "delete") /\ run'[r].step = "print" =>
       \A n \in Names \ altered[r] :
         IF n = Own THEN policy[n] = "ours" ELSE policy[n] \notin Covering]_vars

(* A policy of this name but another scope is replaced or removed by the   *)
(* command only if it appeared after that run had looked, and even by a    *)
(* request that takes effect long after its run gave up.                   *)
ForeignKept ==
  [][policy[Own] \in Foreign /\ policy'[Own] # policy[Own] =>
       \/ changes' # changes
       \/ \E r \in flight \ flight' : Own \in altered[r]]_vars

(* The command does not stand in its own way: as long as no one else has   *)
(* changed a policy, no run is refused, whatever other runs have left      *)
(* behind, so a run that failed half way can be repeated.                  *)
NeverInItsOwnWay == changes = 0 => \A r \in Runs : ~At(r, "refused")

(* Two runs never delete the same event: what the runs printed as deleted  *)
(* is gone, each event in the report of one run only.                      *)
Reported(r) == IF run[r].mode = "apply" /\ run[r].step \in {"print", "done"}
               THEN run[r].ids ELSE {}
ReportsExact ==
  \A r \in Runs : /\ Reported(r) \cap rows = {}
                  /\ \A q \in Runs \ {r} : Reported(r) \cap Reported(q) = {}
=============================================================================
