---------------------------- MODULE RetentionProofs ----------------------------
(***************************************************************************)
(* Proofs about RetentionPolicy, for any number of runs, policies, events  *)
(* and changes by operators.  What a run has read in the broker stays true *)
(* but for the policies that others have altered since: the invariant says *)
(* what each step of a run may still rely on.                              *)
(***************************************************************************)
EXTENDS RetentionPolicy, FiniteSetTheorems, TLAPS

USE RetentionAssumption DEF RetentionAssumption

Applies(r, steps) == run[r].mode = "apply" /\ run[r].step \in steps

(* No other policy covers the queue, as the run has seen in the list       *)
OthersClear ==
  \A r \in Runs : Applies(r, {"send", "wait", "select", "delete"}) =>
    \A n \in Others \ altered[r] : policy[n] \notin Covering

(* The answer means that the run's own policy has been in force            *)
InForce ==
  \A r \in Runs :
    Applies(r, {"select", "delete"}) \/ (Applies(r, {"wait"}) /\ r \in executed) =>
      Own \in altered[r] \/ policy[Own] = "ours"

(* A run sends its request only after it saw no foreign policy             *)
LookedBefore ==
  \A r \in Runs : run[r].step \in {"list", "send"} \/ r \in flight =>
    Own \in altered[r] \/ policy[Own] \notin Foreign

(* The command itself leaves nothing that it would refuse                  *)
OwnTraces ==
  changes = 0 => /\ \A n \in Others : policy[n] = "none"
                 /\ policy[Own] \in {"none", "ours"}
                 /\ \A r \in Runs : ~At(r, "refused")

(* A batch about to be deleted is still there and is one run's alone       *)
BatchesHeld ==
  \A r \in Runs : At(r, "delete") =>
    /\ run[r].mode = "apply" /\ run[r].ids \subseteq rows
    /\ \A q \in Runs \ {r} : At(q, "delete") => run[r].ids \cap run[q].ids = {}

RInv == TypeOK /\ OthersClear /\ InForce /\ LookedBefore /\ OwnTraces
        /\ BatchesHeld /\ ReportsExact

-----------------------------------------------------------------------------
LEMMA Went ==
  ASSUME TypeOK, NEW r \in Runs, NEW step \in Steps, Goto(r, step)
  PROVE  /\ run' \in [Runs -> Run]
         /\ run'[r].step = step /\ run'[r].mode = run[r].mode /\ run'[r].ids = run[r].ids
         /\ \A q \in Runs \ {r} : run'[q] = run[q]
BY DEF TypeOK, Goto, Run

LEMMA InitInv == ASSUME Init PROVE RInv
<1>1. Cardinality({}) = 0
  BY FS_EmptySet
<1>2. /\ NewRun \in Run /\ Cardinality(NewRun.ids) <= BatchSize
      /\ NewRun.ids = {} /\ NewRun.step = "new"
  BY <1>1 DEF NewRun, Run, Steps, Modes
<1>3. TypeOK
  BY <1>2 DEF Init, TypeOK
<1>4. QED
  BY <1>3 DEF Init, RInv, OthersClear, InForce, LookedBefore, OwnTraces, BatchesHeld,
     ReportsExact, Reported, Applies, At, NewRun, Names

LEMMA InvokeInv ==
  ASSUME RInv, NEW r \in Runs, NEW mode \in Modes, NEW configured \in BOOLEAN,
         Invoke(r, mode, configured)
  PROVE  RInv'
<1>1. PICK step \in {"select", "check", "failed"} :
        run' = [run EXCEPT ![r].mode = mode, ![r].step = step]
             /\ (mode = "apply" => step # "select")
  BY DEF Invoke, FirstStep
<1>2. /\ run[r].step = "new" /\ r \notin flight \cup executed
      /\ UNCHANGED <<policy, flight, executed, rows, altered, changes>>
  BY DEF Invoke, At, RInv, TypeOK
<1>3. /\ run' \in [Runs -> Run]
      /\ run'[r].step = step /\ run'[r].mode = mode /\ run'[r].ids = run[r].ids
      /\ \A q \in Runs \ {r} : run'[q] = run[q]
  BY <1>1, ZenonT(30) DEF RInv, TypeOK, Run, Steps
<1>4. TypeOK'
  BY <1>1, <1>2, <1>3 DEF RInv, TypeOK
<1>5. OthersClear' /\ InForce' /\ LookedBefore' /\ OwnTraces'
  BY <1>1, <1>2, <1>3
  DEF RInv, OthersClear, InForce, LookedBefore, OwnTraces, Applies, At
<1>6. BatchesHeld' /\ ReportsExact'
  BY <1>1, <1>2, <1>3 DEF RInv, BatchesHeld, ReportsExact, Reported, At
<1>7. QED BY <1>4, <1>5, <1>6 DEF RInv

LEMMA CheckInv ==
  ASSUME RInv, NEW r \in Runs, CheckPolicyScope(r)
  PROVE  RInv'
<1>1. PICK step \in {"refused", "list", "send"} :
        /\ Goto(r, step) /\ (IsForeign(policy[Own]) <=> step = "refused")
        /\ run[r].mode = "apply" => step # "send"
  BY DEF CheckPolicyScope
<1>2. /\ run[r].step = "check" /\ r \notin flight \cup executed
      /\ altered' = [altered EXCEPT ![r] = {}]
      /\ UNCHANGED <<policy, flight, executed, rows, changes>>
  BY DEF CheckPolicyScope, At, RInv, TypeOK
<1>3. /\ run' \in [Runs -> Run]
      /\ run'[r].step = step /\ run'[r].mode = run[r].mode /\ run'[r].ids = run[r].ids
      /\ \A q \in Runs \ {r} : run'[q] = run[q]
  BY <1>1, Went DEF RInv, Steps
<1>4. TypeOK'
  BY <1>1, <1>2, <1>3 DEF RInv, TypeOK
<1>5. \A q \in Runs \ {r} : altered'[q] = altered[q]
  BY <1>2 DEF RInv, TypeOK
<1>6. OthersClear' /\ InForce'
  BY <1>1, <1>2, <1>3, <1>5 DEF RInv, OthersClear, InForce, Applies
<1>7. LookedBefore'
  BY <1>1, <1>2, <1>3, <1>5 DEF RInv, LookedBefore, IsForeign
<1>8. OwnTraces'
  BY <1>1, <1>2, <1>3 DEF RInv, OwnTraces, At, IsForeign, Foreign
<1>9. BatchesHeld' /\ ReportsExact'
  BY <1>1, <1>2, <1>3 DEF RInv, BatchesHeld, ReportsExact, Reported, At
<1>10. QED BY <1>4, <1>6, <1>7, <1>8, <1>9 DEF RInv

LEMMA ListInv ==
  ASSUME RInv, NEW r \in Runs, ListPolicies(r)
  PROVE  RInv'
<1>1. PICK step \in {"refused", "send"} :
        Goto(r, step) /\ ((\E n \in Others : policy[n] \in Covering) <=> step = "refused")
  BY DEF ListPolicies
<1>2. /\ run[r].step = "list" /\ r \notin flight \cup executed
      /\ altered' = [altered EXCEPT ![r] = altered[r] \cap {Own}]
      /\ UNCHANGED <<policy, flight, executed, rows, changes>>
  BY DEF ListPolicies, At, RInv, TypeOK
<1>3. /\ run' \in [Runs -> Run]
      /\ run'[r].step = step /\ run'[r].mode = run[r].mode /\ run'[r].ids = run[r].ids
      /\ \A q \in Runs \ {r} : run'[q] = run[q]
  BY <1>1, Went DEF RInv, Steps
<1>4. TypeOK'
  BY <1>1, <1>2, <1>3 DEF RInv, TypeOK
<1>5. /\ \A q \in Runs \ {r} : altered'[q] = altered[q]
      /\ altered'[r] = altered[r] \cap {Own}
  BY <1>2 DEF RInv, TypeOK
<1>6. OthersClear' /\ InForce'
  BY <1>1, <1>2, <1>3, <1>5 DEF RInv, OthersClear, InForce, Applies
<1>7. LookedBefore'
  BY <1>1, <1>2, <1>3, <1>5 DEF RInv, LookedBefore
<1>8. OwnTraces'
  BY <1>1, <1>2, <1>3 DEF RInv, OwnTraces, At, Covering
<1>9. BatchesHeld' /\ ReportsExact'
  BY <1>1, <1>2, <1>3 DEF RInv, BatchesHeld, ReportsExact, Reported, At
<1>10. QED BY <1>4, <1>6, <1>7, <1>8, <1>9 DEF RInv

LEMMA SendInv ==
  ASSUME RInv, NEW r \in Runs, Send(r)
  PROVE  RInv'
<1>1. /\ run[r].step = "send" /\ r \notin flight \cup executed
      /\ Goto(r, "wait") /\ flight' = flight \cup {r}
      /\ UNCHANGED <<policy, executed, rows, altered, changes>>
  BY DEF Send, At, RInv, TypeOK
<1>2. /\ run' \in [Runs -> Run]
      /\ run'[r].step = "wait" /\ run'[r].mode = run[r].mode /\ run'[r].ids = run[r].ids
      /\ \A q \in Runs \ {r} : run'[q] = run[q]
  BY <1>1, Went DEF RInv, Steps
<1>3. TypeOK'
  BY <1>1, <1>2 DEF RInv, TypeOK
<1>4. OthersClear' /\ InForce' /\ LookedBefore' /\ OwnTraces'
  BY <1>1, <1>2 DEF RInv, OthersClear, InForce, LookedBefore, OwnTraces, Applies, At
<1>5. BatchesHeld' /\ ReportsExact'
  BY <1>1, <1>2 DEF RInv, BatchesHeld, ReportsExact, Reported, At
<1>6. QED BY <1>3, <1>4, <1>5 DEF RInv

(* A policy is set by the request of one run, or by an operator (who = {}) *)
LEMMA SetByInv ==
  ASSUME RInv, NEW who \in SUBSET Runs, NEW n \in Names, NEW scope \in Scopes \cup {"none"},
         SetBy(who, n, scope)
  PROVE  /\ policy' \in [Names -> Scopes \cup {"none"}]
         /\ altered' \in [Runs -> SUBSET Names]
         /\ policy'[n] = scope /\ \A m \in Names \ {n} : policy'[m] = policy[m]
         /\ \A q \in who : altered'[q] = altered[q]
         /\ \A q \in Runs \ who : altered'[q] = altered[q] \cup {n}
BY DEF RInv, TypeOK, SetBy

LEMMA ExecuteInv ==
  ASSUME RInv, NEW r \in Runs, Execute(r)
  PROVE  RInv'
<1>1. PICK scope \in {"ours", "none"} :
        SetBy({r}, Own, scope) /\ (run[r].mode = "apply" => scope = "ours")
  BY DEF Execute, Written
<1>2. /\ r \in flight /\ flight' = flight \ {r} /\ executed' = executed \cup {r}
      /\ UNCHANGED <<rows, run, changes>>
  BY DEF Execute
<1>3. /\ policy' \in [Names -> Scopes \cup {"none"}]
      /\ altered' \in [Runs -> SUBSET Names]
      /\ policy'[Own] = scope /\ \A m \in Names \ {Own} : policy'[m] = policy[m]
      /\ altered'[r] = altered[r]
      /\ \A q \in Runs \ {r} : altered'[q] = altered[q] \cup {Own}
  <2> DEFINE who == {r}
  <2>1. /\ who \in SUBSET Runs /\ Own \in Names /\ scope \in Scopes \cup {"none"}
        /\ r \in who /\ \A q \in Runs \ {r} : q \in Runs \ who
    BY DEF Names, Scopes
  <2>2. SetBy(who, Own, scope)
    BY <1>1
  <2> HIDE DEF who
  <2>3. /\ policy' \in [Names -> Scopes \cup {"none"}]
        /\ altered' \in [Runs -> SUBSET Names]
        /\ policy'[Own] = scope /\ \A m \in Names \ {Own} : policy'[m] = policy[m]
        /\ \A q \in who : altered'[q] = altered[q]
        /\ \A q \in Runs \ who : altered'[q] = altered[q] \cup {Own}
    BY <2>1, <2>2, SetByInv
  <2>4. QED BY <2>1, <2>3
<1>4. TypeOK'
  BY <1>2, <1>3 DEF RInv, TypeOK
<1>5. OthersClear' /\ InForce' /\ LookedBefore' /\ OwnTraces'
  BY <1>1, <1>2, <1>3
  DEF RInv, OthersClear, InForce, LookedBefore, OwnTraces, Applies, At, Names, Foreign
<1>6. BatchesHeld' /\ ReportsExact'
  BY <1>2 DEF RInv, BatchesHeld, ReportsExact, Reported, At
<1>7. QED BY <1>4, <1>5, <1>6 DEF RInv

LEMMA LoseInv ==
  ASSUME RInv, NEW r \in Runs, Lose(r)
  PROVE  RInv'
BY DEF Lose, RInv, TypeOK, OthersClear, InForce, LookedBefore, OwnTraces, BatchesHeld,
       ReportsExact, Reported, Applies, At

LEMMA OperateInv ==
  ASSUME RInv, NEW n \in Names, NEW scope \in Scopes \cup {"none"}, Operate(n, scope)
  PROVE  RInv'
<1>1. /\ changes \in Nat /\ changes < Changes /\ changes' = changes + 1
      /\ SetBy({}, n, scope) /\ UNCHANGED <<flight, executed, rows, run>>
  BY DEF Operate, RInv, TypeOK
<1>2. /\ policy' \in [Names -> Scopes \cup {"none"}]
      /\ altered' \in [Runs -> SUBSET Names]
      /\ policy'[n] = scope /\ \A m \in Names \ {n} : policy'[m] = policy[m]
      /\ \A q \in Runs : altered'[q] = altered[q] \cup {n}
  <2> DEFINE who == {}
  <2>1. SetBy(who, n, scope)
    BY <1>1
  <2>2. who \in SUBSET Runs /\ \A q \in Runs : q \in Runs \ who
    OBVIOUS
  <2> HIDE DEF who
  <2>3. /\ policy' \in [Names -> Scopes \cup {"none"}]
        /\ altered' \in [Runs -> SUBSET Names]
        /\ policy'[n] = scope /\ \A m \in Names \ {n} : policy'[m] = policy[m]
        /\ \A q \in Runs \ who : altered'[q] = altered[q] \cup {n}
    BY <2>1, <2>2, SetByInv, ZenonT(30)
  <2>4. QED BY <2>2, <2>3
<1>3. TypeOK'
  BY <1>1, <1>2 DEF RInv, TypeOK
<1>4. OthersClear' /\ InForce' /\ LookedBefore' /\ OwnTraces'
  BY <1>1, <1>2
  DEF RInv, OthersClear, InForce, LookedBefore, OwnTraces, Applies, At, Names
<1>5. BatchesHeld' /\ ReportsExact'
  BY <1>1 DEF RInv, BatchesHeld, ReportsExact, Reported, At
<1>6. QED BY <1>3, <1>4, <1>5 DEF RInv

LEMMA ReceiveInv ==
  ASSUME RInv, NEW r \in Runs, Receive(r)
  PROVE  RInv'
<1>1. PICK step \in {"select", "done"} :
        Goto(r, step) /\ (run[r].mode = "apply" <=> step = "select")
  BY DEF Receive
<1>2. /\ run[r].step = "wait" /\ r \in executed
      /\ UNCHANGED <<policy, flight, executed, rows, altered, changes>>
  BY DEF Receive, Answered, At
<1>3. /\ run' \in [Runs -> Run]
      /\ run'[r].step = step /\ run'[r].mode = run[r].mode /\ run'[r].ids = run[r].ids
      /\ \A q \in Runs \ {r} : run'[q] = run[q]
  BY <1>1, Went DEF RInv, Steps
<1>4. TypeOK'
  BY <1>1, <1>2, <1>3 DEF RInv, TypeOK
<1>5. OthersClear' /\ InForce' /\ LookedBefore' /\ OwnTraces'
  BY <1>1, <1>2, <1>3
  DEF RInv, OthersClear, InForce, LookedBefore, OwnTraces, Applies, At
<1>6. BatchesHeld' /\ ReportsExact'
  BY <1>1, <1>2, <1>3 DEF RInv, BatchesHeld, ReportsExact, Reported, At
<1>7. QED BY <1>4, <1>5, <1>6 DEF RInv

LEMMA SelectInv ==
  ASSUME RInv, NEW r \in Runs, Select(r)
  PROVE  RInv'
<1>1. PICK ids \in Smallest(Selectable(run[r].mode)), step \in {"delete", "print"} :
        /\ run' = [run EXCEPT ![r].ids = ids, ![r].step = step]
        /\ run[r].mode = "apply" <=> step = "delete"
  BY DEF Select
<1>2. /\ run[r].step = "select"
      /\ UNCHANGED <<policy, flight, executed, rows, altered, changes>>
  BY DEF Select, At
<1>3. /\ ids \subseteq rows /\ Cardinality(ids) <= BatchSize
      /\ step = "delete" => ids \cap Locked = {}
  BY <1>1 DEF Smallest, Selectable
<1>4. ids \subseteq Events
  BY <1>3 DEF RInv, TypeOK
<1>5. /\ run' \in [Runs -> Run]
      /\ run'[r].step = step /\ run'[r].mode = run[r].mode /\ run'[r].ids = ids
      /\ \A q \in Runs \ {r} : run'[q] = run[q]
  BY <1>1, <1>4, ZenonT(30) DEF RInv, TypeOK, Run, Steps
<1>6. TypeOK'
  BY <1>2, <1>3, <1>5 DEF RInv, TypeOK
<1>7. OthersClear' /\ InForce' /\ LookedBefore' /\ OwnTraces'
  BY <1>1, <1>2, <1>5
  DEF RInv, OthersClear, InForce, LookedBefore, OwnTraces, Applies, At
<1>8. \A q \in Runs : At(q, "delete") => run[q].ids \subseteq Locked
  BY DEF Locked
<1>9. BatchesHeld'
  BY <1>1, <1>2, <1>3, <1>5, <1>8 DEF RInv, BatchesHeld, At
<1>10. ReportsExact'
  BY <1>1, <1>2, <1>5 DEF RInv, ReportsExact, Reported
<1>11. QED BY <1>6, <1>7, <1>9, <1>10 DEF RInv

LEMMA DeleteInv ==
  ASSUME RInv, NEW r \in Runs, DeleteRows(r)
  PROVE  RInv'
<1>1. /\ run[r].step = "delete" /\ Goto(r, "print") /\ rows' = rows \ run[r].ids
      /\ UNCHANGED <<policy, flight, executed, altered, changes>>
  BY DEF DeleteRows, At
<1>2. /\ run' \in [Runs -> Run]
      /\ run'[r].step = "print" /\ run'[r].mode = run[r].mode /\ run'[r].ids = run[r].ids
      /\ \A q \in Runs \ {r} : run'[q] = run[q]
  BY <1>1, Went DEF RInv, Steps
<1>3. TypeOK'
  BY <1>1, <1>2 DEF RInv, TypeOK
<1>4. OthersClear' /\ InForce' /\ LookedBefore' /\ OwnTraces'
  BY <1>1, <1>2 DEF RInv, OthersClear, InForce, LookedBefore, OwnTraces, Applies, At
<1>5. BatchesHeld'
  BY <1>1, <1>2 DEF RInv, BatchesHeld, At
<1>6. /\ run[r].ids \subseteq rows
      /\ \A q \in Runs \ {r} : Reported(q)' = Reported(q)
      /\ Reported(r)' = run[r].ids
  BY <1>1, <1>2 DEF RInv, BatchesHeld, At, Reported
<1>7. \A q \in Runs : Reported(q) \cap rows = {} /\ \A p \in Runs \ {q} : Reported(q) \cap Reported(p) = {}
  BY DEF RInv, ReportsExact
<1>8. ReportsExact'
  <2> SUFFICES ASSUME NEW q \in Runs
               PROVE  /\ Reported(q)' \cap rows' = {}
                      /\ \A p \in Runs \ {q} : Reported(q)' \cap Reported(p)' = {}
    BY DEF ReportsExact
  <2> HIDE DEF Reported
  <2>1. CASE q = r
    BY <1>1, <1>6, <1>7, <2>1
  <2>2. CASE q # r
    BY <1>1, <1>6, <1>7, <2>2
  <2>3. QED BY <2>1, <2>2
<1>9. QED BY <1>3, <1>4, <1>5, <1>8 DEF RInv

LEMMA PrintInv ==
  ASSUME RInv, NEW r \in Runs, PrintIds(r)
  PROVE  RInv'
<1>1. /\ run[r].step = "print" /\ Goto(r, "done")
      /\ UNCHANGED <<policy, flight, executed, rows, altered, changes>>
  BY DEF PrintIds, At
<1>2. /\ run' \in [Runs -> Run]
      /\ run'[r].step = "done" /\ run'[r].mode = run[r].mode /\ run'[r].ids = run[r].ids
      /\ \A q \in Runs \ {r} : run'[q] = run[q]
  BY <1>1, Went DEF RInv, Steps
<1>3. TypeOK'
  BY <1>1, <1>2 DEF RInv, TypeOK
<1>4. OthersClear' /\ InForce' /\ LookedBefore' /\ OwnTraces'
  BY <1>1, <1>2 DEF RInv, OthersClear, InForce, LookedBefore, OwnTraces, Applies, At
<1>5. BatchesHeld'
  BY <1>1, <1>2 DEF RInv, BatchesHeld, At
<1>6. \A q \in Runs : Reported(q)' = Reported(q)
  BY <1>1, <1>2 DEF Reported
<1>7. ReportsExact'
  BY <1>1, <1>6 DEF RInv, ReportsExact
<1>8. QED BY <1>3, <1>4, <1>5, <1>7 DEF RInv

LEMMA FailInv ==
  ASSUME RInv, NEW r \in Runs, Fail(r)
  PROVE  RInv'
<1>1. /\ run' = [run EXCEPT ![r].step = "failed", ![r].ids = {}]
      /\ run[r].step \notin {"new", "done", "refused", "failed"}
      /\ UNCHANGED <<policy, flight, executed, rows, altered, changes>>
  BY DEF Fail
<1>2. /\ run' \in [Runs -> Run]
      /\ run'[r].step = "failed" /\ run'[r].mode = run[r].mode /\ run'[r].ids = {}
      /\ \A q \in Runs \ {r} : run'[q] = run[q]
  BY <1>1, ZenonT(30) DEF RInv, TypeOK, Run, Steps
<1>3. Cardinality({}) <= BatchSize
  BY FS_EmptySet
<1>4. TypeOK'
  BY <1>1, <1>2, <1>3 DEF RInv, TypeOK
<1>5. OthersClear' /\ InForce' /\ LookedBefore' /\ OwnTraces'
  BY <1>1, <1>2 DEF RInv, OthersClear, InForce, LookedBefore, OwnTraces, Applies, At
<1>6. BatchesHeld' /\ ReportsExact'
  BY <1>1, <1>2 DEF RInv, BatchesHeld, ReportsExact, Reported, At
<1>7. QED BY <1>4, <1>5, <1>6 DEF RInv

LEMMA NextInv == ASSUME RInv, [Next]_vars PROVE RInv'
<1>1. CASE UNCHANGED vars
  BY <1>1 DEF vars, RInv, TypeOK, OthersClear, InForce, LookedBefore, OwnTraces,
     BatchesHeld, ReportsExact, Reported, Applies, At
<1>2. CASE \E r \in Runs : Main(r)
  BY <1>2, InvokeInv, CheckInv, ListInv, SendInv, ReceiveInv, SelectInv, DeleteInv,
     PrintInv, FailInv DEF Main
<1>3. CASE \E r \in Runs : Execute(r) \/ Lose(r)
  BY <1>3, ExecuteInv, LoseInv
<1>4. CASE \E n \in Names, scope \in Scopes \cup {"none"} : Operate(n, scope)
  BY <1>4, OperateInv
<1>5. QED BY <1>1, <1>2, <1>3, <1>4 DEF Next

(* The inductive invariant of the command: what each run may rely on.      *)
THEOREM InductiveInvariant == Spec => []RInv
<1>1. Init => RInv
  BY InitInv
<1>2. RInv /\ [Next]_vars => RInv'
  BY NextInv
<1>3. QED BY <1>1, <1>2, PTL DEF Spec

-----------------------------------------------------------------------------
(* Policies, requests, rows and runs always have their types, and no batch *)
(* is larger than configured.                                              *)
THEOREM TypeCorrect == Spec => []TypeOK
<1>1. RInv => TypeOK BY DEF RInv
<1>2. QED BY <1>1, InductiveInvariant, PTL

(* No run deletes rows before the broker limits the queue by the policy of *)
(* this command, whatever failed, was late or was repeated.                *)
THEOREM PolicyBeforeDeletion == Spec => DeletedUnderPolicy
<1> DEFINE A == \A r \in Runs : At(r, "delete") /\ run'[r].step = "print" =>
                  \A n \in Names \ altered[r] :
                    IF n = Own THEN policy[n] = "ours" ELSE policy[n] \notin Covering
<1>1. RInv => A
  <2> SUFFICES ASSUME RInv, NEW r \in Runs, At(r, "delete"), NEW n \in Names \ altered[r]
               PROVE  IF n = Own THEN policy[n] = "ours" ELSE policy[n] \notin Covering
    OBVIOUS
  <2>1. Applies(r, {"select", "delete"}) /\ Applies(r, {"send", "wait", "select", "delete"})
    BY DEF RInv, BatchesHeld, Applies, At
  <2>2. QED BY <2>1 DEF RInv, OthersClear, InForce, Names
<1>2. QED BY <1>1, InductiveInvariant, PTL DEF DeletedUnderPolicy

(* A policy of this name that is somebody else's is not overwritten unless *)
(* it appeared after the run had looked, even by late requests.            *)
THEOREM OthersPolicyKept == Spec => ForeignKept
<1> DEFINE A == policy[Own] \in Foreign /\ policy'[Own] # policy[Own] =>
                  \/ changes' # changes
                  \/ \E r \in flight \ flight' : Own \in altered[r]
<1>1. RInv /\ [Next]_vars => A
  <2> SUFFICES ASSUME RInv, [Next]_vars, policy[Own] \in Foreign, policy'[Own] # policy[Own]
               PROVE  \/ changes' # changes
                      \/ \E r \in flight \ flight' : Own \in altered[r]
    OBVIOUS
  <2>1. CASE \E r \in Runs : Execute(r)
    <3> PICK r \in Runs : Execute(r)
      BY <2>1
    <3>1. r \in flight \ flight'
      BY DEF Execute
    <3>2. QED BY <3>1 DEF RInv, LookedBefore
  <2>2. CASE \E n \in Names, scope \in Scopes \cup {"none"} : Operate(n, scope)
    BY <2>2 DEF Operate, RInv, TypeOK
  <2>3. QED
    BY <2>1, <2>2 DEF Next, Main, Lose, Invoke, CheckPolicyScope, ListPolicies, Send,
       Receive, Select, DeleteRows, PrintIds, Fail, vars
<1>2. QED BY <1>1, InductiveInvariant, PTL DEF ForeignKept, Spec

(* Runs never get in each other's way: without changes by others none is   *)
(* refused, so that a failed run can be repeated.                          *)
THEOREM AlwaysRepeatable == Spec => []NeverInItsOwnWay
<1>1. RInv => NeverInItsOwnWay
  BY DEF RInv, OwnTraces, NeverInItsOwnWay
<1>2. QED BY <1>1, InductiveInvariant, PTL

(* What the runs report as deleted is gone, and reported once.             *)
THEOREM ReportsAreExact == Spec => []ReportsExact
<1>1. RInv => ReportsExact
  BY DEF RInv
<1>2. QED BY <1>1, InductiveInvariant, PTL
=============================================================================
