---------------------------- MODULE OutboxProofs ----------------------------
(***************************************************************************)
(* The inductive invariant of Outbox and what follows from it, one lemma   *)
(* per part.                                                               *)
(***************************************************************************)
EXTENDS Outbox, FiniteSetTheorems, TLAPS

LEMMA ConsumerFacts ==
  ASSUME TypeOK, NEW c \in Consumers
  PROVE  /\ consumer[c] = NoneTaken <=> consumer[c].phase = "none"
         /\ consumer[c] # NoneTaken => consumer[c] \in Taken /\ consumer[c].msg \in Messages
BY DEF TypeOK, Taken, NoneTaken

LEMMA PhaseTyped ==
  ASSUME TypeOK, NEW c \in Consumers, NEW m \in Messages,
         NEW ph \in {"taken", "refused", "handled"}, Phase(c, ph, m)
  PROVE  /\ consumer' \in [Consumers -> Taken \cup {NoneTaken}]
         /\ consumer'[c].phase = ph /\ consumer'[c].msg = m /\ consumer'[c] # NoneTaken
         /\ \A d \in Consumers : d # c => consumer'[d] = consumer[d]
<1> DEFINE x == [phase |-> ph, msg |-> m]
<1>1. x \in Taken /\ x.phase = ph /\ x.msg = m /\ x # NoneTaken
  BY DEF Taken, NoneTaken
<1>2. consumer' = [consumer EXCEPT ![c] = x]
  BY DEF Phase
<1> HIDE DEF x
<1>3. QED BY <1>1, <1>2 DEF TypeOK

LEMMA RouteTyped ==
  ASSUME TypeOK, NEW m \in Messages, Route(m)
  PROVE  /\ sent' \in [Messages -> Nat] /\ ready' \in [Messages -> Nat]
         /\ UNCHANGED <<consumer, acked, invalid>>
         /\ sent'[m] = sent[m] + 1 /\ \A n \in Messages : n # m => sent'[n] = sent[n]
         /\ ready'[m] = IF m \in ArticleEvents THEN ready[m] ELSE ready[m] + 1
         /\ \A n \in Messages : n # m => ready'[n] = ready[n]
<1>1. sent[m] + 1 \in Nat /\ ready[m] + 1 \in Nat
  BY DEF TypeOK
<1>2. QED BY <1>1 DEF TypeOK, Route

LEMMA FaultTyped == ASSUME TypeOK, OutboxAssumption, Fault
                    PROVE  faults' \in 0..MaxFaults /\ faults' = faults + 1 /\ faults \in Nat
BY DEF TypeOK, Fault, OutboxAssumption

LEMMA UnlockTyped ==
  ASSUME TypeOK, NEW p \in Processes, Unlock(p)
  PROVE  /\ lock' \in [Events -> Processes \cup {Free}]
         /\ \A e \in Events : lock'[e] = IF lock[e] = p THEN Free ELSE lock[e]
BY DEF TypeOK, Unlock

-----------------------------------------------------------------------------
LEMMA PublishTyped ==
  ASSUME TypeOK, OutboxAssumption, NEW p \in Publishers, PublishBatch(p)
  PROVE  TypeOK'
<1>1. p \in Processes /\ Events \subseteq Messages
  BY DEF Processes, Messages
<1>2. ASSUME NEW S \in SUBSET Events, SelectBatch(p, S) PROVE TypeOK'
  BY <1>1, <1>2 DEF SelectBatch, TypeOK, broker
<1>3. ASSUME NEW e \in Events, Publish(p, e) PROVE TypeOK'
  <2>1. /\ sent' \in [Messages -> Nat] /\ ready' \in [Messages -> Nat]
        /\ UNCHANGED <<consumer, acked, invalid>>
    BY <1>1, <1>3, RouteTyped DEF Publish
  <2>2. QED BY <1>3, <2>1 DEF Publish, Attempt, TypeOK
<1>4. ASSUME NEW e \in Events, PublishFails(p, e) PROVE TypeOK'
  <2>1. /\ sent' \in [Messages -> Nat] /\ ready' \in [Messages -> Nat]
        /\ UNCHANGED <<consumer, acked, invalid>>
    BY <1>1, <1>4, RouteTyped DEF PublishFails, broker, TypeOK
  <2>2. QED BY <1>4, <2>1, FaultTyped DEF PublishFails, Attempt, TypeOK
<1>5. CASE CommitBatch(p)
  BY <1>1, <1>5, UnlockTyped DEF CommitBatch, TypeOK, broker
<1>6. CASE AbortBatch(p)
  BY <1>1, <1>6, UnlockTyped, FaultTyped DEF AbortBatch, TypeOK, broker
<1>7. QED BY <1>2, <1>3, <1>4, <1>5, <1>6 DEF PublishBatch

LEMMA ConsumeTyped ==
  ASSUME TypeOK, OutboxAssumption, NEW c \in Consumers, ConsumeOne(c)
  PROVE  TypeOK'
<1> USE DEF Queues, publishing
<1>1. ASSUME NEW m \in Messages, Get(c, m) PROVE TypeOK'
  <2>1. consumer' \in [Consumers -> Taken \cup {NoneTaken}]
    BY <1>1, PhaseTyped DEF Get
  <2>2. ready[m] - 1 \in Nat
    BY <1>1 DEF Get, TypeOK
  <2>3. QED BY <1>1, <2>1, <2>2 DEF Get, TypeOK
<1> DEFINE m == consumer[c].msg
<1>2. ASSUME consumer[c].phase # "none" PROVE m \in Messages
  BY <1>2, ConsumerFacts
<1>3. CASE Check(c)
  <2>1. m \in Messages
    BY <1>2, <1>3 DEF Check
  <2>2. consumer' \in [Consumers -> Taken \cup {NoneTaken}]
    BY <1>3, <2>1, PhaseTyped DEF Check
  <2>3. QED BY <1>3, <2>2 DEF Check, TypeOK
<1>4. CASE Quarantine(c)
  <2>1. m \in Messages
    BY <1>2, <1>4 DEF Quarantine
  <2>2. consumer' \in [Consumers -> Taken \cup {NoneTaken}]
    BY <1>4, <2>1, PhaseTyped DEF Quarantine
  <2>3. invalid[m] + 1 \in Nat
    BY <2>1 DEF TypeOK
  <2>4. QED BY <1>4, <2>2, <2>3 DEF Quarantine, TypeOK
<1>5. CASE Ack(c)
  <2>1. m \in Messages /\ acked[m] + 1 \in Nat
    BY <1>2, <1>5 DEF Ack, TypeOK
  <2>2. QED BY <1>5, <2>1 DEF Ack, TypeOK
<1>6. CASE Requeue(c)
  <2>1. m \in Messages /\ ready[m] + 1 \in Nat
    BY <1>6, ConsumerFacts DEF Requeue, TypeOK
  <2>2. QED BY <1>6, <2>1, FaultTyped DEF Requeue, TypeOK
<1>7. QED BY <1>1, <1>3, <1>4, <1>5, <1>6 DEF ConsumeOne

LEMMA CleanTyped ==
  ASSUME TypeOK, OutboxAssumption, NEW k \in Cleaners, Clean(k)
  PROVE  TypeOK'
<1>1. k \in Processes
  BY DEF Processes
<1> USE DEF publishing, broker
<1>2. ASSUME NEW S \in SUBSET Events, SelectOld(k, S) PROVE TypeOK'
  BY <1>1, <1>2 DEF SelectOld, TypeOK
<1>3. CASE DeleteOld(k)
  BY <1>1, <1>3, UnlockTyped DEF DeleteOld, TypeOK
<1>4. CASE AbortClean(k)
  BY <1>1, <1>4, UnlockTyped, FaultTyped DEF AbortClean, TypeOK
<1>5. QED BY <1>2, <1>3, <1>4 DEF Clean

LEMMA NextTyped ==
  ASSUME TypeOK, OutboxAssumption, [Next]_vars
  PROVE  TypeOK'
<1> USE DEF publishing, broker
<1>1. ASSUME NEW e \in Events, AddOutbox(e) \/ Age(e) PROVE TypeOK'
  BY <1>1 DEF AddOutbox, Age, TypeOK
<1>2. ASSUME NEW m \in Foreign, ForeignMessage(m) PROVE TypeOK'
  <2>1. /\ sent' \in [Messages -> Nat] /\ ready' \in [Messages -> Nat]
        /\ UNCHANGED <<consumer, acked, invalid>>
    BY <1>2, RouteTyped DEF ForeignMessage, Messages
  <2>2. QED BY <1>2, <2>1 DEF ForeignMessage, TypeOK
<1>3. CASE UNCHANGED vars
  BY <1>3 DEF vars, TypeOK
<1>4. QED BY <1>1, <1>2, <1>3, PublishTyped, ConsumeTyped, CleanTyped DEF Next
-----------------------------------------------------------------------------
(* BatchOwned, of one process and one event                                *)
Owned ==
  /\ \A p \in Publishers, e \in Events :
       /\ e \in todo[p] \/ e \in confirmed[p] => lock[e] = p
       /\ ~(e \in todo[p] /\ e \in confirmed[p])
       /\ lock[e] = p => row[e] = "pending"
       /\ e \in confirmed[p] => sent[e] > 0
  /\ \A k \in Cleaners, e \in Events :
       lock[e] = k => e \in ArticleEvents /\ row[e] = "published"

LEMMA OwnedIs == ASSUME TypeOK PROVE BatchOwned <=> Owned
<1>1. ASSUME BatchOwned PROVE Owned
  BY <1>1 DEF BatchOwned, Owned, Held
<1>2. ASSUME Owned PROVE BatchOwned
  <2>1. ASSUME NEW p \in Publishers
        PROVE  /\ todo[p] \subseteq Events /\ confirmed[p] \subseteq Events
    BY DEF TypeOK
  <2>2. QED BY <1>2, <2>1 DEF BatchOwned, Owned, Held
<1>3. QED BY <1>1, <1>2

(* What the steps of importers, authors of foreign messages and time keep  *)
LEMMA OthersKeep ==
  ASSUME TypeOK, OutboxAssumption,
         \/ \E c \in Consumers : ConsumeOne(c)
         \/ \E m \in Foreign : ForeignMessage(m)
         \/ \E e \in Events : Age(e)
         \/ UNCHANGED vars
  PROVE  /\ UNCHANGED <<row, lock, todo, confirmed>>
         /\ \A e \in Events : sent'[e] = sent[e]
         /\ faults \in Nat /\ faults' \in Nat /\ faults' >= faults
<1> USE DEF Queues, publishing, broker
<1>0. faults \in Nat
  BY DEF TypeOK, OutboxAssumption
<1>1. ASSUME NEW c \in Consumers, ConsumeOne(c)
      PROVE  UNCHANGED <<row, lock, todo, confirmed, sent>> /\ faults' \in {faults, faults + 1}
  BY <1>1 DEF ConsumeOne, Get, Check, Quarantine, Ack, Requeue, Fault
<1>2. ASSUME NEW m \in Foreign, ForeignMessage(m)
      PROVE  /\ UNCHANGED <<row, lock, todo, confirmed, faults>>
             /\ \A e \in Events : sent'[e] = sent[e]
  BY <1>2, RouteTyped DEF ForeignMessage, Messages, OutboxAssumption
<1>3. ASSUME NEW e \in Events, Age(e)
      PROVE  UNCHANGED <<row, lock, todo, confirmed, sent, faults>>
  BY <1>3 DEF Age
<1>4. CASE UNCHANGED vars
  BY <1>0, <1>4 DEF vars
<1>5. QED BY <1>0, <1>1, <1>2, <1>3, <1>4

LEMMA BatchOwnedStep ==
  ASSUME TypeOK, BatchOwned, OutboxAssumption, [Next]_vars
  PROVE  BatchOwned'
<1>0. Owned /\ TypeOK'
  BY OwnedIs, NextTyped
<1> SUFFICES ASSUME Owned' => BatchOwned' PROVE Owned'
  <2>1. ASSUME NEW p \in Publishers
        PROVE  todo'[p] \subseteq Events /\ confirmed'[p] \subseteq Events
    BY <1>0 DEF TypeOK
  <2>2. Owned' => BatchOwned'
    BY <2>1 DEF BatchOwned, Owned, Held
  <2>3. QED BY <2>2
<1> USE DEF publishing, broker
<1>1. CASE \/ \E c \in Consumers : ConsumeOne(c)
           \/ \E m \in Foreign : ForeignMessage(m)
           \/ \E e \in Events : Age(e)
           \/ UNCHANGED vars
  BY <1>0, <1>1, OthersKeep DEF Owned
<1>2. ASSUME NEW e \in Events, AddOutbox(e) PROVE Owned'
  BY <1>0, <1>2 DEF AddOutbox, Owned, TypeOK
<1>3. ASSUME NEW p \in Publishers, NEW S \in SUBSET Events, SelectBatch(p, S)
      PROVE  Owned'
  <2>1. \A e \in Events : lock[e] # p
    BY <1>3 DEF SelectBatch, Held
  <2>2. \A e \in S : row[e] = "pending" /\ lock[e] = Free
    BY <1>3 DEF SelectBatch, Selectable
  <2>3. /\ UNCHANGED <<row, sent>>
        /\ \A e \in Events : lock'[e] = IF e \in S THEN p ELSE lock[e]
        /\ todo' = [todo EXCEPT ![p] = S] /\ confirmed' = [confirmed EXCEPT ![p] = {}]
    BY <1>3 DEF SelectBatch
  <2>4. \A q \in Publishers : q # p => todo'[q] = todo[q] /\ confirmed'[q] = confirmed[q]
    BY <2>3 DEF TypeOK
  <2>5. todo'[p] = S /\ confirmed'[p] = {}
    BY <2>3 DEF TypeOK
  <2>6. Free \notin Publishers /\ Free \notin Cleaners /\ p \notin Cleaners
    BY DEF OutboxAssumption, Processes
  <2>7. ASSUME NEW q \in Publishers, NEW e \in Events
        PROVE  /\ e \in todo'[q] \/ e \in confirmed'[q] => lock'[e] = q
               /\ ~(e \in todo'[q] /\ e \in confirmed'[q])
               /\ lock'[e] = q => row'[e] = "pending"
               /\ e \in confirmed'[q] => sent'[e] > 0
    <3>1. CASE q = p
      BY <1>0, <2>1, <2>2, <2>3, <2>5, <3>1 DEF Owned
    <3>2. CASE q # p
      BY <1>0, <2>2, <2>3, <2>4, <2>6, <3>2 DEF Owned
    <3>3. QED BY <3>1, <3>2
  <2>8. ASSUME NEW k \in Cleaners, NEW e \in Events, lock'[e] = k
        PROVE  e \in ArticleEvents /\ row'[e] = "published"
    BY <1>0, <2>3, <2>6, <2>8 DEF Owned
  <2>9. QED BY <2>7, <2>8 DEF Owned
<1>4. ASSUME NEW p \in Publishers, NEW e \in Events, Publish(p, e) \/ PublishFails(p, e)
      PROVE  Owned'
  <2>1. /\ UNCHANGED <<row, lock>> /\ e \in todo[p]
        /\ todo' = [todo EXCEPT ![p] = todo[p] \ {e}]
    BY <1>4 DEF Publish, PublishFails, Attempt
  <2>2. \A f \in Events : sent[f] \in Nat /\ sent'[f] \in Nat /\ sent'[f] >= sent[f]
    <3>1. e \in Messages /\ Events \subseteq Messages
      BY DEF Messages
    <3>2. CASE Route(e)
      BY <1>0, <3>1, <3>2, RouteTyped DEF TypeOK
    <3>3. CASE ~Route(e)
      BY <1>4, <3>1, <3>3 DEF Publish, PublishFails, TypeOK
    <3>4. QED BY <3>2, <3>3
  <2>3. confirmed' = confirmed \/
          (confirmed' = [confirmed EXCEPT ![p] = confirmed[p] \cup {e}] /\ sent'[e] > 0)
    <3>1. CASE Publish(p, e)
      <4>1. sent'[e] = sent[e] + 1 /\ sent[e] \in Nat
        BY <3>1, RouteTyped DEF Publish, Messages, TypeOK
      <4>2. QED BY <3>1, <4>1 DEF Publish
    <3>2. CASE PublishFails(p, e)
      BY <3>2 DEF PublishFails
    <3>3. QED BY <1>4, <3>1, <3>2
  <2>4. QED BY <1>0, <2>1, <2>2, <2>3 DEF Owned, TypeOK
<1>5. ASSUME NEW p \in Publishers, CommitBatch(p) \/ AbortBatch(p)
      PROVE  Owned'
  <2>1. /\ \A e \in Events : lock'[e] = IF lock[e] = p THEN Free ELSE lock[e]
        /\ \A e \in Events : lock[e] # p => row'[e] = row[e]
        /\ \A q \in Publishers : q # p => confirmed'[q] = confirmed[q] /\ todo'[q] = todo[q]
        /\ confirmed'[p] = {} /\ todo'[p] = {} /\ sent' = sent
    BY <1>5 DEF CommitBatch, AbortBatch, Unlock, Held, TypeOK
  <2>2. Free \notin Publishers /\ Free \notin Cleaners
    BY DEF OutboxAssumption, Processes
  <2>3. QED BY <1>0, <2>1, <2>2 DEF Owned
<1>6. ASSUME NEW k \in Cleaners, NEW S \in SUBSET Events, SelectOld(k, S)
      PROVE  Owned'
  <2>1. /\ \A e \in S : e \in ArticleEvents /\ row[e] = "published"
        /\ \A e \in Events : lock'[e] = IF e \in S THEN k ELSE lock[e]
        /\ UNCHANGED <<row, todo, confirmed, sent>>
    BY <1>6 DEF SelectOld, Cleanable
  <2>2. k \notin Publishers
    BY DEF OutboxAssumption
  <2>3. \A p \in Publishers, e \in Events : e \in S => lock[e] # p
    BY <1>0, <2>1 DEF Owned
  <2>4. QED BY <1>0, <2>1, <2>2, <2>3 DEF Owned
<1>7. ASSUME NEW k \in Cleaners, DeleteOld(k) \/ AbortClean(k)
      PROVE  Owned'
  <2>1. /\ \A e \in Events : lock'[e] = IF lock[e] = k THEN Free ELSE lock[e]
        /\ \A e \in Events : lock[e] # k => row'[e] = row[e]
        /\ UNCHANGED <<todo, confirmed, sent>>
    BY <1>7 DEF DeleteOld, AbortClean, Unlock
  <2>2. Free \notin Publishers /\ Free \notin Cleaners /\ k \notin Publishers
    BY DEF OutboxAssumption, Processes
  <2>3. QED BY <1>0, <2>1, <2>2 DEF Owned
<1>8. QED BY <1>1, <1>2, <1>3, <1>4, <1>5, <1>6, <1>7 DEF Next, PublishBatch, Clean
-----------------------------------------------------------------------------
(* What is known of one event, whatever happens to it                      *)
Unconfirmed(e) == \A p \in Publishers : e \notin confirmed[p]
EventKnown(e) ==
  /\ row[e] \in {"published", "deleted"} => sent[e] > 0
  /\ sent[e] <= 1 + faults
  /\ row[e] \in {"absent", "pending"} /\ Unconfirmed(e) => sent[e] <= faults
  /\ sent[e] > 0 => row[e] # "absent"
  /\ e \in ImportEvents => row[e] # "deleted"

LEMMA EventStep ==
  ASSUME TypeOK, BatchOwned, OutboxAssumption, [Next]_vars,
         \A e \in Events : EventKnown(e)
  PROVE  \A e \in Events : EventKnown(e)'
<1>0. /\ Owned /\ TypeOK'
      /\ faults \in Nat /\ \A e \in Events : sent[e] \in Nat
  BY OwnedIs, NextTyped DEF TypeOK, OutboxAssumption, Messages
<1> USE DEF publishing, broker
<1>1. CASE \/ \E c \in Consumers : ConsumeOne(c)
           \/ \E m \in Foreign : ForeignMessage(m)
           \/ \E e \in Events : Age(e)
           \/ UNCHANGED vars
  BY <1>0, <1>1, OthersKeep DEF EventKnown, Unconfirmed
<1>2. ASSUME NEW f \in Events, AddOutbox(f) PROVE \A e \in Events : EventKnown(e)'
  BY <1>0, <1>2 DEF AddOutbox, EventKnown, Unconfirmed, TypeOK
<1>3. ASSUME NEW p \in Publishers, NEW S \in SUBSET Events, SelectBatch(p, S)
      PROVE  \A e \in Events : EventKnown(e)'
  <2>1. \A e \in Events : lock[e] # p
    BY <1>3 DEF SelectBatch, Held
  <2>2. \A q \in Publishers : \A e \in Events : e \in confirmed'[q] <=> e \in confirmed[q]
    BY <1>0, <1>3, <2>1 DEF SelectBatch, Owned, TypeOK
  <2>3. UNCHANGED <<row, sent, faults>>
    BY <1>3 DEF SelectBatch
  <2>4. QED BY <2>2, <2>3 DEF EventKnown, Unconfirmed
<1>4. ASSUME NEW p \in Publishers, NEW f \in Events, Publish(p, f)
      PROVE  \A e \in Events : EventKnown(e)'
  <2>1. /\ UNCHANGED <<row, faults>> /\ f \in todo[p]
        /\ sent'[f] = sent[f] + 1
        /\ \A e \in Events : e # f => sent'[e] = sent[e]
    BY <1>4, RouteTyped DEF Publish, Attempt, Messages
  <2>2. /\ f \in confirmed'[p]
        /\ \A q \in Publishers : \A e \in Events : e \in confirmed[q] => e \in confirmed'[q]
    BY <1>4 DEF Publish, TypeOK
  <2>3. Unconfirmed(f) /\ row[f] = "pending"
    BY <1>0, <2>1 DEF Owned, Unconfirmed
  <2>4. ASSUME NEW e \in Events PROVE EventKnown(e)'
    <3>1. CASE e = f
      BY <1>0, <2>1, <2>2, <2>3, <3>1 DEF EventKnown, Unconfirmed
    <3>2. CASE e # f
      <4>1. Unconfirmed(e)' => Unconfirmed(e)
        BY <2>2 DEF Unconfirmed
      <4>2. QED BY <2>1, <3>2, <4>1 DEF EventKnown
    <3>3. QED BY <3>1, <3>2
  <2>5. QED BY <2>4
<1>5. ASSUME NEW p \in Publishers, NEW f \in Events, PublishFails(p, f)
      PROVE  \A e \in Events : EventKnown(e)'
  <2>1. /\ UNCHANGED <<row, confirmed>> /\ f \in todo[p] /\ faults' = faults + 1
    BY <1>5 DEF PublishFails, Attempt, Fault
  <2>2. row[f] = "pending" /\ Unconfirmed(f)
    BY <1>0, <2>1 DEF Owned, Unconfirmed
  <2>3. /\ sent'[f] \in {sent[f], sent[f] + 1}
        /\ \A e \in Events : e # f => sent'[e] = sent[e]
    <3>1. f \in Messages /\ Events \subseteq Messages
      BY DEF Messages
    <3>2. CASE Route(f)
      BY <3>1, <3>2, RouteTyped
    <3>3. CASE ~Route(f)
      BY <1>5, <3>3 DEF PublishFails
    <3>4. QED BY <3>2, <3>3
  <2>4. QED BY <1>0, <2>1, <2>2, <2>3 DEF EventKnown, Unconfirmed
<1>6. ASSUME NEW p \in Publishers, CommitBatch(p)
      PROVE  \A e \in Events : EventKnown(e)'
  <2>1. /\ \A e \in Events : row'[e] = IF lock[e] = p /\ e \in confirmed[p]
                                       THEN "published" ELSE row[e]
        /\ UNCHANGED <<sent, faults>>
    BY <1>6 DEF CommitBatch, Held
  <2>2. \A q \in Publishers : q # p => confirmed'[q] = confirmed[q]
    BY <1>6 DEF CommitBatch, TypeOK
  <2>3. ASSUME NEW e \in Events PROVE EventKnown(e)'
    <3>1. CASE e \in confirmed[p]
      <4>1. row'[e] = "published" /\ sent[e] > 0
        BY <1>0, <2>1, <3>1 DEF Owned
      <4>2. QED BY <2>1, <4>1 DEF EventKnown
    <3>2. CASE e \notin confirmed[p]
      <4>1. Unconfirmed(e)' => Unconfirmed(e)
        BY <2>2, <3>2 DEF Unconfirmed
      <4>2. QED BY <2>1, <3>2, <4>1 DEF EventKnown
    <3>3. QED BY <3>1, <3>2
  <2>4. QED BY <2>3
<1>7. ASSUME NEW p \in Publishers, AbortBatch(p)
      PROVE  \A e \in Events : EventKnown(e)'
  BY <1>0, <1>7 DEF AbortBatch, Fault, EventKnown
<1>8. ASSUME NEW k \in Cleaners, NEW S \in SUBSET Events, SelectOld(k, S)
      PROVE  \A e \in Events : EventKnown(e)'
  BY <1>8 DEF SelectOld, EventKnown, Unconfirmed
<1>9. ASSUME NEW k \in Cleaners, DeleteOld(k)
      PROVE  \A e \in Events : EventKnown(e)'
  <2>1. /\ \A e \in Events : row'[e] = IF lock[e] = k THEN "deleted" ELSE row[e]
        /\ UNCHANGED <<sent, faults, confirmed>>
    BY <1>9 DEF DeleteOld
  <2>2. \A e \in Events : lock[e] = k => e \notin ImportEvents /\ row[e] = "published"
    BY <1>0 DEF Owned, OutboxAssumption
  <2>3. QED BY <2>1, <2>2 DEF EventKnown, Unconfirmed
<1>10. ASSUME NEW k \in Cleaners, AbortClean(k)
       PROVE  \A e \in Events : EventKnown(e)'
  BY <1>0, <1>10 DEF AbortClean, Fault, EventKnown, Unconfirmed
<1>11. QED
  BY <1>1, <1>2, <1>3, <1>4, <1>5, <1>6, <1>7, <1>8, <1>9, <1>10
     DEF Next, PublishBatch, Clean

-----------------------------------------------------------------------------
(* What is known of a message that importers may get                       *)
Imports == ImportEvents \cup Foreign
Taking(m) == {c \in Consumers : consumer[c].msg = m}

LEMMA Counted ==
  ASSUME OutboxAssumption, NEW S \in SUBSET Consumers, NEW c \in Consumers
  PROVE  /\ Cardinality(S) \in Nat
         /\ c \notin S => Cardinality(S \cup {c}) = Cardinality(S) + 1
         /\ c \in S => Cardinality(S \ {c}) + 1 = Cardinality(S)
<1>1. IsFiniteSet(S)
  BY FS_Subset DEF OutboxAssumption
<1>2. Cardinality(S) \in Nat /\ (c \notin S => Cardinality(S \cup {c}) = Cardinality(S) + 1)
  BY <1>1, FS_CardinalityType, FS_AddElement
<1>3. ASSUME c \in S PROVE Cardinality(S \ {c}) + 1 = Cardinality(S)
  <2>1. IsFiniteSet(S \ {c}) /\ c \notin S \ {c} /\ (S \ {c}) \cup {c} = S
    BY <1>1, <1>3, FS_Subset
  <2>2. QED BY <2>1, FS_AddElement
<1>4. QED BY <1>2, <1>3
MessagesKnown ==
  /\ \A m \in Messages : ready[m] > 0 => m \notin ArticleEvents /\ sent[m] > 0
  /\ \A c \in Consumers : consumer[c] # NoneTaken =>
       consumer[c].msg \notin ArticleEvents /\ sent[consumer[c].msg] > 0
  /\ \A m \in Imports : sent[m] = ready[m] + acked[m] + Cardinality(Taking(m))
  /\ \A m \in Foreign : acked[m] + Cardinality(Handling(m)) <= invalid[m]
  /\ \A m \in ImportEvents : invalid[m] = 0
  /\ \A c \in Consumers : consumer[c].msg \in ImportEvents => consumer[c].phase # "refused"

LEMMA CountTypes ==
  ASSUME TypeOK, OutboxAssumption, NEW m \in Messages
  PROVE  /\ sent[m] \in Nat /\ ready[m] \in Nat /\ acked[m] \in Nat /\ invalid[m] \in Nat
         /\ Cardinality(Taking(m)) \in Nat /\ Cardinality(Handling(m)) \in Nat
<1>1. /\ sent[m] \in Nat /\ ready[m] \in Nat /\ acked[m] \in Nat /\ invalid[m] \in Nat
  BY DEF TypeOK
<1>2. Taking(m) \in SUBSET Consumers /\ Handling(m) \in SUBSET Consumers
  BY DEF Taking, Handling
<1>3. IsFiniteSet(Taking(m)) /\ IsFiniteSet(Handling(m))
  BY <1>2, FS_Subset DEF OutboxAssumption
<1>4. QED BY <1>1, <1>3, FS_CardinalityType

LEMMA ImportMessages ==
  ASSUME OutboxAssumption
  PROVE  /\ Imports \subseteq Messages /\ Foreign \subseteq Messages
         /\ Foreign \cap ImportEvents = {} /\ ImportEvents \subseteq Events
         /\ \A m \in Messages : m \notin ArticleEvents <=> m \in Imports
         /\ NoMessage \notin Messages
BY DEF Imports, Messages, Events, OutboxAssumption

LEMMA QuietMessages ==
  ASSUME MessagesKnown, UNCHANGED broker
  PROVE  MessagesKnown'
BY DEF MessagesKnown, broker, Taking, Handling

LEMMA RoutedMessages ==
  ASSUME TypeOK, OutboxAssumption, MessagesKnown, NEW n \in Messages, Route(n)
  PROVE  MessagesKnown'
<1>1. /\ UNCHANGED <<consumer, acked, invalid>>
      /\ sent'[n] = sent[n] + 1 /\ \A m \in Messages : m # n => sent'[m] = sent[m]
      /\ ready'[n] = IF n \in ArticleEvents THEN ready[n] ELSE ready[n] + 1
      /\ \A m \in Messages : m # n => ready'[m] = ready[m]
  BY RouteTyped
<1>2. \A m \in Messages : Taking(m)' = Taking(m) /\ Handling(m)' = Handling(m)
  BY <1>1 DEF Taking, Handling
<1>3. \A m \in Messages : m \notin ArticleEvents <=> m \in Imports
  BY ImportMessages
<1>4. ASSUME NEW m \in Messages, ready'[m] > 0
      PROVE  m \notin ArticleEvents /\ sent'[m] > 0
  BY <1>1, <1>4, CountTypes DEF MessagesKnown
<1>5. ASSUME NEW c \in Consumers, consumer[c] # NoneTaken
      PROVE  consumer[c].msg \notin ArticleEvents /\ sent'[consumer[c].msg] > 0
  <2>1. consumer[c].msg \in Messages
    BY <1>5, ConsumerFacts
  <2>2. QED BY <1>1, <1>5, <2>1, CountTypes DEF MessagesKnown
<1>6. ASSUME NEW m \in Imports
      PROVE  sent'[m] = ready'[m] + acked[m] + Cardinality(Taking(m))
  <2>1. m \in Messages /\ m \notin ArticleEvents
    BY ImportMessages
  <2>2. QED BY <1>1, <2>1, CountTypes DEF MessagesKnown
<1>7. Foreign \subseteq Messages /\ Imports \subseteq Messages
  BY ImportMessages
<1>8. \A m \in Foreign : acked'[m] + Cardinality(Handling(m)') <= invalid'[m]
  BY <1>1, <1>2, <1>7 DEF MessagesKnown
<1>9. \A m \in Imports : sent'[m] = ready'[m] + acked'[m] + Cardinality(Taking(m)')
  BY <1>1, <1>2, <1>6, <1>7
<1>10. QED BY <1>1, <1>4, <1>5, <1>8, <1>9 DEF MessagesKnown

(* An importer takes m                                                     *)
LEMMA GetMessages ==
  ASSUME TypeOK, OutboxAssumption, MessagesKnown, NEW c \in Consumers, NEW n \in Messages,
         Get(c, n)
  PROVE  MessagesKnown'
<1>1. /\ UNCHANGED <<sent, acked, invalid>> /\ ready[n] > 0
      /\ ready' = [ready EXCEPT ![n] = ready[n] - 1]
      /\ consumer[c] = NoneTaken
      /\ consumer'[c].phase = "taken" /\ consumer'[c].msg = n /\ consumer'[c] # NoneTaken
      /\ \A d \in Consumers : d # c => consumer'[d] = consumer[d]
  BY PhaseTyped DEF Get, Queues
<1>2. consumer[c].phase = "none" /\ consumer[c].msg \notin Messages
  BY <1>1, ImportMessages DEF NoneTaken
<1>3. n \in Imports /\ n \notin ArticleEvents /\ sent[n] > 0
  BY <1>1, ImportMessages DEF MessagesKnown
<1>4. \A m \in Messages : Handling(m)' = Handling(m)
  BY <1>1, <1>2 DEF Handling
<1>5. Taking(n)' = Taking(n) \cup {c} /\ c \notin Taking(n)
      /\ \A m \in Messages : m # n => Taking(m)' = Taking(m)
  BY <1>1, <1>2 DEF Taking
<1>6. ASSUME NEW m \in Imports
      PROVE  sent'[m] = ready'[m] + acked'[m] + Cardinality(Taking(m)')
  <2>1. m \in Messages
    BY ImportMessages
  <2>2. CASE m = n
    <3>1. Cardinality(Taking(n)') = Cardinality(Taking(n)) + 1
      <4>1. Taking(n) \in SUBSET Consumers
        BY DEF Taking
      <4>2. QED BY <1>5, <4>1, Counted
    <3>2. ready'[n] = ready[n] - 1
      BY <1>1 DEF TypeOK
    <3>3. sent[n] = ready[n] + acked[n] + Cardinality(Taking(n))
      BY <1>3 DEF MessagesKnown
    <3>4. QED BY <1>1, <2>2, <3>1, <3>2, <3>3, CountTypes
  <2>3. CASE m # n
    BY <1>1, <1>5, <2>1, <2>3 DEF MessagesKnown, TypeOK
  <2>4. QED BY <2>2, <2>3
<1>7. \A m \in Foreign : acked'[m] + Cardinality(Handling(m)') <= invalid'[m]
  BY <1>1, <1>4, ImportMessages DEF MessagesKnown
<1>8. \A m \in Messages : ready'[m] > 0 => m \notin ArticleEvents /\ sent'[m] > 0
  BY <1>1, <1>3 DEF MessagesKnown, TypeOK
<1>9. \A d \in Consumers : consumer'[d] # NoneTaken =>
        consumer'[d].msg \notin ArticleEvents /\ sent'[consumer'[d].msg] > 0
  BY <1>1, <1>3 DEF MessagesKnown
<1>10. \A d \in Consumers : consumer'[d].msg \in ImportEvents => consumer'[d].phase # "refused"
  BY <1>1 DEF MessagesKnown
<1>11. QED BY <1>1, <1>6, <1>7, <1>8, <1>9, <1>10 DEF MessagesKnown

(* It checks it against the outbox: an import request is found there       *)
LEMMA CheckMessages ==
  ASSUME TypeOK, OutboxAssumption, MessagesKnown, \A e \in Events : EventKnown(e),
         NEW c \in Consumers, Check(c)
  PROVE  MessagesKnown'
<1> DEFINE n == consumer[c].msg
           ph == IF Matches(n) THEN "handled" ELSE "refused"
<1>1. consumer[c].phase = "taken" /\ Phase(c, ph, n) /\ UNCHANGED <<sent, ready, acked, invalid>>
  BY DEF Check, Queues
<1>2. n \in Messages /\ n \notin ArticleEvents /\ sent[n] > 0
  BY <1>1, ConsumerFacts DEF MessagesKnown
<1>3. n \in ImportEvents => ph = "handled"
  <2>1. ASSUME n \in ImportEvents PROVE row[n] \in {"pending", "published"}
    <3>1. n \in Events /\ EventKnown(n)
      BY <2>1, ImportMessages
    <3>2. QED BY <1>2, <2>1, <3>1 DEF EventKnown, TypeOK
  <2>2. QED BY <2>1 DEF Matches
<1>4. n \in Foreign => ph = "refused"
  BY ImportMessages DEF Matches
<1>5. ph \in {"taken", "refused", "handled"}
  OBVIOUS
<1> HIDE DEF ph
<1>6. /\ consumer'[c].phase = ph /\ consumer'[c].msg = n
      /\ \A d \in Consumers : d # c => consumer'[d] = consumer[d]
  BY <1>1, <1>2, <1>5, PhaseTyped
<1>7. \A m \in Messages : Taking(m)' = Taking(m)
  BY <1>6 DEF Taking
<1>8. \A m \in Foreign : Handling(m)' = Handling(m)
  BY <1>1, <1>4, <1>6 DEF Handling
<1>9. \A d \in Consumers : consumer'[d] # NoneTaken =>
        consumer'[d].msg \notin ArticleEvents /\ sent'[consumer'[d].msg] > 0
  BY <1>1, <1>2, <1>6 DEF MessagesKnown
<1>10. \A d \in Consumers : consumer'[d].msg \in ImportEvents => consumer'[d].phase # "refused"
  BY <1>3, <1>6 DEF MessagesKnown
<1>11. \A m \in Imports : sent'[m] = ready'[m] + acked'[m] + Cardinality(Taking(m)')
  BY <1>1, <1>7, ImportMessages DEF MessagesKnown
<1>12. QED BY <1>1, <1>8, <1>9, <1>10, <1>11 DEF MessagesKnown

(* A message that is refused is foreign, and its copy is in quarantine     *)
LEMMA QuarantineMessages ==
  ASSUME TypeOK, OutboxAssumption, MessagesKnown, NEW c \in Consumers, Quarantine(c)
  PROVE  MessagesKnown'
<1> PICK n \in Messages : n = consumer[c].msg
  BY ConsumerFacts DEF Quarantine
<1>1. /\ consumer[c].phase = "refused" /\ Phase(c, "handled", n)
      /\ UNCHANGED <<sent, ready, acked>>
      /\ invalid' = [invalid EXCEPT ![n] = invalid[n] + 1]
  BY DEF Quarantine, Queues
<1>2. n \in Messages /\ n \notin ArticleEvents /\ sent[n] > 0
  BY <1>1, ConsumerFacts DEF MessagesKnown
<1>3. n \in Foreign /\ n \notin ImportEvents
  BY <1>1, <1>2 DEF MessagesKnown, Messages, Events
<1>4. /\ consumer'[c].phase = "handled" /\ consumer'[c].msg = n
      /\ \A d \in Consumers : d # c => consumer'[d] = consumer[d]
  BY <1>1, <1>2, PhaseTyped
<1>5. \A m \in Messages : Taking(m)' = Taking(m)
  BY <1>4 DEF Taking
<1>6. Handling(n)' = Handling(n) \cup {c} /\ c \notin Handling(n)
      /\ \A m \in Messages : m # n => Handling(m)' = Handling(m)
  BY <1>1, <1>4 DEF Handling
<1>7. invalid'[n] = invalid[n] + 1 /\ \A m \in Messages : m # n => invalid'[m] = invalid[m]
  BY <1>1, <1>2 DEF TypeOK
<1>8. ASSUME NEW m \in Foreign
      PROVE  acked'[m] + Cardinality(Handling(m)') <= invalid'[m]
  <2>1. m \in Messages
    BY ImportMessages
  <2>2. CASE m = n
    <3>1. Cardinality(Handling(n)') = Cardinality(Handling(n)) + 1
      <4>1. Handling(n) \in SUBSET Consumers
        BY DEF Handling
      <4>2. QED BY <1>6, <4>1, Counted
    <3>2. acked[n] + Cardinality(Handling(n)) <= invalid[n]
      BY <1>3 DEF MessagesKnown
    <3>3. QED BY <1>1, <1>2, <1>7, <2>2, <3>1, <3>2, CountTypes
  <2>3. CASE m # n
    BY <1>1, <1>6, <1>7, <2>1, <2>3 DEF MessagesKnown
  <2>4. QED BY <2>2, <2>3
<1>9. \A m \in ImportEvents : invalid'[m] = 0
  BY <1>3, <1>7 DEF MessagesKnown, Messages, Events
<1>10. \A d \in Consumers : consumer'[d] # NoneTaken =>
         consumer'[d].msg \notin ArticleEvents /\ sent'[consumer'[d].msg] > 0
  BY <1>1, <1>2, <1>4 DEF MessagesKnown
<1>11. \A d \in Consumers : consumer'[d].msg \in ImportEvents => consumer'[d].phase # "refused"
  BY <1>4 DEF MessagesKnown
<1>12. \A m \in Imports : sent'[m] = ready'[m] + acked'[m] + Cardinality(Taking(m)')
  BY <1>1, <1>5, ImportMessages DEF MessagesKnown
<1>13. QED BY <1>1, <1>8, <1>9, <1>10, <1>11, <1>12 DEF MessagesKnown

(* It lets go of its message: acknowledged, or requeued by the broker      *)
LEMMA LetGoMessages ==
  ASSUME TypeOK, OutboxAssumption, MessagesKnown, NEW c \in Consumers, Ack(c) \/ Requeue(c)
  PROVE  MessagesKnown'
<1> PICK n \in Messages : n = consumer[c].msg
  BY ConsumerFacts DEF Ack, Requeue
<1>1. /\ consumer[c] # NoneTaken /\ consumer' = [consumer EXCEPT ![c] = NoneTaken]
      /\ UNCHANGED <<sent, invalid>>
  BY ConsumerFacts DEF Ack, Requeue, Queues
<1>2. n \in Messages /\ n \notin ArticleEvents /\ sent[n] > 0 /\ n \in Imports
  BY <1>1, ConsumerFacts, ImportMessages DEF MessagesKnown
<1>3. /\ \A m \in Messages : m # n => acked'[m] = acked[m] /\ ready'[m] = ready[m]
      /\ \/ consumer[c].phase = "handled" /\ acked'[n] = acked[n] + 1 /\ ready'[n] = ready[n]
         \/ acked'[n] = acked[n] /\ ready'[n] = ready[n] + 1
  <2>1. CASE Ack(c)
    BY <1>2, <2>1 DEF Ack, TypeOK
  <2>2. CASE Requeue(c)
    BY <1>2, <2>2 DEF Requeue, TypeOK
  <2>3. QED BY <2>1, <2>2
<1>4. /\ consumer'[c] = NoneTaken /\ consumer'[c].phase = "none"
      /\ consumer'[c].msg \notin Messages
      /\ \A d \in Consumers : d # c => consumer'[d] = consumer[d]
  BY <1>1, ImportMessages DEF TypeOK, NoneTaken
<1>5. /\ Taking(n)' = Taking(n) \ {c} /\ c \in Taking(n)
      /\ \A m \in Messages : m # n => Taking(m)' = Taking(m)
  BY <1>2, <1>4 DEF Taking
<1>6. /\ Handling(n)' = Handling(n) \ {c}
      /\ consumer[c].phase = "handled" <=> c \in Handling(n)
      /\ \A m \in Messages : m # n => Handling(m)' = Handling(m)
  BY <1>2, <1>4 DEF Handling
<1>7. Cardinality(Taking(n)') + 1 = Cardinality(Taking(n))
  <2>1. Taking(n) \in SUBSET Consumers
    BY DEF Taking
  <2>2. QED BY <1>5, <2>1, Counted
<1>8. ASSUME NEW m \in Imports
      PROVE  sent'[m] = ready'[m] + acked'[m] + Cardinality(Taking(m)')
  <2>1. m \in Messages
    BY ImportMessages
  <2>2. CASE m = n
    <3>1. sent[n] = ready[n] + acked[n] + Cardinality(Taking(n))
      BY <1>2 DEF MessagesKnown
    <3>2. Cardinality(Taking(n)') \in Nat
      <4>1. Taking(n) \ {c} \in SUBSET Consumers
        BY DEF Taking
      <4>2. QED BY <1>5, <4>1, Counted
    <3>3. QED BY <1>1, <1>2, <1>3, <1>7, <2>2, <3>1, <3>2, CountTypes
  <2>3. CASE m # n
    BY <1>1, <1>3, <1>5, <2>1, <2>3 DEF MessagesKnown
  <2>4. QED BY <2>2, <2>3
<1>9. ASSUME NEW m \in Foreign
      PROVE  acked'[m] + Cardinality(Handling(m)') <= invalid'[m]
  <2>1. m \in Messages
    BY ImportMessages
  <2>2. CASE m = n
    <3>1. acked[n] + Cardinality(Handling(n)) <= invalid[n]
      BY <2>2 DEF MessagesKnown
    <3>2. Handling(n) \in SUBSET Consumers /\ Handling(n) \ {c} \in SUBSET Consumers
      BY DEF Handling
    <3>3. Cardinality(Handling(n)') \in Nat
      BY <1>6, <3>2, Counted
    <3>4. CASE c \in Handling(n)
      <4>1. Cardinality(Handling(n)') + 1 = Cardinality(Handling(n))
        BY <1>6, <3>2, <3>4, Counted
      <4>2. QED BY <1>1, <1>2, <1>3, <2>2, <3>1, <3>3, <4>1, CountTypes
    <3>5. CASE c \notin Handling(n)
      <4>1. Handling(n)' = Handling(n)
        BY <1>6, <3>5
      <4>2. acked'[n] = acked[n]
        BY <1>3, <1>6, <3>5
      <4>3. QED BY <1>1, <2>2, <3>1, <4>1, <4>2
    <3>6. QED BY <3>4, <3>5
  <2>3. CASE m # n
    BY <1>1, <1>3, <1>6, <2>1, <2>3 DEF MessagesKnown
  <2>4. QED BY <2>2, <2>3
<1>10. \A m \in Messages : ready'[m] > 0 => m \notin ArticleEvents /\ sent'[m] > 0
  BY <1>1, <1>2, <1>3 DEF MessagesKnown
<1>11. \A d \in Consumers : consumer'[d] # NoneTaken =>
         consumer'[d].msg \notin ArticleEvents /\ sent'[consumer'[d].msg] > 0
  BY <1>1, <1>4 DEF MessagesKnown
<1>12. \A d \in Consumers : consumer'[d].msg \in ImportEvents => consumer'[d].phase # "refused"
  BY <1>4 DEF MessagesKnown
<1>13. QED BY <1>1, <1>8, <1>9, <1>10, <1>11, <1>12 DEF MessagesKnown

LEMMA MessagesStep ==
  ASSUME TypeOK, OutboxAssumption, MessagesKnown, \A e \in Events : EventKnown(e), [Next]_vars
  PROVE  MessagesKnown'
<1>0. Events \subseteq Messages /\ Foreign \subseteq Messages
  BY DEF Messages
<1>1. ASSUME NEW c \in Consumers, ConsumeOne(c) PROVE MessagesKnown'
  BY <1>1, GetMessages, CheckMessages, QuarantineMessages, LetGoMessages DEF ConsumeOne
<1>2. ASSUME NEW m \in Foreign, ForeignMessage(m) PROVE MessagesKnown'
  BY <1>0, <1>2, RoutedMessages DEF ForeignMessage
<1>3. ASSUME NEW p \in Publishers, PublishBatch(p) PROVE MessagesKnown'
  BY <1>0, <1>3, RoutedMessages, QuietMessages
     DEF PublishBatch, SelectBatch, Publish, PublishFails, CommitBatch, AbortBatch
<1>4. ASSUME NEW k \in Cleaners, Clean(k) PROVE MessagesKnown'
  BY <1>4, QuietMessages DEF Clean, SelectOld, DeleteOld, AbortClean
<1>5. ASSUME NEW e \in Events, AddOutbox(e) \/ Age(e) PROVE MessagesKnown'
  BY <1>5, QuietMessages DEF AddOutbox, Age
<1>6. CASE UNCHANGED vars
  BY <1>6, QuietMessages DEF vars
<1>7. QED BY <1>1, <1>2, <1>3, <1>4, <1>5, <1>6 DEF Next

-----------------------------------------------------------------------------
(* The parts, put together: IInv by events and by messages                 *)
Known == TypeOK /\ BatchOwned /\ MessagesKnown /\ \A e \in Events : EventKnown(e)

LEMMA KnownIs == OutboxAssumption /\ Known => IInv
<1> SUFFICES ASSUME OutboxAssumption, Known PROVE IInv
  OBVIOUS
<1>1. TypeOK /\ BatchOwned /\ MessagesKnown /\ \A e \in Events : EventKnown(e)
  BY DEF Known
<1>2. PublishedWasRouted /\ CopiesNeedFaults /\ UnconfirmedCopies
  BY <1>1 DEF PublishedWasRouted, CopiesNeedFaults, UnconfirmedCopies, EventKnown, Unconfirmed
<1>3. RoutedWasStored
  BY <1>1, ImportMessages DEF RoutedWasStored, EventKnown, MessagesKnown
<1>4. HandledForeign /\ GenuineNotQuarantined
  BY <1>1 DEF HandledForeign, GenuineNotQuarantined, MessagesKnown
<1>5. ASSUME NEW m \in Foreign PROVE acked[m] <= invalid[m]
  <2>1. m \in Messages /\ acked[m] + Cardinality(Handling(m)) <= invalid[m]
    BY <1>1, ImportMessages DEF MessagesKnown
  <2>2. QED BY <1>1, <2>1, CountTypes
<1>6. NoMessageLost
  BY <1>1, <1>5 DEF NoMessageLost, MessagesKnown, Imports, Taking
<1>7. QED BY <1>1, <1>2, <1>3, <1>4, <1>6 DEF IInv

LEMMA InitKnown == ASSUME OutboxAssumption, Init PROVE Known
<1>1. TypeOK
  BY DEF Init, TypeOK, OutboxAssumption
<1>2. BatchOwned
  <2>1. \A p \in Processes : Held(p) = {}
    BY DEF Init, Held, OutboxAssumption
  <2>2. QED BY <2>1 DEF Init, BatchOwned, Processes
<1>3. \A e \in Events : EventKnown(e)
  BY DEF Init, EventKnown, Messages, OutboxAssumption
<1>4. MessagesKnown
  <2>1. \A m \in Messages : Taking(m) = {} /\ Handling(m) = {}
    BY ImportMessages DEF Init, Taking, Handling, NoneTaken
  <2>2. Cardinality({}) = 0
    BY FS_EmptySet
  <2>3. \A c \in Consumers : consumer[c] = NoneTaken /\ consumer[c].phase = "none"
    BY DEF Init, NoneTaken
  <2>4. \A m \in Messages : sent[m] = 0 /\ ready[m] = 0 /\ acked[m] = 0 /\ invalid[m] = 0
    BY DEF Init
  <2>5. Imports \subseteq Messages /\ Foreign \subseteq Imports /\ ImportEvents \subseteq Imports
    BY ImportMessages DEF Imports
  <2>6. \A m \in Imports : sent[m] = ready[m] + acked[m] + Cardinality(Taking(m))
    <3> SUFFICES ASSUME NEW m \in Imports
                 PROVE  sent[m] = ready[m] + acked[m] + Cardinality(Taking(m))
      OBVIOUS
    <3>1. Cardinality(Taking(m)) = 0 /\ sent[m] = 0 /\ ready[m] = 0 /\ acked[m] = 0
      BY <2>1, <2>2, <2>4, <2>5
    <3>2. QED BY <3>1
  <2>7. \A m \in Foreign : acked[m] + Cardinality(Handling(m)) <= invalid[m]
    <3> SUFFICES ASSUME NEW m \in Foreign
                 PROVE  acked[m] + Cardinality(Handling(m)) <= invalid[m]
      OBVIOUS
    <3>1. Cardinality(Handling(m)) = 0 /\ acked[m] = 0 /\ invalid[m] = 0
      BY <2>1, <2>2, <2>4, <2>5
    <3>2. QED BY <3>1
  <2>8. \A m \in ImportEvents : invalid[m] = 0
    BY <2>4, <2>5
  <2>9. \A m \in Messages : ~(ready[m] > 0)
    BY <2>4
  <2>10. \A c \in Consumers : consumer[c] = NoneTaken /\ consumer[c].phase # "refused"
    BY <2>3
  <2>11. QED BY <2>6, <2>7, <2>8, <2>9, <2>10 DEF MessagesKnown
<1>5. QED BY <1>1, <1>2, <1>3, <1>4 DEF Known

LEMMA StepKnown == ASSUME OutboxAssumption, Known, [Next]_vars PROVE Known'
BY NextTyped, BatchOwnedStep, MessagesStep, EventStep DEF Known

(* With any number of publishers, importers, cleaners, events and faults   *)
(* the invariant holds of every reachable state.                           *)
THEOREM InductiveInvariant == Spec => []IInv
<1>1. Spec => []Known
  BY OutboxAssumption, InitKnown, StepKnown, PTL DEF Spec
<1>2. QED BY <1>1, OutboxAssumption, KnownIs, PTL

(* Every row, lock, batch, queue and consumer keeps its type.              *)
THEOREM TypeCorrect == Spec => []TypeOK
<1>1. IInv => TypeOK
  BY DEF IInv
<1>2. QED BY <1>1, InductiveInvariant, PTL

(* A batch is about rows that its process alone has locked: two publishers *)
(* never publish one row at a time, and retention never meets a publisher. *)
THEOREM BatchesOwned == Spec => []BatchOwned
<1>1. IInv => BatchOwned
  BY DEF IInv
<1>2. QED BY <1>1, InductiveInvariant, PTL

(* An event marked as published, or deleted, has reached its queue.        *)
THEOREM NoEventLost == Spec => []PublishedWasRouted
<1>1. IInv => PublishedWasRouted
  BY DEF IInv
<1>2. QED BY <1>1, InductiveInvariant, PTL

(* An event is delivered again only because of a fault.                    *)
THEOREM DuplicatesNeedFaults == Spec => []CopiesNeedFaults
<1>1. IInv => CopiesNeedFaults
  BY DEF IInv
<1>2. QED BY <1>1, InductiveInvariant, PTL

(* No message to the importers vanishes, and a foreign one is acknowledged *)
(* only with a copy in quarantine.                                         *)
THEOREM MessagesAccounted == Spec => []NoMessageLost
<1>1. IInv => NoMessageLost
  BY DEF IInv
<1>2. QED BY <1>1, InductiveInvariant, PTL

(* No import request is ever refused, however late it is delivered.        *)
THEOREM RequestsNotRefused == Spec => []GenuineNotQuarantined
<1>1. IInv => GenuineNotQuarantined
  BY DEF IInv
<1>2. QED BY <1>1, InductiveInvariant, PTL

-----------------------------------------------------------------------------
(* Outbox implements OutboxPromise.  A copy that an importer has is not    *)
(* acknowledged yet.                                                       *)
LEMMA TakenIsOpen ==
  ASSUME OutboxAssumption, IInv, NEW c \in Consumers, consumer[c] # NoneTaken
  PROVE  /\ consumer[c].msg \in Imports
         /\ acked[consumer[c].msg] < sent[consumer[c].msg]
<1> DEFINE m == consumer[c].msg
<1>1. m \in Messages /\ m \notin ArticleEvents
  BY ConsumerFacts DEF IInv, RoutedWasStored
<1>2. m \in Imports
  BY <1>1, ImportMessages
<1>3. sent[m] = ready[m] + acked[m] + Cardinality(Taking(m))
  BY <1>2 DEF IInv, NoMessageLost, Imports, Taking
<1>4. Taking(m) \in SUBSET Consumers /\ c \in Taking(m)
  BY DEF Taking
<1>5. Cardinality(Taking(m) \ {c}) \in Nat
      /\ Cardinality(Taking(m) \ {c}) + 1 = Cardinality(Taking(m))
  BY <1>4, Counted
<1>6. ready[m] \in Nat /\ acked[m] \in Nat
  BY <1>1 DEF IInv, TypeOK
<1>7. QED BY <1>2, <1>3, <1>5, <1>6

LEMMA SameNames ==
  Promise!Events = Events /\ Promise!Messages = Messages
BY DEF Promise!Events, Promise!Messages, Events, Messages

(* Publishers: an attempt that reaches the queue delivers a pending event, *)
(* the commit marks those that were delivered, the rest is hidden.         *)
LEMMA PublishersPromise ==
  ASSUME OutboxAssumption, IInv, NEW p \in Publishers, PublishBatch(p)
  PROVE  [Promise!Next]_Promise!vars
<1> USE DEF publishing, broker
<1>0. TypeOK /\ Owned
  BY OwnedIs DEF IInv
<1>1. ASSUME NEW e \in Events, Attempt(p, e), Route(e) PROVE Promise!Next
  <2>1. row[e] = "pending"
    BY <1>0, <1>1 DEF Attempt, Owned
  <2>2. Promise!Deliver(e)
    BY <1>1, <2>1 DEF Promise!Deliver, Promise!Arrive, Attempt, Route
  <2>3. QED BY <2>2, SameNames DEF Promise!Next
<1>2. ASSUME CommitBatch(p) PROVE Promise!Next
  <2> DEFINE S == Held(p) \cap confirmed[p]
  <2>1. S \in SUBSET Events /\ \A e \in S : row[e] = "pending" /\ sent[e] > 0
    BY <1>0 DEF Held, Owned
  <2>2. row' = [e \in Events |-> IF e \in S THEN "published" ELSE row[e]]
        /\ UNCHANGED broker
    BY <1>2 DEF CommitBatch
  <2> HIDE DEF S
  <2>3. Promise!Mark(S)
    BY <2>1, <2>2, SameNames DEF Promise!Mark, Promise!Turn
  <2>4. QED BY <2>1, <2>3, SameNames DEF Promise!Next
<1>3. ASSUME NEW e \in Events, Publish(p, e) \/ PublishFails(p, e)
      PROVE  [Promise!Next]_Promise!vars
  BY <1>1, <1>3 DEF Publish, PublishFails, Attempt, Promise!vars
<1>4. ASSUME (\E S \in SUBSET Events : SelectBatch(p, S)) \/ AbortBatch(p)
      PROVE  UNCHANGED Promise!vars
  BY <1>4 DEF SelectBatch, AbortBatch, Promise!vars
<1>5. QED BY <1>2, <1>3, <1>4 DEF PublishBatch

(* Importers: quarantine sets a foreign copy aside, the acknowledgement    *)
(* settles a copy; neither happens to a copy that is settled.              *)
LEMMA ImportersPromise ==
  ASSUME OutboxAssumption, IInv, NEW c \in Consumers, ConsumeOne(c)
  PROVE  [Promise!Next]_Promise!vars
<1> USE DEF Queues
<1> DEFINE m == consumer[c].msg
<1>1. ASSUME Quarantine(c) PROVE Promise!Next
  <2>1. consumer[c] # NoneTaken
    BY <1>1 DEF Quarantine, NoneTaken
  <2>2. m \in Imports /\ acked[m] < sent[m]
    BY <2>1, TakenIsOpen
  <2>3. m \in Foreign
    BY <1>1, <2>2 DEF Quarantine, Imports, IInv, GenuineNotQuarantined
  <2>4. Promise!Refuse(m)
    BY <1>1, <2>2 DEF Quarantine, Promise!Refuse
  <2>5. QED BY <2>3, <2>4 DEF Promise!Next
<1>2. ASSUME Ack(c) PROVE Promise!Next
  <2>1. consumer[c] # NoneTaken
    BY <1>2 DEF Ack, NoneTaken
  <2>2. m \in Imports /\ acked[m] < sent[m]
    BY <2>1, TakenIsOpen
  <2>3. ASSUME m \in Foreign PROVE acked[m] < invalid[m]
    <3>1. Handling(m) \in SUBSET Consumers /\ c \in Handling(m)
      BY <1>2 DEF Handling, Ack
    <3>2. Cardinality(Handling(m) \ {c}) \in Nat
          /\ Cardinality(Handling(m) \ {c}) + 1 = Cardinality(Handling(m))
      BY <3>1, Counted
    <3>3. acked[m] + Cardinality(Handling(m)) <= invalid[m]
      BY <2>3 DEF IInv, HandledForeign
    <3>4. acked[m] \in Nat /\ invalid[m] \in Nat
      BY <2>2, ImportMessages DEF IInv, TypeOK
    <3>5. QED BY <3>2, <3>3, <3>4
  <2>4. Promise!Settle(m)
    BY <1>2, <2>2, <2>3 DEF Ack, Promise!Settle
  <2>5. QED BY <2>2, <2>4 DEF Imports, Promise!Next
<1>3. ASSUME (\E n \in Messages : Get(c, n)) \/ Check(c) \/ Requeue(c)
      PROVE  UNCHANGED Promise!vars
  BY <1>3 DEF Get, Check, Requeue, Promise!vars
<1>4. QED BY <1>1, <1>2, <1>3 DEF ConsumeOne

(* The retention command forgets only published events of articles         *)
LEMMA CleanersPromise ==
  ASSUME OutboxAssumption, IInv, NEW k \in Cleaners, Clean(k)
  PROVE  [Promise!Next]_Promise!vars
<1> USE DEF publishing, broker
<1>1. ASSUME DeleteOld(k) PROVE Promise!Next
  <2>1. Held(k) \in SUBSET ArticleEvents /\ \A e \in Held(k) : row[e] = "published"
    BY DEF IInv, BatchOwned
  <2>2. row' = [e \in Events |-> IF e \in Held(k) THEN "deleted" ELSE row[e]]
        /\ UNCHANGED broker
    BY <1>1 DEF DeleteOld, Held
  <2>3. Promise!Forget(Held(k))
    BY <2>1, <2>2, SameNames DEF Promise!Forget, Promise!Turn
  <2>4. QED BY <2>1, <2>3 DEF Promise!Next
<1>2. ASSUME (\E S \in SUBSET Events : SelectOld(k, S)) \/ AbortClean(k)
      PROVE  UNCHANGED Promise!vars
  BY <1>2 DEF SelectOld, AbortClean, Promise!vars
<1>3. QED BY <1>1, <1>2 DEF Clean

(* However many publishers, importers and retention commands run, and      *)
(* whatever fails, what they do to the events and queues is what the       *)
(* outbox promises.                                                        *)
THEOREM PromiseKept == Spec => KeepsPromise
<1>1. Init => Promise!Init
  BY SameNames DEF Init, Promise!Init
<1>2. ASSUME OutboxAssumption, IInv, [Next]_vars
      PROVE  [Promise!Next]_Promise!vars
  <2>1. ASSUME NEW e \in Events, AddOutbox(e) PROVE Promise!Next
    <3>1. Promise!Store(e)
      BY <2>1 DEF AddOutbox, broker, Promise!Store
    <3>2. QED BY <3>1, SameNames DEF Promise!Next
  <2>2. ASSUME NEW e \in Events, Age(e) PROVE UNCHANGED Promise!vars
    BY <2>2 DEF Age, broker, Promise!vars
  <2>3. ASSUME NEW m \in Foreign, ForeignMessage(m) PROVE Promise!Next
    <3>1. Promise!Intrude(m)
      BY <2>3 DEF ForeignMessage, Route, Promise!Intrude, Promise!Arrive
    <3>2. QED BY <3>1 DEF Promise!Next
  <2>4. CASE UNCHANGED vars
    BY <2>4 DEF vars, broker, Promise!vars
  <2>5. QED
    BY <1>2, <2>1, <2>2, <2>3, <2>4, PublishersPromise, ImportersPromise, CleanersPromise
       DEF Next
<1>3. QED BY <1>1, <1>2, OutboxAssumption, InductiveInvariant, PTL
          DEF Spec, KeepsPromise, Promise!Spec
=============================================================================
