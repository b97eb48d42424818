------------------------------- MODULE Outbox -------------------------------
(***************************************************************************)
(* The way of an event from the transaction that stored it in the outbox:  *)
(* publishers lock a batch of unpublished rows with SKIP LOCKED, publish   *)
(* them one by one with confirms and commit; RabbitMQ routes events of     *)
(* articles to one queue and import requests to another; importers take    *)
(* import requests, check them against the database, and put what does not *)
(* match in quarantine before they acknowledge it; a retention command     *)
(* deletes old published events of articles.                               *)
(*                                                                         *)
(* An event is its place in the order of created_at, which is the start of *)
(* its transaction: events may be committed in another order.              *)
(***************************************************************************)
EXTENDS Naturals, FiniteSets

CONSTANTS ArticleEvents,  \* events article.*
          ImportEvents,   \* events content.import.requested
          Foreign,        \* messages that match no event of the outbox
          Publishers, Consumers, Cleaners,  \* processes
          Free,           \* in place of a process: the row is not locked
          NoMessage,      \* in place of a message: the consumer has none
          BatchSize,      \* events published in one transaction (100)
          CleanLimit,     \* events deleted in one transaction
          MaxFaults       \* faults of network, broker and database (a bound)

Events == ArticleEvents \cup ImportEvents
Messages == Events \cup Foreign
Processes == Publishers \cup Cleaners

ASSUME OutboxAssumption ==
  /\ Events \subseteq Nat /\ ArticleEvents \cap ImportEvents = {}
  /\ Foreign \cap Events = {} /\ NoMessage \notin Messages
  /\ Publishers \cap Cleaners = {} /\ Free \notin Processes
  /\ BatchSize \in Nat \ {0} /\ CleanLimit \in Nat \ {0} /\ MaxFaults \in Nat
  /\ IsFiniteSet(Consumers)

VARIABLES row,       \* row[e]: absent, pending, published or deleted
          old,       \* published events older than the retention period
          lock,      \* lock[e]: the process that holds the row FOR UPDATE
          todo,      \* todo[p]: events of p's batch still to be published
          confirmed, \* confirmed[p]: those of its batch the broker confirmed
          sent,      \* sent[m]: copies of m that ever reached their queue
          ready,     \* ready[m]: copies in the queue of imports
          consumer,  \* consumer[c]: the message c took and what is left to do
          acked,     \* acked[m]: copies acknowledged
          invalid,   \* invalid[m]: copies in the queue of invalid imports
          faults     \* faults so far

publishing == <<todo, confirmed>>
broker == <<sent, ready, consumer, acked, invalid>>
vars == <<row, old, lock, publishing, broker, faults>>

Taken == [phase : {"taken", "refused", "handled"}, msg : Messages]
NoneTaken == [phase |-> "none", msg |-> NoMessage]

Held(p) == {e \in Events : lock[e] = p}
Unlock_Leak(p) == UNCHANGED lock   \* (mutant) the transaction stays open
Unlock(p) == lock' = [e \in Events |-> IF lock[e] = p THEN Free ELSE lock[e]]
Fault == faults < MaxFaults /\ faults' = faults + 1

Init ==
  /\ row = [e \in Events |-> "absent"] /\ old = {}
  /\ lock = [e \in Events |-> Free]
  /\ todo = [p \in Publishers |-> {}] /\ confirmed = [p \in Publishers |-> {}]
  /\ sent = [m \in Messages |-> 0] /\ ready = [m \in Messages |-> 0]
  /\ consumer = [c \in Consumers |-> NoneTaken]
  /\ acked = [m \in Messages |-> 0] /\ invalid = [m \in Messages |-> 0]
  /\ faults = 0

(* add_outbox, committed with the change that the event tells of           *)
AddOutbox(e) == /\ row[e] = "absent"
                /\ row' = [row EXCEPT ![e] = "pending"]
                /\ UNCHANGED <<old, lock, publishing, broker, faults>>

-----------------------------------------------------------------------------
(* (mutant) rows that another publisher holds are selected too             *)
Selectable_Locked == {e \in Events : row[e] = "pending"}
Selectable == {e \in Events : row[e] = "pending" /\ lock[e] = Free}

(* publish_batch: the oldest unpublished events that are not locked        *)
SelectBatch(p, S) ==
  /\ Held(p) = {}
  /\ S # {} /\ S \subseteq Selectable
  /\ Cardinality(S) <= BatchSize
  /\ S # Selectable => Cardinality(S) = BatchSize
  /\ \A e \in S, f \in Selectable \ S : e < f
  /\ lock' = [e \in Events |-> IF e \in S THEN p ELSE lock[e]]
  /\ todo' = [todo EXCEPT ![p] = S]
  /\ confirmed' = [confirmed EXCEPT ![p] = {}]
  /\ UNCHANGED <<row, old, broker, faults>>

(* The broker routes a copy of m: to the queue of imports or of articles   *)
Route(m) == /\ sent' = [sent EXCEPT ![m] = @ + 1]
            /\ ready' = IF m \in ArticleEvents THEN ready
                        ELSE [ready EXCEPT ![m] = @ + 1]
            /\ UNCHANGED <<consumer, acked, invalid>>

Attempt(p, e) == /\ e \in todo[p] /\ \A f \in todo[p] : e <= f
                 /\ todo' = [todo EXCEPT ![p] = @ \ {e}]
                 /\ UNCHANGED <<row, old, lock>>

Publish(p, e) == /\ Attempt(p, e)
                 /\ Route(e)
                 /\ confirmed' = [confirmed EXCEPT ![p] = @ \cup {e}]
                 /\ UNCHANGED faults

(* No confirm: the event was not routed, or it was and the link broke      *)
PublishFails(p, e) == /\ Attempt(p, e) /\ Fault
                      /\ (UNCHANGED broker \/ Route(e))
                      /\ UNCHANGED confirmed

(* (mutant) published_at is set for the whole batch                        *)
CommitBatch_Whole(p) ==
  /\ Held(p) # {} /\ todo[p] = {}
  /\ row' = [e \in Events |-> IF e \in Held(p) THEN "published" ELSE row[e]]
  /\ Unlock(p)
  /\ confirmed' = [confirmed EXCEPT ![p] = {}]
  /\ UNCHANGED <<old, todo, broker, faults>>

CommitBatch(p) ==
  /\ Held(p) # {} /\ todo[p] = {}
  /\ row' = [e \in Events |->
       IF e \in Held(p) \cap confirmed[p] THEN "published" ELSE row[e]]
  /\ Unlock(p)
  /\ confirmed' = [confirmed EXCEPT ![p] = {}]
  /\ UNCHANGED <<old, todo, broker, faults>>

(* The publisher is killed or the database fails: published_at is lost     *)
AbortBatch(p) == /\ Held(p) # {} /\ Fault
                 /\ Unlock(p)
                 /\ todo' = [todo EXCEPT ![p] = {}]
                 /\ confirmed' = [confirmed EXCEPT ![p] = {}]
                 /\ UNCHANGED <<row, old, broker>>

-----------------------------------------------------------------------------
(* Somebody else publishes to the queue of imports                         *)
ForeignMessage(m) == /\ sent[m] = 0 /\ Route(m)
                     /\ UNCHANGED <<row, old, lock, publishing, faults>>

Queues == <<row, old, lock, publishing, sent>>
Phase(c, phase, m) ==
  consumer' = [consumer EXCEPT ![c] = [phase |-> phase, msg |-> m]]

(* (mutant) a message that another importer has is taken too               *)
Get_Unacked(c, m) == /\ consumer[c] = NoneTaken /\ sent[m] > acked[m]
                     /\ ready' = [ready EXCEPT ![m] = @ - 1]
                     /\ Phase(c, "taken", m)
                     /\ UNCHANGED <<Queues, acked, invalid, faults>>

(* consume_one: basic_get without automatic acknowledgement                *)
Get(c, m) == /\ consumer[c] = NoneTaken /\ ready[m] > 0
             /\ ready' = [ready EXCEPT ![m] = @ - 1]
             /\ Phase(c, "taken", m)
             /\ UNCHANGED <<Queues, acked, invalid, faults>>

(* The message names an event content.import.requested and its job         *)
Matches(m) == m \in ImportEvents /\ row[m] \in {"pending", "published"}

Check(c) == /\ consumer[c].phase = "taken"
            /\ Phase(c, IF Matches(consumer[c].msg) THEN "handled" ELSE "refused",
                     consumer[c].msg)
            /\ UNCHANGED <<Queues, ready, acked, invalid, faults>>

Quarantine(c) == /\ consumer[c].phase = "refused"
                 /\ invalid' = [invalid EXCEPT ![consumer[c].msg] = @ + 1]
                 /\ Phase(c, "handled", consumer[c].msg)
                 /\ UNCHANGED <<Queues, ready, acked, faults>>

(* (mutant) the message is acknowledged before it is in quarantine         *)
Ack_Early(c) == /\ consumer[c].phase \in {"refused", "handled"}
                /\ acked' = [acked EXCEPT ![consumer[c].msg] = @ + 1]
                /\ consumer' = [consumer EXCEPT ![c] = NoneTaken]
                /\ UNCHANGED <<Queues, ready, invalid, faults>>

Ack(c) == /\ consumer[c].phase = "handled"
          /\ acked' = [acked EXCEPT ![consumer[c].msg] = @ + 1]
          /\ consumer' = [consumer EXCEPT ![c] = NoneTaken]
          /\ UNCHANGED <<Queues, ready, invalid, faults>>

(* (mutant) the broker forgets a message as soon as it is taken            *)
Requeue_AutoAck(c) == /\ consumer[c] # NoneTaken /\ Fault
                      /\ consumer' = [consumer EXCEPT ![c] = NoneTaken]
                      /\ UNCHANGED <<Queues, ready, acked, invalid>>

(* The importer fails or loses its connection: the broker requeues         *)
Requeue(c) == /\ consumer[c] # NoneTaken /\ Fault
              /\ ready' = [ready EXCEPT ![consumer[c].msg] = @ + 1]
              /\ consumer' = [consumer EXCEPT ![c] = NoneTaken]
              /\ UNCHANGED <<Queues, acked, invalid>>

-----------------------------------------------------------------------------
(* published_at falls behind the cutoff                                    *)
Age(e) == /\ row[e] = "published" /\ e \notin old
          /\ old' = old \cup {e}
          /\ UNCHANGED <<row, lock, publishing, broker, faults>>

(* (mutant) events of every type are cleaned                               *)
Cleanable_AnyType == {e \in old : row[e] = "published" /\ lock[e] = Free}
Cleanable == {e \in old \cap ArticleEvents : row[e] = "published" /\ lock[e] = Free}

(* cleanup_batch: select FOR UPDATE SKIP LOCKED, delete by id              *)
SelectOld(k, S) ==
  /\ Held(k) = {}
  /\ S # {} /\ S \subseteq Cleanable /\ Cardinality(S) <= CleanLimit
  /\ lock' = [e \in Events |-> IF e \in S THEN k ELSE lock[e]]
  /\ UNCHANGED <<row, old, publishing, broker, faults>>

DeleteOld(k) ==
  /\ Held(k) # {}
  /\ row' = [e \in Events |-> IF lock[e] = k THEN "deleted" ELSE row[e]]
  /\ old' = old \ Held(k)
  /\ Unlock(k)
  /\ UNCHANGED <<publishing, broker, faults>>

AbortClean(k) == /\ Held(k) # {} /\ Fault /\ Unlock(k)
                 /\ UNCHANGED <<row, old, publishing, broker>>

-----------------------------------------------------------------------------
PublishBatch(p) == \/ \E S \in SUBSET Events : SelectBatch(p, S)
                   \/ \E e \in Events : Publish(p, e) \/ PublishFails(p, e)
                   \/ CommitBatch(p) \/ AbortBatch(p)
ConsumeOne(c) == \/ \E m \in Messages : Get(c, m)
                 \/ Check(c) \/ Quarantine(c) \/ Ack(c) \/ Requeue(c)
Clean(k) == \/ \E S \in SUBSET Events : SelectOld(k, S)
            \/ DeleteOld(k) \/ AbortClean(k)

Next == \/ \E e \in Events : AddOutbox(e) \/ Age(e)
        \/ \E m \in Foreign : ForeignMessage(m)
        \/ \E p \in Publishers : PublishBatch(p)
        \/ \E c \in Consumers : ConsumeOne(c)
        \/ \E k \in Cleaners : Clean(k)

Spec == Init /\ [][Next]_vars

(***************************************************************************)
(* Publishers and importers loop for ever and reconnect; faults are not    *)
(* repeated for ever.  Nobody has to run the retention command.            *)
(***************************************************************************)
Fairness == /\ \A p \in Publishers : WF_vars(PublishBatch(p))
            /\ \A c \in Consumers : WF_vars(ConsumeOne(c))
FairSpec == Spec /\ Fairness

-----------------------------------------------------------------------------
(* Every row, lock, batch, queue and consumer has its type.                *)
TypeOK ==
  /\ row \in [Events -> {"absent", "pending", "published", "deleted"}]
  /\ old \in SUBSET Events
  /\ lock \in [Events -> Processes \cup {Free}]
  /\ todo \in [Publishers -> SUBSET Events]
  /\ confirmed \in [Publishers -> SUBSET Events]
  /\ sent \in [Messages -> Nat] /\ ready \in [Messages -> Nat]
  /\ acked \in [Messages -> Nat] /\ invalid \in [Messages -> Nat]
  /\ consumer \in [Consumers -> Taken \cup {NoneTaken}]
  /\ faults \in 0..MaxFaults

(* Each batch is about locked rows, which are pending for a publisher and  *)
(* published, old events of articles for a cleaner; what a publisher holds *)
(* as confirmed has been routed.                                           *)
BatchOwned ==
  /\ \A p \in Publishers : /\ todo[p] \cup confirmed[p] \subseteq Held(p)
                           /\ todo[p] \cap confirmed[p] = {}
                           /\ \A e \in Held(p) : row[e] = "pending"
                           /\ \A e \in confirmed[p] : sent[e] > 0
  /\ \A k \in Cleaners : \A e \in Held(k) :
       e \in ArticleEvents /\ row[e] = "published"

(* published_at is set, and the row may be deleted, only after the broker  *)
(* took the event, whatever was lost between a publisher, the broker and   *)
(* the database: no event of a committed change is lost.                   *)
PublishedWasRouted ==
  \A e \in Events : row[e] \in {"published", "deleted"} => sent[e] > 0

(* Without a fault an event is routed once, however many publishers run:   *)
(* every copy beyond the first has a fault of its own event or batch.      *)
CopiesNeedFaults == \A e \in Events : sent[e] <= 1 + faults

(* A message in the queue of imports is ready, taken or acknowledged: none *)
(* vanishes, and a message that does not match the outbox is acknowledged  *)
(* only with a copy in quarantine.                                         *)
NoMessageLost ==
  \A m \in ImportEvents \cup Foreign :
    /\ sent[m] = ready[m] + acked[m]
                 + Cardinality({c \in Consumers : consumer[c].msg = m})
    /\ m \in Foreign => acked[m] <= invalid[m]

(* A genuine import request is never put in quarantine, also when it is    *)
(* delivered late and the retention command has run before.                *)
GenuineNotQuarantined ==
  \A m \in ImportEvents :
    /\ invalid[m] = 0
    /\ \A c \in Consumers : consumer[c].msg = m => consumer[c].phase # "refused"

(* What the invariants above also rest on: only stored events are routed,  *)
(* and only import requests and foreign messages to the importers; ...     *)
RoutedWasStored ==
  /\ \A e \in Events : sent[e] > 0 => row[e] # "absent"
  /\ \A e \in ImportEvents : row[e] # "deleted"
  /\ \A m \in Messages : ready[m] > 0 => m \notin ArticleEvents /\ sent[m] > 0
  /\ \A c \in Consumers : consumer[c] # NoneTaken =>
       consumer[c].msg \notin ArticleEvents /\ sent[consumer[c].msg] > 0

(* ... an event not yet confirmed has a fault for every copy of it; ...    *)
UnconfirmedCopies ==
  \A e \in Events :
    row[e] \in {"absent", "pending"} /\ (\A p \in Publishers : e \notin confirmed[p])
      => sent[e] <= faults

(* ... a foreign message has its copy in quarantine before it is handled.  *)
Handling(m) == {c \in Consumers : consumer[c].phase = "handled" /\ consumer[c].msg = m}
HandledForeign ==
  \A m \in Foreign : acked[m] + Cardinality(Handling(m)) <= invalid[m]

IInv == /\ TypeOK /\ BatchOwned /\ PublishedWasRouted /\ CopiesNeedFaults
        /\ NoMessageLost /\ GenuineNotQuarantined
        /\ RoutedWasStored /\ UnconfirmedCopies /\ HandledForeign

(* Publishers that race, fail and die, importers that lose messages and a  *)
(* retention command that runs among them deliver what the outbox          *)
(* promises: every step of theirs is a step of OutboxPromise, or none.     *)
Promise == INSTANCE OutboxPromise WITH settled <- acked, refused <- invalid
KeepsPromise == Promise!Spec

(* Every event that is stored is published in the end.                     *)
PendingIsPublished ==
  \A e \in Events : row[e] = "pending" ~> row[e] # "pending"

(* Every import request that is stored is taken from its queue in the end, *)
(* and every message of somebody else ends in quarantine.                  *)
RequestsAreHandled ==
  /\ \A e \in ImportEvents : row[e] = "pending" ~> acked[e] > 0
  /\ \A m \in Foreign : sent[m] > 0 ~> invalid[m] > 0
=============================================================================
