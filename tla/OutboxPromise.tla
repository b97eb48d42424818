---------------------------- MODULE OutboxPromise ----------------------------
(***************************************************************************)
(* What the outbox promises to the consumers of events, and nothing of the *)
(* publishers, importers and faults behind it: a stored event is delivered *)
(* at least once before it is marked as published and never after that;    *)
(* only published events of articles are forgotten; every copy that        *)
(* reaches the importers is settled at most once, and what was not ours    *)
(* is set aside before it is settled.                                      *)
(***************************************************************************)
EXTENDS Naturals

CONSTANTS ArticleEvents, ImportEvents, Foreign

Events == ArticleEvents \cup ImportEvents
Messages == Events \cup Foreign

VARIABLES row,      \* row[e]: absent, pending, published or deleted
          sent,     \* sent[m]: copies of m that reached their queue
          settled,  \* settled[m]: copies the importers are done with
          refused   \* refused[m]: copies set aside as invalid

vars == <<row, sent, settled, refused>>

Init == /\ row = [e \in Events |-> "absent"]
        /\ sent = [m \in Messages |-> 0]
        /\ settled = [m \in Messages |-> 0]
        /\ refused = [m \in Messages |-> 0]

Store(e) == /\ row[e] = "absent"
            /\ row' = [row EXCEPT ![e] = "pending"]
            /\ UNCHANGED <<sent, settled, refused>>

Arrive(m) == /\ sent' = [sent EXCEPT ![m] = @ + 1]
             /\ UNCHANGED <<row, settled, refused>>

Deliver(e) == row[e] = "pending" /\ Arrive(e)

Intrude(m) == sent[m] = 0 /\ Arrive(m)

Turn(S, to) == /\ row' = [e \in Events |-> IF e \in S THEN to ELSE row[e]]
               /\ UNCHANGED <<sent, settled, refused>>

Mark(S) == /\ \A e \in S : row[e] = "pending" /\ sent[e] > 0
           /\ Turn(S, "published")

Forget(S) == /\ \A e \in S : row[e] = "published"
             /\ Turn(S, "deleted")

Refuse(m) == /\ settled[m] < sent[m]
             /\ refused' = [refused EXCEPT ![m] = @ + 1]
             /\ UNCHANGED <<row, sent, settled>>

Settle(m) == /\ settled[m] < sent[m]
             /\ m \in Foreign => settled[m] < refused[m]
             /\ settled' = [settled EXCEPT ![m] = @ + 1]
             /\ UNCHANGED <<row, sent, refused>>

Next == \/ \E e \in Events : Store(e) \/ Deliver(e)
        \/ \E S \in SUBSET Events : Mark(S)
        \/ \E S \in SUBSET ArticleEvents : Forget(S)
        \/ \E m \in Foreign : Intrude(m) \/ Refuse(m)
        \/ \E m \in ImportEvents \cup Foreign : Settle(m)

Spec == Init /\ [][Next]_vars
=============================================================================
