---------------------------- MODULE ImportPromise ----------------------------
(***************************************************************************)
(* What an import promises to the editor who asked for it, and nothing of  *)
(* how the workers keep it: the rows of a job are decided one by one in    *)
(* their order, each of them once; a row becomes an article when its slug  *)
(* is free at that moment and is refused otherwise; a job that has stopped *)
(* can be resumed and loses none of its decisions.                         *)
(***************************************************************************)
EXTENDS Naturals, Sequences

CONSTANTS Jobs, Slugs, Nobody, Author

VARIABLES state,    \* state[j]: none, open, stopped or finished
          items,    \* items[j]: the rows of job j
          article   \* article[s]: Nobody, Author, or the row that created it

vars == <<state, items, article>>

Init == /\ state = [j \in Jobs |-> "none"]
        /\ items = [j \in Jobs |-> <<>>]
        /\ article = [s \in Slugs |-> Nobody]

Submit(j) ==
  /\ state[j] = "none"
  /\ state' = [state EXCEPT ![j] = "open"]
  /\ items'[j] \in Seq([slug : Slugs, status : {"pending"}])
  /\ items'[j] # <<>>
  /\ items' = [items EXCEPT ![j] = items'[j]]
  /\ UNCHANGED article

Take(s) ==
  /\ article[s] = Nobody
  /\ article' = [article EXCEPT ![s] = Author]
  /\ UNCHANGED <<state, items>>

First(j, p) == /\ p \in DOMAIN items[j]
               /\ \A q \in DOMAIN items[j] :
                    items[j][q].status = "pending" <=> q >= p

Decide(j, p) ==
  LET s == items[j][p].slug
      free == article[s] = Nobody
  IN /\ state[j] = "open" /\ First(j, p)
     /\ items' = [items EXCEPT ![j][p].status =
                    IF free THEN "imported" ELSE "failed"]
     /\ article' = IF free THEN [article EXCEPT ![s] = <<j, p>>] ELSE article
     /\ state' = [state EXCEPT ![j] =
                    IF p = Len(items[j]) THEN "finished" ELSE "open"]

Turn(j, from, to) == /\ state[j] = from
                     /\ state' = [state EXCEPT ![j] = to]
                     /\ UNCHANGED <<items, article>>

Next == \/ \E j \in Jobs : \/ Submit(j)
                           \/ \E p \in DOMAIN items[j] : Decide(j, p)
                           \/ Turn(j, "open", "stopped")
                           \/ Turn(j, "stopped", "open")
        \/ \E s \in Slugs : Take(s)

Spec == Init /\ [][Next]_vars
=============================================================================
