------------------------------- MODULE ModsStore -------------------------------
(***************************************************************************)
(* The lists of mods.json (services/mods_store.py): records with an id, of *)
(* which some are kept or all are sorted by their load order.              *)
(***************************************************************************)
EXTENDS Integers, SequencesExt

IdsIn(list) == {list[k].id : k \in DOMAIN list}

\* The records at some places of a list, in their order: a loop that keeps some.
Only(list, places) ==
  LET kept[k \in 0..Len(list)] ==
        IF k = 0 THEN <<>>
        ELSE IF k \in places THEN Append(kept[k - 1], list[k])
        ELSE kept[k - 1]
  IN kept[Len(list)]

\* sorted_mods is stable: a record comes after those with a lower priority and
\* those before it with the same.
Sooner(list, j, k) ==
  list[j].prio < list[k].prio \/ (list[j].prio = list[k].prio /\ j < k)
SortedBefore(list, k) == {j \in DOMAIN list : Sooner(list, j, k)}
Sorted(list) ==
  [n \in DOMAIN list |->
     list[CHOOSE k \in DOMAIN list : Cardinality(SortedBefore(list, k)) = n - 1]]
===============================================================================
