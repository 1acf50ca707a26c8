------------------------------ MODULE ActiveSet ------------------------------
(***************************************************************************)
(* What listarray.h promises: a list of distinct indices in insertion      *)
(* order, of which only the set and the length are visible to clock_main.c *)
(* (foreach, count, in_list), and the highest index ever inserted, which   *)
(* bounds the scan an NMI makes.                                           *)
(***************************************************************************)
EXTENDS Integers, Sequences

CONSTANT Index          \* the indices an entry may have

VARIABLES order,        \* the listed indices, oldest first
          high          \* listarray.max_index

Init == order = <<>> /\ high = 0

Members == {order[k] : k \in DOMAIN order}

Insert(i) ==
    /\ i \notin Members
    /\ order' = Append(order, i)
    /\ high' = IF i > high THEN i ELSE high

Remove(i) ==
    /\ \E k \in DOMAIN order :
           /\ order[k] = i
           /\ order' = [j \in 1 .. Len(order) - 1 |-> order[IF j < k THEN j ELSE j + 1]]
    /\ UNCHANGED high

Next == \E i \in Index : Insert(i) \/ Remove(i)

Spec == Init /\ [][Next]_<<order, high>>
=============================================================================
