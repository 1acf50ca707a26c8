------------------------------ MODULE ListArray ------------------------------
(***************************************************************************)
(* listarray.h: the doubly linked list threaded through an array that      *)
(* holds the active threads of a group.  Every call is made with the group *)
(* lock held, so each function is one atomic action.  An entry is listed   *)
(* iff neither of its pointers is DEAD.                                    *)
(***************************************************************************)
EXTENDS Integers, Sequences, FiniteSets

CONSTANT MaxSize                      \* LISTARRAY_MAX_SIZE

ASSUME MaxSizeAssumption == MaxSize \in Nat \ {0}

VARIABLES next, prev,                 \* entries[i].next, entries[i].prev
          head, tail, count, max_index

vars == <<next, prev, head, tail, count, max_index>>

Index   == 0 .. MaxSize - 1
NULL    == -1
DEAD    == MaxSize + 1
Pointer == Index \cup {NULL, DEAD}

InList(i) == next[i] # DEAD /\ prev[i] # DEAD

Init ==
    /\ next = [i \in Index |-> DEAD]
    /\ prev = [i \in Index |-> DEAD]
    /\ head = NULL
    /\ tail = NULL
    /\ count = 0
    /\ max_index = 0

(* Broken: the unlinked entry keeps pointing at a neighbour.                *)
StillLinked(f, i) == f

(* The two pointers of the entry being unlinked are reset after the         *)
(* neighbours were redirected.                                              *)
Unlinked(f, i) == [f EXCEPT ![i] = DEAD]

(* Broken: the bound of the scan follows the last insertion.                *)
InsertLowersBound(i) ==
    /\ next[i] = DEAD /\ prev[i] = DEAD
    /\ head' = IF tail = NULL THEN i ELSE head
    /\ tail' = i
    /\ prev' = [prev EXCEPT ![i] = tail]
    /\ next' = [[j \in Index |-> IF j = tail THEN i ELSE next[j]] EXCEPT ![i] = NULL]
    /\ count' = count + 1
    /\ max_index' = i

(* Insert at the tail; BUG_ON stops the machine when i is listed already.   *)
Insert(i) ==
    /\ next[i] = DEAD /\ prev[i] = DEAD
    /\ head' = IF tail = NULL THEN i ELSE head
    /\ tail' = i
    /\ prev' = [prev EXCEPT ![i] = tail]
    /\ next' = [[j \in Index |-> IF j = tail THEN i ELSE next[j]] EXCEPT ![i] = NULL]
    /\ count' = count + 1
    /\ max_index' = IF i > max_index THEN i ELSE max_index

RemoveOnly(i) ==
    /\ prev[i] = NULL /\ next[i] = NULL
    /\ head' = NULL
    /\ tail' = NULL
    /\ next' = Unlinked(next, i)
    /\ prev' = Unlinked(prev, i)

RemoveHead(i) ==
    /\ prev[i] = NULL /\ next[i] # NULL
    /\ head' = next[i]
    /\ prev' = Unlinked([prev EXCEPT ![next[i]] = NULL], i)
    /\ next' = Unlinked(next, i)
    /\ UNCHANGED tail

(* Broken: the new tail keeps its pointer to the removed one.               *)
RemoveTailOneSided(i) ==
    /\ prev[i] # NULL /\ next[i] = NULL
    /\ tail' = prev[i]
    /\ next' = Unlinked(next, i)
    /\ prev' = Unlinked(prev, i)
    /\ UNCHANGED head

RemoveTail(i) ==
    /\ prev[i] # NULL /\ next[i] = NULL
    /\ tail' = prev[i]
    /\ next' = Unlinked([next EXCEPT ![prev[i]] = NULL], i)
    /\ prev' = Unlinked(prev, i)
    /\ UNCHANGED head

(* Broken: only the forward chain is closed over the removed entry.         *)
RemoveMiddleOneSided(i) ==
    /\ prev[i] # NULL /\ next[i] # NULL
    /\ next' = Unlinked([next EXCEPT ![prev[i]] = next[i]], i)
    /\ prev' = Unlinked(prev, i)
    /\ UNCHANGED <<head, tail>>

RemoveMiddle(i) ==
    /\ prev[i] # NULL /\ next[i] # NULL
    /\ next' = Unlinked([next EXCEPT ![prev[i]] = next[i]], i)
    /\ prev' = Unlinked([prev EXCEPT ![next[i]] = prev[i]], i)
    /\ UNCHANGED <<head, tail>>

(* Broken: a removal is not counted. *)
RemoveUncounted(i) ==
    /\ count > 0
    /\ InList(i)
    /\ RemoveOnly(i) \/ RemoveHead(i) \/ RemoveTail(i) \/ RemoveMiddle(i)
    /\ UNCHANGED <<count, max_index>>

(* BUG_ON(count <= 0), and the caller's discipline: only listed entries are *)
(* removed (an unlisted one would index the array with DEAD).               *)
Remove(i) ==
    /\ count > 0
    /\ InList(i)
    /\ RemoveOnly(i) \/ RemoveHead(i) \/ RemoveTail(i) \/ RemoveMiddle(i)
    /\ count' = count - 1
    /\ UNCHANGED max_index

Next == \E i \in Index : Insert(i) \/ Remove(i)

Spec == Init /\ [][Next]_vars

-----------------------------------------------------------------------------
(* Walking the list from one end along one array of pointers, as            *)
(* listarray_foreach does: the index it is at after k - 1 steps, at most     *)
(* MaxSize of them, so a cycle is cut.                                       *)
At(first, link) ==
    LET at[k \in 1 .. MaxSize] ==
            IF k = 1 THEN first
            ELSE IF at[k - 1] \in Index THEN link[at[k - 1]] ELSE NULL
    IN  at

Walk(first, link) ==
    LET at   == At(first, link)
        last == Cardinality({k \in 1 .. MaxSize : at[k] \in Index})
    IN  [k \in 1 .. last |-> at[k]]

Forward  == Walk(head, next)
Backward == Walk(tail, prev)

TypeOK ==
    /\ next \in [Index -> Pointer]
    /\ prev \in [Index -> Pointer]
    /\ head \in Index \cup {NULL}
    /\ tail \in Index \cup {NULL}
    /\ count \in 0 .. MaxSize
    /\ max_index \in Index

(* foreach from the head visits exactly the entries in_list() accepts, each *)
(* once, and listarray_count() is their number: the searches under the lock *)
(* and the "only active thread" test agree on who is active.                *)
ForeachVisitsListed ==
    /\ {Forward[k] : k \in DOMAIN Forward} = {i \in Index : InList(i)}
    /\ Len(Forward) = count

(* The prev pointers give the reverse of the next pointers: removal from    *)
(* the middle, which trusts both, never loses a part of the list.           *)
BackwardMirrorsForward ==
    /\ Len(Backward) = Len(Forward)
    /\ \A k \in DOMAIN Forward : Backward[Len(Forward) + 1 - k] = Forward[k]

(* The scan 0..max_index an NMI makes without the lock covers every listed  *)
(* entry, whatever was removed since the highest one went in.               *)
ScanCoversListed == \A i \in Index : InList(i) => i <= max_index

(* listarray.h implements the abstract list of active threads.              *)
Abstract == INSTANCE ActiveSet WITH order <- Forward, high <- max_index
ImplementsActiveSet == Abstract!Spec
=============================================================================
