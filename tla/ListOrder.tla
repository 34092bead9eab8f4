----------------------------- MODULE ListOrder -----------------------------
(***************************************************************************)
(* The order of the lists the portal shows: sortByCreatedDesc              *)
(* (keystore/kubernetes) and sortByDisplayName (models) are one insertion  *)
(* sort with two comparisons.  The input comes from ranging over a Go map  *)
(* or from the API server, so it may be in any order.                      *)
(*                                                                         *)
(* An item is <<main, tie, object>>: creation time and id of a key, newest *)
(* first, or display name and routing name of a model, in alphabetical     *)
(* order, and the object it was read from.  Times and names are numbers,   *)
(* which have the order that matters.                                      *)
(***************************************************************************)
EXTENDS Naturals, Sequences

CONSTANTS
    KeyLists,   \* lists of keys to sort, newest first
    ModelLists  \* lists of models to sort, by display name

Item == Nat \X Nat \X Nat

ASSUME InputsAssumption == \A s \in KeyLists \cup ModelLists : s \in Seq(Item)

\* The id of a key is its entry in the map that was walked.
ASSUME IdsAssumption ==
    \A s \in KeyLists : \A a, b \in 1..Len(s) : s[a][2] = s[b][2] => a = b

VARIABLES
    by,     \* "created": sortByCreatedDesc, "name": sortByDisplayName
    list,   \* the slice
    i, j,   \* the two loop variables (Go's, plus one)
    given   \* history: the list as it came

vars == <<by, list, i, j, given>>

\* A plausible bug: no tiebreaker.
BeforeNoTie(o, a, b) == IF o = "created" THEN a[1] > b[1] ELSE a[1] < b[1]

\* In order o, a belongs in front of b.
Before(o, a, b) ==
    \/ IF o = "created" THEN a[1] > b[1] ELSE a[1] < b[1]
    \/ a[1] = b[1] /\ a[2] < b[2]

Init ==
    /\ by \in {"created", "name"}
    /\ given \in IF by = "created" THEN KeyLists ELSE ModelLists
    /\ list = given
    /\ i = 2 /\ j = 2

Sorting == i <= Len(list)

\* A plausible bug: an item moves one place forward and no further.
UnorderedOnce == j > 1 /\ j = i /\ Before(by, list[j], list[j - 1])

Unordered == j > 1 /\ Before(by, list[j], list[j - 1])

\* A plausible bug: the slot the item came from keeps its own value.
SwapLoses ==
    /\ Sorting /\ Unordered
    /\ list' = [list EXCEPT ![j - 1] = list[j]]
    /\ j' = j - 1
    /\ UNCHANGED <<by, i, given>>

\* The inner loop: the item moves one place forward.
Swap ==
    /\ Sorting /\ Unordered
    /\ list' = [list EXCEPT ![j] = list[j - 1], ![j - 1] = list[j]]
    /\ j' = j - 1
    /\ UNCHANGED <<by, i, given>>

\* break, or the front is reached: the next item.
NextItem ==
    /\ Sorting /\ ~Unordered
    /\ i' = i + 1 /\ j' = i + 1
    /\ UNCHANGED <<by, list, given>>

Next == Swap \/ NextItem
Spec == Init /\ [][Next]_vars

-----------------------------------------------------------------------------
TypeOK ==
    /\ by \in {"created", "name"}
    /\ list \in Seq(Item)
    /\ i \in Nat \ {0, 1}
    /\ j \in 1..i

\* x may stand in front of y.
InOrder(o, x, y) == ~Before(o, y, x)

\* The list comes back in order, whatever order it was read in.
SortedWhenDone ==
    ~Sorting => \A a, b \in 1..Len(list) : a < b => InOrder(by, list[a], list[b])

\* p says where each item of the list stood when it came.
CameFrom(p) ==
    /\ p \in [1..Len(list) -> 1..Len(given)]
    /\ \A a, b \in 1..Len(list) : p[a] = p[b] => a = b
    /\ \A a \in 1..Len(list) : list[a] = given[p[a]]

\* No item is lost or shown twice.
SameItems ==
    /\ Len(list) = Len(given)
    /\ \E p \in [1..Len(list) -> 1..Len(given)] : CameFrom(p)

\* The first i items are in order, but for the one on its way to the front;
\* when the loops are done, none is.
PrefixOrdered ==
    /\ \A a, b \in 1..Len(list) :
         a < b /\ b <= i /\ b # j => InOrder(by, list[a], list[b])
    /\ ~Sorting => j = i

\* "Newest first, with the ID as a stable tiebreaker": the account page is the
\* same on every load, because the comparison, and never the order in which the
\* map was walked, decides between any two keys.
OrderDecided ==
    by = "created" /\ ~Sorting =>
        \A a, b \in 1..Len(list) : a < b => Before(by, list[a], list[b])
=============================================================================
