---------------------------- MODULE ContentStore ----------------------------
(***************************************************************************)
(* What a content store promises the overlay (the trait ContentStore of    *)
(* trin-storage/src/lib.rs), whatever it is built on.                      *)
(*                                                                         *)
(* A store holds items.  An item comes into an open store by a put of that *)
(* item within the radius, and a put touches no other item.  A lasting     *)
(* item keeps its value for as long as it is held, also across restarts.   *)
(* Items may be given up while the store is open, never changed; and the   *)
(* radius of an open store does not grow.                                  *)
(***************************************************************************)
EXTENDS Integers

CONSTANTS
    Item,
    Nothing,        \* what is found for an item that is not held
    Lasting,        \* the items that are on disk
    Place           \* how far away an item is, as far as the store can tell

VARIABLES
    contents,       \* what `get` finds, per item
    radius,
    open

vars == <<contents, radius, open>>

Init ==
    /\ contents = [i \in Item |-> Nothing]
    /\ open = FALSE

GivesUp(items) ==
    /\ \A i \in items : contents'[i] \in {contents[i], Nothing}
    /\ \A i \in Item \ items : contents'[i] = contents[i]

Open == ~open /\ open' /\ UNCHANGED contents

Close == open /\ ~open' /\ GivesUp(Item \ Lasting)

\* Content may also turn out to be there already, or not to be stored for an error.
Put(i) ==
    /\ open /\ Place[i] <= radius
    /\ i \in Lasting /\ contents[i] # Nothing => contents'[i] = contents[i]
    /\ \A j \in Item \ {i} : contents'[j] = contents[j]
    /\ UNCHANGED <<radius, open>>

Prune ==
    /\ open
    /\ GivesUp(Item)
    /\ radius' <= radius
    /\ UNCHANGED open

Next ==
    \/ Open
    \/ Close
    \/ \E i \in Item : Put(i)
    \/ Prune

Spec == Init /\ [][Next]_vars

=============================================================================
