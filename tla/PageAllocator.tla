---------------------------- MODULE PageAllocator ----------------------------
(***************************************************************************)
(* What PageManager promises (page_manager.h:26-31): a set of page ids, of *)
(* which Allocate hands out the lowest one that is free.                   *)
(***************************************************************************)
EXTENDS Integers

CONSTANT Ids   \* the page ids, an initial segment of Nat

VARIABLES
  allocated,   \* the ids in use
  result       \* what the last call returned: an id, None or Thrown

None == -1     \* the call returned nothing
Thrown == -2   \* the call threw

Init == allocated = {} /\ result = None

Allocate(id) ==
  /\ id \notin allocated
  /\ 0 .. id - 1 \subseteq allocated
  /\ allocated' = allocated \cup {id}
  /\ result' = id

\* AllocateAt returns nothing, and throws when the id is in use.
AllocateAt(id) ==
  \/ /\ id \notin allocated
     /\ allocated' = allocated \cup {id}
     /\ result' = None
  \/ /\ id \in allocated
     /\ result' = Thrown
     /\ UNCHANGED allocated

Free(id) ==
  /\ allocated' = allocated \ {id}
  /\ result' = None

Next == \E id \in Ids : Allocate(id) \/ AllocateAt(id) \/ Free(id)

Spec == Init /\ [][Next]_<<allocated, result>>
=============================================================================
