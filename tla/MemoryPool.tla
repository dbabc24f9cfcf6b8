----------------------------- MODULE MemoryPool ------------------------------
(* What a channel allocator promises its callers, free of any free list: an  *)
(* address range from which callers take runs of cells and give them back.   *)
(* A request is granted at some run nobody holds, and it is refused only if  *)
(* there is no such run.  BestFitAllocator implements this.                  *)
EXTENDS Integers

CONSTANTS First, Last, Sizes

VARIABLES
  held,    \* the runs callers hold, as records [addr, size]
  reply    \* what the last call returned

poolVars == <<held, reply>>

Run(a, n) == [addr |-> a, size |-> n]

Unheld(a, n) ==
  /\ First <= a /\ a + n <= Last + 1
  /\ \A b \in held : a + n <= b.addr \/ b.addr + b.size <= a

PoolInit ==
  /\ held = {}
  /\ reply = [is |-> "none"]

Grant(n) ==
  \E a \in First .. Last :
    /\ Unheld(a, n)
    /\ held' = held \cup {Run(a, n)}
    /\ reply' = [is |-> "granted", addr |-> a, size |-> n]

Refuse(n) ==
  /\ \A a \in First .. Last : ~Unheld(a, n)
  /\ reply' = [is |-> "refused", size |-> n]
  /\ UNCHANGED held

Release ==
  \E b \in held :
    /\ held' = held \ {b}
    /\ reply' = [is |-> "released", addr |-> b.addr]

RejectRelease ==
  /\ reply' = [is |-> "thrown"]
  /\ UNCHANGED held

PoolNext ==
  \/ \E n \in Sizes : Grant(n) \/ Refuse(n)
  \/ Release
  \/ RejectRelease

PoolSpec == PoolInit /\ [][PoolNext]_poolVars
==============================================================================
