----------------------------- MODULE SlotLease -----------------------------
(***************************************************************************)
(* What SessionManager promises of its run slots, with nothing of how: a   *)
(* deployment takes a slot when one is free, gives it back once, and never *)
(* takes one again.                                                        *)
(***************************************************************************)
EXTENDS Naturals, FiniteSets

CONSTANTS
  Sessions,   \* everything that may ever ask for a slot
  Limit       \* the number of slots

VARIABLE lease

Holders == {s \in Sessions : lease[s] = "held"}

Init == lease = [s \in Sessions |-> "none"]

Take(s) ==
  /\ lease[s] = "none"
  /\ Cardinality(Holders) < Limit
  /\ lease' = [lease EXCEPT ![s] = "held"]

GiveBack(s) ==
  /\ lease[s] = "held"
  /\ lease' = [lease EXCEPT ![s] = "returned"]

Next == \E s \in Sessions : Take(s) \/ GiveBack(s)

Spec == Init /\ [][Next]_lease

=============================================================================
