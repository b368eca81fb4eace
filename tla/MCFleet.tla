------------------------------- MODULE MCFleet ------------------------------
(***************************************************************************)
(* A small fleet.  An asset can be assigned and taken back for ever, so    *)
(* handlers are explored up to BeforeSeed audit rows in the old fleet and  *)
(* AfterSeed in a demo fleet.                                              *)
(***************************************************************************)
EXTENDS FleetTables, Folds, Functions

BeforeSeed == 2
AfterSeed == 5
AuditRows == FoldFunction(LAMBDA h, n : n + Len(h), 0, history)
Bounded == AuditRows <= IF images = {} THEN BeforeSeed ELSE AfterSeed

AllHolders == CHOOSE q \in [1..Cardinality(Holders) -> Holders] :
                  \A h \in Holders : \E i \in DOMAIN q : q[i] = h

=============================================================================
