---------------------------- MODULE MCInventorySync ----------------------------
\* InventorySync with the provider's first list in one order.  No resource is
\* known at the start and nothing else tells one from another, so that every
\* behaviour is one of these with its resources renamed, and so are the
\* properties: the orders show nothing new.  (A SYMMETRY set would do the same,
\* but not under a liveness property.)
EXTENDS InventorySync
FirstList == CHOOSE s \in SetToSeqs(Resources) : TRUE
OrderedInit == Init /\ listing = FirstList
OrderedSpec == OrderedInit /\ [][Next]_vars /\ WF_vars(Sync)
=============================================================================
