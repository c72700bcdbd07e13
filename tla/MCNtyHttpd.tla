----------------------------- MODULE MCNtyHttpd -----------------------------
EXTENDS NtyHttpd

\* Both processes count in one slot; the second has a descriptor more.
OneSlot == [p \in Proc |-> 0]
Limits == [p \in Proc |-> p]
=============================================================================
