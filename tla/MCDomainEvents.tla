--------------------------- MODULE MCDomainEvents ---------------------------
EXTENDS DomainEventsProperties, TLC

Symmetry == Permutations(Workers) \cup Permutations(Handlers)
=============================================================================
