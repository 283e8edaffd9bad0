--------------------------- MODULE MCNodeController ---------------------------
\* NodeController for TLC: the Linodes start alike, with every address; a node that
\* others change is new, the others have been handled before.
EXTENDS NodeController

MCInit ==
    /\ Init
    /\ \A n \in Names, a \in Attributes : linode[n][a] = 1
    /\ \A n \in Names : api[n].phase = "named" <=> n \notin Changing

MCSpec == MCInit /\ [][Next]_vars /\ Fairness
=============================================================================
