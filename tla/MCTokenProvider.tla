--------------------------- MODULE MCTokenProvider ---------------------------
\* TokenProvider for TLC.
EXTENDS TokenProvider

\* The least grace for which a rotation goes unnoticed.
LeastGrace == TTL + 2 * Delay
=============================================================================
