----------------------------- MODULE MCDrcSession -----------------------------
EXTENDS DrcSession, TLC

CONSTANTS c1, c2

CallSymmetry == Permutations(Calls)

\* After a stale write only the method of the neutral frames is claimed.  Guards and
\* silence decide there who starts a close, never its method, so the search goes on
\* with the guards satisfied and no silence, and within the first session.
AfterStaleWrite ==
  staleWrite => guards.local /\ guards.authority /\ silence = 0 /\ sessions = 1

===============================================================================
