-------------------------------- MODULE MCPairing --------------------------------
EXTENDS Pairing

Budget(t, b, a, l, s, c) ==
  [k \in {"tasks", "backend", "app", "links", "late", "time"} |->
    CASE k = "tasks" -> t [] k = "backend" -> b [] k = "app" -> a [] k = "links" -> l [] k = "late" -> s [] OTHER -> c]

\* Up to three tasks and two faults, in the combinations that meet in the code.
MCBudgets ==
  {Budget(3, 1, 0, 0, 1, 1), Budget(1, 0, 1, 0, 0, 1), Budget(1, 0, 1, 1, 0, 0), Budget(2, 0, 1, 0, 0, 0),
   Budget(1, 1, 1, 0, 0, 0), Budget(3, 0, 0, 1, 0, 1), Budget(1, 0, 0, 2, 0, 1), Budget(3, 2, 0, 0, 0, 1)}

\* The aircraft that is connected at the start is one of them: the others are like it.
MCInit == Init /\ serial = CHOOSE a \in Aircraft : TRUE

MCSpec == MCInit /\ [][Next]_vars /\ Fairness
===============================================================================
