------------------------------ MODULE MCDrcControl ------------------------------
EXTENDS DrcControl

Budget(c, s, f, g, l, a) ==
  [k \in Kinds |-> CASE k = "calls" -> c [] k = "sends" -> s [] k = "faults" -> f
                     [] k = "guards" -> g [] k = "leases" -> l [] k = "asks" -> a]

MCBudgets == {Budget(3, 0, 0, 0, 2, 0), Budget(3, 1, 0, 0, 0, 0), Budget(2, 1, 1, 0, 0, 0), Budget(2, 1, 0, 1, 0, 0), Budget(2, 1, 0, 0, 1, 0),
              Budget(1, 2, 1, 0, 0, 1), Budget(0, 0, 2, 0, 0, 4)}
===============================================================================
