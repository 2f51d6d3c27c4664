------------------------------- MODULE MCClients -------------------------------
EXTENDS Clients

\* Each behaviour exercises one part, or parts that meet.
Only(amounts) == [p \in Parts |-> IF p \in DOMAIN amounts THEN amounts[p] ELSE 0]

MCBudgets ==
  {Only([media |-> 5]), Only([gimbal |-> 4]), Only([wayline |-> 5]),
   Only([product |-> 5, answers |-> 1]), Only([map |-> 5]), Only([video |-> 5]),
   Only([ingest |-> 4]), Only([rtk |-> 5]),
   Only([layers |-> 3, aircraft |-> 1, runtime |-> 1]),
   Only([layers |-> 1, aircraft |-> 2, runtime |-> 1, rtk |-> 1]),
   Only([workspace |-> 4, topology |-> 1, runtime |-> 1]), Only([workspace |-> 2, topology |-> 2, pilot |-> 1]),
   Only([pages |-> 5, pilot |-> 1, topology |-> 1])}

MCInventory == <<"k1", "k2">>

MCFirstOf(pairs) == IF "p1" \in pairs THEN "p1" ELSE "p2"
================================================================================
