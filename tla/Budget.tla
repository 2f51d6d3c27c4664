--------------------------------- MODULE Budget ---------------------------------
(***************************************************************************)
(* The parts of the clients - the remote controller's app and the web      *)
(* console - interact little or not at all.  A behaviour therefore has a   *)
(* budget for each part: what its operator and its surroundings may still  *)
(* do there.  What the code does in answer costs nothing.                  *)
(***************************************************************************)
EXTENDS Naturals, Sequences, FiniteSets

CONSTANT Budgets  \* bound: how much of each kind may happen in one behaviour together

Parts ==
  {"media", "gimbal", "wayline", "product", "answers", "map", "video",
   "ingest", "rtk", "runtime", "layers", "aircraft", "pilot", "topology", "workspace", "pages"}

ASSUME BudgetAssumption == Budgets \subseteq [Parts -> Nat]

VARIABLE left  \* what this behaviour may still see

BudgetInit == left \in Budgets

\* A tap of the operator or an event of the surroundings, of the given part.
Spend(part) == left[part] > 0 /\ left' = [left EXCEPT ![part] = @ - 1]

===============================================================================
