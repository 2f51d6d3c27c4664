--------------------------- MODULE MCTelemetryWrites ---------------------------
EXTENDS TelemetryWrites

CONSTANTS m1, x, y

\* A number of column x, of the mission.
Reading(at, adapter, quality) ==
  [mission |-> m1, at |-> at, key |-> x, adapter |-> adapter, quality |-> quality, number |-> TRUE]

\* One column from two adapters at two instants, one of them in two qualities; a second
\* column; a value that is no number; a number without a mission; a message.
MCOffered ==
  {Reading(1, 1, 1), Reading(1, 2, 1), Reading(2, 1, 1), Reading(2, 2, 1), Reading(1, 1, 2),
   [Reading(1, 2, 1) EXCEPT !.key = y],
   [Reading(2, 2, 1) EXCEPT !.number = FALSE],
   [Reading(2, 2, 1) EXCEPT !.mission = None],
   [mission |-> m1, at |-> 1, key |-> None]}

===============================================================================
