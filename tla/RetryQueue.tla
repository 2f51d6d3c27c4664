------------------------------ MODULE RetryQueue ------------------------------
(***************************************************************************)
(* The control API's in-memory retry queue in front of the database.       *)
(* `items' is the backlog, its head the item handed to process() while     *)
(* `active' holds.  The await of process() is the only place where other   *)
(* handlers run: drain, kick and the promise bookkeeping around them are   *)
(* part of the actions that trigger them, so `processing' is `active'.     *)
(*                                                                         *)
(* Items are numbered in the order in which enqueue is called.             *)
(***************************************************************************)
EXTENDS Naturals, Sequences, FiniteSets

CONSTANTS
  Capacities, \* the values of options.capacity
  MaxItems,   \* bound: enqueue calls in a behaviour
  MaxFaults   \* bound: failures of process()

ASSUME QueueAssumption ==
  Capacities \subseteq Nat \ {0} /\ MaxItems \in Nat /\ MaxFaults \in Nat

Policies == {"reject-new", "drop-oldest", "retain-all"}
Items    == 1 .. MaxItems

VARIABLES
  policy,      \* options.dropPolicy
  capacity,    \* options.capacity
  items,       \* the backlog
  active,      \* activeItem: process(Head(items)) has not settled
  failed,      \* lastFailure is set
  stage,       \* "open"; "closing": shutdown awaits the drain; "closed"; "aborted"
  enqueued,    \* history: enqueue calls so far
  log,         \* history: writes that took effect in the database
  rejected,    \* history: items enqueue refused, with an error or silently
  displaced,   \* history: items dropped from the backlog
  settled,     \* history: items whose process() succeeded
  faults       \* failures so far

vars == <<policy, capacity, items, active, failed, stage, enqueued, log, rejected, displaced,
          settled, faults>>

Init ==
  /\ policy \in Policies
  /\ capacity \in Capacities
  /\ items = <<>>
  /\ active = FALSE
  /\ failed = FALSE
  /\ stage = "open"
  /\ enqueued = 0
  /\ log = <<>>
  /\ rejected = {}
  /\ displaced = {}
  /\ settled = {}
  /\ faults = 0

\* items.splice(i - 1, 1)
Without(q, i) == [j \in 1 .. Len(q) - 1 |-> IF j < i THEN q[j] ELSE q[j + 1]]

\* The oldest item that is not in flight.
DropIndex == IF active THEN 2 ELSE 1

Full == policy # "retain-all" /\ Len(items) >= capacity

Refuse(x) ==
  /\ rejected' = rejected \cup {x}
  /\ UNCHANGED <<items, active, displaced>>

\* The new item is pushed and kick starts a drain unless one is running.
Push(x, backlog) ==
  /\ items' = Append(backlog, x)
  /\ active' = TRUE
  /\ UNCHANGED rejected

\* A full queue refuses the new item or makes room for it.
Overflow(x) ==
  \/ policy = "reject-new" /\ Refuse(x)
  \/ policy # "reject-new" /\ DropIndex > Len(items) /\ Refuse(x)
  \/ /\ policy # "reject-new" /\ DropIndex <= Len(items)
     /\ displaced' = displaced \cup {items[DropIndex]}
     /\ Push(x, Without(items, DropIndex))

Enqueue ==
  /\ enqueued < MaxItems
  /\ enqueued' = enqueued + 1
  /\ \/ stage # "open" /\ Refuse(enqueued')
     \/ stage = "open" /\ ~Full /\ Push(enqueued', items) /\ UNCHANGED displaced
     \/ stage = "open" /\ Full /\ Overflow(enqueued')
  /\ UNCHANGED <<policy, capacity, failed, stage, log, settled, faults>>

Waiting == ~active /\ items # <<>>

\* The interval, or a caller of kick and flush.
Kick ==
  /\ stage = "open"
  /\ Waiting
  /\ active' = TRUE
  /\ UNCHANGED <<policy, capacity, items, failed, stage, enqueued, log, rejected, displaced,
                 settled, faults>>

\* The drain loop hands the next item to process().
Continues(backlog) == backlog # <<>>

\* process() resolves: the head is shifted and the loop goes on.
Succeed ==
  /\ active
  /\ log' = Append(log, Head(items))
  /\ settled' = settled \cup {Head(items)}
  /\ items' = Tail(items)
  /\ failed' = FALSE
  /\ active' = Continues(items')
  /\ stage' = IF stage = "closing" /\ ~active' THEN "closed" ELSE stage
  /\ UNCHANGED <<policy, capacity, enqueued, rejected, displaced, faults>>

\* Mutant of AfterFailure: the failed item goes to the end of the backlog.
AfterFailureRotated == Append(Tail(items), Head(items))

AfterFailure == items

\* process() rejects, with or without the write having taken effect: the loop
\* stops and leaves the item at the head.
Fail(effect) ==
  /\ active
  /\ faults < MaxFaults
  /\ faults' = faults + 1
  /\ log' = IF effect THEN Append(log, Head(items)) ELSE log
  /\ items' = AfterFailure
  /\ failed' = TRUE
  /\ active' = FALSE
  /\ stage' = IF stage = "closing" THEN "aborted" ELSE stage
  /\ UNCHANGED <<policy, capacity, enqueued, rejected, displaced, settled>>

\* Mutant of Drained: only the item in flight is awaited.
DrainedWhenIdle == ~active

Drained == items = <<>>

\* shutdown drains what is left, joining the drain that runs.
Shutdown ==
  /\ stage = "open"
  /\ active' = Continues(items)
  /\ stage' = IF Drained THEN "closed" ELSE "closing"
  /\ UNCHANGED <<policy, capacity, items, failed, enqueued, log, rejected, displaced, settled,
                 faults>>

Settle == Succeed \/ \E effect \in BOOLEAN : Fail(effect)

Next == Enqueue \/ Kick \/ Settle \/ Shutdown

Spec == Init /\ [][Next]_vars

-------------------------------------------------------------------------------
(* Properties *)

\* Only an item of the backlog is ever in flight.
TypeOK ==
  /\ policy \in Policies
  /\ capacity \in Capacities
  /\ items \in Seq(Items)
  /\ active \in BOOLEAN
  /\ failed \in BOOLEAN
  /\ stage \in {"open", "closing", "closed", "aborted"}
  /\ enqueued \in 0 .. MaxItems
  /\ log \in Seq(Items)
  /\ rejected \subseteq Items
  /\ displaced \subseteq Items
  /\ settled \subseteq Items
  /\ faults \in 0 .. MaxFaults
  /\ active => items # <<>>

InBacklog == {items[i] : i \in 1 .. Len(items)}

\* Every item handed to enqueue is accounted for exactly once: refused, dropped,
\* written, or still in the backlog, where it stands once, in order; and a shutdown
\* that reports success has written everything that was accepted.
Accounting ==
  /\ 1 .. enqueued = rejected \cup displaced \cup settled \cup InBacklog
  /\ rejected \cap (displaced \cup settled \cup InBacklog) = {}
  /\ displaced \cap (settled \cup InBacklog) = {}
  /\ settled \cap InBacklog = {}
  /\ \A i, j \in 1 .. Len(items) : i < j => items[i] < items[j]
  /\ stage = "closed" => items = <<>>

\* The limit is the policy's: a bounded backlog never exceeds its capacity, even while
\* an item is in flight, and the retaining one refuses or drops nothing while it is open.
PolicyKept ==
  /\ policy # "retain-all" => Len(items) <= capacity
  /\ policy = "retain-all" /\ stage = "open" => rejected = {} /\ displaced = {}

\* The queue implements the promise its callers rely on.
Promise == INSTANCE AtLeastOnceFifo WITH pending <- items, writing <- active, log <- log
IsAtLeastOnceFifo == Promise!Spec

===============================================================================
