---------------------------- MODULE AtLeastOnceFifo ----------------------------
(***************************************************************************)
(* What a persistence queue promises its callers: accepted items reach the *)
(* store in the order in which they were accepted, an item is written one  *)
(* or more times in a row, and an item leaves the queue only after it has  *)
(* been written or by being discarded while it was not the one being       *)
(* written.                                                                *)
(***************************************************************************)
EXTENDS Naturals, Sequences

CONSTANT Items

VARIABLES
  pending,   \* accepted items, oldest first
  writing,   \* the oldest item is being written
  log        \* the writes the store has seen

vars == <<pending, writing, log>>

Init == pending = <<>> /\ writing = FALSE /\ log = <<>>

\* The queue without its i-th item.
Without(q, i) == [j \in 1 .. Len(q) - 1 |-> IF j < i THEN q[j] ELSE q[j + 1]]

Write == /\ writing
         /\ log' = Append(log, Head(pending))

\* An accepted item may displace one that is not being written.
Accept(x) ==
  /\ \/ pending' = Append(pending, x)
     \/ \E i \in 1 .. Len(pending) :
          /\ writing => i # 1
          /\ pending' = Append(Without(pending, i), x)
  /\ writing' \in BOOLEAN
  /\ writing => writing'
  /\ UNCHANGED log

Begin == /\ ~writing /\ pending # <<>>
         /\ writing' = TRUE
         /\ UNCHANGED <<pending, log>>

\* The item is acknowledged: it has been written and leaves the queue.
Done == /\ Write
        /\ pending' = Tail(pending)
        /\ writing' \in BOOLEAN

\* The attempt fails, before or after the write took effect.
Fail == /\ writing
        /\ \/ Write
           \/ UNCHANGED log
        /\ writing' = FALSE
        /\ UNCHANGED pending

Next == \/ \E x \in Items : Accept(x)
        \/ Begin
        \/ Done
        \/ Fail

Spec == Init /\ [][Next]_vars
===============================================================================
