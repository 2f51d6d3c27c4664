--------------------------- MODULE PersistenceProofs ---------------------------
(***************************************************************************)
(* What is queued to be saved.  The retry queue, for any capacity, number  *)
(* of items and number of faults: types, the account of every item, the    *)
(* policy, and the abstract queue it implements.  The runtime registry and *)
(* its inventory, for any number of gateways, aircraft, updates and        *)
(* faults: types, the owner of an aircraft, aircraft that move, and the    *)
(* rows the queued snapshots lead to.                                      *)
(***************************************************************************)
EXTENDS RetryQueue, SequenceTheorems, Topology, TLAPS

-------------------------------------------------------------------------------
(* The retry queue *)

\* A queue without one of its items.
LEMMA WithoutType ==
  ASSUME NEW q \in Seq(Items), NEW i \in 1 .. Len(q)
  PROVE  /\ Without(q, i) \in Seq(Items)
         /\ Len(Without(q, i)) = Len(q) - 1
         /\ \A j \in 1 .. Len(q) - 1 : Without(q, i)[j] = IF j < i THEN q[j] ELSE q[j + 1]
<1> DEFINE n == Len(q) - 1
<1>1. n \in Nat /\ Len(q) = n + 1
  OBVIOUS
<1>2. \A j \in 1 .. n : Without(q, i)[j] = IF j < i THEN q[j] ELSE q[j + 1]
  BY DEF Without
<1>3. \A j \in 1 .. n : Without(q, i)[j] \in Items
  BY <1>1, <1>2
<1>4. Without(q, i) \in Seq(Items)
  BY <1>1, <1>3 DEF Without
<1>5. Len(Without(q, i)) = n
  BY <1>1 DEF Without
<1> QED
  BY <1>2, <1>4, <1>5

\* The index that a full queue drops is not the one in flight.
LEMMA DropIndexRange ==
  ASSUME TypeOK, DropIndex <= Len(items)
  PROVE  DropIndex \in 1 .. Len(items) /\ (active => DropIndex # 1)
  BY DEF DropIndex, TypeOK

\* What enqueue does to the backlog, in its three outcomes.
LEMMA EnqueueCases ==
  ASSUME TypeOK, Enqueue
  PROVE  LET x == enqueued + 1
         IN  /\ x \in Items /\ enqueued' = x
             /\ \/ Refuse(x) /\ (stage # "open" \/ Full)
                \/ stage = "open" /\ ~Full /\ Push(x, items) /\ UNCHANGED displaced
                \/ /\ stage = "open" /\ Full
                   /\ DropIndex \in 1 .. Len(items)
                   /\ active => DropIndex # 1
                   /\ displaced' = displaced \cup {items[DropIndex]}
                   /\ Push(x, Without(items, DropIndex))
<1>1. enqueued + 1 \in Items /\ enqueued' = enqueued + 1
  BY QueueAssumption DEF QueueAssumption, Enqueue, TypeOK, Items
<1>2. \/ stage # "open" /\ Refuse(enqueued + 1)
      \/ stage = "open" /\ ~Full /\ Push(enqueued + 1, items) /\ UNCHANGED displaced
      \/ stage = "open" /\ Full /\ Overflow(enqueued + 1)
  BY <1>1 DEF Enqueue
<1> QED
  BY <1>1, <1>2, DropIndexRange DEF Overflow

\* Every call and every settled write of the queue leaves its variables in range.
LEMMA TypeStep ==
  ASSUME TypeOK, [Next]_vars
  PROVE  TypeOK'
<1>1. CASE Enqueue
  <2>1. PICK x \in Items :
          /\ enqueued' = x
          /\ \/ Refuse(x)
             \/ Push(x, items) /\ UNCHANGED displaced
             \/ /\ DropIndex \in 1 .. Len(items)
                /\ displaced' = displaced \cup {items[DropIndex]}
                /\ Push(x, Without(items, DropIndex))
    BY <1>1, EnqueueCases
  <2>2. CASE Refuse(x)
    BY <1>1, <2>1, <2>2 DEF Refuse, Enqueue, TypeOK, Items
  <2>3. CASE Push(x, items) /\ UNCHANGED displaced
    BY <1>1, <2>1, <2>3 DEF Push, Enqueue, TypeOK, Items
  <2>4. CASE /\ DropIndex \in 1 .. Len(items)
             /\ displaced' = displaced \cup {items[DropIndex]}
             /\ Push(x, Without(items, DropIndex))
    <3>1. Without(items, DropIndex) \in Seq(Items)
      BY <2>4, WithoutType DEF TypeOK
    <3>2. items' \in Seq(Items) /\ items' # <<>> /\ active' = TRUE /\ UNCHANGED rejected
      BY <2>4, <3>1 DEF Push
    <3>3. displaced' \subseteq Items
      BY <2>4 DEF TypeOK
    <3> QED
      BY <1>1, <2>1, <3>2, <3>3 DEF Enqueue, TypeOK, Items
  <2> QED
    BY <2>1, <2>2, <2>3, <2>4
<1>2. CASE Kick
  BY <1>2 DEF Kick, Waiting, TypeOK
<1>3. CASE Succeed
  <2>1. Head(items) \in Items /\ Tail(items) \in Seq(Items)
    BY <1>3 DEF Succeed, TypeOK
  <2>2. active' = (Tail(items) # <<>>)
    BY <1>3 DEF Succeed, Continues
  <2>3. log' \in Seq(Items) /\ settled' \subseteq Items /\ items' \in Seq(Items)
    BY <1>3, <2>1 DEF Succeed, TypeOK
  <2>4. active' \in BOOLEAN /\ (active' => items' # <<>>)
    BY <1>3, <2>2, Zenon DEF Succeed
  <2> QED
    BY <1>3, <2>3, <2>4 DEF Succeed, TypeOK
<1>4. ASSUME NEW effect \in BOOLEAN, Fail(effect) PROVE TypeOK'
  <2>1. log' \in Seq(Items)
    BY <1>4 DEF Fail, TypeOK
  <2>2. faults' \in 0 .. MaxFaults
    BY <1>4, QueueAssumption DEF QueueAssumption, Fail, TypeOK
  <2> QED
    BY <1>4, <2>1, <2>2 DEF Fail, AfterFailure, TypeOK
<1>5. CASE Shutdown
  <2>1. active' = (items # <<>>) /\ UNCHANGED items
    BY <1>5 DEF Shutdown, Continues
  <2>2. active' \in BOOLEAN /\ (active' => items' # <<>>)
    BY <2>1, Zenon
  <2> QED
    BY <1>5, <2>2 DEF Shutdown, TypeOK
<1>6. CASE UNCHANGED vars
  BY <1>6 DEF vars, TypeOK
<1> QED
  BY <1>1, <1>2, <1>3, <1>4, <1>5, <1>6 DEF Next, Settle

\* The queue's variables keep their types, and only an item of the backlog is in flight.
THEOREM TypeCorrect == Spec => []TypeOK
<1>1. ASSUME Init PROVE TypeOK
  <2>1. items \in Seq(Items) /\ log \in Seq(Items)
    BY <1>1 DEF Init
  <2>2. enqueued \in 0 .. MaxItems /\ faults \in 0 .. MaxFaults
    BY <1>1, QueueAssumption DEF QueueAssumption, Init
  <2> QED
    BY <1>1, <2>1, <2>2 DEF Init, TypeOK
<1> QED
  BY <1>1, TypeStep, PTL DEF Spec

-------------------------------------------------------------------------------

\* One step of the queue is one step of the abstract queue, or none.
LEMMA PromiseStep ==
  ASSUME TypeOK, [Next]_vars
  PROVE  [Promise!Next]_(Promise!vars)
<1> USE DEF Promise!Next, Promise!vars
<1>1. CASE Enqueue
  <2>1. UNCHANGED log
    BY <1>1 DEF Enqueue
  <2>2. PICK x \in Items :
          \/ Refuse(x)
          \/ Push(x, items)
          \/ /\ DropIndex \in 1 .. Len(items)
             /\ active => DropIndex # 1
             /\ Push(x, Without(items, DropIndex))
    BY <1>1, EnqueueCases
  <2>3. CASE Refuse(x)
    BY <2>1, <2>3 DEF Refuse
  <2>4. CASE Push(x, items)
    <3>1. Promise!Accept(x)
      BY <2>1, <2>4 DEF Push, Promise!Accept
    <3> QED
      BY <3>1
  <2>5. CASE /\ DropIndex \in 1 .. Len(items)
             /\ active => DropIndex # 1
             /\ Push(x, Without(items, DropIndex))
    <3>1. Without(items, DropIndex) = Promise!Without(items, DropIndex)
      BY DEF Without, Promise!Without
    <3>2. Promise!Accept(x)
      BY <2>1, <2>5, <3>1 DEF Push, Promise!Accept
    <3> QED
      BY <3>2
  <2> QED
    BY <2>2, <2>3, <2>4, <2>5
<1>2. CASE Kick
  BY <1>2 DEF Kick, Waiting, Promise!Begin
<1>3. CASE Succeed
  <2>1. active' \in BOOLEAN
    BY <1>3, TypeStep DEF TypeOK, Next, Settle
  <2> QED
    BY <1>3, <2>1 DEF Succeed, Promise!Done, Promise!Write
<1>4. ASSUME NEW effect \in BOOLEAN, Fail(effect) PROVE Promise!Fail
  BY <1>4 DEF Fail, AfterFailure, Promise!Fail, Promise!Write
<1>5. CASE Shutdown
  <2>1. active' = (items # <<>>) /\ UNCHANGED <<items, log>>
    BY <1>5 DEF Shutdown, Continues
  <2>2. CASE items = <<>>
    BY <2>1, <2>2 DEF TypeOK
  <2>3. CASE items # <<>> /\ active
    BY <2>1, <2>3 DEF TypeOK
  <2>4. CASE items # <<>> /\ ~active
    BY <2>1, <2>4 DEF Promise!Begin
  <2> QED
    BY <2>2, <2>3, <2>4
<1>6. CASE UNCHANGED vars
  BY <1>6 DEF vars
<1> QED
  BY <1>1, <1>2, <1>3, <1>4, <1>5, <1>6 DEF Next, Settle

\* Whatever the drop policy and the faults, the queue implements the at-least-once
\* FIFO: the item in flight is never displaced, and none overtakes another.
THEOREM KeepsItsPromise == Spec => IsAtLeastOnceFifo
<1>1. Init => Promise!Init
  BY DEF Init, Promise!Init
<1> QED
  BY <1>1, PromiseStep, TypeCorrect, PTL DEF Spec, IsAtLeastOnceFifo, Promise!Spec

-------------------------------------------------------------------------------

\* The limit of a bounded queue, and the promise of the retaining one.
LEMMA PolicyStep ==
  ASSUME TypeOK, PolicyKept, [Next]_vars
  PROVE  PolicyKept'
<1> USE DEF PolicyKept
<1>1. CASE Enqueue
  <2>1. UNCHANGED <<policy, capacity, stage>> /\ Len(items) \in Nat /\ capacity \in Nat
    BY <1>1, QueueAssumption DEF QueueAssumption, Enqueue, TypeOK
  <2>2. PICK x \in Items :
          \/ Refuse(x) /\ (stage # "open" \/ Full)
          \/ ~Full /\ Push(x, items) /\ UNCHANGED displaced
          \/ /\ Full
             /\ DropIndex \in 1 .. Len(items)
             /\ Push(x, Without(items, DropIndex))
    BY <1>1, EnqueueCases
  <2>3. CASE Refuse(x) /\ (stage # "open" \/ Full)
    BY <2>1, <2>3 DEF Refuse, Full
  <2>4. CASE ~Full /\ Push(x, items) /\ UNCHANGED displaced
    <3>1. Len(items') = Len(items) + 1 /\ UNCHANGED <<rejected, displaced>>
      BY <2>4 DEF Push, TypeOK
    <3> QED
      BY <2>1, <2>4, <3>1 DEF Full
  <2>5. CASE /\ Full
             /\ DropIndex \in 1 .. Len(items)
             /\ Push(x, Without(items, DropIndex))
    <3>1. Without(items, DropIndex) \in Seq(Items)
          /\ Len(Without(items, DropIndex)) = Len(items) - 1
      BY <2>5, WithoutType DEF TypeOK
    <3>2. Len(items') = Len(items)
      BY <2>1, <2>5, <3>1 DEF Push
    <3> QED
      BY <2>1, <2>5, <3>2 DEF Full
  <2> QED
    BY <2>2, <2>3, <2>4, <2>5
<1>2. CASE Kick
  BY <1>2 DEF Kick
<1>3. CASE Succeed
  <2>1. Len(items') = Len(items) - 1 /\ Len(items) \in Nat /\ capacity \in Nat
    BY <1>3, QueueAssumption DEF QueueAssumption, Succeed, TypeOK
  <2> QED
    BY <1>3, <2>1 DEF Succeed
<1>4. ASSUME NEW effect \in BOOLEAN, Fail(effect) PROVE PolicyKept'
  BY <1>4 DEF Fail, AfterFailure
<1>5. CASE Shutdown
  BY <1>5 DEF Shutdown
<1>6. CASE UNCHANGED vars
  BY <1>6 DEF vars
<1> QED
  BY <1>1, <1>2, <1>3, <1>4, <1>5, <1>6 DEF Next, Settle

\* A bounded backlog stays within its capacity; the retaining one drops nothing.
THEOREM PolicyIsKept == Spec => []PolicyKept
<1>1. ASSUME Init PROVE PolicyKept
  <2>1. capacity \in Nat /\ Len(items) = 0
    BY <1>1, QueueAssumption DEF QueueAssumption, Init
  <2> QED
    BY <1>1, <2>1 DEF Init, PolicyKept
<1> QED
  BY <1>1, PolicyStep, TypeCorrect, PTL DEF Spec

-------------------------------------------------------------------------------

Elements(q) == {q[i] : i \in 1 .. Len(q)}
Sorted(q)   == \A i, j \in 1 .. Len(q) : i < j => q[i] < q[j]

\* A new item, larger than all others, goes to the end.
LEMMA AppendSorted ==
  ASSUME NEW q \in Seq(Items), NEW x \in Items, Sorted(q), \A y \in Elements(q) : y < x
  PROVE  Sorted(Append(q, x)) /\ Elements(Append(q, x)) = Elements(q) \cup {x}
<1> DEFINE a == Append(q, x)
<1>1. /\ Len(q) \in Nat /\ Len(a) = Len(q) + 1
      /\ a[Len(a)] = x
      /\ \A i \in 1 .. Len(q) : a[i] = q[i] /\ q[i] < x
  BY DEF Elements
<1>2. \A i \in 1 .. Len(a) : i \in 1 .. Len(q) \/ i = Len(a)
  BY <1>1
<1> HIDE DEF a
<1>3. Sorted(a)
  BY <1>1, <1>2 DEF Sorted
<1>4. Elements(a) = Elements(q) \cup {x}
  <2>1. \A i \in 1 .. Len(q) : i \in 1 .. Len(a)
    BY <1>1
  <2>2. Len(a) \in 1 .. Len(a)
    BY <1>1
  <2> QED
    BY <1>1, <1>2, <2>1, <2>2 DEF Elements
<1> QED
  BY <1>3, <1>4 DEF a

\* Dropping an item leaves the others, in order.
LEMMA WithoutSorted ==
  ASSUME NEW q \in Seq(Items), NEW i \in 1 .. Len(q), Sorted(q)
  PROVE  /\ Sorted(Without(q, i))
         /\ Elements(Without(q, i)) = Elements(q) \ {q[i]}
<1> DEFINE w == Without(q, i)
           n == Len(q) - 1
<1>1. n \in Nat /\ Len(q) = n + 1 /\ Len(w) = n
      /\ \A j \in 1 .. n : w[j] = IF j < i THEN q[j] ELSE q[j + 1]
  BY WithoutType
<1>2. \A j \in 1 .. Len(q) : q[j] \in Nat
  <2>1. \A j \in 1 .. Len(q) : q[j] \in Items
    OBVIOUS
  <2>2. Items \subseteq Nat
    BY DEF Items
  <2> QED
    BY <2>1, <2>2
<1> HIDE DEF w
<1>3. Sorted(w)
  <2> SUFFICES ASSUME NEW j \in 1 .. n, NEW k \in 1 .. n, j < k
               PROVE  w[j] < w[k]
    BY <1>1 DEF Sorted
  <2>1. j + 1 \in 1 .. Len(q) /\ k + 1 \in 1 .. Len(q) /\ j \in 1 .. Len(q) /\ k \in 1 .. Len(q)
    BY <1>1
  <2>2. q[j] < q[k] /\ q[j + 1] < q[k + 1] /\ q[j] < q[k + 1]
    BY <2>1 DEF Sorted
  <2> QED
    BY <1>1, <2>2
<1>4. ASSUME NEW j \in 1 .. n
      PROVE  w[j] \in Elements(q) \ {q[i]}
  <2>1. PICK k \in 1 .. Len(q) : k # i /\ w[j] = q[k]
    BY <1>1
  <2>2. q[k] # q[i]
    <3>1. k < i \/ i < k
      BY <2>1
    <3> QED
      BY <1>2, <2>1, <3>1 DEF Sorted
  <2> QED
    BY <2>1, <2>2 DEF Elements
<1>5. ASSUME NEW k \in 1 .. Len(q), q[k] # q[i]
      PROVE  \E j \in 1 .. n : w[j] = q[k]
  <2>1. CASE k < i
    <3>1. k \in 1 .. n /\ w[k] = q[k]
      BY <1>1, <2>1
    <3> QED
      BY <3>1
  <2>2. CASE i < k
    <3>1. k - 1 \in 1 .. n /\ w[k - 1] = q[k]
      BY <1>1, <2>2
    <3> QED
      BY <3>1
  <2> QED
    BY <1>5, <2>1, <2>2
<1> QED
  BY <1>1, <1>3, <1>4, <1>5 DEF Elements, w

\* The head has been written and leaves the others, in order.
LEMMA TailSorted ==
  ASSUME NEW q \in Seq(Items), q # <<>>, Sorted(q)
  PROVE  Sorted(Tail(q)) /\ Elements(Tail(q)) = Elements(q) \ {Head(q)} /\ Head(q) \in Elements(q)
<1>1. 1 \in 1 .. Len(q) /\ Head(q) = q[1]
  OBVIOUS
<1>2. Tail(q) = Without(q, 1)
  <2>1. /\ Tail(q) \in Seq(Items) /\ Len(Tail(q)) = Len(q) - 1
        /\ \A j \in 1 .. Len(Tail(q)) : Tail(q)[j] = q[j + 1]
    BY HeadTailProperties
  <2>2. /\ Without(q, 1) \in Seq(Items) /\ Len(Without(q, 1)) = Len(q) - 1
        /\ \A j \in 1 .. Len(q) - 1 : Without(q, 1)[j] = IF j < 1 THEN q[j] ELSE q[j + 1]
    BY <1>1, WithoutType
  <2>3. \A j \in 1 .. Len(Tail(q)) : Tail(q)[j] = Without(q, 1)[j]
    BY <2>1, <2>2
  <2> HIDE DEF Without
  <2> QED
    BY <2>1, <2>2, <2>3, SeqEqual
<1>3. Sorted(Without(q, 1)) /\ Elements(Without(q, 1)) = Elements(q) \ {q[1]}
  BY <1>1, WithoutSorted
<1>4. q[1] \in Elements(q)
  BY <1>1 DEF Elements
<1> QED
  BY <1>1, <1>2, <1>3, <1>4

\* An item that is dropped or written leaves the backlog; a new one, larger than all
\* that are accounted for, is refused or enters it.
LEMMA AccountingStep ==
  ASSUME TypeOK, Accounting, [Next]_vars
  PROVE  Accounting'
<1> DEFINE Accounted(n, r, d, s, q) ==
      /\ 1 .. n = r \cup d \cup s \cup Elements(q)
      /\ r \cap (d \cup s \cup Elements(q)) = {}
      /\ d \cap (s \cup Elements(q)) = {}
      /\ s \cap Elements(q) = {}
      /\ Sorted(q)
<1>1. /\ Accounted(enqueued, rejected, displaced, settled, items)
      /\ stage = "closed" => items = <<>>
  BY DEF Accounting, InBacklog, Elements, Sorted
<1> SUFFICES /\ Accounted(enqueued', rejected', displaced', settled', items')
             /\ stage' = "closed" => items' = <<>>
  BY DEF Accounting, InBacklog, Elements, Sorted
<1>2. CASE Enqueue
  <2>1. PICK x \in Items :
          /\ x = enqueued + 1 /\ enqueued' = x
          /\ \/ Refuse(x)
             \/ stage = "open" /\ Push(x, items) /\ UNCHANGED displaced
             \/ /\ stage = "open"
                /\ DropIndex \in 1 .. Len(items)
                /\ displaced' = displaced \cup {items[DropIndex]}
                /\ Push(x, Without(items, DropIndex))
    BY <1>2, EnqueueCases
  <2>2. /\ x \notin 1 .. enqueued /\ 1 .. x = (1 .. enqueued) \cup {x}
        /\ \A y \in 1 .. enqueued : y < x
        /\ UNCHANGED <<stage, settled>>
    BY <1>2, <2>1 DEF Enqueue, TypeOK
  <2>3. CASE Refuse(x)
    <3>1. items' = items /\ displaced' = displaced /\ rejected' = rejected \cup {x}
      BY <2>3 DEF Refuse
    <3> QED
      BY <1>1, <2>1, <2>2, <3>1
  <2>4. CASE stage = "open" /\ Push(x, items) /\ UNCHANGED displaced
    <3>1. \A y \in Elements(items) : y < x
      BY <1>1, <2>2
    <3>2. Sorted(items') /\ Elements(items') = Elements(items) \cup {x} /\ UNCHANGED rejected
      BY <1>1, <2>4, <3>1, AppendSorted DEF Push, TypeOK
    <3> QED
      BY <1>1, <2>1, <2>2, <2>4, <3>2
  <2>5. CASE /\ stage = "open"
             /\ DropIndex \in 1 .. Len(items)
             /\ displaced' = displaced \cup {items[DropIndex]}
             /\ Push(x, Without(items, DropIndex))
    <3> DEFINE y == items[DropIndex]
               w == Without(items, DropIndex)
    <3>1. w \in Seq(Items)
      BY <2>5, WithoutType DEF TypeOK
    <3>2. Sorted(w) /\ Elements(w) = Elements(items) \ {y}
      BY <1>1, <2>5, WithoutSorted DEF TypeOK
    <3>3. y \in Elements(items) /\ displaced' = displaced \cup {y}
      BY <2>5 DEF Elements
    <3>4. items' = Append(w, x) /\ UNCHANGED rejected
      BY <2>5 DEF Push
    <3> HIDE DEF w, y
    <3>5. \A z \in Elements(w) : z < x
      BY <1>1, <2>2, <3>2
    <3>6. Sorted(items') /\ Elements(items') = Elements(w) \cup {x}
      BY <3>1, <3>2, <3>4, <3>5, AppendSorted
    <3> QED
      BY <1>1, <2>1, <2>2, <2>5, <3>2, <3>3, <3>4, <3>6
  <2> QED
    BY <2>1, <2>3, <2>4, <2>5
<1>3. CASE Kick
  BY <1>1, <1>3 DEF Kick
<1>4. CASE Succeed
  <2>1. /\ items # <<>> /\ items' = Tail(items)
        /\ settled' = settled \cup {Head(items)}
        /\ UNCHANGED <<enqueued, rejected, displaced>>
    BY <1>4 DEF Succeed, TypeOK
  <2>2. /\ Sorted(items')
        /\ Elements(items') = Elements(items) \ {Head(items)}
        /\ Head(items) \in Elements(items)
    BY <1>1, <2>1, TailSorted DEF TypeOK
  <2>3. stage' = "closed" => items' = <<>>
    BY <1>1, <1>4, <2>1 DEF Succeed, Continues
  <2> QED
    BY <1>1, <2>1, <2>2, <2>3
<1>5. ASSUME NEW effect \in BOOLEAN, Fail(effect)
      PROVE  /\ Accounted(enqueued', rejected', displaced', settled', items')
             /\ stage' = "closed" => items' = <<>>
  BY <1>1, <1>5 DEF Fail, AfterFailure
<1>6. CASE Shutdown
  BY <1>1, <1>6 DEF Shutdown, Drained
<1>7. CASE UNCHANGED vars
  BY <1>1, <1>7 DEF vars
<1> QED
  BY <1>2, <1>3, <1>4, <1>5, <1>6, <1>7 DEF Next, Settle

\* No item is lost: refused, dropped, written or waiting, and nothing waits behind a
\* shutdown that reports success.
THEOREM EveryItemAccounted == Spec => []Accounting
<1>1. Init => Accounting
  BY DEF Init, Accounting, InBacklog
<1> QED
  BY <1>1, AccountingStep, TypeCorrect, PTL DEF Spec

-------------------------------------------------------------------------------
(* The registry and its inventory *)

\* Dropping the oldest snapshot that is not being saved leaves a queue of snapshots.
LEMMA KeptIsQueue ==
  ASSUME TopologyTypeOK, Len(queue) \in Nat \ {0}
  PROVE  Kept \in Seq(Snapshots)
<1> DEFINE n == Len(queue) - 1
<1>1. n \in Nat
  OBVIOUS
<1>2. \A i \in 1 .. n : Kept[i] \in Snapshots
  BY <1>1, SMTT(30) DEF Kept, TopologyTypeOK, Displaced
<1>3. Kept = [i \in 1 .. n |-> Kept[i]]
  BY DEF Kept
<1> QED
  BY <1>1, <1>2, <1>3 DEF Kept

\* A device's owner is one of the gateways or nobody, whatever is reported.
LEMMA NextOwnerType ==
  ASSUME TopologyTypeOK, NEW g \in Gateways, NEW devices \in SUBSET Devices
  PROVE  NextOwner(g, devices) \in [Devices -> Gateways \cup {None}]
  BY DEF NextOwner, TopologyTypeOK

\* The rows after a snapshot has been saved are rows of the table.
LEMMA SavedType ==
  ASSUME NEW table \in [Devices -> Gateways \cup {None}], NEW s \in Snapshots
  PROVE  Saved(table, s) \in [Devices -> Gateways \cup {None}]
  BY DEF Saved, Deactivated, Snapshots

\* A snapshot enters the queue, or the queue is full of the one being saved.
LEMMA PersistType ==
  ASSUME TopologyTypeOK, NEW s \in Snapshots, Persist(s)
  PROVE  /\ queue' \in Seq(Snapshots)
         /\ saving' \in BOOLEAN
         /\ saving' => queue' # <<>>
         /\ gone' \in BOOLEAN
<1>1. CASE Len(queue) < Capacity
  BY <1>1 DEF Persist, TopologyTypeOK
<1>2. CASE ~(Len(queue) < Capacity)
  <2>1. Len(queue) \in Nat \ {0}
    BY <1>2, BoundsAssumption DEF BoundsAssumption, TopologyTypeOK
  <2>2. Kept \in Seq(Snapshots)
    BY <2>1, KeptIsQueue
  <2>3. CASE Displaced <= Len(queue)
    <3>1. queue' = Append(Kept, s) /\ saving' = TRUE /\ gone' = TRUE
      BY <1>2, <2>3 DEF Persist
    <3> HIDE DEF Kept
    <3> QED
      BY <2>2, <3>1
  <2>4. CASE ~(Displaced <= Len(queue))
    BY <1>2, <2>4 DEF Persist, TopologyTypeOK
  <2> QED
    BY <2>3, <2>4
<1> QED
  BY <1>1, <1>2

\* The variables of registry, queue and tables keep their types.
THEOREM TopologyTypeCorrect == TopologySpec => []TopologyTypeOK
<1>1. ASSUME TopologyInit PROVE TopologyTypeOK
  <2>1. queue \in Seq(Snapshots)
    BY <1>1 DEF TopologyInit
  <2>2. reported \in [Gateways -> SUBSET Devices] /\ owner \in [Devices -> Gateways \cup {None}]
    BY <1>1 DEF TopologyInit
  <2>3. updates \in 0 .. MaxUpdates /\ failures \in 0 .. MaxFailures
    BY <1>1, BoundsAssumption DEF BoundsAssumption, TopologyInit
  <2> QED
    BY <1>1, <2>1, <2>2, <2>3 DEF TopologyInit, TopologyTypeOK
<1>2. TopologyTypeOK /\ [TopologyNext]_topologyVars => TopologyTypeOK'
  <2> SUFFICES ASSUME TopologyTypeOK, [TopologyNext]_topologyVars PROVE TopologyTypeOK'
    OBVIOUS
  <2> USE BoundsAssumption DEF BoundsAssumption
  <2>1. ASSUME NEW devices \in SUBSET Devices, NEW g \in Gateways, Update(g, devices)
        PROVE  TopologyTypeOK'
    <3>1. [gateway |-> g, devices |-> devices] \in Snapshots
      BY DEF Snapshots
    <3>2. /\ queue' \in Seq(Snapshots) /\ saving' \in BOOLEAN
          /\ saving' => queue' # <<>>
          /\ gone' \in BOOLEAN
      BY <2>1, <3>1, PersistType DEF Update
    <3>3. owner' \in [Devices -> Gateways \cup {None}]
      BY <2>1, NextOwnerType DEF Update
    <3>4. /\ heard' \subseteq Gateways
          /\ reported' \in [Gateways -> SUBSET Devices]
          /\ known' \subseteq Gateways \cup Devices
          /\ online' \subseteq known'
          /\ updates' \in 0 .. MaxUpdates
      BY <2>1 DEF Update, TopologyTypeOK
    <3> QED
      BY <2>1, <3>2, <3>3, <3>4 DEF Update, TopologyTypeOK, store
  <2>2. ASSUME NEW devices \in SUBSET Devices, NEW k \in Docks, DockUpdate(k, devices)
        PROVE  TopologyTypeOK'
    BY <2>2 DEF DockUpdate, TopologyTypeOK, registry, presence, store
  <2>3. ASSUME NEW d \in Devices, Telemetry(d) PROVE TopologyTypeOK'
    BY <2>3 DEF Telemetry, TopologyTypeOK, registry, store
  <2>4. CASE Connect
    BY <2>4 DEF Connect, TopologyTypeOK, registry, presence, store
  <2>5. CASE Disconnect
    BY <2>5 DEF Disconnect, Offline, TopologyTypeOK, registry, store
  <2>6. ASSUME saving
        PROVE  /\ Saved(listed, Head(queue)) \in [Devices -> Gateways \cup {None}]
               /\ Tail(queue) \in Seq(Snapshots)
    <3>1. Head(queue) \in Snapshots /\ Tail(queue) \in Seq(Snapshots)
      BY <2>6 DEF TopologyTypeOK
    <3> QED
      BY <3>1, SavedType DEF TopologyTypeOK
  <2>7. CASE Save
    BY <2>6, <2>7 DEF Save, TopologyTypeOK, registry, presence
  <2>8. ASSUME NEW c \in BOOLEAN, SaveFails(c) PROVE TopologyTypeOK'
    <3>1. listed' \in [Devices -> Gateways \cup {None}]
      BY <2>6, <2>8 DEF SaveFails, TopologyTypeOK
    <3>2. UNCHANGED <<linked, registry, presence, disabled, queue, gone, updates>>
      BY <2>8 DEF SaveFails
    <3>3. saving' = FALSE /\ failures' \in 0 .. MaxFailures
      BY <2>8 DEF SaveFails, TopologyTypeOK
    <3> QED
      BY <3>1, <3>2, <3>3 DEF TopologyTypeOK, registry, presence
  <2>9. CASE RetryTick
    BY <2>9 DEF RetryTick, Unsaved, TopologyTypeOK, registry, presence, store
  <2>10. CASE UNCHANGED topologyVars
    BY <2>10 DEF topologyVars, TopologyTypeOK, registry, presence, store
  <2> QED
    BY <2>1, <2>2, <2>3, <2>4, <2>5, <2>7, <2>8, <2>9, <2>10 DEF TopologyNext, Messages
<1> QED
  BY <1>1, <1>2, PTL DEF TopologySpec

-------------------------------------------------------------------------------

\* What one report does to the owners: it keeps every owner in step with the last
\* report of its gateway.
LEMMA UpdateKeepsOwners ==
  ASSUME TopologyTypeOK, OwnerReports, NEW g \in Gateways, NEW devices \in SUBSET Devices,
         Update(g, devices)
  PROVE  OwnerReports'
<1> SUFFICES ASSUME NEW d \in Devices, owner'[d] # None
             PROVE  owner'[d] \in heard' /\ d \in reported'[owner'[d]]
  BY DEF OwnerReports
<1> USE NamesAssumption DEF NamesAssumption, Update, NextOwner, Removed, TopologyTypeOK
<1>1. CASE d \in devices
  <2>1. owner'[d] = g
    BY <1>1
  <2> QED
    BY <1>1, <2>1
<1>2. CASE d \notin devices
  <2>1. owner'[d] = owner[d] /\ ~(d \in Removed(g, devices) /\ owner[d] = g)
    BY <1>2
  <2>2. owner[d] \in heard /\ d \in reported[owner[d]]
    BY <2>1 DEF OwnerReports
  <2>3. owner[d] # g
    BY <1>2, <2>1, <2>2
  <2> QED
    BY <2>1, <2>2, <2>3
<1> QED
  BY <1>1, <1>2

\* Every other step leaves the registry alone.
LEMMA OthersKeepOwners ==
  ASSUME [TopologyNext]_topologyVars,
         ~ \E g \in Gateways, devices \in SUBSET Devices : Update(g, devices)
  PROVE  UNCHANGED registry
  BY DEF TopologyNext, Messages, DockUpdate, Telemetry, Connect, Disconnect, Save, SaveFails, RetryTick, topologyVars,
         registry

\* Only reports change owners, and they keep them in step.
LEMMA OwnerStep ==
  ASSUME TopologyTypeOK, OwnerReports, [TopologyNext]_topologyVars
  PROVE  OwnerReports'
<1>1. CASE \E g \in Gateways, devices \in SUBSET Devices : Update(g, devices)
  BY <1>1, UpdateKeepsOwners
<1>2. CASE ~ \E g \in Gateways, devices \in SUBSET Devices : Update(g, devices)
  <2>1. UNCHANGED registry
    BY <1>2, OthersKeepOwners
  <2> QED
    BY <2>1 DEF registry, OwnerReports
<1> QED
  BY <1>1, <1>2

\* The gateway that a device is looked up at has the device in its last report.
THEOREM OwnersReport == TopologySpec => []OwnerReports
<1>1. TopologyInit => OwnerReports
  BY DEF TopologyInit, OwnerReports
<1> QED
  BY <1>1, OwnerStep, TopologyTypeCorrect, PTL DEF TopologySpec

\* What one step does to an owner that is lost.
LEMMA MovedStep ==
  ASSUME TopologyTypeOK, [TopologyNext]_topologyVars, NEW d \in Devices, owner'[d] # owner[d], owner[d] # None
  PROVE  owner'[d] # None \/ d \notin reported'[owner[d]]
<1>1. CASE \E g \in Gateways, devices \in SUBSET Devices : Update(g, devices)
  <2>1. PICK g \in Gateways, devices \in SUBSET Devices : Update(g, devices)
    BY <1>1
  <2>2. CASE d \in devices
    BY <2>1, <2>2, NamesAssumption DEF NamesAssumption, Update, NextOwner, TopologyTypeOK
  <2>3. CASE d \notin devices
    BY <2>1, <2>3 DEF Update, NextOwner, Removed, TopologyTypeOK
  <2> QED
    BY <2>2, <2>3
<1>2. CASE ~ \E g \in Gateways, devices \in SUBSET Devices : Update(g, devices)
  BY <1>2, OthersKeepOwners DEF registry
<1> QED
  BY <1>1, <1>2

\* A device that another gateway has reported is not lost by the old one's report.
THEOREM MovedDevicesStay == TopologySpec => MovedStays
<1>1. TopologyTypeOK /\ [TopologyNext]_topologyVars =>
        [ \A d \in Devices :
            owner'[d] # owner[d] /\ owner[d] # None =>
              owner'[d] # None \/ d \notin reported'[owner[d]] ]_topologyVars
  BY MovedStep
<1> QED
  BY <1>1, TopologyTypeCorrect, PTL DEF TopologySpec, MovedStays

-------------------------------------------------------------------------------
(* The inventory *)

\* Nothing behind position i takes the device from the gateway.
StaysListed(q, i, d, g) == \A j \in 1 .. Len(q) : i < j => ~Unlists(q[j], d, g)

\* The snapshot at i lists the device at the gateway for good.
Lists(q, i, d, g) == q[i].gateway = g /\ d \in q[i].devices /\ StaysListed(q, i, d, g)

\* EndsListed, of any queue and table.
Leads(q, table, d, g) ==
  \/ \E i \in 1 .. Len(q) : Lists(q, i, d, g)
  \/ table[d] = g /\ StaysListed(q, 0, d, g)

\* What the queue leads to, with the queue and the table as parameters.
LEMMA EndsListedLeads ==
  ASSUME NEW d \in Devices, NEW g \in Gateways
  PROVE  /\ Len(queue) \in Nat => (EndsListed(d, g) <=> Leads(queue, listed, d, g))
         /\ Len(queue') \in Nat => (EndsListed(d, g)' <=> Leads(queue', listed', d, g))
<1>1. ASSUME NEW q, Len(q) \in Nat, NEW i \in 0 .. Len(q)
      PROVE  (\A j \in i + 1 .. Len(q) : ~Unlists(q[j], d, g)) <=> StaysListed(q, i, d, g)
  BY <1>1 DEF StaysListed
<1>2. ASSUME NEW q, Len(q) \in Nat, NEW table
      PROVE  Leads(q, table, d, g) <=>
               \/ \E i \in 1 .. Len(q) :
                    /\ q[i].gateway = g /\ d \in q[i].devices
                    /\ \A j \in i + 1 .. Len(q) : ~Unlists(q[j], d, g)
               \/ table[d] = g /\ \A j \in 1 .. Len(q) : ~Unlists(q[j], d, g)
  <2>1. StaysListed(q, 0, d, g) <=> \A j \in 1 .. Len(q) : ~Unlists(q[j], d, g)
    BY <1>2 DEF StaysListed
  <2>2. \A i \in 1 .. Len(q) :
          (\A j \in i + 1 .. Len(q) : ~Unlists(q[j], d, g)) <=> StaysListed(q, i, d, g)
    BY <1>1, <1>2
  <2> QED
    BY <2>1, <2>2 DEF Leads, Lists
<1>3. Len(queue) \in Nat => (EndsListed(d, g) <=> Leads(queue, listed, d, g))
  BY <1>2 DEF EndsListed
<1>4. Len(queue') \in Nat => (EndsListed(d, g)' <=> Leads(queue', listed', d, g))
  BY <1>2 DEF EndsListed, Unlists
<1> QED
  BY <1>3, <1>4

\* Saving a snapshot puts what it says of a device into the table.
LEMMA SavedRow ==
  ASSUME NEW table \in [Devices -> Gateways \cup {None}], NEW s \in Snapshots,
         NEW d \in Devices, NEW g \in Gateways
  PROVE  Saved(table, s)[d] = g <=>
           \/ d \in s.devices /\ s.gateway = g
           \/ table[d] = g /\ ~Unlists(s, d, g)
<1>1. None # g
  BY NamesAssumption
<1>2. Saved(table, s)[d] = IF d \in s.devices THEN s.gateway
                           ELSE IF table[d] = s.gateway THEN None ELSE table[d]
  BY DEF Saved, Deactivated
<1>3. CASE d \in s.devices
  BY <1>2, <1>3 DEF Unlists
<1>4. CASE d \notin s.devices /\ table[d] = s.gateway
  BY <1>1, <1>2, <1>4 DEF Unlists
<1>5. CASE d \notin s.devices /\ table[d] # s.gateway
  BY <1>2, <1>5 DEF Unlists
<1> QED
  BY <1>3, <1>4, <1>5

\* Saving the first snapshot moves what it says from the queue into the table.
LEMMA SaveLeads ==
  ASSUME NEW q \in Seq(Snapshots), q # <<>>, NEW table \in [Devices -> Gateways \cup {None}],
         NEW d \in Devices, NEW g \in Gateways
  PROVE  Leads(Tail(q), Saved(table, Head(q)), d, g) <=> Leads(q, table, d, g)
<1>1. PICK t : t = Tail(q)
  OBVIOUS
<1>2. /\ Len(q) \in Nat /\ Len(t) \in Nat /\ Len(q) = Len(t) + 1
      /\ \A i \in 1 .. Len(t) : i + 1 \in 1 .. Len(q) /\ t[i] = q[i + 1]
      /\ \A i \in 1 .. Len(q) : i # 1 => i - 1 \in 1 .. Len(t) /\ q[i] = t[i - 1]
      /\ 1 \in 1 .. Len(q) /\ Head(q) = q[1] /\ q[1] \in Snapshots
  BY <1>1, HeadTailProperties
<1>3. ASSUME NEW i \in 0 .. Len(t)
      PROVE  StaysListed(t, i, d, g) <=> StaysListed(q, i + 1, d, g)
  <2>1. ASSUME StaysListed(q, i + 1, d, g), NEW j \in 1 .. Len(t), i < j
        PROVE  ~Unlists(t[j], d, g)
    <3>1. j + 1 \in 1 .. Len(q) /\ i + 1 < j + 1 /\ t[j] = q[j + 1]
      BY <1>2, <2>1
    <3> QED
      BY <2>1, <3>1 DEF StaysListed
  <2>2. ASSUME StaysListed(t, i, d, g), NEW j \in 1 .. Len(q), i + 1 < j
        PROVE  ~Unlists(q[j], d, g)
    <3>1. j # 1 /\ j - 1 \in 1 .. Len(t) /\ i < j - 1 /\ q[j] = t[j - 1]
      BY <1>2, <2>2
    <3> QED
      BY <2>2, <3>1 DEF StaysListed
  <2> QED
    BY <2>1, <2>2 DEF StaysListed
<1>4. ASSUME NEW i \in 1 .. Len(t) PROVE Lists(t, i, d, g) <=> Lists(q, i + 1, d, g)
  BY <1>2, <1>3 DEF Lists
<1>5. StaysListed(q, 0, d, g) <=> StaysListed(t, 0, d, g) /\ ~Unlists(q[1], d, g)
  <2>1. \A j \in 1 .. Len(q) : 0 < j /\ (j = 1 \/ 0 + 1 < j)
    BY <1>2
  <2>2. StaysListed(t, 0, d, g) <=> StaysListed(q, 0 + 1, d, g)
    BY <1>2, <1>3
  <2> QED
    BY <1>2, <2>1, <2>2 DEF StaysListed
<1>6. (\E i \in 1 .. Len(q) : Lists(q, i, d, g)) <=>
        Lists(q, 1, d, g) \/ \E i \in 1 .. Len(t) : Lists(t, i, d, g)
  <2>1. ASSUME NEW i \in 1 .. Len(q), i # 1, Lists(q, i, d, g)
        PROVE  \E k \in 1 .. Len(t) : Lists(t, k, d, g)
    <3>1. i - 1 \in 1 .. Len(t) /\ (i - 1) + 1 = i
      BY <1>2, <2>1
    <3> QED
      BY <1>4, <2>1, <3>1
  <2>2. ASSUME NEW i \in 1 .. Len(t), Lists(t, i, d, g)
        PROVE  \E k \in 1 .. Len(q) : Lists(q, k, d, g)
    BY <1>2, <1>4, <2>2
  <2> QED
    BY <1>2, <2>1, <2>2
<1>7. Lists(q, 1, d, g) <=>
        q[1].gateway = g /\ d \in q[1].devices /\ StaysListed(t, 0, d, g)
  <2>1. StaysListed(t, 0, d, g) <=> StaysListed(q, 1, d, g)
    BY <1>2, <1>3
  <2> QED
    BY <2>1 DEF Lists
<1>8. Saved(table, Head(q))[d] = g <=>
        \/ d \in q[1].devices /\ q[1].gateway = g
        \/ table[d] = g /\ ~Unlists(q[1], d, g)
  BY <1>2, SavedRow
<1> QED
  BY <1>1, <1>5, <1>6, <1>7, <1>8 DEF Leads

\* A transaction that committed and is repeated leads to the same rows.
LEMMA RepeatLeads ==
  ASSUME NEW q \in Seq(Snapshots), q # <<>>, NEW table \in [Devices -> Gateways \cup {None}],
         NEW d \in Devices, NEW g \in Gateways
  PROVE  Leads(q, Saved(table, Head(q)), d, g) <=> Leads(q, table, d, g)
<1>1. 1 \in 1 .. Len(q) /\ 0 < 1 /\ Head(q) = q[1] /\ q[1] \in Snapshots
  BY HeadTailProperties
<1>2. StaysListed(q, 0, d, g) => ~Unlists(q[1], d, g)
  BY <1>1 DEF StaysListed
<1>3. ~Unlists(q[1], d, g) => (Saved(table, Head(q))[d] = g <=> table[d] = g)
  BY <1>1, SavedRow DEF Unlists
<1> QED
  BY <1>2, <1>3 DEF Leads

\* A snapshot at the end of the queue is the last word on its gateway and its devices.
LEMMA AppendLeads ==
  ASSUME NEW q \in Seq(Snapshots), NEW s \in Snapshots, NEW table,
         NEW d \in Devices, NEW g \in Gateways
  PROVE  Leads(Append(q, s), table, d, g) <=>
           \/ s.gateway = g /\ d \in s.devices
           \/ Leads(q, table, d, g) /\ ~Unlists(s, d, g)
<1>1. PICK t : t = Append(q, s)
  OBVIOUS
<1>2. PICK n : n = Len(q) + 1
  OBVIOUS
<1>3. /\ Len(q) \in Nat /\ Len(t) = n /\ n \in 1 .. Len(t) /\ t[n] = s
      /\ \A i \in 1 .. Len(q) : i \in 1 .. Len(t) /\ t[i] = q[i] /\ i < n
      /\ \A i \in 1 .. Len(t) : i \in 1 .. Len(q) \/ i = n
      /\ \A i \in 1 .. Len(t) : ~(n < i)
  BY <1>1, <1>2, AppendProperties
<1>4. ASSUME NEW i, i < n
      PROVE  StaysListed(t, i, d, g) <=> StaysListed(q, i, d, g) /\ ~Unlists(s, d, g)
  BY <1>3, <1>4 DEF StaysListed
<1>5. StaysListed(t, n, d, g)
  BY <1>3 DEF StaysListed
<1>6. Lists(t, n, d, g) <=> s.gateway = g /\ d \in s.devices
  BY <1>3, <1>5 DEF Lists
<1>7. ASSUME NEW i \in 1 .. Len(q)
      PROVE  Lists(t, i, d, g) <=> Lists(q, i, d, g) /\ ~Unlists(s, d, g)
  BY <1>3, <1>4 DEF Lists
<1>8. (\E i \in 1 .. Len(t) : Lists(t, i, d, g)) <=>
        \/ s.gateway = g /\ d \in s.devices
        \/ (\E i \in 1 .. Len(q) : Lists(q, i, d, g)) /\ ~Unlists(s, d, g)
  BY <1>3, <1>6, <1>7
<1>9. StaysListed(t, 0, d, g) <=> StaysListed(q, 0, d, g) /\ ~Unlists(s, d, g)
  BY <1>2, <1>3, <1>4
<1> QED
  BY <1>1, <1>8, <1>9 DEF Leads

\* A report is the last word on its gateway and on the devices it names.
LEMMA UpdateLists ==
  ASSUME TopologyTypeOK, TopologyTypeOK', OwnerReports, InventoryFollows,
         NEW g \in Gateways, NEW devices \in SUBSET Devices, Update(g, devices)
  PROVE  InventoryFollows'
<1> SUFFICES ASSUME ~gone', NEW d \in Devices, NEW h \in Gateways
             PROVE  /\ owner'[d] = h => EndsListed(d, h)'
                    /\ h \in heard' /\ EndsListed(d, h)' => owner'[d] = h
  BY DEF InventoryFollows
<1>1. PICK s \in Snapshots : /\ s.gateway = g /\ s.devices = devices
                             /\ s = [gateway |-> g, devices |-> devices]
  BY DEF Snapshots
<1>2. /\ ~gone /\ queue' = Append(queue, s) /\ listed' = listed /\ heard' = heard \cup {g}
      /\ owner' = NextOwner(g, devices)
  BY <1>1 DEF Update, Persist, store, TopologyTypeOK
<1>3. /\ owner[d] = h => EndsListed(d, h)
      /\ h \in heard /\ EndsListed(d, h) => owner[d] = h
  BY <1>2 DEF InventoryFollows
<1>4. EndsListed(d, h)' <=>
        \/ g = h /\ d \in devices
        \/ EndsListed(d, h) /\ ~(d \in devices \/ g = h)
  <2>1. Len(queue) \in Nat /\ Len(queue') \in Nat /\ queue \in Seq(Snapshots)
    BY DEF TopologyTypeOK
  <2>2. Leads(queue', listed', d, h) <=>
          \/ g = h /\ d \in devices
          \/ Leads(queue, listed, d, h) /\ ~(d \in devices \/ g = h)
    BY <1>1, <1>2, <2>1, AppendLeads DEF Unlists
  <2>3. EndsListed(d, h) <=> Leads(queue, listed, d, h)
    BY <2>1, EndsListedLeads
  <2>4. EndsListed(d, h)' <=> Leads(queue', listed', d, h)
    BY <2>1, EndsListedLeads
  <2> QED
    BY <2>2, <2>3, <2>4
<1>5. CASE d \in devices
  <2>1. owner'[d] = g
    BY <1>2, <1>5 DEF NextOwner
  <2>2. EndsListed(d, h)' <=> g = h
    BY <1>4, <1>5
  <2> QED
    BY <2>1, <2>2
<1>6. CASE d \notin devices
  <2>1. CASE g = h
    <3>1. owner'[d] # h
      BY <1>2, <1>6, <2>1, NamesAssumption DEF NextOwner, OwnerReports, Removed
    <3> QED
      BY <1>4, <1>6, <2>1, <3>1
  <2>2. CASE g # h
    <3>1. owner'[d] = h <=> owner[d] = h
      BY <1>2, <1>6, <2>2, NamesAssumption DEF NextOwner
    <3> QED
      BY <1>2, <1>3, <1>4, <1>6, <2>2, <3>1
  <2> QED
    BY <2>1, <2>2
<1> QED
  BY <1>5, <1>6

\* No other step changes what the queue leads to.
LEMMA InventoryStep ==
  ASSUME TopologyTypeOK, TopologyTypeOK', OwnerReports, InventoryFollows, [TopologyNext]_topologyVars
  PROVE  InventoryFollows'
<1>1. ASSUME NEW g \in Gateways, NEW devices \in SUBSET Devices, Update(g, devices)
      PROVE  InventoryFollows'
  BY <1>1, UpdateLists
<1>2. ASSUME UNCHANGED <<owner, heard, gone>>,
             \A d \in Devices, g \in Gateways :
               Leads(queue', listed', d, g) <=> Leads(queue, listed, d, g)
      PROVE  InventoryFollows'
  <2>1. Len(queue) \in Nat /\ Len(queue') \in Nat
    BY DEF TopologyTypeOK
  <2>2. \A d \in Devices, g \in Gateways : EndsListed(d, g)' <=> EndsListed(d, g)
    BY <1>2, <2>1, EndsListedLeads
  <2> QED
    BY <1>2, <2>2 DEF InventoryFollows
<1>3. CASE Save
  <2>1. \A d \in Devices, g \in Gateways :
          Leads(queue', listed', d, g) <=> Leads(queue, listed, d, g)
    BY <1>3, SaveLeads DEF Save, TopologyTypeOK
  <2> QED
    BY <1>2, <1>3, <2>1 DEF Save, registry
<1>4. ASSUME NEW c \in BOOLEAN, SaveFails(c) PROVE InventoryFollows'
  <2>1. \A d \in Devices, g \in Gateways :
          Leads(queue', listed', d, g) <=> Leads(queue, listed, d, g)
    BY <1>4, RepeatLeads DEF SaveFails, TopologyTypeOK
  <2> QED
    BY <1>2, <1>4, <2>1 DEF SaveFails, registry
<1>5. CASE UNCHANGED <<owner, heard, gone, queue, listed>>
  BY <1>2, <1>5
<1> QED
  BY <1>1, <1>3, <1>4, <1>5
     DEF TopologyNext, Messages, DockUpdate, Telemetry, Connect, Disconnect, RetryTick, topologyVars, registry, store

\* The rows that the queue leads to are those of the registry's owners, whatever failed
\* after it committed, as long as no snapshot is dropped (topology-store.ts).
THEOREM InventoryIsTheRegistry == TopologySpec => []InventoryFollows
<1>1. TopologyInit => InventoryFollows
  BY NamesAssumption DEF TopologyInit, InventoryFollows
<1> QED
  BY <1>1, InventoryStep, TopologyTypeCorrect, OwnersReport, PTL DEF TopologySpec

===============================================================================
