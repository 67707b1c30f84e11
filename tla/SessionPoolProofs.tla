-------------------------- MODULE SessionPoolProofs --------------------------
(***************************************************************************)
(* Proofs about the session pool for any finite set of triplets and any    *)
(* set of clients.                                                         *)
(***************************************************************************)
EXTENDS SessionPoolProps, FiniteSetTheorems, SequenceTheorems, TLAPS

(***************************************************************************)
(* The channel's contents after the two channel operations.                *)
(***************************************************************************)
LEMMA AppendFacts ==
  ASSUME NEW S, NEW s \in Seq(S), NEW x \in S
  PROVE  /\ Append(s, x) \in Seq(S)
         /\ Len(Append(s, x)) = Len(s) + 1
         /\ \A k \in 1..Len(s) : Append(s, x)[k] = s[k]
         /\ Append(s, x)[Len(s) + 1] = x
  OBVIOUS

LEMMA HeadTailFacts ==
  ASSUME NEW S, NEW s \in Seq(S), s # << >>
  PROVE  /\ Len(s) \in Nat \ {0}
         /\ Head(s) = s[1]
         /\ Head(s) \in S
         /\ Tail(s) \in Seq(S)
         /\ Len(Tail(s)) = Len(s) - 1
         /\ \A k \in 1..Len(Tail(s)) : Tail(s)[k] = s[k + 1]
  <1>1. Len(s) \in Nat \ {0}
    BY EmptySeq
  <1>2. Head(s) = s[1]
    OBVIOUS
  <1>3. QED
    BY <1>1, <1>2, HeadTailProperties

-----------------------------------------------------------------------------
(* Type correctness *)

LEMMA InitTypeOK == Init => TypeOK
  <1> SUFFICES ASSUME Init PROVE TypeOK
    OBVIOUS
  <1>1. Cardinality(Items) \in Nat
    BY ItemsAssumption, FS_CardinalityType
  <1>2. queue \in Seq(Items)
    BY <1>1, SeqDef DEF Init
  <1>3. QED
    BY <1>2, NoItemAssumption
       DEF Init, TypeOK, Status, Waiting, Holding

(* The effect of each family of steps on the typed state.                  *)
LEMMA TakeTypeOK ==
  ASSUME TypeOK, NEW c \in Clients, Take(c)
  PROVE  TypeOK'
  <1>1. Head(queue) \in Items /\ queue' \in Seq(Items)
    BY HeadTailFacts DEF TypeOK, Take
  <1>2. QED
    BY <1>1, NoItemAssumption DEF TypeOK, Take, Status, Waiting, Holding

LEMMA GiveBackTypeOK ==
  ASSUME TypeOK, NEW c \in Clients, client[c] \in Holding, GiveBack(c)
  PROVE  TypeOK'
  <1>1. item[c] \in Items
    BY DEF TypeOK
  <1>2. queue' \in Seq(Items)
    BY <1>1, AppendFacts DEF TypeOK, GiveBack
  <1>3. QED
    BY <1>2 DEF TypeOK, GiveBack, Release, Status, Waiting, Holding

LEMMA FreeTypeOK ==
  ASSUME TypeOK, NEW c \in Clients, client[c] \in Holding, Free(c)
  PROVE  TypeOK'
  BY DEF TypeOK, Free, Release, Status, Waiting, Holding

LEMMA NextTypeOK == TypeOK /\ [Next]_vars => TypeOK'
  <1> SUFFICES ASSUME TypeOK, [Next]_vars PROVE TypeOK'
    OBVIOUS
  <1> USE DEF Status, Waiting, Holding
  <1>1. ASSUME NEW c \in Clients, ClientNext(c) PROVE TypeOK'
    <2>1. CASE Checkout(c)
      BY <2>1 DEF Checkout, TypeOK
    <2>2. CASE CheckoutOk(c)
      BY <2>2, TakeTypeOK DEF CheckoutOk
    <2>3. CASE CheckoutClosed(c)
      BY <2>3 DEF CheckoutClosed, TypeOK
    <2>4. CASE CheckoutTimeout(c)
      BY <2>4 DEF CheckoutTimeout, TypeOK
    <2>5. CASE Cancel(c)
      BY <2>5 DEF Cancel, TypeOK
    <2>6. CASE TryCheckout(c)
      BY <2>6, TakeTypeOK DEF TryCheckout
    <2>7. CASE IntoOwned(c)
      BY <2>7 DEF IntoOwned, TypeOK
    <2>8. CASE IntoInner(c)
      BY <2>8 DEF IntoInner, TypeOK
    <2>9. CASE DropGuard(c)
      BY <2>9, GiveBackTypeOK, FreeTypeOK DEF DropGuard
    <2>10. CASE DropOwned(c)
      BY <2>10, GiveBackTypeOK, FreeTypeOK DEF DropOwned, Checkin
    <2>11. CASE CheckinRaw(c)
      BY <2>11, GiveBackTypeOK, FreeTypeOK DEF CheckinRaw, Checkin
    <2>12. CASE AbandonRaw(c)
      BY <2>12, FreeTypeOK DEF AbandonRaw
    <2>13. QED
      BY <1>1, <2>1, <2>2, <2>3, <2>4, <2>5, <2>6, <2>7, <2>8, <2>9,
         <2>10, <2>11, <2>12 DEF ClientNext
  <1>2. CASE Close
    BY <1>2 DEF Close, TypeOK
  <1>3. CASE DropPool
    BY <1>3 DEF DropPool, TypeOK
  <1>4. CASE FreeChannel
    <2>1. {queue[k] : k \in 1..Len(queue)} \subseteq Items
      BY ElementOfSeq DEF TypeOK
    <2>2. QED
      BY <1>4, <2>1, EmptySeq DEF FreeChannel, TypeOK
  <1>5. CASE UNCHANGED vars
    BY <1>5 DEF vars, TypeOK
  <1>6. QED
    BY <1>1, <1>2, <1>3, <1>4, <1>5 DEF Next

(***************************************************************************)
(* Every reachable state is well typed; in particular a client holds an    *)
(* item exactly while it holds one of the three kinds of guard.            *)
(***************************************************************************)
THEOREM TypeCorrect == Spec => []TypeOK
  BY InitTypeOK, NextTypeOK, PTL DEF Spec

-----------------------------------------------------------------------------
(***************************************************************************)
(* Exclusive ownership.  ExclusiveOwnership is inductive on top of TypeOK: *)
(* a step either moves the head of the queue to a client without an item,  *)
(* or moves a client's item to the end of the queue or to freed, or moves  *)
(* the whole queue to freed, or moves nothing.                             *)
(***************************************************************************)
IInv == TypeOK /\ ExclusiveOwnership

LEMMA InitExclusive == Init => ExclusiveOwnership
  <1> SUFFICES ASSUME Init PROVE ExclusiveOwnership
    OBVIOUS
  <1> DEFINE n == Cardinality(Items)
  <1>1. n \in Nat
    BY ItemsAssumption, FS_CardinalityType
  <1>2. queue \in Injection(1..n, Items) /\ Len(queue) = n
    BY <1>1 DEF Init, Injection, IsInjective
  <1>3. queue \in Surjection(1..n, Items)
    <2>1. Cardinality(1..n) = n
      BY <1>1, FS_Interval
    <2>2. QED
      BY <1>2, <2>1, ItemsAssumption, FS_Injection
  <1>4. \A i \in Items : InQueue(i)
    BY <1>2, <1>3 DEF Surjection, InQueue
  <1>5. \A c \in Clients : ~InQueue(item[c])
    BY <1>2, NoItemAssumption DEF Init, InQueue, Injection
  <1>6. QED
    BY <1>2, <1>4, <1>5
       DEF Init, ExclusiveOwnership, NoDoubleQueue, NoSharedItem, OnePlace,
           NoneForgotten

LEMMA TakeExclusive ==
  ASSUME IInv, NEW c \in Clients, item[c] = NoItem, Take(c)
  PROVE  ExclusiveOwnership'
  <1> DEFINE h == Head(queue)
  <1> USE DEF IInv
  <1>1. /\ queue \in Seq(Items) /\ queue # << >> /\ queue' = Tail(queue)
        /\ item' = [item EXCEPT ![c] = h] /\ freed' = freed
        /\ item \in [Clients -> Items \union {NoItem}]
    BY DEF Take, TypeOK
  <1>2. /\ Len(queue) \in Nat \ {0} /\ h = queue[1] /\ h \in Items
        /\ Len(queue') = Len(queue) - 1
        /\ \A k \in 1..Len(queue') : queue'[k] = queue[k + 1]
    BY <1>1, HeadTailFacts
  <1>3. \A i : InQueue(i)' <=> InQueue(i) /\ i # h
    <2>1. ASSUME NEW i, InQueue(i)' PROVE InQueue(i) /\ i # h
      <3>1. PICK k \in 1..Len(queue') : queue'[k] = i
        BY <2>1 DEF InQueue
      <3>2. k + 1 \in 1..Len(queue) /\ queue[k + 1] = i /\ k + 1 # 1
        BY <3>1, <1>2
      <3>3. QED
        BY <3>2, <1>2 DEF InQueue, ExclusiveOwnership, NoDoubleQueue
    <2>2. ASSUME NEW i, InQueue(i), i # h PROVE InQueue(i)'
      <3>1. PICK k \in 1..Len(queue) : queue[k] = i
        BY <2>2 DEF InQueue
      <3>2. k - 1 \in 1..Len(queue') /\ queue'[k - 1] = i
        BY <3>1, <2>2, <1>2
      <3>3. QED
        BY <3>2 DEF InQueue
    <2>3. QED
      BY <2>1, <2>2
  <1>4. InQueue(h)
    BY <1>2 DEF InQueue
  <1>5. NoDoubleQueue'
    BY <1>2 DEF ExclusiveOwnership, NoDoubleQueue
  <1>6. NoSharedItem'
    BY <1>1, <1>4 DEF ExclusiveOwnership, NoSharedItem, OnePlace
  <1>7. OnePlace'
    BY <1>1, <1>3, <1>4 DEF ExclusiveOwnership, OnePlace
  <1>8. NoneForgotten'
    <2>1. SUFFICES ASSUME NEW i \in Items, ~InQueue(i)', i \notin freed
                   PROVE  \E d \in Clients : item'[d] = i
      BY <1>1 DEF NoneForgotten
    <2>2. CASE i = h
      BY <2>2, <1>1
    <2>3. CASE i # h
      <3>1. PICK d \in Clients : item[d] = i
        BY <2>1, <2>3, <1>3 DEF ExclusiveOwnership, NoneForgotten
      <3>2. d # c
        BY <3>1, NoItemAssumption
      <3>3. QED
        BY <3>1, <3>2, <1>1
    <2>4. QED
      BY <2>2, <2>3
  <1>9. QED
    BY <1>5, <1>6, <1>7, <1>8 DEF ExclusiveOwnership

LEMMA GiveBackExclusive ==
  ASSUME IInv, NEW c \in Clients, client[c] \in Holding, GiveBack(c)
  PROVE  ExclusiveOwnership'
  <1> DEFINE x == item[c]
  <1> USE DEF IInv
  <1>1. /\ queue \in Seq(Items) /\ queue' = Append(queue, x)
        /\ item' = [item EXCEPT ![c] = NoItem] /\ freed' = freed
        /\ item \in [Clients -> Items \union {NoItem}]
        /\ freed \subseteq Items
        /\ x \in Items
    BY DEF GiveBack, Release, TypeOK
  <1>2. /\ Len(queue) \in Nat
        /\ Len(queue') = Len(queue) + 1
        /\ \A k \in 1..Len(queue) : queue'[k] = queue[k]
        /\ queue'[Len(queue) + 1] = x
    BY <1>1, AppendFacts
  <1>3. \A i : InQueue(i)' <=> InQueue(i) \/ i = x
    BY <1>2 DEF InQueue
  <1>4. ~InQueue(x) /\ x \notin freed /\ x # NoItem
    BY <1>1, NoItemAssumption DEF ExclusiveOwnership, OnePlace
  <1>5. NoDoubleQueue'
    BY <1>2, <1>4 DEF ExclusiveOwnership, NoDoubleQueue, InQueue
  <1>6. NoSharedItem'
    BY <1>1 DEF ExclusiveOwnership, NoSharedItem
  <1>7. ~InQueue(NoItem)
    BY <1>1, ElementOfSeq, NoItemAssumption DEF InQueue
  <1>8. OnePlace'
    <2>1. ASSUME NEW d \in Clients
          PROVE  (~InQueue(item[d]) /\ item[d] \notin freed)'
      <3>1. CASE d = c
        <4>1. item'[d] = NoItem
          BY <3>1, <1>1
        <4>2. QED
          BY <4>1, <1>1, <1>3, <1>4, <1>7, NoItemAssumption
      <3>2. CASE d # c
        <4>1. item'[d] = item[d] /\ item[d] # x
          BY <3>2, <1>1, <1>4 DEF ExclusiveOwnership, NoSharedItem
        <4>2. QED
          BY <4>1, <1>1, <1>3 DEF ExclusiveOwnership, OnePlace
      <3>3. QED
        BY <3>1, <3>2
    <2>2. \A i \in freed' : ~InQueue(i)'
      BY <1>1, <1>3, <1>4 DEF ExclusiveOwnership, OnePlace
    <2>3. QED
      BY <2>1, <2>2 DEF OnePlace
  <1>9. NoneForgotten'
    BY <1>1, <1>3 DEF ExclusiveOwnership, NoneForgotten
  <1>10. QED
    BY <1>5, <1>6, <1>8, <1>9 DEF ExclusiveOwnership

LEMMA FreeExclusive ==
  ASSUME IInv, NEW c \in Clients, client[c] \in Holding, Free(c)
  PROVE  ExclusiveOwnership'
  <1> USE DEF IInv
  <1>1. /\ queue \in Seq(Items) /\ queue' = queue
        /\ item' = [item EXCEPT ![c] = NoItem]
        /\ freed' = freed \union {item[c]}
        /\ item \in [Clients -> Items \union {NoItem}]
        /\ freed \subseteq Items
        /\ item[c] \in Items
    BY DEF Free, Release, TypeOK
  <1>2. ~InQueue(NoItem)
    BY <1>1, ElementOfSeq, NoItemAssumption DEF InQueue
  <1>3. \A i : InQueue(i)' <=> InQueue(i)
    BY <1>1 DEF InQueue
  <1>4. NoDoubleQueue' /\ NoSharedItem'
    BY <1>1 DEF ExclusiveOwnership, NoDoubleQueue, NoSharedItem
  <1>5. OnePlace'
    BY <1>1, <1>2, <1>3, NoItemAssumption
       DEF ExclusiveOwnership, OnePlace, NoSharedItem
  <1>6. NoneForgotten'
    BY <1>1, <1>3 DEF ExclusiveOwnership, NoneForgotten
  <1>7. QED
    BY <1>4, <1>5, <1>6 DEF ExclusiveOwnership

LEMMA FreeChannelExclusive ==
  ASSUME IInv, FreeChannel
  PROVE  ExclusiveOwnership'
  <1> USE DEF IInv
  <1>1. /\ queue' = << >> /\ item' = item
        /\ freed' = freed \union {queue[k] : k \in 1..Len(queue)}
    BY DEF FreeChannel
  <1>2. \A i : ~InQueue(i)'
    BY <1>1 DEF InQueue
  <1>3. \A i : i \in freed' <=> i \in freed \/ InQueue(i)
    BY <1>1 DEF InQueue
  <1>4. NoDoubleQueue' /\ NoSharedItem'
    BY <1>1 DEF ExclusiveOwnership, NoDoubleQueue, NoSharedItem
  <1>5. OnePlace' /\ NoneForgotten'
    BY <1>1, <1>2, <1>3 DEF ExclusiveOwnership, OnePlace, NoneForgotten
  <1>6. QED
    BY <1>4, <1>5 DEF ExclusiveOwnership

LEMMA SameExclusive ==
  ASSUME ExclusiveOwnership, UNCHANGED <<queue, item, freed>>
  PROVE  ExclusiveOwnership'
  BY DEF ExclusiveOwnership, NoDoubleQueue, NoSharedItem, OnePlace,
         NoneForgotten, InQueue

LEMMA NextExclusive == IInv /\ [Next]_vars => ExclusiveOwnership'
  <1> SUFFICES ASSUME IInv, [Next]_vars PROVE ExclusiveOwnership'
    OBVIOUS
  <1> ExclusiveOwnership
    BY DEF IInv
  <1>1. ASSUME NEW c \in Clients, ClientNext(c) PROVE ExclusiveOwnership'
    <2>1. CASE \/ Checkout(c) \/ CheckoutClosed(c) \/ CheckoutTimeout(c)
               \/ Cancel(c) \/ IntoOwned(c) \/ IntoInner(c)
      BY <2>1, SameExclusive
         DEF Checkout, CheckoutClosed, CheckoutTimeout, Cancel, IntoOwned,
             IntoInner
    <2>2. CASE CheckoutOk(c) \/ TryCheckout(c)
      <3>1. Take(c) /\ client[c] \in Waiting \union {"idle"}
        BY <2>2 DEF CheckoutOk, TryCheckout
      <3>2. item[c] = NoItem
        BY <3>1 DEF IInv, TypeOK, Waiting, Holding
      <3>3. QED
        BY <3>1, <3>2, TakeExclusive
    <2>3. CASE \/ DropGuard(c) \/ DropOwned(c) \/ CheckinRaw(c)
               \/ AbandonRaw(c)
      <3>1. client[c] \in Holding /\ (GiveBack(c) \/ Free(c))
        BY <2>3
           DEF DropGuard, DropOwned, CheckinRaw, AbandonRaw, Checkin, Holding
      <3>2. QED
        BY <3>1, GiveBackExclusive, FreeExclusive
    <2>4. QED
      BY <1>1, <2>1, <2>2, <2>3 DEF ClientNext
  <1>2. CASE Close \/ DropPool
    BY <1>2, SameExclusive DEF Close, DropPool
  <1>3. CASE FreeChannel
    BY <1>3, FreeChannelExclusive
  <1>4. CASE UNCHANGED vars
    BY <1>4, SameExclusive DEF vars
  <1>5. QED
    BY <1>1, <1>2, <1>3, <1>4 DEF Next

LEMMA IInvInvariant == Spec => []IInv
  <1>1. Init => IInv
    BY InitTypeOK, InitExclusive DEF IInv
  <1>2. IInv /\ [Next]_vars => IInv'
    BY NextTypeOK, NextExclusive DEF IInv
  <1>3. QED
    BY <1>1, <1>2, PTL DEF Spec

(***************************************************************************)
(* No triplet is ever in two places or in none, whatever the number of     *)
(* triplets and clients.                                                   *)
(***************************************************************************)
THEOREM OwnershipIsExclusive == Spec => []ExclusiveOwnership
  <1>1. IInv => ExclusiveOwnership
    BY DEF IInv
  <1>2. QED
    BY <1>1, IInvInvariant, PTL

-----------------------------------------------------------------------------
(***************************************************************************)
(* Room for every return.  While a client holds an item the queue is an    *)
(* injection into the other items, so it is shorter than the capacity.     *)
(***************************************************************************)
LEMMA RoomWhileHolding == IInv => ReturnNeverBlocks
  <1> SUFFICES ASSUME IInv, NEW c \in Clients, client[c] \in Holding
               PROVE  Len(queue) < Capacity
    BY DEF ReturnNeverBlocks
  <1> USE DEF IInv
  <1> DEFINE others == Items \ {item[c]}
  <1>1. item[c] \in Items
    BY DEF TypeOK
  <1>2. queue \in [1..Len(queue) -> others] /\ Len(queue) \in Nat
    <2>1. queue \in [1..Len(queue) -> Items] /\ Len(queue) \in Nat
      BY LenProperties DEF TypeOK
    <2>2. \A k \in 1..Len(queue) : queue[k] # item[c]
      BY DEF ExclusiveOwnership, OnePlace, InQueue
    <2>3. QED
      BY <2>1, <2>2
  <1>3. queue \in Injection(1..Len(queue), others)
    BY <1>2 DEF ExclusiveOwnership, NoDoubleQueue, Injection, IsInjective
  <1>4. IsFiniteSet(others) /\ Cardinality(others) = Cardinality(Items) - 1
    BY <1>1, ItemsAssumption, FS_RemoveElement
  <1>5. Cardinality(1..Len(queue)) <= Cardinality(others)
    BY <1>3, <1>4, FS_Injection
  <1>6. Cardinality(1..Len(queue)) = Len(queue)
    <2>1. \A m \in Nat : Cardinality(1..m) = m
      BY FS_Interval
    <2>2. QED
      BY <1>2, <2>1
  <1>7. Cardinality(Items) \in Nat
    BY ItemsAssumption, FS_CardinalityType
  <1>8. QED
    BY <1>1, <1>2, <1>4, <1>5, <1>6, <1>7 DEF Capacity

(***************************************************************************)
(* A return never waits for room and never fails for want of it, for any   *)
(* pool size and any number of tasks.                                      *)
(***************************************************************************)
THEOREM RoomForEveryReturn == Spec => []ReturnNeverBlocks
  BY RoomWhileHolding, IInvInvariant, PTL

(***************************************************************************)
(* Guards lose nothing: with room for every return, an open channel takes  *)
(* back whatever a PoolGuard or a CheckoutGuard lets go.                   *)
(***************************************************************************)
THEOREM NothingLostByGuards == Spec => GuardsLoseNothing
  <1> DEFINE Kept(c) ==
        client[c] \in {"guard", "owned"} /\ item'[c] = NoItem /\ channel = "open"
          => \E k \in 1..Len(queue') : queue'[k] = item[c]
  <1>1. ASSUME IInv, [Next]_vars, NEW c \in Clients PROVE Kept(c)
    <2> SUFFICES ASSUME client[c] \in {"guard", "owned"}, item'[c] = NoItem,
                        channel = "open"
                 PROVE  \E k \in 1..Len(queue') : queue'[k] = item[c]
      OBVIOUS
    <2>1. client[c] \in Holding /\ item[c] \in Items
      BY <1>1 DEF IInv, TypeOK, Holding
    <2>2. item[c] # item'[c]
      BY <2>1, NoItemAssumption
    <2>3. PICK d \in Clients : ClientNext(d)
      BY <1>1, <2>2 DEF Next, vars, Close, DropPool, FreeChannel
    <2>4. CASE d # c
      BY <1>1, <2>2, <2>3, <2>4
         DEF IInv, TypeOK, ClientNext, Checkout, CheckoutOk, CheckoutClosed,
             CheckoutTimeout, Cancel, TryCheckout, IntoOwned, IntoInner,
             DropGuard, DropOwned, CheckinRaw, AbandonRaw, Checkin, Take,
             GiveBack, Free, Release
    <2>5. CASE d = c
      <3>1. Len(queue) < Capacity
        BY <1>1, <2>1, RoomWhileHolding DEF ReturnNeverBlocks
      <3>2. CASE GiveBack(c)
        <4>1. queue' = Append(queue, item[c]) /\ queue \in Seq(Items)
          BY <1>1, <3>2 DEF GiveBack, IInv, TypeOK
        <4>2. Len(queue') = Len(queue) + 1 /\ queue'[Len(queue) + 1] = item[c]
              /\ Len(queue) \in Nat
          BY <4>1, <2>1, AppendFacts, LenProperties
        <4>3. QED
          BY <4>2
      <3>3. CASE ~GiveBack(c)
        <4>1. Capacity \in Nat /\ Len(queue) \in Nat
          BY <1>1, ItemsAssumption, FS_CardinalityType, LenProperties
             DEF Capacity, IInv, TypeOK
        <4>2. ~(Len(queue) >= Capacity)
          BY <3>1, <4>1
        <4>3. ~DropGuard(c) /\ ~DropOwned(c) /\ ~CheckinRaw(c) /\ ~AbandonRaw(c)
          BY <3>3, <4>2
             DEF DropGuard, DropOwned, CheckinRaw, AbandonRaw, Checkin
        <4>4. QED
          BY <2>1, <2>2, <2>3, <2>5, <4>3
             DEF ClientNext, Checkout, CheckoutOk, CheckoutClosed,
                 CheckoutTimeout, Cancel, TryCheckout, IntoOwned, IntoInner,
                 Waiting, Holding
      <3>4. QED
        BY <3>2, <3>3
    <2>6. QED
      BY <2>4, <2>5
  <1>2. IInv /\ [Next]_vars => [\A c \in Clients : Kept(c)]_vars
    BY <1>1
  <1>3. QED
    BY <1>2, IInvInvariant, PTL DEF Spec, GuardsLoseNothing

-----------------------------------------------------------------------------
(***************************************************************************)
(* Closed is final.  A checkout answers Closed only on a closed and        *)
(* drained channel, and nothing is ever sent into a closed one.            *)
(***************************************************************************)
ClosedInv == TypeOK /\ (refused => channel = "closed" /\ queue = << >>)

LEMMA ClosedInvInvariant == Spec => []ClosedInv
  <1>1. Init => ClosedInv
    BY InitTypeOK DEF Init, ClosedInv
  <1>2. ClosedInv /\ [Next]_vars => ClosedInv'
    <2> SUFFICES ASSUME ClosedInv, [Next]_vars
                 PROVE  refused' => channel' = "closed" /\ queue' = << >>
      BY NextTypeOK DEF ClosedInv
    <2> USE DEF ClosedInv
    <2>1. ASSUME NEW c \in Clients, ClientNext(c)
          PROVE  refused' => channel' = "closed" /\ queue' = << >>
      <3>1. CASE CheckoutClosed(c)
        BY <3>1 DEF CheckoutClosed
      <3>2. CASE \/ DropGuard(c) \/ DropOwned(c) \/ CheckinRaw(c)
                 \/ AbandonRaw(c)
        BY <3>2 DEF DropGuard, DropOwned, CheckinRaw, AbandonRaw, Checkin,
                    GiveBack, Free, Release
      <3>3. CASE CheckoutOk(c) \/ TryCheckout(c)
        BY <3>3 DEF CheckoutOk, TryCheckout, Take
      <3>4. QED
        BY <2>1, <3>1, <3>2, <3>3
           DEF ClientNext, Checkout, CheckoutTimeout, Cancel, IntoOwned,
               IntoInner
    <2>2. QED
      BY <2>1 DEF Next, Close, DropPool, FreeChannel, vars
  <1>3. QED
    BY <1>1, <1>2, PTL DEF Spec

(***************************************************************************)
(* Once a checkout has answered PoolError::Closed, no client obtains an    *)
(* item again.                                                             *)
(***************************************************************************)
THEOREM ClosedStaysClosed == Spec => ClosedIsFinal
  <1> DEFINE Final == refused => \A c \in Clients : item'[c] \in {item[c], NoItem}
  <1>1. ClosedInv /\ [Next]_vars => Final
    <2> SUFFICES ASSUME ClosedInv, [Next]_vars, refused, NEW c \in Clients
                 PROVE  item'[c] \in {item[c], NoItem}
      OBVIOUS
    <2>1. item \in [Clients -> Items \union {NoItem}] /\ queue = << >>
      BY DEF ClosedInv, TypeOK
    <2>2. ASSUME NEW d \in Clients, ClientNext(d)
          PROVE  item' \in {item, [item EXCEPT ![d] = NoItem]}
      BY <2>1, <2>2
         DEF ClientNext, Checkout, CheckoutOk, CheckoutClosed,
             CheckoutTimeout, Cancel, TryCheckout, IntoOwned, IntoInner,
             DropGuard, DropOwned, CheckinRaw, AbandonRaw, Checkin, Take,
             GiveBack, Free, Release
    <2>3. QED
      BY <2>1, <2>2 DEF Next, Close, DropPool, FreeChannel, vars
  <1>2. QED
    BY <1>1, ClosedInvInvariant, PTL DEF Spec, ClosedIsFinal

-----------------------------------------------------------------------------
(***************************************************************************)
(* The pool implements the lender, step by step.  By exclusive ownership   *)
(* the owner of an item is well defined; an item changes owner only when a *)
(* client takes the head of the queue, returns its item or frees it, or    *)
(* when the queue of a retired, and so closed, pool is freed.              *)
(***************************************************************************)
RetiredClosed == ~alive => channel = "closed"

OwnerIs ==
  /\ owner = [i \in Items |-> owner[i]]
  /\ \A i \in Items :
       /\ owner[i] \in Clients \union {Shelf, Gone}
       /\ \A c \in Clients : owner[i] = c <=> item[c] = i
       /\ owner[i] = Shelf <=> InQueue(i)
       /\ owner[i] = Gone <=> i \in freed

LEMMA OwnerFacts == IInv => OwnerIs
  <1> SUFFICES ASSUME IInv PROVE OwnerIs
    OBVIOUS
  <1>1. ExclusiveOwnership
    BY DEF IInv
  <1>2. owner = [i \in Items |-> owner[i]]
    BY DEF owner
  <1>3. ASSUME NEW i \in Items
        PROVE  /\ owner[i] \in Clients \union {Shelf, Gone}
               /\ \A c \in Clients : owner[i] = c <=> item[c] = i
               /\ owner[i] = Shelf <=> InQueue(i)
               /\ owner[i] = Gone <=> i \in freed
    <2>1. owner[i] = IF \E c \in Clients : item[c] = i
                     THEN CHOOSE c \in Clients : item[c] = i
                     ELSE IF InQueue(i) THEN Shelf ELSE Gone
      BY DEF owner
    <2>2. CASE \E c \in Clients : item[c] = i
      <3>1. PICK d \in Clients : item[d] = i /\ owner[i] = d
        BY <2>1, <2>2
      <3>2. \A c \in Clients : item[c] = i => c = d
        BY <1>1, <3>1, NoItemAssumption DEF ExclusiveOwnership, NoSharedItem
      <3>3. ~InQueue(i) /\ i \notin freed
        BY <1>1, <3>1 DEF ExclusiveOwnership, OnePlace
      <3>4. QED
        BY <3>1, <3>2, <3>3, OwnersAssumption
    <2>3. CASE ~(\E c \in Clients : item[c] = i)
      <3>1. InQueue(i) <=> i \notin freed
        BY <1>1, <2>3 DEF ExclusiveOwnership, OnePlace, NoneForgotten
      <3>2. QED
        BY <2>1, <2>3, <3>1, OwnersAssumption
    <2>4. QED
      BY <2>2, <2>3
  <1>4. QED
    BY <1>2, <1>3 DEF OwnerIs

(* An item whose holders and whose end are the same has the same owner.    *)
LEMMA SameOwner ==
  ASSUME OwnerIs, OwnerIs', NEW i \in Items,
         \A c \in Clients : item'[c] = i <=> item[c] = i,
         i \in freed' <=> i \in freed
  PROVE  owner'[i] = owner[i]
  <1>1. /\ owner[i] \in Clients \union {Shelf, Gone}
        /\ \A c \in Clients : owner[i] = c <=> item[c] = i
        /\ owner[i] = Gone <=> i \in freed
    BY DEF OwnerIs
  <1>2. /\ owner'[i] \in Clients \union {Shelf, Gone}
        /\ \A c \in Clients : owner'[i] = c <=> item'[c] = i
        /\ owner'[i] = Gone <=> i \in freed'
    BY DEF OwnerIs
  <1>3. QED
    BY <1>1, <1>2, OwnersAssumption

LEMMA OneMoves ==
  ASSUME OwnerIs, OwnerIs', NEW i \in Items, NEW o, owner'[i] = o,
         \A j \in Items : j # i => owner'[j] = owner[j]
  PROVE  owner' = [owner EXCEPT ![i] = o]
  <1>1. owner' = [j \in Items |-> owner'[j]] /\ owner = [j \in Items |-> owner[j]]
    BY DEF OwnerIs
  <1>2. [owner EXCEPT ![i] = o] = [j \in Items |-> IF j = i THEN o ELSE owner[j]]
    BY <1>1
  <1>3. QED
    BY <1>1, <1>2

(* Nobody's item changes.                                                  *)
LEMMA SameOwners ==
  ASSUME OwnerIs, OwnerIs', UNCHANGED <<item, freed>>
  PROVE  owner' = owner
  <1>1. \A i \in Items : owner'[i] = owner[i]
    BY SameOwner
  <1>2. owner' = [i \in Items |-> owner'[i]] /\ owner = [i \in Items |-> owner[i]]
    BY DEF OwnerIs
  <1>3. QED
    BY <1>1, <1>2

LEMMA TakeLends ==
  ASSUME IInv, OwnerIs, OwnerIs', NEW c \in Clients, item[c] = NoItem, Take(c)
  PROVE  \E i \in Items : Lender!Lend(i, c)
  <1> DEFINE h == Head(queue)
  <1>1. /\ queue \in Seq(Items) /\ queue # << >>
        /\ item' = [item EXCEPT ![c] = h] /\ freed' = freed
        /\ item \in [Clients -> Items \union {NoItem}]
    BY DEF Take, IInv, TypeOK
  <1>2. h \in Items /\ h = queue[1] /\ Len(queue) \in Nat \ {0}
    BY <1>1, HeadTailFacts
  <1>3. InQueue(h)
    BY <1>2 DEF InQueue
  <1> HIDE DEF h
  <1>4. owner[h] = Shelf
    BY <1>2, <1>3 DEF OwnerIs
  <1>5. Lender!HasNone(c)
    BY NoItemAssumption DEF OwnerIs, Lender!HasNone
  <1>6. owner'[h] = c
    BY <1>1, <1>2 DEF OwnerIs
  <1>7. ASSUME NEW j \in Items, j # h PROVE owner'[j] = owner[j]
    <2>1. \A d \in Clients : item'[d] = j <=> item[d] = j
      BY <1>1, <1>7, NoItemAssumption
    <2>2. QED
      BY <1>1, <2>1, SameOwner
  <1>8. owner' = [owner EXCEPT ![h] = c]
    BY <1>2, <1>6, <1>7, OneMoves
  <1>9. QED
    BY <1>2, <1>4, <1>5, <1>8 DEF Lender!Lend

LEMMA ReturnGivesBack ==
  ASSUME IInv, OwnerIs, OwnerIs', NEW c \in Clients, NEW x \in Items, x = item[c], GiveBack(c)
  PROVE  Lender!GiveBack(x, c)
  <1>1. /\ queue \in Seq(Items) /\ queue' = Append(queue, x) /\ channel = "open"
        /\ item' = [item EXCEPT ![c] = NoItem] /\ freed' = freed
        /\ item \in [Clients -> Items \union {NoItem}]
    BY DEF GiveBack, Release, IInv, TypeOK
  <1>2. Len(queue') = Len(queue) + 1 /\ queue'[Len(queue) + 1] = x /\ Len(queue) \in Nat
    BY <1>1, AppendFacts, LenProperties
  <1>3. InQueue(x)'
    BY <1>2 DEF InQueue
  <1>4. owner[x] = c /\ owner'[x] = Shelf
    BY <1>3 DEF OwnerIs
  <1>5. ASSUME NEW j \in Items, j # x PROVE owner'[j] = owner[j]
    <2>1. \A d \in Clients : item'[d] = j <=> item[d] = j
      BY <1>1, <1>5, NoItemAssumption
    <2>2. QED
      BY <1>1, <2>1, SameOwner
  <1>6. owner' = [owner EXCEPT ![x] = Shelf]
    BY <1>4, <1>5, OneMoves
  <1>7. QED
    BY <1>1, <1>4, <1>6 DEF Lender!GiveBack

LEMMA FreeLoses ==
  ASSUME IInv, OwnerIs, OwnerIs', NEW c \in Clients, NEW x \in Items, x = item[c], Free(c)
  PROVE  Lender!Lose(x, c)
  <1>1. /\ item' = [item EXCEPT ![c] = NoItem] /\ freed' = freed \union {x}
        /\ item \in [Clients -> Items \union {NoItem}]
    BY DEF Free, Release, IInv, TypeOK
  <1>2. owner[x] = c /\ owner'[x] = Gone
    BY <1>1 DEF OwnerIs
  <1>3. ASSUME NEW j \in Items, j # x PROVE owner'[j] = owner[j]
    <2>1. \A d \in Clients : item'[d] = j <=> item[d] = j
      BY <1>1, <1>3, NoItemAssumption
    <2>2. QED
      BY <1>1, <1>3, <2>1, SameOwner
  <1>4. owner' = [owner EXCEPT ![x] = Gone]
    BY <1>2, <1>3, OneMoves
  <1>5. QED
    BY <1>2, <1>4 DEF Lender!Lose

LEMMA FreeChannelClears ==
  ASSUME IInv, OwnerIs, OwnerIs', RetiredClosed, FreeChannel
  PROVE  Lender!ClearShelf
  <1>1. /\ channel # "open" /\ item' = item
        /\ freed' = freed \union {queue[k] : k \in 1..Len(queue)}
    BY DEF FreeChannel, RetiredClosed
  <1>2. \A i : i \in freed' <=> i \in freed \/ InQueue(i)
    BY <1>1 DEF InQueue
  <1>3. ASSUME NEW i \in Items
        PROVE  owner'[i] = IF owner[i] = Shelf THEN Gone ELSE owner[i]
    <2>1. CASE owner[i] = Shelf
      <3>1. i \in freed'
        BY <1>2, <2>1 DEF OwnerIs
      <3>2. owner'[i] = Gone
        BY <3>1 DEF OwnerIs
      <3>3. QED
        BY <2>1, <3>2
    <2>2. CASE owner[i] # Shelf
      <3>1. i \in freed' <=> i \in freed
        BY <1>2, <2>2 DEF OwnerIs
      <3>2. owner'[i] = owner[i]
        BY <1>1, <3>1, SameOwner
      <3>3. QED
        BY <2>2, <3>2
    <2>3. QED
      BY <2>1, <2>2
  <1>4. owner' = [i \in Items |-> owner'[i]]
    BY DEF OwnerIs
  <1>5. owner' = [i \in Items |-> IF owner[i] = Shelf THEN Gone ELSE owner[i]]
    BY <1>3, <1>4
  <1>6. QED
    BY <1>1, <1>5 DEF Lender!ClearShelf

LEMMA LenderStep ==
  ASSUME IInv, IInv', RetiredClosed, [Next]_vars
  PROVE  [Lender!Next]_(Lender!vars)
  <1>1. OwnerIs
    BY OwnerFacts
  <1>2. OwnerIs'
    BY OwnerFacts, PTL
  <1>3. ASSUME NEW c \in Clients, ClientNext(c) PROVE [Lender!Next]_(Lender!vars)
    <2>1. channel' = channel
      BY <1>3
      DEF ClientNext, Checkout, CheckoutOk, CheckoutClosed, CheckoutTimeout, Cancel, TryCheckout,
          IntoOwned, IntoInner, DropGuard, DropOwned, CheckinRaw, AbandonRaw, Checkin, Take,
          GiveBack, Free, Release
    <2>2. CASE \/ Checkout(c) \/ CheckoutClosed(c) \/ CheckoutTimeout(c)
               \/ Cancel(c) \/ IntoOwned(c) \/ IntoInner(c)
      <3>1. UNCHANGED <<item, freed>>
        BY <2>2 DEF Checkout, CheckoutClosed, CheckoutTimeout, Cancel, IntoOwned, IntoInner
      <3>2. owner' = owner
        BY <1>1, <1>2, <3>1, SameOwners
      <3>3. QED
        BY <2>1, <3>2 DEF Lender!vars
    <2>3. CASE CheckoutOk(c) \/ TryCheckout(c)
      <3>1. Take(c) /\ client[c] \in Waiting \union {"idle"}
        BY <2>3 DEF CheckoutOk, TryCheckout
      <3>2. item[c] = NoItem
        BY <3>1 DEF IInv, TypeOK, Waiting, Holding
      <3>3. \E i \in Items : Lender!Lend(i, c)
        BY <1>1, <1>2, <3>1, <3>2, TakeLends
      <3>4. QED
        BY <2>1, <3>3 DEF Lender!Next
    <2>4. CASE \/ DropGuard(c) \/ DropOwned(c) \/ CheckinRaw(c)
               \/ AbandonRaw(c)
      <3>1. client[c] \in Holding /\ (GiveBack(c) \/ Free(c))
        BY <2>4 DEF DropGuard, DropOwned, CheckinRaw, AbandonRaw, Checkin, Holding
      <3>2. item[c] \in Items
        BY <3>1 DEF IInv, TypeOK
      <3>3. PICK x \in Items : x = item[c]
        BY <3>2
      <3>4. Lender!GiveBack(x, c) \/ Lender!Lose(x, c)
        BY <1>1, <1>2, <3>1, <3>3, ReturnGivesBack, FreeLoses
      <3>5. QED
        BY <2>1, <3>4 DEF Lender!Next
    <2>5. QED
      BY <1>3, <2>2, <2>3, <2>4 DEF ClientNext
  <1>4. CASE Close \/ DropPool
    <2>1. UNCHANGED <<item, freed>> /\ channel' = "closed"
      BY <1>4 DEF Close, DropPool
    <2>2. owner' = owner
      BY <1>1, <1>2, <2>1, SameOwners
    <2>3. Lender!StopService
      BY <2>1, <2>2 DEF Lender!StopService
    <2>4. QED
      BY <2>3 DEF Lender!Next
  <1>5. CASE FreeChannel
    <2>1. Lender!ClearShelf
      BY <1>1, <1>2, <1>5, FreeChannelClears
    <2>2. channel' = channel
      BY <1>5 DEF FreeChannel
    <2>3. QED
      BY <2>1, <2>2 DEF Lender!Next
  <1>6. CASE UNCHANGED vars
    <2>1. UNCHANGED <<item, freed>> /\ channel' = channel
      BY <1>6 DEF vars
    <2>2. owner' = owner
      BY <1>1, <1>2, <2>1, SameOwners
    <2>3. QED
      BY <2>1, <2>2 DEF Lender!vars
  <1>7. QED
    BY <1>3, <1>4, <1>5, <1>6 DEF Next

LEMMA RetiredClosedInvariant == Spec => []RetiredClosed
  <1>1. Init => RetiredClosed
    BY DEF Init, RetiredClosed
  <1>2. RetiredClosed /\ [Next]_vars => RetiredClosed'
    <2> SUFFICES ASSUME RetiredClosed, [Next]_vars PROVE RetiredClosed'
      OBVIOUS
    <2>1. ASSUME NEW c \in Clients, ClientNext(c) PROVE UNCHANGED <<alive, channel>>
      BY <2>1
      DEF ClientNext, Checkout, CheckoutOk, CheckoutClosed, CheckoutTimeout, Cancel, TryCheckout,
          IntoOwned, IntoInner, DropGuard, DropOwned, CheckinRaw, AbandonRaw, Checkin, Take,
          GiveBack, Free, Release
    <2>2. QED
      BY <2>1 DEF RetiredClosed, Next, Close, DropPool, FreeChannel, vars
  <1>3. QED
    BY <1>1, <1>2, PTL DEF Spec

LEMMA InitLender == Init => Lender!Init
  <1> SUFFICES ASSUME Init PROVE Lender!Init
    OBVIOUS
  <1>1. OwnerIs
    BY InitTypeOK, InitExclusive, OwnerFacts DEF IInv
  <1>2. ASSUME NEW i \in Items PROVE owner[i] = Shelf
    <2>1. \A c \in Clients : item[c] # i
      BY NoItemAssumption DEF Init
    <2>2. i \notin freed
      BY DEF Init
    <2>3. QED
      BY <1>1, <2>1, <2>2 DEF OwnerIs
  <1>3. owner = [i \in Items |-> owner[i]]
    BY <1>1 DEF OwnerIs
  <1>4. owner = [i \in Items |-> Shelf]
    BY <1>2, <1>3
  <1>5. QED
    BY <1>4 DEF Init, Lender!Init

(***************************************************************************)
(* The channel and its guards, with any number of triplets and tasks, lend *)
(* a triplet only off the shelf and to one client at a time, put what is   *)
(* returned back on the shelf while the pool is open, and never bring back *)
(* what was freed (pool.rs:68-113, 160-184).                               *)
(***************************************************************************)
THEOREM PoolLends == Spec => ImplementsLender
  <1>1. IInv /\ IInv' /\ RetiredClosed /\ [Next]_vars => [Lender!Next]_(Lender!vars)
    BY LenderStep
  <1>2. QED
    BY <1>1, InitLender, IInvInvariant, RetiredClosedInvariant, PTL
    DEF Spec, ImplementsLender, Lender!Spec

=============================================================================
