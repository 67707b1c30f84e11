--------------------------- MODULE SessionPoolProps ---------------------------
(***************************************************************************)
(* What must hold of the session pool of src/src/inference/pool.rs.        *)
(***************************************************************************)
EXTENDS SessionPool

CONSTANTS Shelf, Gone   \* the two owners of SessionLender that are not clients

ASSUME OwnersAssumption == Shelf \notin Clients /\ Gone \notin Clients /\ Shelf # Gone

TypeOK ==
  /\ queue \in Seq(Items)
  /\ channel \in {"open", "closed"}
  /\ alive \in BOOLEAN
  /\ client \in [Clients -> Status]
  /\ item \in [Clients -> Items \union {NoItem}]
  /\ \A c \in Clients : item[c] # NoItem <=> client[c] \in Holding
  /\ freed \in SUBSET Items
  /\ refused \in BOOLEAN

(***************************************************************************)
(* Every triplet is in exactly one place: once in the channel, or with one *)
(* client, or freed.  Two tasks never run inference on the same ONNX       *)
(* sessions, and none is forgotten, whatever the order of into_owned,      *)
(* drops, panics, timeouts, cancelled requests, close and the pool's end.  *)
(***************************************************************************)
NoDoubleQueue == \A k, l \in 1..Len(queue) : queue[k] = queue[l] => k = l

NoSharedItem ==
  \A c, d \in Clients : item[c] = item[d] /\ item[c] # NoItem => c = d

OnePlace ==
  /\ \A c \in Clients : ~InQueue(item[c]) /\ item[c] \notin freed
  /\ \A i \in freed : ~InQueue(i)

NoneForgotten ==
  \A i \in Items : InQueue(i) \/ i \in freed \/ \E c \in Clients : item[c] = i

ExclusiveOwnership == NoDoubleQueue /\ NoSharedItem /\ OnePlace /\ NoneForgotten

(***************************************************************************)
(* Whoever holds an item finds room for it: send_blocking in the drop of a *)
(* CheckoutGuard never blocks a runtime thread, and the try_send in the    *)
(* drop of a PoolGuard never fails for want of room (pool.rs:160-184).     *)
(***************************************************************************)
ReturnNeverBlocks ==
  \A c \in Clients : client[c] \in Holding => Len(queue) < Capacity

(***************************************************************************)
(* While the pool is open a triplet is only destroyed by a caller that     *)
(* took it out with into_inner and did not check it in (pool.rs:196-197);  *)
(* guards, panics included, always bring it back.                          *)
(***************************************************************************)
GuardsLoseNothing ==
  [][\A c \in Clients :
        client[c] \in {"guard", "owned"} /\ item'[c] = NoItem /\ channel = "open"
          => \E k \in 1..Len(queue') : queue'[k] = item[c]]_vars

(***************************************************************************)
(* PoolError::Closed is final: "the pool has been closed and can no longer *)
(* hand out items" (pool.rs:13).  After one checkout has answered Closed,  *)
(* no client ever obtains an item, although items still held by others     *)
(* come back later.                                                        *)
(***************************************************************************)
ClosedIsFinal ==
  [][refused => \A c \in Clients : item'[c] \in {item[c], NoItem}]_vars

(***************************************************************************)
(* A request that waits under the timeout of checkout_triplet is answered, *)
(* with a triplet, 503 timeout or 503 pool_closed, however often others    *)
(* barge in with try_checkout (http.rs:121-129).                           *)
(***************************************************************************)
TimedCheckoutAnswered ==
  \A c \in Clients : client[c] = "timed" ~> client[c] # "timed"

-----------------------------------------------------------------------------
(* The owner of every item, as SessionLender sees it.                      *)
owner ==
  [i \in Items |->
     IF \E c \in Clients : item[c] = i
     THEN CHOOSE c \in Clients : item[c] = i
     ELSE IF InQueue(i) THEN Shelf ELSE Gone]

Lender == INSTANCE SessionLender WITH inService <- (channel = "open")

(***************************************************************************)
(* The channel, the three kinds of guard and the closing protocol          *)
(* implement the lender: a client is lent only what was on the shelf, a    *)
(* returned item is on the shelf again unless the pool is closed, and a    *)
(* freed item never comes back (pool.rs:68-113, 160-184).                  *)
(***************************************************************************)
ImplementsLender == Lender!Spec

(***************************************************************************)
(* No triplet stays lent for ever: every guard, the blocking return of a   *)
(* CheckoutGuard included, is rid of it sooner or later, be it to a closed *)
(* pool.  So a pool retired by a model reload gives all its memory back:   *)
(* once the Pool is dropped, every triplet, those still out included, is   *)
(* eventually freed (pool.rs:160-184, 228-234, async-channel's closing     *)
(* when the last receiver goes).                                           *)
(***************************************************************************)
RetiredPoolFreed == ~alive ~> freed = Items
LoansEnd == Lender!LoansEnd /\ RetiredPoolFreed
=============================================================================
