----------------------------- MODULE SessionPool -----------------------------
(***************************************************************************)
(* The pool of ONNX session triplets (src/src/inference/pool.rs).          *)
(*                                                                         *)
(* A Pool<T> is a bounded MPMC channel that is filled once, when the pool  *)
(* is built; a task checks an item out by receiving it and gives it back   *)
(* by sending it.  Three owners may hold an item in turn: the borrowing    *)
(* PoolGuard, the owning CheckoutGuard, and the bare (item, reservation)   *)
(* pair of into_inner.  Unwinding from a panic runs the same destructors   *)
(* as leaving the scope, so a panic is the drop of whatever is held.       *)
(***************************************************************************)
EXTENDS Integers, Sequences, FiniteSets

CONSTANTS
  Items,      (* the session triplets the pool is built from               *)
  Clients,    (* the tasks that use the pool                               *)
  NoItem      (* held by a client that holds nothing                       *)

ASSUME ItemsAssumption == IsFiniteSet(Items)
ASSUME NoItemAssumption == NoItem \notin Items

VARIABLES
  queue,      (* the channel's messages, oldest first                      *)
  channel,    (* "open" or "closed"                                        *)
  alive,      (* the Pool still exists (its engine is referenced)          *)
  client,     (* what each client is doing                                 *)
  item,       (* the item each client holds                                *)
  freed,      (* items whose destructor has run                            *)
  refused     (* some checkout has answered PoolError::Closed              *)

vars == <<queue, channel, alive, client, item, freed, refused>>

(***************************************************************************)
(* "awaiting" is checkout().await, "timed" the same under the 30 s timeout *)
(* of http.rs::checkout_triplet.                                           *)
(***************************************************************************)
Waiting == {"awaiting", "timed"}
Holding == {"guard", "owned", "raw"}
Status == {"idle"} \union Waiting \union Holding

(* async_channel::bounded(total.max(1)) *)
Capacity == IF Items = {} THEN 1 ELSE Cardinality(Items)

InQueue(i) == \E k \in 1..Len(queue) : queue[k] = i

Init ==
  /\ queue \in [1..Cardinality(Items) -> Items]
  /\ \A k, l \in 1..Cardinality(Items) : queue[k] = queue[l] => k = l
  /\ channel = "open"
  /\ alive = TRUE
  /\ client = [c \in Clients |-> "idle"]
  /\ item = [c \in Clients |-> NoItem]
  /\ freed = {}
  /\ refused = FALSE

-----------------------------------------------------------------------------
(* Checking out *)

(* Mutant: the receiver hands the item out and leaves it in the channel.   *)
TakePeeks(c) ==
  /\ queue # << >>
  /\ item' = [item EXCEPT ![c] = Head(queue)]
  /\ client' = [client EXCEPT ![c] = "guard"]
  /\ UNCHANGED <<queue, channel, alive, freed, refused>>

(* The receiving end: the oldest item moves into a PoolGuard.              *)
Take(c) ==
  /\ queue # << >>
  /\ queue' = Tail(queue)
  /\ item' = [item EXCEPT ![c] = Head(queue)]
  /\ client' = [client EXCEPT ![c] = "guard"]
  /\ UNCHANGED <<channel, alive, freed, refused>>

(* Pool::checkout: the task starts to wait for an item.                    *)
Checkout(c) ==
  /\ alive
  /\ client[c] = "idle"
  /\ \E w \in Waiting : client' = [client EXCEPT ![c] = w]
  /\ UNCHANGED <<queue, channel, alive, item, freed, refused>>

(* The awaited receive completes.                                          *)
CheckoutOk(c) ==
  /\ client[c] \in Waiting
  /\ Take(c)

(* Mutant: the closed flag is looked at before the channel is drained.     *)
CheckoutClosedUndrained(c) ==
  /\ client[c] \in Waiting
  /\ channel = "closed"
  /\ client' = [client EXCEPT ![c] = "idle"]
  /\ refused' = TRUE
  /\ UNCHANGED <<queue, channel, alive, item, freed>>

(* A closed channel is drained before recv() fails.                        *)
CheckoutClosed(c) ==
  /\ client[c] \in Waiting
  /\ queue = << >>
  /\ channel = "closed"
  /\ client' = [client EXCEPT ![c] = "idle"]
  /\ refused' = TRUE
  /\ UNCHANGED <<queue, channel, alive, item, freed>>

(* Mutant: checkout_triplet awaits the pool without a deadline.            *)
CheckoutNoTimeout(c) == client[c] = "timed" /\ FALSE /\ UNCHANGED vars

(* The deadline of checkout_triplet: tokio polls the receive first, so the *)
(* timeout answers only when there is nothing to receive.                  *)
CheckoutTimeout(c) ==
  /\ client[c] = "timed"
  /\ queue = << >>
  /\ channel = "open"
  /\ client' = [client EXCEPT ![c] = "idle"]
  /\ UNCHANGED <<queue, channel, alive, item, freed, refused>>

(* What one poll of a waiting task can answer.                             *)
Poll(c) == CheckoutOk(c) \/ CheckoutClosed(c) \/ CheckoutTimeout(c)

(* The waiting future is dropped: the HTTP peer went away.                 *)
Cancel(c) ==
  /\ client[c] \in Waiting
  /\ client' = [client EXCEPT ![c] = "idle"]
  /\ UNCHANGED <<queue, channel, alive, item, freed, refused>>

(* Pool::try_checkout takes an item past every waiter, or answers None,    *)
(* which changes nothing.                                                  *)
TryCheckout(c) ==
  /\ alive
  /\ client[c] = "idle"
  /\ Take(c)

-----------------------------------------------------------------------------
(* Owning and giving back *)

(* The holder gives its item up for good.                                  *)
Release(c) ==
  /\ item' = [item EXCEPT ![c] = NoItem]
  /\ client' = [client EXCEPT ![c] = "idle"]
  /\ UNCHANGED <<channel, alive, refused>>

GiveBack(c) ==
  /\ channel = "open"
  /\ Len(queue) < Capacity
  /\ queue' = Append(queue, item[c])
  /\ UNCHANGED freed
  /\ Release(c)

Free(c) ==
  /\ freed' = freed \union {item[c]}
  /\ UNCHANGED queue
  /\ Release(c)

(* Mutant: PoolGuard without a Drop that sends the item back.              *)
DropGuardFrees(c) == client[c] = "guard" /\ Free(c)

(* Drop of PoolGuard: try_send, whose failure (full or closed) frees the   *)
(* item after a warning.                                                   *)
DropGuard(c) ==
  /\ client[c] = "guard"
  /\ \/ GiveBack(c)
     \/ /\ channel = "closed" \/ Len(queue) >= Capacity
        /\ Free(c)

(* Mutant: into_owned copies the handle instead of taking it, so that the  *)
(* drop of the old guard sends the item back too.                          *)
IntoOwnedCopies(c) ==
  /\ client[c] = "guard"
  /\ client' = [client EXCEPT ![c] = "owned"]
  /\ queue' = Append(queue, item[c])
  /\ UNCHANGED <<channel, alive, item, freed, refused>>

(* PoolGuard::into_owned moves the item and clones the sender.             *)
IntoOwned(c) ==
  /\ client[c] = "guard"
  /\ client' = [client EXCEPT ![c] = "owned"]
  /\ UNCHANGED <<queue, channel, alive, item, freed, refused>>

(* CheckoutGuard::into_inner: the caller must check in by hand.            *)
IntoInner(c) ==
  /\ client[c] = "owned"
  /\ client' = [client EXCEPT ![c] = "raw"]
  /\ UNCHANGED <<queue, channel, alive, item, freed, refused>>

(* Mutant: a checkin that waits for room whatever the channel's state.     *)
CheckinIgnoresClose(c) == GiveBack(c)

(* OwnedReservation::checkin: send_blocking blocks the thread while the    *)
(* channel is full and frees the item when it is closed.                   *)
Checkin(c) ==
  \/ GiveBack(c)
  \/ channel = "closed" /\ Free(c)

(* Drop of CheckoutGuard.                                                  *)
DropOwned(c) == client[c] = "owned" /\ Checkin(c)

(* The manual check-in after into_inner.                                   *)
CheckinRaw(c) == client[c] = "raw" /\ Checkin(c)

(* A bare item dropped without checkin (early return, panic) is gone.      *)
AbandonRaw(c) == client[c] = "raw" /\ Free(c)

-----------------------------------------------------------------------------
(* Closing and retiring *)

(* Pool::close closes both ends of the channel.                            *)
Close ==
  /\ alive
  /\ channel = "open"
  /\ channel' = "closed"
  /\ UNCHANGED <<queue, alive, client, item, freed, refused>>

(* The last Arc<Engine> goes (a reload replaced it): the channel loses its *)
(* only receiver and closes.  Tasks that wait, or hold a borrowing guard,  *)
(* keep the engine referenced; owning guards do not.                       *)
DropPool ==
  /\ alive
  /\ \A c \in Clients : client[c] \notin Waiting \union {"guard"}
  /\ alive' = FALSE
  /\ channel' = "closed"
  /\ UNCHANGED <<queue, client, item, freed, refused>>

(* With the last sender gone too, the channel frees what it still holds.   *)
FreeChannel ==
  /\ ~alive
  /\ \A c \in Clients : client[c] \notin {"owned", "raw"}
  /\ queue # << >>
  /\ freed' = freed \union {queue[k] : k \in 1..Len(queue)}
  /\ queue' = << >>
  /\ UNCHANGED <<channel, alive, client, item, refused>>

-----------------------------------------------------------------------------
ClientNext(c) ==
  \/ Checkout(c) \/ CheckoutOk(c) \/ CheckoutClosed(c) \/ CheckoutTimeout(c)
  \/ Cancel(c) \/ TryCheckout(c)
  \/ IntoOwned(c) \/ IntoInner(c)
  \/ DropGuard(c) \/ DropOwned(c) \/ CheckinRaw(c) \/ AbandonRaw(c)

Next == (\E c \in Clients : ClientNext(c)) \/ Close \/ DropPool \/ FreeChannel

(***************************************************************************)
(* Inference ends or panics, so a guard is dropped sooner or later; the    *)
(* runtime polls a task that was woken, by the channel or by its timer;    *)
(* memory is freed once nothing refers to it.  Nothing obliges a client to *)
(* start, to cancel, or to close the pool.                                 *)
(***************************************************************************)
Return(c) == DropGuard(c) \/ DropOwned(c) \/ CheckinRaw(c) \/ AbandonRaw(c)

Fairness ==
  /\ \A c \in Clients : WF_vars(Poll(c)) /\ WF_vars(Return(c))
  /\ WF_vars(FreeChannel)

Spec == Init /\ [][Next]_vars
FairSpec == Spec /\ Fairness

=============================================================================
