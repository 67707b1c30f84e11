---------------------------- MODULE SessionLender ----------------------------
(***************************************************************************)
(* What Pool<T> of src/src/inference/pool.rs promises its users, without   *)
(* the channel: every item has one owner (the pool or one client), an item *)
(* that comes back to a pool still in service can be lent again, and an    *)
(* item leaves the system only when its owner is not the pool in service.  *)
(* The actions on items leave inService to Next, so that a system whose    *)
(* pool is never closed can use them with inService <- TRUE.               *)
(***************************************************************************)
CONSTANTS
  Items,      (* what is lent                                              *)
  Clients,    (* to whom                                                   *)
  Shelf,      (* the owner of an item that waits to be lent                *)
  Gone        (* the owner of an item that was freed                       *)

VARIABLES
  owner,      (* [Items -> owner]                                          *)
  inService   (* the lender takes items back                               *)

vars == <<owner, inService>>

HasNone(c) == \A i \in Items : owner[i] # c

Init == owner = [i \in Items |-> Shelf] /\ inService = TRUE

(* A client that holds nothing borrows an item that nobody holds.          *)
Lend(i, c) ==
  /\ owner[i] = Shelf
  /\ HasNone(c)
  /\ owner' = [owner EXCEPT ![i] = c]

GiveBack(i, c) ==
  /\ owner[i] = c
  /\ inService
  /\ owner' = [owner EXCEPT ![i] = Shelf]

(* A borrower may destroy what it holds at any time: after into_inner it   *)
(* owes the pool nothing.                                                  *)
Lose(i, c) ==
  /\ owner[i] = c
  /\ owner' = [owner EXCEPT ![i] = Gone]

(* The shelf is cleared only when the lender is out of service.            *)
ClearShelf ==
  /\ ~inService
  /\ owner' = [i \in Items |-> IF owner[i] = Shelf THEN Gone ELSE owner[i]]

StopService == inService' = FALSE /\ UNCHANGED owner

Next ==
  \/ /\ UNCHANGED inService
     /\ \/ \E i \in Items, c \in Clients :
             Lend(i, c) \/ GiveBack(i, c) \/ Lose(i, c)
        \/ ClearShelf
  \/ StopService

(* No loan lasts for ever.                                                 *)
LoansEnd == \A i \in Items, c \in Clients : owner[i] = c ~> owner[i] # c

Spec == Init /\ [][Next]_vars

=============================================================================
