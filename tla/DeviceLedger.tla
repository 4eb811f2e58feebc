---------------------------- MODULE DeviceLedger ----------------------------
(***************************************************************************)
(* What the devices promise together, without messages: each device has an *)
(* owner and a ticket order. It is initialised once, changes hands only    *)
(* along an offer its owner made for exactly the present order, and every  *)
(* change of hands and every access that ends uses one order up. Offers    *)
(* may get lost; nobody makes one in another's name.                       *)
(***************************************************************************)
EXTENDS Naturals

CONSTANTS Devices, Agents, NoOne

VARIABLES
  live,    \* devices that still have their memory
  owner,
  order,
  offers   \* ownership offers somebody still holds

ledgerVars == <<live, owner, order, offers>>

Init ==
  /\ live = Devices
  /\ owner = [d \in Devices |-> NoOne]
  /\ order = [d \in Devices |-> 0]
  /\ offers = {}

Offer(a) ==
  /\ \A t \in offers' \ offers : t.from = a
  /\ UNCHANGED <<live, owner, order>>

Forget ==
  /\ offers' \subseteq offers
  /\ UNCHANGED <<live, owner, order>>

Initialise(d, a) ==
  /\ d \in live
  /\ order[d] = 0
  /\ order' = [order EXCEPT ![d] = 1]
  /\ owner' = [owner EXCEPT ![d] = a]
  /\ offers' \subseteq offers
  /\ UNCHANGED live

Transfer(d) ==
  /\ d \in live
  /\ \E t \in offers :
       /\ t.dev = d /\ t.order = order[d] /\ t.from = owner[d]
       /\ owner' = [owner EXCEPT ![d] = t.to]
  /\ order' = [order EXCEPT ![d] = @ + 1]
  /\ offers' \subseteq offers
  /\ UNCHANGED live

EndAccess(d) ==
  /\ d \in live
  /\ order[d] > 0
  /\ order' = [order EXCEPT ![d] = @ + 1]
  /\ offers' \subseteq offers
  /\ UNCHANGED <<live, owner>>

(* A device that loses its memory leaves the ledger. *)
Lose(d) ==
  /\ d \in live
  /\ live' = live \ {d}
  /\ \A e \in live' : owner'[e] = owner[e] /\ order'[e] = order[e]
  /\ offers' \subseteq offers

Next ==
  \/ \E a \in Agents : Offer(a)
  \/ Forget
  \/ \E d \in Devices, a \in Agents : Initialise(d, a)
  \/ \E d \in Devices : Transfer(d) \/ EndAccess(d) \/ Lose(d)

Spec == Init /\ [][Next]_ledgerVars
=============================================================================
