---------------------------- MODULE UrekaLedger -----------------------------
(***************************************************************************)
(* The devices implement the ledger: every step of Ureka is, seen from     *)
(* owners, orders and the ownership tickets in existence, a step of        *)
(* DeviceLedger or no step at all.                                         *)
(***************************************************************************)
EXTENDS UrekaSafety

Offers == {OfferOf(u) : u \in OwnershipTickets}

LEMMA OwnershipTicketsDef ==
  \A u : u \in OwnershipTickets <=>
           /\ u.type = "OWNERSHIP"
           /\ u = channel.u \/ \E a \in Agents, d \in Devices : u \in RowTickets(a, d)
BY DEF OwnershipTickets

LEMMA OwnershipTicketsNext ==
  \A u : u \in OwnershipTickets' <=>
           /\ u.type = "OWNERSHIP"
           /\ u = channel'.u \/ \E a \in Agents, d \in Devices : u \in RowTickets(a, d)'
BY DEF OwnershipTickets

LEMMA LedgerInit == Init => Ledger!Init
<1> SUFFICES ASSUME Init PROVE Ledger!Init
  OBVIOUS
<1>1. \A a \in Agents, d \in Devices : RowTickets(a, d) = {NoUT}
  BY EmptyFields DEF Init, RowTickets
<1>2. OwnershipTickets = {}
  <2>1. channel.u = NoUT /\ NoUT.type # "OWNERSHIP"
    BY EmptyFields DEF Init
  <2>2. ASSUME NEW u, u \in OwnershipTickets
        PROVE  FALSE
    BY <1>1, <2>1, <2>2, OwnershipTicketsDef
  <2> QED
    BY <2>2
<1>3. Offers = {}
  BY <1>2 DEF Offers
<1>4. {d \in Devices : Live(d)} = Devices
  BY DEF Init, Live, Lost, Controllers
<1> QED
  BY <1>3, <1>4 DEF Ledger!Init, Offers, Init

(* An agent makes offers in her own name only. *)
LEMMA AgentStepOffers ==
  ASSUME SafeInv, NEW a \in Agents, AgentChanges(a)
  PROVE  Ledger!Offer(a)
<1>1. \A u : OldTicket(u) /\ u.type = "OWNERSHIP" => u \in OwnershipTickets
  BY OwnershipTicketsDef, EmptyFields DEF OldTicket, RowTickets, SafeInv
<1>2. ASSUME NEW u, u \in OwnershipTickets'
      PROVE  u \in OwnershipTickets \/ u.signer = a
  <2>1. u.type = "OWNERSHIP"
    BY <1>2, OwnershipTicketsNext
  <2>2. OldTicket(u) \/ MadeBy(a, u)
    BY <1>2, OwnershipTicketsNext DEF AgentChanges, RowFrom, RowTickets
  <2> QED
    BY <1>1, <2>1, <2>2 DEF MadeBy
<1>3. \A t \in Offers' \ Offers : t.from = a
  BY <1>2 DEF Offers, OfferOf
<1>4. {d \in Devices : Live(d)}' = {d \in Devices : Live(d)}
  BY DEF AgentChanges, Live
<1> QED
  BY <1>3, <1>4 DEF Ledger!Offer, Offers, AgentChanges

(* A device step adds no offer; it is one of the ledger's own operations. *)
LEMMA DeviceStepLedger ==
  ASSUME SafeInv, NEW d \in Devices, DeviceChanges(d)
  PROVE  \/ Ledger!Forget \/ Ledger!EndAccess(d) \/ Ledger!Transfer(d)
         \/ \E a \in Agents : Ledger!Initialise(d, a)
<1>p. /\ order \in [Devices -> Nat] /\ owner \in [Devices -> Persons] /\ channel.u \in UTicket
  BY TypeParts DEF SafeInv, TypeOK
<1>1. Offers' \subseteq Offers
  <2>1. \A a \in Agents, e \in Devices : RowTickets(a, e)' = RowTickets(a, e)
    BY DEF DeviceChanges, RowTickets
  <2>2. ASSUME NEW u, u \in OwnershipTickets'
        PROVE  u \in OwnershipTickets
    <3>1. u # channel'.u
      BY <2>2, EmptyFields, OwnershipTicketsNext DEF DeviceChanges
    <3>2. PICK a \in Agents, e \in Devices : u \in RowTickets(a, e)
      BY <2>1, <2>2, <3>1, OwnershipTicketsNext
    <3> QED
      BY <2>2, <3>2, OwnershipTicketsDef, OwnershipTicketsNext
  <2> QED
    BY <2>2 DEF Offers, OfferOf
<1>2. {e \in Devices : Live(e)}' = {e \in Devices : Live(e)}
  BY DEF DeviceChanges, Live
<1>3. CASE Quiet(d)
  <2>1. order' = order /\ owner' = owner
    BY <1>3, <1>p DEF DeviceChanges, Quiet
  <2> QED
    BY <1>1, <1>2, <2>1 DEF Ledger!Forget, Offers
<1>4. CASE EndsAccess(d)
  <2>1. order' = [order EXCEPT ![d] = @ + 1] /\ owner' = owner
    BY <1>4, <1>p DEF DeviceChanges, EndsAccess
  <2> QED
    BY <1>1, <1>2, <1>4, <2>1 DEF Ledger!EndAccess, Offers, EndsAccess
<1>5. CASE ChangesHands(d)
  <2> DEFINE u == channel.u
  <2>1. /\ order' = [order EXCEPT ![d] = @ + 1]
        /\ owner' = [owner EXCEPT ![d] = u.holder]
    BY <1>5, <1>p DEF DeviceChanges, ChangesHands
  <2>2. /\ VerifyUDeviceId(d, order[d], u) /\ VerifyUOrder(order[d], u)
        /\ VerifyUHolder(owner[d], u) /\ VerifyUSignature(owner[d], u)
    BY <1>5 DEF ChangesHands, CanExecute, VerifyCanExecute
  <2>3. CASE u.type = "INITIALIZATION"
    <3>1. order[d] = 0 /\ u.holder \in Agents
      BY <1>p, <2>2, <2>3, UTicketFields DEF VerifyUOrder, VerifyUHolder, Persons
    <3>2. order' = [order EXCEPT ![d] = 1]
      BY <2>1, <3>1
    <3> QED
      BY <1>1, <1>2, <1>5, <2>1, <3>1, <3>2 DEF Ledger!Initialise, Offers, ChangesHands
  <2>4. CASE u.type = "OWNERSHIP"
    <3> DEFINE t == OfferOf(u)
    <3>1. t \in Offers
      BY <2>4, OwnershipTicketsDef DEF Offers
    <3>2. t.dev = d /\ t.order = order[d] /\ t.from = owner[d] /\ t.to = u.holder
      BY <2>2, <2>4 DEF OfferOf, VerifyUDeviceId, VerifyUOrder, VerifyUSignature
    <3> QED
      BY <1>1, <1>2, <1>5, <2>1, <3>1, <3>2 DEF Ledger!Transfer, Offers, ChangesHands
  <2> QED
    BY <1>5, <2>3, <2>4 DEF ChangesHands
<1> QED
  BY <1>3, <1>4, <1>5 DEF DeviceChanges

LEMMA RebootLoses ==
  ASSUME SafeInv, NEW d \in Devices, RebootDevice(d)
  PROVE  Ledger!Lose(d)
<1>1. /\ Live(d) /\ state'[d] = Lost
      /\ \A e \in Devices \ {d} :
           state'[e] = state[e] /\ order'[e] = order[e] /\ owner'[e] = owner[e]
  BY DEF RebootDevice, Goto, SafeInv, TypeOK, Controllers, Live
<1>2. {e \in Devices : Live(e)}' = {e \in Devices : Live(e)} \ {d}
  BY <1>1 DEF Live
<1>3. Offers' = Offers
  BY DEF RebootDevice, Offers, OwnershipTickets, RowTickets
<1> QED
  BY <1>1, <1>2, <1>3 DEF Ledger!Lose, Offers

(* LedgerSpec: the owner and the order of every device change only as the  *)
(* ledger says, for any number of agents and devices and in any order of   *)
(* calls.                                                                  *)
THEOREM ImplementsLedger == Spec => LedgerSpec
<1>1. ASSUME SafeInv, TypeOK', [Next]_vars
      PROVE  [Ledger!Next]_(Ledger!ledgerVars)
  <2> TypeOK
    BY <1>1 DEF SafeInv
  <2>1. CASE UNCHANGED vars
    BY <2>1 DEF vars, Ledger!ledgerVars, Live, OwnershipTickets, RowTickets, OfferOf
  <2>2. ASSUME NEW a \in Agents, Call(a) \/ AgentRecv(a)
        PROVE  Ledger!Next
    BY <1>1, <2>2, CallIsAnyCall, CallChanges, AgentRecvChanges, AgentStepOffers DEF Ledger!Next
  <2>3. ASSUME NEW d \in Devices, DeviceRecv(d)
        PROVE  Ledger!Next
    BY <1>1, <2>3, DeviceRecvChanges, DeviceStepLedger DEF Ledger!Next
  <2>4. ASSUME NEW d \in Fragile, RebootDevice(d)
        PROVE  Ledger!Next
    BY <1>1, <2>4, RebootLoses, InputsAssumption DEF Ledger!Next
  <2> QED
    BY <1>1, <2>1, <2>2, <2>3, <2>4 DEF Next
<1> QED
  BY <1>1, LedgerInit, Safe, TypeCorrect, PTL DEF Spec, LedgerSpec, Ledger!Spec
=============================================================================
