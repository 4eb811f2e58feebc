--------------------------- MODULE UrekaLifeSafety ---------------------------
(***************************************************************************)
(* The ledger under controllers that come and go. A device without a state *)
(* is one that was not constructed yet or one that lost its memory, and    *)
(* SafeInv says nothing of either. That is enough for the second; the      *)
(* first has its life before it, so the invariant adds what nobody may     *)
(* have heard of it when it is constructed.                                *)
(***************************************************************************)
EXTENDS UrekaLife, UrekaLedger

NotHeardOf(d, x) == x.dev = d => x.order = 0

Unheard(d) ==
  /\ order[d] = 0 /\ owner[d] = NoOne
  /\ NotHeardOf(d, channel.u) /\ NotHeardOf(d, channel.r)
  /\ channel.r.dev = d => NoReceipt(channel.r)
  /\ \A a \in Agents : table[a][d].order = 0
  /\ \A a \in Agents, e \in Devices :
       /\ \A u \in RowTickets(a, e) : NotHeardOf(d, u)
       /\ NotHeardOf(d, table[a][e].rOwner)
       /\ table[a][e].rOwner.dev = d => NoReceipt(table[a][e].rOwner)

(* Who has an owner was initialised. *)
OwnedIsInitialised(d) == Live(d) /\ owner[d] # NoOne => order[d] > 0

LifeInv ==
  /\ SafeInv
  /\ life \in [Controllers -> Stages]
  /\ \A d \in Devices : Live(d) <=> life[d] = "constructed"
  /\ \A d \in Devices : life[d] = "none" => Unheard(d)
  /\ \A d \in Devices : OwnedIsInitialised(d)

InLedger == {d \in Devices : life[d] # "lost"}

LEMMA LifeBegins == LifeInit => LifeInv /\ LifeLedger!Init
<1> SUFFICES ASSUME LifeInit PROVE LifeInv /\ LifeLedger!Init
  OBVIOUS
<1>1. /\ \A a \in Agents, d \in Devices : table[a][d] = NoRow
      /\ \A a \in Agents : initTicket[a] = NoUT
      /\ channel.u = NoUT /\ channel.r = NoRT
  BY EmptyFields DEF LifeInit
<1>2. \A d \in Devices :
        ~ Live(d) /\ order[d] = 0 /\ owner[d] = NoOne /\ life[d] = "none"
  BY DEF LifeInit, Live, Controllers
<1>3. TypeOK
  BY EmptyTypes DEF LifeInit, TypeOK, Controllers, Persons
<1>4. SafeInv
  BY <1>1, <1>2, <1>3, EmptyOk, EmptyFields DEF SafeInv, RowOk, NotAhead
<1>5. \A d \in Devices : Unheard(d)
  <2>1. \A a \in Agents, e \in Devices : RowTickets(a, e) = {NoUT} /\ table[a][e].rOwner = NoRT
    BY <1>1, EmptyFields DEF RowTickets
  <2>2. \A d \in Devices : NotHeardOf(d, NoUT) /\ NotHeardOf(d, NoRT) /\ NoReceipt(NoRT)
    BY EmptyFields DEF NotHeardOf, NoReceipt
  <2> QED
    BY <1>1, <1>2, <2>1, <2>2, EmptyFields DEF Unheard
<1>6. life \in [Controllers -> Stages]
  BY DEF LifeInit, Stages
<1>7. Offers = {}
  <2>1. NoUT.type # "OWNERSHIP"
    BY EmptyFields
  <2>2. \A a \in Agents, d \in Devices : RowTickets(a, d) = {NoUT}
    BY <1>1, EmptyFields DEF RowTickets
  <2>3. OwnershipTickets = {}
    BY <1>1, <2>1, <2>2, OwnershipTicketsDef
  <2> QED
    BY <2>3 DEF Offers
<1>8. {d \in Devices : life[d] # "lost"} = Devices
  BY <1>2
<1>9. LifeLedger!Init
  BY <1>7, <1>8 DEF LifeLedger!Init, LifeInit, Offers
<1> QED
  BY <1>2, <1>4, <1>5, <1>6, <1>9 DEF LifeInv, OwnedIsInitialised

(***************************************************************************)
(* The calls.                                                              *)
(***************************************************************************)
LEMMA PersonKeyType == \A a \in Agents : PersonKey(a) \in Persons
BY DEF PersonKey, Persons

LEMMA CallWithoutKeyIsAnyCall ==
  ASSUME NEW a \in Agents, CallWithoutKey(a)
  PROVE  AnyCall(a)
<1>1. IssueInitWithoutKey(a) => AnyIssue(a)
  BY PersonKeyType DEF IssueInitWithoutKey, AnyIssue, SetInitTicket
<1> QED
  BY <1>1, InputsAssumption DEF CallWithoutKey, AnyCall

LEMMA CallWithKeyIsAnyCall ==
  ASSUME NEW a \in Agents, CallWithKey(a)
  PROVE  AnyCall(a)
<1>1. HolderKeys \subseteq Persons
  BY PersonKeyType DEF HolderKeys
<1>2. LifeIssue(a) => AnyIssue(a)
  <2>1. IssueInitToHerself(a) => AnyIssue(a)
    BY DEF IssueInitToHerself, AnyIssue, SetInitTicket, Persons
  <2> QED
    BY <1>1, <2>1, InputsAssumption DEF LifeIssue, AnyIssue
<1> QED
  BY <1>2, InputsAssumption DEF CallWithKey, AnyCall

(* What an agent does in any stage of her life is what agents do.          *)
LEMMA UseAgentChanges ==
  ASSUME TypeOK, NEW a \in Agents, UseAgent(a)
  PROVE  TypeOK' /\ AgentChanges(a)
<1>1. CASE AnyCall(a)
  BY <1>1, CallType, CallChanges
<1>2. CASE AgentRecv(a)
  BY <1>2, AgentType, AgentRecvChanges
<1>3. CASE LostDeviceDropsMessage(a)
  <2>1. channel' = NoMessage /\ UNCHANGED <<state, order, owner, session, initTicket, table>>
    BY <1>3 DEF LostDeviceDropsMessage, Consume
  <2>2. TypeOK'
    BY <2>1, EmptyTypes DEF TypeOK
  <2>3. channel'.u = NoUT /\ channel'.r = NoRT
    BY <2>1, EmptyFields
  <2> QED
    BY <2>1, <2>2, <2>3, Unchanged DEF AgentChanges
<1> QED
  BY <1>1, <1>2, <1>3, CallWithoutKeyIsAnyCall, CallWithKeyIsAnyCall DEF UseAgent

(* A ticket that names a device nobody has heard of names its order 0.     *)
LEMMA AgentStepUnheard ==
  ASSUME SafeInv, NEW a \in Agents, AgentChanges(a), NEW d \in Devices, Unheard(d)
  PROVE  Unheard(d)'
<1>1. \A u : OldTicket(u) \/ MadeBy(a, u) => NotHeardOf(d, u)
  <2>1. \A u : OldTicket(u) => NotHeardOf(d, u)
    <3>1. NotHeardOf(d, NoUT) /\ NotHeardOf(d, channel.u)
      BY EmptyFields DEF NotHeardOf, Unheard
    <3>2. \A b \in Agents : NotHeardOf(d, initTicket[b])
      BY PartiesAssumption DEF NotHeardOf, SafeInv
    <3>3. \A b \in Agents, e \in Devices : \A u \in RowTickets(b, e) : NotHeardOf(d, u)
      BY DEF Unheard
    <3> QED
      BY <3>1, <3>2, <3>3 DEF OldTicket, RowTickets
  <2>2. \A u : MadeBy(a, u) => NotHeardOf(d, u)
    BY DEF MadeBy, NotHeardOf, Unheard, RowOrder
  <2> QED
    BY <2>1, <2>2
<1>2. \A r : OldReceipt(r) \/ AnswerBy(a, r) => NotHeardOf(d, r) /\ (r.dev = d => NoReceipt(r))
  <2>1. \A r : OldReceipt(r) => NotHeardOf(d, r) /\ (r.dev = d => NoReceipt(r))
    BY EmptyFields DEF OldReceipt, NotHeardOf, NoReceipt, Unheard
  <2>2. \A r : AnswerBy(a, r) => NotHeardOf(d, r) /\ (r.dev = d => NoReceipt(r))
    BY DEF AnswerBy, NotHeardOf, NoReceipt, Unheard, RowOrder, ReceiptTypes
  <2> QED
    BY <2>1, <2>2
<1>3. ASSUME NEW b \in Agents, NEW e \in Devices
      PROVE  /\ \A u \in RowTickets(b, e)' : NotHeardOf(d, u)
             /\ NotHeardOf(d, table'[b][e].rOwner)
             /\ table'[b][e].rOwner.dev = d => NoReceipt(table'[b][e].rOwner)
  BY <1>1, <1>2 DEF AgentChanges, RowFrom, RowTickets
<1>4. \A b \in Agents : table'[b][d].order = 0
  BY DEF AgentChanges, RowFrom, KnownOrder, Unheard, NotHeardOf
<1>5. order'[d] = 0 /\ owner'[d] = NoOne
  BY DEF AgentChanges, Unheard
<1>6. /\ NotHeardOf(d, channel'.u) /\ NotHeardOf(d, channel'.r)
      /\ channel'.r.dev = d => NoReceipt(channel'.r)
  BY <1>1, <1>2 DEF AgentChanges
<1> QED
  BY <1>3, <1>4, <1>5, <1>6 DEF Unheard, NotHeardOf, NoReceipt

LEMMA DeviceStepUnheard ==
  ASSUME SafeInv, NEW c \in Devices, DeviceChanges(c), NEW d \in Devices, Unheard(d), ~ Live(d)
  PROVE  Unheard(d)'
<1>1. order'[d] = order[d] /\ owner'[d] = owner[d]
  BY DEF DeviceChanges, Quiet, EndsAccess, ChangesHands
<1>2. NotHeardOf(d, channel'.r) /\ (channel'.r.dev = d => NoReceipt(channel'.r))
  BY <1>1 DEF DeviceChanges, OwnAnswer, NotHeardOf, Unheard, Quiet, EndsAccess, ChangesHands
<1>3. NotHeardOf(d, channel'.u)
  BY EmptyFields DEF DeviceChanges, NotHeardOf
<1>4. table' = table
  BY DEF DeviceChanges
<1> QED
  BY <1>1, <1>2, <1>3, <1>4 DEF Unheard, NotHeardOf, NoReceipt, RowTickets

(***************************************************************************)
(* The steps.                                                              *)
(***************************************************************************)
LEMMA UseAgentStep ==
  ASSUME LifeInv, NEW a \in Agents, UseAgent(a)
  PROVE  LifeInv' /\ LifeLedger!Offer(a)
<1>1. TypeOK' /\ AgentChanges(a) /\ life' = life
  BY UseAgentChanges DEF LifeInv, SafeInv, UseAgent
<1>2. SafeInv'
  BY <1>1, AgentStepSafe DEF LifeInv
<1>3. \A d \in Devices : /\ Live(d) <=> Live(d)'
                         /\ Unheard(d) => Unheard(d)'
                         /\ OwnedIsInitialised(d) => OwnedIsInitialised(d)'
  BY <1>1, AgentStepUnheard DEF AgentChanges, Live, LifeInv, OwnedIsInitialised
<1>4. LifeInv'
  BY <1>1, <1>2, <1>3 DEF LifeInv
<1>5. Ledger!Offer(a)
  BY <1>1, AgentStepOffers DEF LifeInv
<1>6. LifeLedger!Offer(a)
  BY <1>1, <1>5 DEF Ledger!Offer, LifeLedger!Offer
<1> QED
  BY <1>4, <1>6

LEMMA UseDeviceStep ==
  ASSUME LifeInv, NEW d \in Devices, UseDevice(d)
  PROVE  LifeInv' /\ LifeLedger!Next
<1>1. TypeOK' /\ DeviceChanges(d) /\ life' = life
  BY DeviceType, DeviceRecvChanges DEF LifeInv, SafeInv, UseDevice
<1>2. SafeInv'
  BY <1>1, DeviceStepSafe DEF LifeInv
<1>3. \A e \in Devices : /\ Live(e) <=> Live(e)'
                         /\ ~ Live(e) /\ Unheard(e) => Unheard(e)'
  BY <1>1, DeviceStepUnheard DEF DeviceChanges, Live, LifeInv
<1>4. \A e \in Devices : OwnedIsInitialised(e) => OwnedIsInitialised(e)'
  BY <1>1, TypeParts DEF DeviceChanges, Quiet, EndsAccess, ChangesHands, LifeInv, SafeInv, Live, OwnedIsInitialised
<1>5. LifeInv'
  BY <1>1, <1>2, <1>3, <1>4 DEF LifeInv
<1>6. \/ Ledger!Forget \/ Ledger!EndAccess(d) \/ Ledger!Transfer(d)
      \/ \E a \in Agents : Ledger!Initialise(d, a)
  BY <1>1, DeviceStepLedger DEF LifeInv
<1>7. \A e \in Devices : Live(e) => life[e] # "lost"
  BY DEF LifeInv
<1>8. InLedger' = InLedger
  BY <1>1 DEF InLedger
<1>9. ASSUME Ledger!Forget
      PROVE  LifeLedger!Forget
  BY <1>1, <1>9 DEF Ledger!Forget, LifeLedger!Forget
<1>10. ASSUME Ledger!EndAccess(d)
      PROVE  LifeLedger!EndAccess(d)
  BY <1>1, <1>7, <1>10 DEF Ledger!EndAccess, LifeLedger!EndAccess
<1>11. ASSUME Ledger!Transfer(d)
       PROVE  LifeLedger!Transfer(d)
  BY <1>1, <1>7, <1>11 DEF Ledger!Transfer, LifeLedger!Transfer
<1>12. ASSUME NEW a \in Agents, Ledger!Initialise(d, a)
       PROVE  LifeLedger!Initialise(d, a)
  BY <1>1, <1>7, <1>12 DEF Ledger!Initialise, LifeLedger!Initialise
<1> QED
  BY <1>5, <1>6, <1>9, <1>10, <1>11, <1>12 DEF LifeLedger!Next

(* When a device is constructed its order counts again, and is 0.          *)
LEMMA ConstructStep ==
  ASSUME LifeInv, NEW c \in Controllers, Construct(c)
  PROVE  LifeInv' /\ UNCHANGED LifeLedger!ledgerVars
<1>1. /\ UNCHANGED <<order, owner, session, initTicket, table, channel>>
      /\ life[c] = "none" /\ life' = [life EXCEPT ![c] = "constructed"]
      /\ state' = [state EXCEPT ![c] = IF c \in Devices THEN "DEVICE_WAIT_FOR_UT" ELSE Idle]
  BY DEF Construct, Becomes, Goto
<1>2. /\ life' \in [Controllers -> Stages]
      /\ state' \in [Controllers -> DeviceStates \cup AgentStates \cup {Lost}]
      /\ \A e \in Controllers \ {c} : state'[e] = state[e] /\ life'[e] = life[e]
      /\ life'[c] = "constructed"
      /\ c \in Devices => state'[c] = "DEVICE_WAIT_FOR_UT"
  BY <1>1 DEF LifeInv, SafeInv, TypeOK, Stages, DeviceStates, AgentStates, Idle
<1>3. TypeOK'
  BY <1>1, <1>2 DEF LifeInv, SafeInv, TypeOK
<1>4. \A d \in Devices : d \in Controllers /\ (Live(d)' <=> d = c \/ Live(d))
  BY <1>2 DEF Live, Lost, Controllers
<1>5. c \in Devices => Unheard(c)
  BY <1>1 DEF LifeInv
<1>6. ASSUME NEW u \in UTicket, TicketOk(u), c \in Devices => NotHeardOf(c, u)
      PROVE  TicketOk(u)'
  BY <1>1, <1>4, <1>5, <1>6 DEF TicketOk, NotAhead, NotHeardOf, Unheard
<1>7. ASSUME NEW r \in RTicket, ReceiptOk(r), c \in Devices => NotHeardOf(c, r),
             c \in Devices /\ r.dev = c => NoReceipt(r)
      PROVE  ReceiptOk(r)'
  <2>1. NotAhead(r.dev, r.order)'
    BY <1>1, <1>4, <1>5, <1>7 DEF ReceiptOk, NotAhead, NotHeardOf, Unheard
  <2>2. NamesOwner(r)'
    BY <1>1, <1>4, <1>7 DEF ReceiptOk, NamesOwner, IsLatest, NoReceipt
  <2> QED
    BY <2>1, <2>2 DEF ReceiptOk
<1>p. /\ channel.u \in UTicket /\ channel.r \in RTicket
      /\ \A a \in Agents, d \in Devices : table[a][d] \in Row
  BY TypeParts DEF LifeInv, SafeInv, TypeOK
<1>8. TicketOk(channel.u)' /\ ReceiptOk(channel.r)'
  BY <1>1, <1>5, <1>6, <1>7, <1>p DEF LifeInv, SafeInv, Unheard
<1>9. ASSUME NEW a \in Agents, NEW e \in Devices
      PROVE  RowOk(a, e)'
  <2> DEFINE row == table[a][e]
  <2>1. /\ row.uOwner \in UTicket /\ row.ownUOthers \in UTicket /\ row.accUOthers \in UTicket
        /\ row.rOwner \in RTicket
    BY <1>p DEF Row
  <2>2. c \in Devices =>
          /\ NotHeardOf(c, row.uOwner) /\ NotHeardOf(c, row.ownUOthers)
          /\ NotHeardOf(c, row.accUOthers) /\ NotHeardOf(c, row.rOwner)
          /\ row.rOwner.dev = c => NoReceipt(row.rOwner)
    BY <1>5 DEF Unheard, RowTickets
  <2>3. RowOk(a, e)
    BY DEF LifeInv, SafeInv
  <2>4. /\ TicketOk(row.uOwner)' /\ TicketOk(row.ownUOthers)' /\ TicketOk(row.accUOthers)'
        /\ ReceiptOk(row.rOwner)'
    BY <1>1, <1>6, <1>7, <2>1, <2>2, <2>3 DEF RowOk
  <2>5. NotAhead(e, row.order)'
    BY <1>1, <1>4, <1>5, <2>3 DEF RowOk, NotAhead, Unheard
  <2> QED
    BY <2>4, <2>5 DEF RowOk
<1>10. SafeInv'
  BY <1>1, <1>3, <1>8, <1>9 DEF LifeInv, SafeInv
<1>11. ASSUME NEW d \in Devices
       PROVE  /\ (Live(d) <=> life[d] = "constructed")'
              /\ (life[d] = "none" => Unheard(d))'
              /\ OwnedIsInitialised(d)'
  <2>1. Unheard(d) => Unheard(d)'
    BY <1>1 DEF Unheard, NotHeardOf, NoReceipt, RowTickets
  <2>2. OwnedIsInitialised(d)'
    BY <1>1, <1>4, <1>5 DEF LifeInv, OwnedIsInitialised, Unheard
  <2> QED
    BY <1>2, <1>4, <2>1, <2>2 DEF LifeInv
<1>12. LifeInv'
  BY <1>2, <1>10, <1>11 DEF LifeInv
<1>13. InLedger' = InLedger
  BY <1>1, <1>2, <1>4 DEF InLedger
<1>14. Offers' = Offers
  BY <1>1 DEF Offers, OwnershipTickets, RowTickets, OfferOf
<1> QED
  BY <1>1, <1>12, <1>13, <1>14 DEF LifeLedger!ledgerVars, InLedger, Offers

(* Memory that is lost: of a device that comes up without a type, and of   *)
(* one that was rebooted. The others do not notice.                        *)
LEMMA LosesMemory ==
  ASSUME LifeInv, NEW d \in Devices, life[d] # "lost",
         state'[d] = Lost, life' = [life EXCEPT ![d] = "lost"], TypeOK',
         UNCHANGED <<initTicket, table, channel>>,
         \A e \in Devices \ {d} :
           state'[e] = state[e] /\ order'[e] = order[e] /\ owner'[e] = owner[e]
  PROVE  LifeInv' /\ LifeLedger!Lose(d)
<1>1. \A c, o : NotAhead(c, o) => NotAhead(c, o)'
  BY DEF NotAhead, Live
<1>2. \A r : NamesOwner(r) => NamesOwner(r)'
  BY DEF NamesOwner, IsLatest, Live
<1>3. SafeInv'
  BY <1>1, <1>2 DEF LifeInv, SafeInv, RowOk, TicketOk, ReceiptOk
<1>4. /\ life' \in [Controllers -> Stages] /\ life'[d] = "lost"
      /\ \A e \in Devices \ {d} : life'[e] = life[e]
  BY DEF LifeInv, Stages, Controllers
<1>5. ASSUME NEW e \in Devices
      PROVE  /\ (Live(e) <=> life[e] = "constructed")'
             /\ (life[e] = "none" => Unheard(e))'
             /\ OwnedIsInitialised(e)'
  <2>1. e # d /\ Unheard(e) => Unheard(e)'
    BY DEF Unheard, NotHeardOf, NoReceipt, RowTickets
  <2> QED
    BY <1>4, <2>1 DEF LifeInv, Live, OwnedIsInitialised
<1>6. LifeInv'
  BY <1>3, <1>4, <1>5 DEF LifeInv
<1>7. InLedger' = InLedger \ {d} /\ d \in InLedger
  BY <1>4 DEF InLedger
<1>8. Offers' = Offers
  BY DEF Offers, OwnershipTickets, RowTickets, OfferOf
<1>9. \A e \in InLedger' : owner'[e] = owner[e] /\ order'[e] = order[e]
  BY <1>7 DEF InLedger
<1> QED
  BY <1>6, <1>7, <1>8, <1>9 DEF LifeLedger!Lose, InLedger, Offers

(* What happens to an agent's own life does not touch the devices.         *)
LEMMA AgentLifeStep ==
  ASSUME LifeInv, NEW a \in Agents, NEW stage \in Stages, Becomes(a, stage), TypeOK',
         UNCHANGED <<order, owner, channel>>,
         \A d \in Devices : state'[d] = state[d],
         \A b \in Agents : initTicket'[b] \in {initTicket[b], NoUT},
         \A b \in Agents, d \in Devices : table'[b][d] \in {table[b][d], NoRow}
  PROVE  LifeInv' /\ LifeLedger!Forget
<1>1. /\ life' \in [Controllers -> Stages]
      /\ \A d \in Devices : life'[d] = life[d]
  BY PartiesAssumption DEF Becomes, LifeInv, Controllers
<1>2. \A c, o : NotAhead(c, o) => NotAhead(c, o)'
  BY DEF NotAhead, Live
<1>3. \A r : NamesOwner(r) => NamesOwner(r)'
  BY DEF NamesOwner, IsLatest, Live
<1>4. ASSUME NEW b \in Agents, NEW d \in Devices
      PROVE  RowOk(b, d)'
  <2>1. CASE table'[b][d] = table[b][d]
    BY <1>2, <1>3, <2>1 DEF LifeInv, SafeInv, RowOk, TicketOk, ReceiptOk
  <2>2. CASE table'[b][d] = NoRow
    <3>1. TicketOk(NoUT)' /\ ReceiptOk(NoRT)'
      BY <1>2, <1>3, EmptyOk DEF TicketOk, ReceiptOk
    <3>2. NotAhead(d, 0)'
      BY TypeParts DEF NotAhead, TypeOK
    <3> QED
      BY <2>2, <3>1, <3>2, EmptyFields DEF RowOk
  <2> QED
    BY <2>1, <2>2
<1>5. \A b \in Agents : initTicket'[b].dev = NoId /\ initTicket'[b].type # "OWNERSHIP"
  BY EmptyFields DEF LifeInv, SafeInv
<1>6. SafeInv'
  BY <1>2, <1>3, <1>4, <1>5 DEF LifeInv, SafeInv, TicketOk, ReceiptOk
<1>7. ASSUME NEW b \in Agents, NEW d \in Devices
      PROVE  /\ RowTickets(b, d)' \subseteq RowTickets(b, d) \cup {NoUT}
             /\ table'[b][d].rOwner \in {table[b][d].rOwner, NoRT}
             /\ table'[b][d].order \in {table[b][d].order, 0}
  BY EmptyFields DEF RowTickets
<1>8. ASSUME NEW d \in Devices, Unheard(d)
      PROVE  Unheard(d)'
  <2>1. NotHeardOf(d, NoUT) /\ NotHeardOf(d, NoRT) /\ NoReceipt(NoRT)
    BY EmptyFields DEF NotHeardOf, NoReceipt
  <2>2. ASSUME NEW b \in Agents, NEW e \in Devices
        PROVE  /\ \A u \in RowTickets(b, e)' : NotHeardOf(d, u)
               /\ NotHeardOf(d, table'[b][e].rOwner)
               /\ table'[b][e].rOwner.dev = d => NoReceipt(table'[b][e].rOwner)
    BY <1>7, <1>8, <2>1 DEF Unheard
  <2>3. \A b \in Agents : table'[b][d].order = 0
    BY <1>7, <1>8 DEF Unheard
  <2> QED
    BY <1>8, <2>2, <2>3 DEF Unheard, NotHeardOf, NoReceipt
<1>9. LifeInv'
  BY <1>1, <1>6, <1>8 DEF LifeInv, Live, OwnedIsInitialised
<1>10. InLedger' = InLedger
  BY <1>1 DEF InLedger
<1>11. Offers' \subseteq Offers
  <2>1. ASSUME NEW u, u \in OwnershipTickets'
        PROVE  u \in OwnershipTickets
    <3>1. /\ u.type = "OWNERSHIP" /\ u # NoUT
          /\ u = channel.u \/ \E b \in Agents, d \in Devices : u \in RowTickets(b, d)'
      BY <2>1, EmptyFields, OwnershipTicketsNext
    <3>2. u = channel.u \/ \E b \in Agents, d \in Devices : u \in RowTickets(b, d)
      BY <1>7, <3>1
    <3> QED
      BY <3>1, <3>2, OwnershipTicketsDef
  <2> QED
    BY <2>1 DEF Offers, OfferOf
<1> QED
  BY <1>9, <1>10, <1>11 DEF LifeLedger!Forget, InLedger, Offers

LEMMA LifeStep ==
  ASSUME LifeInv, [LifeNext]_lifeVars
  PROVE  LifeInv' /\ [LifeLedger!Next]_(LifeLedger!ledgerVars)
<1>t. TypeOK
  BY DEF LifeInv, SafeInv
<1>1. CASE UNCHANGED lifeVars
  <2>1. UNCHANGED vars /\ life' = life
    BY <1>1 DEF lifeVars
  <2>2. SafeInv'
    BY <2>1 DEF vars, LifeInv, SafeInv, TypeOK, RowOk, TicketOk, ReceiptOk, NotAhead, NamesOwner,
       IsLatest, Live
  <2>3. \A d \in Devices : /\ Unheard(d) => Unheard(d)'
                           /\ Live(d) <=> Live(d)'
                           /\ OwnedIsInitialised(d) => OwnedIsInitialised(d)'
    BY <2>1 DEF vars, Unheard, NotHeardOf, NoReceipt, RowTickets, Live, OwnedIsInitialised
  <2>4. InLedger' = InLedger /\ Offers' = Offers /\ owner' = owner /\ order' = order
    BY <2>1 DEF vars, InLedger, Offers, OwnershipTickets, RowTickets, OfferOf
  <2> QED
    BY <2>1, <2>2, <2>3, <2>4 DEF LifeInv, LifeLedger!ledgerVars, InLedger, Offers
<1>2. ASSUME NEW c \in Controllers, Construct(c)
      PROVE  LifeInv' /\ UNCHANGED LifeLedger!ledgerVars
  BY <1>2, ConstructStep
<1>3. ASSUME NEW d \in Devices, ConstructUntyped(d)
      PROVE  LifeInv' /\ LifeLedger!Lose(d)
  <2>1. /\ life[d] = "none" /\ life' = [life EXCEPT ![d] = "lost"]
        /\ UNCHANGED <<state, owner, session, initTicket, table, channel>>
    BY <1>3 DEF ConstructUntyped, Becomes
  <2>2. PICK o \in 0 .. MaxOrder + 1 : order' = [order EXCEPT ![d] = o]
    BY <1>3 DEF ConstructUntyped, Controllers
  <2>3. TypeOK' /\ \A e \in Devices \ {d} : order'[e] = order[e]
    BY <1>t, <2>1, <2>2, InputsAssumption DEF TypeOK
  <2>4. state'[d] = Lost
    BY <2>1 DEF LifeInv, Live
  <2> QED
    BY <2>1, <2>3, <2>4, LosesMemory
<1>4. ASSUME NEW a \in Agents, ConstructUntyped(a)
      PROVE  LifeInv' /\ LifeLedger!Forget
  <2>1. Becomes(a, "lost") /\ UNCHANGED vars
    BY <1>4, PartiesAssumption DEF ConstructUntyped, vars
  <2>2. TypeOK'
    BY <1>t, <2>1 DEF vars, TypeOK
  <2> QED
    BY <2>1, <2>2, AgentLifeStep DEF vars, Stages
<1>5. ASSUME NEW a \in Agents, InitialiseAgent(a)
      PROVE  LifeInv' /\ LifeLedger!Forget
  <2>1. Becomes(a, "initialised") /\ UNCHANGED vars
    BY <1>5 DEF InitialiseAgent
  <2>2. TypeOK'
    BY <1>t, <2>1 DEF vars, TypeOK
  <2> QED
    BY <2>1, <2>2, AgentLifeStep DEF vars, Stages
<1>6. ASSUME NEW a \in Agents, RebootAgent(a)
      PROVE  LifeInv' /\ LifeLedger!Forget
  <2>1. /\ Becomes(a, "lost") /\ UNCHANGED <<order, owner, channel>>
        /\ state' = [state EXCEPT ![a] = Lost]
        /\ session' = [session EXCEPT ![a] = NoSession]
        /\ initTicket' = [initTicket EXCEPT ![a] = NoUT]
        /\ table' = [table EXCEPT ![a] = [d \in Devices |-> NoRow]]
    BY <1>6 DEF RebootAgent, Goto
  <2>2. TypeOK'
    BY <1>t, <2>1, EmptyTypes DEF TypeOK, Controllers
  <2>3. \A d \in Devices : state'[d] = state[d]
    BY <1>t, <2>1, PartiesAssumption DEF TypeOK, Controllers
  <2>4. \A b \in Agents : initTicket'[b] \in {initTicket[b], NoUT}
    BY <1>t, <2>1 DEF TypeOK
  <2>5. \A b \in Agents, d \in Devices : table'[b][d] \in {table[b][d], NoRow}
    BY <1>t, <2>1 DEF TypeOK
  <2> QED
    BY <2>1, <2>2, <2>3, <2>4, <2>5, AgentLifeStep DEF Stages
<1>7. ASSUME NEW d \in Fragile, LoseDevice(d)
      PROVE  d \in Devices /\ LifeInv' /\ LifeLedger!Lose(d)
  <2>1. d \in Devices /\ life[d] # "lost" /\ life' = [life EXCEPT ![d] = "lost"]
    BY <1>7, InputsAssumption DEF LoseDevice, Becomes
  <2>2. PICK o \in 0 .. MaxOrder + 1 :
          /\ order' = [order EXCEPT ![d] = o] /\ owner' = [owner EXCEPT ![d] = NoOne]
          /\ state' = [state EXCEPT ![d] = Lost] /\ session' = [session EXCEPT ![d] = NoSession]
          /\ UNCHANGED <<initTicket, table, channel>>
    BY <1>7 DEF LoseDevice, RebootDevice, Goto
  <2>3. TypeOK'
    BY <1>t, <2>1, <2>2, EmptyTypes, InputsAssumption DEF TypeOK, Controllers, Persons
  <2>4. /\ state'[d] = Lost
        /\ \A e \in Devices \ {d} :
             state'[e] = state[e] /\ order'[e] = order[e] /\ owner'[e] = owner[e]
    BY <1>t, <2>1, <2>2 DEF TypeOK, Controllers
  <2> QED
    BY <2>1, <2>2, <2>3, <2>4, LosesMemory
<1>8. ASSUME NEW a \in Agents, UseAgent(a)
      PROVE  LifeInv' /\ LifeLedger!Offer(a)
  BY <1>8, UseAgentStep
<1>9. ASSUME NEW d \in Devices, UseDevice(d)
      PROVE  LifeInv' /\ LifeLedger!Next
  BY <1>9, UseDeviceStep
<1> QED
  BY <1>1, <1>2, <1>3, <1>4, <1>5, <1>6, <1>7, <1>8, <1>9
     DEF LifeNext, LifeLedger!Next, Controllers

(* The invariant, which holds of every order of constructions, calls and   *)
(* reboots.                                                                *)
THEOREM LifeInvariant == LifeSpec => []LifeInv
BY LifeBegins, LifeStep, PTL DEF LifeSpec

(* LifeLedgerSpec: however controllers come up and are lost, no device gets*)
(* an owner or an order except as the ledger says (device_controller.cpp). *)
THEOREM ImplementsLifeLedger == LifeSpec => LifeLedgerSpec
<1>1. LifeInit => LifeLedger!Init
  BY LifeBegins
<1>2. LifeInv /\ [LifeNext]_lifeVars => [LifeLedger!Next]_(LifeLedger!ledgerVars)
  BY LifeStep
<1> QED
  BY <1>1, <1>2, LifeInvariant, PTL DEF LifeSpec, LifeLedgerSpec, LifeLedger!Spec

(***************************************************************************)
(* An orphan. Of the tickets in existence none is for it; and a ticket     *)
(* that is made later is an initialisation, which comes too late, or is    *)
(* made by an agent that has her keys, so not by the owner.                *)
(***************************************************************************)
Barred(d, u) == u.type \in StoredUTypes => ~ CanExecute(d, u)

LEMMA TicketsAroundDef ==
  \A u : u \in TicketsAround <=> \/ u = channel.u
                                 \/ \E a \in Agents : u = initTicket[a]
                                 \/ \E a \in Agents, d \in Devices : u \in RowTickets(a, d)
BY DEF TicketsAround

LEMMA TicketsAroundNext ==
  \A u : u \in TicketsAround' <=> \/ u = channel'.u
                                  \/ \E a \in Agents : u = initTicket'[a]
                                  \/ \E a \in Agents, d \in Devices : u \in RowTickets(a, d)'
BY DEF TicketsAround

LEMMA OldIsAround ==
  \A u : OldTicket(u) => u = NoUT \/ u \in TicketsAround
BY TicketsAroundDef DEF OldTicket, RowTickets

(* No ticket is made without a key, an initialisation excepted.            *)
LEMMA TouchRowKeeps ==
  ASSUME TypeOK, NEW a \in Agents, NEW d \in DeviceIds \cup Controllers, TouchRow(a, d)
  PROVE  \A b \in Agents, e \in Devices : \A u \in RowTickets(b, e)' : OldTicket(u)
<1> SUFFICES ASSUME NEW b \in Agents, NEW e \in Devices
             PROVE  \A u \in RowTickets(b, e)' : OldTicket(u)
  OBVIOUS
<1>1. table'[b][e] \in {table[b][e], [table[b][e] EXCEPT !.present = TRUE]}
  BY DEF TouchRow, TypeOK
<1>2. table[b][e] \in Row
  BY TypeParts
<1>3. RowTickets(b, e)' = RowTickets(b, e)
  BY <1>1, <1>2 DEF RowTickets, Row
<1> QED
  BY <1>3 DEF OldTicket, RowTickets

MadeWithoutKey(a) ==
  /\ OldTicket(channel'.u)
  /\ \A b \in Agents, e \in Devices : \A u \in RowTickets(b, e)' : OldTicket(u)
  /\ \A b \in Agents : initTicket'[b] = initTicket[b] \/ initTicket'[b].type = "INITIALIZATION"

LEMMA CallWithoutKeyMakes ==
  ASSUME TypeOK, NEW a \in Agents, CallWithoutKey(a)
  PROVE  MadeWithoutKey(a)
<1>c. a \in Controllers
  BY DEF Controllers
<1>k. /\ OldTicket(NoUT) /\ OldTicket(channel.u)
      /\ \A b \in Agents, e \in Devices : \A u \in RowTickets(b, e) : OldTicket(u)
  BY Unchanged DEF OldTicket, RowTickets
<1>1. CASE IssueInitWithoutKey(a)
  <2>1. \A b \in Agents : initTicket'[b] = initTicket[b] \/ initTicket'[b].type = "INITIALIZATION"
    BY <1>1, PersonKeyType, GenInitTicketType DEF IssueInitWithoutKey, TypeOK
  <2> QED
    BY <1>1, <1>k, <2>1 DEF IssueInitWithoutKey, MadeWithoutKey, RowTickets
<1>2. ASSUME NEW d \in Devices, HolderSendRTicketToIssuer(a, d)
      PROVE  MadeWithoutKey(a)
  <2>1. \A b \in Agents, e \in Devices : \A u \in RowTickets(b, e)' : OldTicket(u)
    BY <1>2, TouchRowKeeps DEF HolderSendRTicketToIssuer, DeviceIds
  <2> QED
    BY <1>2, <1>c, <1>k, <2>1, SendChanges DEF HolderSendRTicketToIssuer, MadeWithoutKey
<1>3. ASSUME NEW d \in DeviceIds, NEW cmd \in FirstCmds, HolderApplyUTicket(a, d, cmd)
      PROVE  MadeWithoutKey(a)
  <2>1. \A b \in Agents, e \in Devices : \A u \in RowTickets(b, e)' : OldTicket(u)
    BY <1>3, TouchRowKeeps DEF HolderApplyUTicket
  <2>2. OldTicket(StoredUTicket(a, d))
    BY DEF OldTicket, StoredUTicket, DeviceIds
  <2> QED
    BY <1>3, <1>c, <1>k, <2>1, <2>2, SendChanges DEF HolderApplyUTicket, MadeWithoutKey
<1> QED
  BY <1>1, <1>2, <1>3 DEF CallWithoutKey

LEMMA AgentRecvMakes ==
  ASSUME TypeOK, NEW a \in Agents, AgentRecv(a) \/ LostDeviceDropsMessage(a)
  PROVE  MadeWithoutKey(a)
<1> DEFINE Old(row) == \A u \in {row.uOwner, row.ownUOthers, row.accUOthers} : OldTicket(u)
<1>c. a \in Controllers /\ Controllers \subseteq DeviceIds \cup Controllers
  BY DEF Controllers
<1>p. channel.r \in RTicket /\ channel.r.dev \in DeviceIds \cup Controllers
  BY TypeParts, RTicketFields DEF DeviceIds
<1>k. /\ OldTicket(NoUT) /\ OldTicket(channel.u) /\ \A b \in Agents : OldTicket(initTicket[b])
      /\ \A b \in Agents, e \in Devices : table[b][e] \in Row /\ Old(table[b][e])
      /\ NoRow \in Row /\ Old(NoRow)
  BY Unchanged, EmptyFields, EmptyTypes, TypeParts DEF OldTicket
<1>rows. (\A b \in Agents, e \in Devices : Old(table'[b][e]))
           /\ OldTicket(channel'.u) /\ initTicket' = initTicket
             => MadeWithoutKey(a)
  BY DEF MadeWithoutKey, RowTickets
<1>m. /\ Consume => OldTicket(channel'.u)
      /\ \A r : SendR(r, a) => OldTicket(channel'.u)
  BY <1>c, <1>k, SendChanges
<1>set. \A row : (channel.r.dev \in Devices => Old(row)) /\ SetRow(a, channel.r.dev, row)
                   => \A b \in Agents, e \in Devices : Old(table'[b][e])
  BY <1>k DEF SetRow, TypeOK
<1>stored. ASSUME channel.r.dev \in Devices
           PROVE  LET row == StoredRow(a, channel.r) IN
                    /\ Old(row)
                    /\ Old([row EXCEPT !.order = channel.r.order])
                    /\ Old([row EXCEPT !.accUOthers = NoUT, !.order = channel.r.order])
  <2> DEFINE row == StoredRow(a, channel.r)
  <2>0. row \in Row
    BY <1>stored, <1>p, StoredRowType
  <2>1. CASE channel.r.type = "INITIALIZATION"
    <3>1. row = [NoRow EXCEPT !.present = TRUE, !.uOwner = initTicket[a], !.rOwner = channel.r]
      BY <2>1 DEF StoredRow
    <3>2. /\ row.uOwner = initTicket[a] /\ row.ownUOthers = NoUT /\ row.accUOthers = NoUT
      BY <1>k, <3>1, EmptyFields DEF Row
    <3> QED
      BY <1>k, <3>2
  <2>2. CASE channel.r.type # "INITIALIZATION"
    <3> DEFINE old == table[a][channel.r.dev]
    <3>1. \E r \in {old.rOwner, channel.r} : row = [old EXCEPT !.present = TRUE, !.rOwner = r]
      BY <2>2 DEF StoredRow
    <3>2. /\ row.uOwner = old.uOwner /\ row.ownUOthers = old.ownUOthers
          /\ row.accUOthers = old.accUOthers
      BY <1>k, <1>stored, <3>1 DEF Row
    <3> QED
      BY <1>k, <1>stored, <3>2
  <2>3. Old(row)
    BY <2>1, <2>2
  <2> HIDE DEF row
  <2> QED
    BY <1>k, <2>0, <2>3 DEF Row, row
<1> HIDE DEF Old
<1>1. CASE AgentRecvUTicket(a)
  <2> DEFINE row == [NoRow EXCEPT !.present = TRUE, !.order = channel.u.order, !.uOwner = channel.u]
  <2>1. row.uOwner = channel.u /\ row.ownUOthers = NoUT /\ row.accUOthers = NoUT
    BY EmptyFields, EmptyTypes DEF Row
  <2>2. table' \in {table, [table EXCEPT ![a][channel.u.dev] = row]}
    BY <1>1 DEF AgentRecvUTicket
  <2> HIDE DEF row
  <2>3. Old(row)
    BY <1>k, <2>1 DEF Old
  <2>4. \A b \in Agents, e \in Devices : Old(table'[b][e])
    BY <1>k, <2>2, <2>3 DEF TypeOK
  <2> QED
    BY <1>1, <1>m, <1>rows, <2>4 DEF AgentRecvUTicket
<1>2. CASE IssuerRecvRTicket(a)
  <2>1. \A b \in Agents, e \in Devices : Old(table'[b][e])
    BY <1>2, <1>k, <1>set, <1>stored DEF IssuerRecvRTicket
  <2> QED
    BY <1>2, <1>m, <1>rows, <2>1 DEF IssuerRecvRTicket
<1>3. CASE IssuerRefuseRTicket(a) \/ LostDeviceDropsMessage(a) \/ HolderRecvCrKe3(a)
  BY <1>3, <1>k, <1>m, <1>rows DEF IssuerRefuseRTicket, LostDeviceDropsMessage, HolderRecvCrKe3
<1>4. CASE HolderRecvRTicket(a)
  <2>1. \A b \in Agents, e \in Devices : Old(table'[b][e])
    BY <1>4, <1>k, <1>set, <1>stored DEF HolderRecvRTicket
  <2> QED
    BY <1>4, <1>m, <1>rows, <2>1 DEF HolderRecvRTicket
<1>5. CASE HolderRecvCrKe1(a)
  BY <1>5, <1>k, <1>m, <1>rows DEF HolderRecvCrKe1
<1>6. CASE HolderRecvData(a)
  <2>1. \A d \in Devices : Old([table[a][d] EXCEPT !.order = channel.r.order])
    BY <1>k DEF Old, Row
  <2>2. TouchRow(a, channel.r.dev) => \A b \in Agents, e \in Devices : Old(table'[b][e])
    BY <1>p, TouchRowKeeps DEF Old, RowTickets
  <2>3. channel.r.dev \in Devices /\ table' = [table EXCEPT ![a][channel.r.dev].order = channel.r.order]
          => \A b \in Agents, e \in Devices : Old(table'[b][e])
    BY <1>k, <2>1 DEF TypeOK
  <2>4. \A b \in Agents, e \in Devices : Old(table'[b][e])
    BY <1>6, <1>k, <2>2, <2>3 DEF HolderRecvData
  <2> QED
    BY <1>6, <1>m, <1>rows, <2>4 DEF HolderRecvData
<1>7. CASE AgentRefusesAsDevice(a)
  BY <1>7, <1>k, <1>m, <1>rows DEF AgentRefusesAsDevice
<1> QED
  BY <1>1, <1>2, <1>3, <1>4, <1>5, <1>6, <1>7 DEF AgentRecv

(* While nothing about the device or its owner changes, an orphan stays    *)
(* one unless somebody who still has keys makes a ticket for it.           *)
StaysSame(d) ==
  /\ state'[d] = state[d] /\ order'[d] = order[d] /\ owner'[d] = owner[d]
  /\ life'[d] = life[d] /\ life'[owner[d]] = life[owner[d]]

LEMMA OrphanStays ==
  ASSUME NEW d \in Devices, Orphaned(d), StaysSame(d),
         \A u : u \in TicketsAround' => Barred(d, u)
  PROVE  Orphaned(d)'
<1>1. \A u : Barred(d, u) <=> Barred(d, u)'
  BY DEF Barred, CanExecute, StaysSame
<1>2. \A u \in TicketsAround' : u.type \in StoredUTypes => ~ CanExecute(d, u)'
  BY <1>1 DEF Barred
<1>3. (\A u \in TicketsAround : u.type \in StoredUTypes => ~ CanExecute(d, u))'
  BY <1>2
<1> QED
  BY <1>3 DEF Orphaned, StaysSame

LEMMA OldIsBarred ==
  ASSUME LifeInv, NEW d \in Devices, Orphaned(d)
  PROVE  /\ \A u : OldTicket(u) \/ u.type = "INITIALIZATION" => Barred(d, u)
         /\ \A b \in Agents : \A u : b # owner[d] /\ MadeBy(b, u) => Barred(d, u)
<1>1. order[d] > 0
  BY PartiesAssumption DEF LifeInv, OwnedIsInitialised, Orphaned
<1>2. \A u : u.type = "INITIALIZATION" => Barred(d, u)
  BY <1>1 DEF Barred, CanExecute, VerifyCanExecute, VerifyUOrder
<1>3. Barred(d, NoUT)
  BY EmptyFields DEF Barred, StoredUTypes
<1>4. \A u : u \in TicketsAround => Barred(d, u)
  BY DEF Orphaned, Barred
<1>5. ASSUME NEW b \in Agents, NEW u, b # owner[d], MadeBy(b, u)
      PROVE  Barred(d, u)
  BY <1>2, <1>5 DEF MadeBy, Barred, CanExecute, VerifyCanExecute, VerifyUSignature, VerifyUHolder,
     StoredUTypes
<1> QED
  BY <1>2, <1>3, <1>4, <1>5, OldIsAround

LEMMA OrphanAgentStep ==
  ASSUME LifeInv, NEW a \in Agents, UseAgent(a), NEW d \in Devices, Orphaned(d)
  PROVE  Orphaned(d)'
<1>1. AgentChanges(a) /\ life' = life /\ TypeOK
  BY UseAgentChanges DEF LifeInv, SafeInv, UseAgent
<1>2. StaysSame(d)
  BY <1>1 DEF AgentChanges, StaysSame
<1>3. \A b \in Agents : initTicket'[b] = initTicket[b] \/ initTicket'[b].type = "INITIALIZATION"
  BY <1>1 DEF AgentChanges
<1>4. \A b \in Agents : OldTicket(initTicket[b])
  BY DEF OldTicket
<1>5. CASE a = owner[d]
  <2>1. life[a] = "lost"
    BY <1>5 DEF Orphaned
  <2>2. MadeWithoutKey(a)
    BY <1>1, <2>1, CallWithoutKeyMakes, AgentRecvMakes DEF UseAgent
  <2>3. \A u : u \in TicketsAround' => OldTicket(u) \/ u.type = "INITIALIZATION"
    BY <1>3, <1>4, <2>2, TicketsAroundNext DEF MadeWithoutKey
  <2> QED
    BY <1>2, <2>3, OldIsBarred, OrphanStays
<1>6. CASE a # owner[d]
  <2>1. \A b \in Agents, e \in Devices : \A u \in RowTickets(b, e)' : OldTicket(u) \/ MadeBy(a, u)
    BY <1>1 DEF AgentChanges, RowFrom, RowTickets
  <2>2. OldTicket(channel'.u) \/ MadeBy(a, channel'.u)
    BY <1>1 DEF AgentChanges
  <2>3. \A u : u \in TicketsAround' => OldTicket(u) \/ MadeBy(a, u) \/ u.type = "INITIALIZATION"
    BY <1>3, <1>4, <2>1, <2>2, TicketsAroundNext
  <2> QED
    BY <1>2, <1>6, <2>3, OldIsBarred, OrphanStays
<1> QED
  BY <1>5, <1>6

(* The orphan itself refuses what there is; other devices make no tickets. *)
LEMMA OrphanDeviceStep ==
  ASSUME LifeInv, NEW c \in Devices, UseDevice(c), NEW d \in Devices, Orphaned(d)
  PROVE  Orphaned(d)'
<1>1. DeviceChanges(c) /\ life' = life /\ TypeOK
  BY DeviceType, DeviceRecvChanges DEF LifeInv, SafeInv, UseDevice
<1>2. StaysSame(d)
  <2>1. CASE c # d
    BY <1>1, <2>1 DEF DeviceChanges, StaysSame
  <2>2. CASE c = d
    <3>1. state[d] = "DEVICE_WAIT_FOR_UT" /\ Barred(d, channel.u)
      BY TicketsAroundDef DEF Orphaned, Barred
    <3>2. DeviceRefuseUTicket(d) \/ DeviceDropMessage(d)
      BY <2>2, <3>1 DEF UseDevice, DeviceRecv, Incoming, Barred, StoredUTypes, Lost,
         DeviceExecuteOwnership, DeviceOpenSession, DeviceAcceptCrKe2, DeviceRefuseCrKe2,
         DeviceExecuteCmd, DeviceEndAccess, DeviceRefuseToken, DeviceExecuteTicketInSession,
         DeviceIgnoreInSession, LostDeviceDropsMessage
    <3> QED
      BY <1>1, <3>2 DEF DeviceRefuseUTicket, DeviceDropMessage, StaysSame
  <2> QED
    BY <2>1, <2>2
<1>3. \A u : u \in TicketsAround' => u = NoUT \/ u \in TicketsAround
  <2>1. \A a \in Agents, e \in Devices : RowTickets(a, e)' = RowTickets(a, e)
    BY <1>1 DEF DeviceChanges, RowTickets
  <2> QED
    BY <1>1, <2>1, TicketsAroundDef, TicketsAroundNext DEF DeviceChanges
<1>4. \A u : u \in TicketsAround' => Barred(d, u)
  <2>1. OldTicket(NoUT) /\ \A u : u \in TicketsAround => OldTicket(u)
    BY TicketsAroundDef DEF OldTicket, RowTickets
  <2> QED
    BY <1>3, <2>1, OldIsBarred
<1> QED
  BY <1>2, <1>4, OrphanStays

(* The life of others takes nothing from the orphan but tickets.           *)
LEMMA OrphanLifeStep ==
  ASSUME LifeInv, NEW d \in Devices, Orphaned(d), StaysSame(d), UNCHANGED channel,
         \A b \in Agents : initTicket'[b] \in {initTicket[b], NoUT},
         \A b \in Agents, e \in Devices : table'[b][e] \in {table[b][e], NoRow}
  PROVE  Orphaned(d)'
<1>1. \A b \in Agents, e \in Devices : RowTickets(b, e)' \subseteq RowTickets(b, e) \cup {NoUT}
  BY EmptyFields DEF RowTickets
<1>2. \A u : u \in TicketsAround' => OldTicket(u)
  BY <1>1, TicketsAroundNext DEF OldTicket, RowTickets
<1> QED
  BY <1>2, OldIsBarred, OrphanStays

LEMMA OrphanStep ==
  ASSUME LifeInv, [LifeNext]_lifeVars, NEW d \in Devices, Orphaned(d)
  PROVE  Orphaned(d)' \/ life'[d] = "lost"
<1>d. life[d] = "constructed" /\ owner[d] \in Agents /\ life[owner[d]] = "lost"
  BY DEF Orphaned
<1>l. life \in [Controllers -> Stages] /\ d \in Controllers /\ owner[d] \in Controllers
  BY <1>d DEF LifeInv, Controllers
<1>1. CASE UNCHANGED lifeVars
  BY <1>1, OrphanLifeStep DEF lifeVars, vars, StaysSame
<1>2. ASSUME NEW c \in Controllers, Construct(c)
      PROVE  Orphaned(d)'
  <2>1. c # d /\ c # owner[d]
    BY <1>2, <1>d DEF Construct
  <2>2. StaysSame(d)
    BY <1>2, <1>l, <2>1 DEF Construct, Becomes, Goto, StaysSame, LifeInv, SafeInv, TypeOK
  <2> QED
    BY <1>2, <2>2, OrphanLifeStep DEF Construct
<1>3. ASSUME NEW c \in Controllers, ConstructUntyped(c)
      PROVE  Orphaned(d)'
  <2>1. c # d /\ c # owner[d]
    BY <1>3, <1>d DEF ConstructUntyped
  <2>2. order'[d] = order[d]
    BY <1>3, <2>1 DEF ConstructUntyped, LifeInv, SafeInv, TypeOK
  <2>3. StaysSame(d)
    BY <1>3, <1>l, <2>1, <2>2 DEF ConstructUntyped, Becomes, StaysSame
  <2> QED
    BY <1>3, <2>3, OrphanLifeStep DEF ConstructUntyped
<1>4. ASSUME NEW a \in Agents, InitialiseAgent(a)
      PROVE  Orphaned(d)'
  <2>1. a # d /\ a # owner[d]
    BY <1>4, <1>d, PartiesAssumption DEF InitialiseAgent
  <2>2. StaysSame(d)
    BY <1>4, <1>l, <2>1 DEF InitialiseAgent, Becomes, StaysSame, vars
  <2> QED
    BY <1>4, <2>2, OrphanLifeStep DEF InitialiseAgent, vars
<1>5. ASSUME NEW a \in Agents, RebootAgent(a)
      PROVE  Orphaned(d)'
  <2>1. a # d
    BY PartiesAssumption
  <2>2. StaysSame(d)
    BY <1>5, <1>d, <1>l, <2>1
       DEF RebootAgent, Becomes, Goto, StaysSame, LifeInv, SafeInv, TypeOK
  <2>3. /\ \A b \in Agents : initTicket'[b] \in {initTicket[b], NoUT}
        /\ \A b \in Agents, e \in Devices : table'[b][e] \in {table[b][e], NoRow}
    BY <1>5 DEF RebootAgent, LifeInv, SafeInv, TypeOK
  <2> QED
    BY <1>5, <2>2, <2>3, OrphanLifeStep DEF RebootAgent
<1>6. ASSUME NEW c \in Fragile, LoseDevice(c)
      PROVE  Orphaned(d)' \/ life'[d] = "lost"
  <2>1. CASE c = d
    BY <1>6, <1>l, <2>1 DEF LoseDevice, Becomes
  <2>2. CASE c # d
    <3>1. c # owner[d]
      BY <1>d, PartiesAssumption, InputsAssumption
    <3>2. StaysSame(d)
      BY <1>6, <1>l, <2>2, <3>1
         DEF LoseDevice, RebootDevice, Becomes, Goto, StaysSame, LifeInv, SafeInv, TypeOK
    <3> QED
      BY <1>6, <3>2, OrphanLifeStep DEF LoseDevice, RebootDevice
  <2> QED
    BY <2>1, <2>2
<1>7. ASSUME NEW a \in Agents, UseAgent(a)
      PROVE  Orphaned(d)'
  BY <1>7, OrphanAgentStep
<1>8. ASSUME NEW c \in Devices, UseDevice(c)
      PROVE  Orphaned(d)'
  BY <1>8, OrphanDeviceStep
<1> QED
  BY <1>1, <1>2, <1>3, <1>4, <1>5, <1>6, <1>7, <1>8 DEF LifeNext

(* OrphanedForever: a device whose owner lost her keys, and that nobody has *)
(* a valid ticket for, is lost to everybody until it is rebooted itself     *)
(* (device_controller.cpp, the storage is a stub).                          *)
THEOREM OrphansStayOrphans == LifeSpec => OrphanedForever
<1>1. LifeInv /\ [LifeNext]_lifeVars =>
        [\A d \in Devices : Orphaned(d) => Orphaned(d)' \/ life'[d] = "lost"]_lifeVars
  BY OrphanStep
<1> QED
  BY <1>1, LifeInvariant, PTL DEF LifeSpec, OrphanedForever
=============================================================================
