---------------------------- MODULE UrekaSafety -----------------------------
(***************************************************************************)
(* Safety of Ureka: the inductive invariant SafeInv, and the invariants    *)
(* and action properties that follow from it.                              *)
(*                                                                         *)
(* The argument follows the tickets. What an agent does adds nothing to    *)
(* the tickets and receipts in existence but copies, and tickets that name *)
(* an order she has in a row (AgentChanges). What a device does adds at    *)
(* most one receipt, of its own order (DeviceChanges). So whatever names   *)
(* an order names one the device had, and when a device moves on, all that *)
(* exists is old except what it says itself.                               *)
(***************************************************************************)
EXTENDS UrekaTypes

TicketOk(u)  == NotAhead(u.dev, u.order)
ReceiptOk(r) == NotAhead(r.dev, r.order) /\ NamesOwner(r)

RowOk(a, d) ==
  LET row == table[a][d] IN
    /\ NotAhead(d, row.order)
    /\ TicketOk(row.uOwner) /\ TicketOk(row.ownUOthers) /\ TicketOk(row.accUOthers)
    /\ ReceiptOk(row.rOwner)

SafeInv ==
  /\ TypeOK
  /\ TicketOk(channel.u) /\ ReceiptOk(channel.r)
  /\ \A a \in Agents, d \in Devices : RowOk(a, d)
  /\ \A a \in Agents : initTicket[a].dev = NoId /\ initTicket[a].type # "OWNERSHIP"

(* SafeInv has the invariants that the runs check as its parts. *)
LEMMA SafeInvImplies == SafeInv => OrderBound /\ LatestReceipt
BY DEF SafeInv, RowOk, TicketOk, ReceiptOk, OrderBound, RowsNotAhead, LatestReceipt

LEMMA EmptyFields ==
  /\ NoUT.dev = NoId /\ NoUT.type = "" /\ NoUT.order = 0
  /\ NoRT.dev = NoId /\ NoRT.order = 0 /\ NoRT.type = "" /\ ~ NoRT.ok
  /\ NoRow.order = 0 /\ NoRow.uOwner = NoUT /\ NoRow.ownUOthers = NoUT
  /\ NoRow.accUOthers = NoUT /\ NoRow.rOwner = NoRT
  /\ NoMessage.u = NoUT /\ NoMessage.r = NoRT
BY DEF NoUT, NoRT, NoRow, NoMessage

LEMMA EmptyOk == TicketOk(NoUT) /\ ReceiptOk(NoRT)
BY EmptyFields, PartiesAssumption DEF TicketOk, ReceiptOk, NotAhead, NamesOwner, IsLatest

LEMMA SafeInit == Init => SafeInv
<1> SUFFICES ASSUME Init PROVE SafeInv
  OBVIOUS
<1>1. \A a \in Agents, d \in Devices : table[a][d] = NoRow
  BY DEF Init
<1>2. \A d \in Devices : NotAhead(d, 0)
  BY DEF Init, NotAhead
<1>3. \A a \in Agents, d \in Devices : RowOk(a, d)
  BY <1>1, <1>2, EmptyFields, EmptyOk DEF RowOk
<1>4. channel.u = NoUT /\ channel.r = NoRT /\ \A a \in Agents : initTicket[a] = NoUT
  BY EmptyFields DEF Init
<1> QED
  BY <1>3, <1>4, EmptyOk, EmptyFields, InitType DEF SafeInv

(***************************************************************************)
(* What the steps do to tickets, receipts and rows.                        *)
(***************************************************************************)
OldTicket(u) ==
  \/ u \in {NoUT, channel.u}
  \/ \E a \in Agents : u = initTicket[a]
  \/ \E a \in Agents, d \in Devices :
       u \in {table[a][d].uOwner, table[a][d].ownUOthers, table[a][d].accUOthers}

(* A ticket that a makes names the order of her row and bears her          *)
(* signature; what needs none is for herself.                              *)
MadeBy(a, u) ==
  /\ u.order = RowOrder(a, u.dev)
  /\ u.type \in {"OWNERSHIP", "ACCESS"} => u.signer = a
  /\ u.type = "SELFACCESS" => u.holder = a

OldReceipt(r) ==
  \/ r \in {NoRT, channel.r}
  \/ \E a \in Agents, d \in Devices : r = table[a][d].rOwner

(* An r-ticket that a makes is no receipt. *)
AnswerBy(a, r) ==
  \/ r.dev \notin Devices
  \/ r.order = RowOrder(a, r.dev) /\ r.type \notin ReceiptTypes

(* The order of a row stays, is reset, or comes in through the channel, in *)
(* a ticket or in the receipt of a success.                                *)
KnownOrder(a, d, o) ==
  \/ o \in {0, table[a][d].order}
  \/ channel.u.dev = d /\ o = channel.u.order
  \/ channel.r.dev = d /\ channel.r.ok /\ o = channel.r.order

RowFrom(a, b, d, row) ==
  /\ KnownOrder(b, d, row.order)
  /\ \A u \in {row.uOwner, row.ownUOthers, row.accUOthers} : OldTicket(u) \/ MadeBy(a, u)
  /\ OldReceipt(row.rOwner)

AgentChanges(a) ==
  /\ UNCHANGED <<order, owner>>
  /\ \A d \in Devices : state'[d] = state[d]
  /\ OldTicket(channel'.u) \/ MadeBy(a, channel'.u)
  /\ OldReceipt(channel'.r) \/ AnswerBy(a, channel'.r)
  /\ \A b \in Agents, d \in Devices : RowFrom(a, b, d, table'[b][d])
  /\ \A b \in Agents : \/ initTicket'[b] = initTicket[b]
                       \/ initTicket'[b].dev = NoId /\ initTicket'[b].type = "INITIALIZATION"

LEMMA AgentStepSafe ==
  ASSUME SafeInv, TypeOK', NEW a \in Agents, AgentChanges(a)
  PROVE  SafeInv'
<1>1. \A u : OldTicket(u) => NotAhead(u.dev, u.order)
  BY EmptyFields, PartiesAssumption DEF OldTicket, SafeInv, RowOk, TicketOk, NotAhead
<1>2. \A u : MadeBy(a, u) => NotAhead(u.dev, u.order)
  BY DEF MadeBy, SafeInv, RowOk, RowOrder, NotAhead
<1>3. \A r : OldReceipt(r) => ReceiptOk(r)
  BY EmptyOk DEF OldReceipt, SafeInv, RowOk
<1>4. \A r : AnswerBy(a, r) => ReceiptOk(r)
  BY DEF AnswerBy, SafeInv, RowOk, RowOrder, ReceiptOk, NotAhead, NamesOwner, IsLatest, ReceiptTypes
<1>5. \A r : ReceiptOk(r) => ReceiptOk(r)'
  BY DEF AgentChanges, ReceiptOk, NotAhead, NamesOwner, IsLatest, Live
<1>6. \A u : NotAhead(u.dev, u.order) => TicketOk(u)'
  BY DEF AgentChanges, TicketOk, NotAhead, Live
<1>7. \A b \in Agents, d \in Devices : \A o : KnownOrder(b, d, o) => NotAhead(d, o)'
  BY DEF AgentChanges, KnownOrder, SafeInv, RowOk, TicketOk, ReceiptOk, NotAhead, Live, TypeOK
<1>8. ASSUME NEW b \in Agents, NEW d \in Devices
      PROVE  RowOk(b, d)'
  <2>1. RowFrom(a, b, d, table'[b][d])
    BY DEF AgentChanges
  <2> QED
    BY <2>1, <1>1, <1>2, <1>3, <1>5, <1>6, <1>7 DEF RowFrom, RowOk
<1>9. TicketOk(channel.u)' /\ ReceiptOk(channel.r)'
  BY <1>1, <1>2, <1>3, <1>4, <1>5, <1>6 DEF AgentChanges
<1>10. \A b \in Agents : initTicket'[b].dev = NoId /\ initTicket'[b].type # "OWNERSHIP"
  BY DEF AgentChanges, SafeInv
<1> QED
  BY <1>8, <1>9, <1>10 DEF SafeInv

(***************************************************************************)
(* Every step of an agent is such a change.                                *)
(***************************************************************************)
(* What stays where it is is old. *)
LEMMA Unchanged ==
  ASSUME NEW a \in Agents
  PROVE  /\ \A b \in Agents, d \in Devices : RowFrom(a, b, d, table[b][d])
         /\ \A b \in Agents, d \in Devices : RowFrom(a, b, d, NoRow)
         /\ OldTicket(NoUT) /\ OldTicket(channel.u)
         /\ OldReceipt(NoRT) /\ OldReceipt(channel.r)
         /\ \A b \in Agents : OldTicket(initTicket[b])
BY EmptyFields DEF RowFrom, KnownOrder, OldTicket, OldReceipt

LEMMA SendChanges ==
  ASSUME NEW c \in Controllers
  PROVE  /\ \A u : SendU(u, c) => channel'.u = u /\ channel'.r = NoRT
         /\ \A r : SendR(r, c) => channel'.u = NoUT /\ channel'.r = r
         /\ Consume => channel'.u = NoUT /\ channel'.r = NoRT
<1>1. \A u : SendU(u, c) => channel'.u = u /\ channel'.r = NoRT
  BY DEF SendU
<1>2. ASSUME NEW r, SendR(r, c)
      PROVE  channel'.u = NoUT /\ channel'.r = r
  <2>1. CASE r = NoRT
    BY <1>2, <2>1, EmptyFields DEF SendR
  <2>2. CASE r # NoRT
    BY <1>2, <2>2 DEF SendR
  <2> QED
    BY <2>1, <2>2
<1>3. Consume => channel'.u = NoUT /\ channel'.r = NoRT
  BY EmptyFields DEF Consume
<1> QED
  BY <1>1, <1>2, <1>3

LEMMA TouchRowChanges ==
  ASSUME TypeOK, NEW a \in Agents, NEW d \in DeviceIds \cup Controllers, TouchRow(a, d)
  PROVE  \A b \in Agents, e \in Devices : RowFrom(a, b, e, table'[b][e])
<1> SUFFICES ASSUME NEW b \in Agents, NEW e \in Devices
             PROVE  RowFrom(a, b, e, table'[b][e])
  OBVIOUS
<1>1. CASE table'[b][e] = table[b][e]
  BY <1>1, Unchanged
<1>2. CASE table'[b][e] = [table[b][e] EXCEPT !.present = TRUE]
  <2>1. table[b][e] \in Row
    BY TypeParts
  <2>2. /\ table'[b][e].order = table[b][e].order
        /\ table'[b][e].uOwner = table[b][e].uOwner
        /\ table'[b][e].ownUOthers = table[b][e].ownUOthers
        /\ table'[b][e].accUOthers = table[b][e].accUOthers
        /\ table'[b][e].rOwner = table[b][e].rOwner
    BY <1>2, <2>1 DEF Row
  <2> QED
    BY <2>2, Unchanged DEF RowFrom
<1> QED
  BY <1>1, <1>2 DEF TouchRow, TypeOK

(* A row of a is replaced. *)
LEMMA RowChanges ==
  ASSUME TypeOK, NEW a \in Agents, NEW d \in Devices, NEW row, RowFrom(a, a, d, row),
         \A b \in Agents, e \in Devices :
           table'[b][e] = IF b = a /\ e = d THEN row ELSE table[b][e]
  PROVE  \A b \in Agents, e \in Devices : RowFrom(a, b, e, table'[b][e])
BY Unchanged

LEMMA TicketIntoRow ==
  ASSUME NEW a \in Agents, NEW row \in Row, NEW d \in Devices, NEW u, MadeBy(a, u),
         RowFrom(a, a, d, row)
  PROVE  /\ RowFrom(a, a, d, [row EXCEPT !.uOwner = u])
         /\ RowFrom(a, a, d, [row EXCEPT !.ownUOthers = u])
         /\ RowFrom(a, a, d, [row EXCEPT !.accUOthers = u])
BY DEF RowFrom, Row

LEMMA IssueChanges ==
  ASSUME TypeOK, NEW a \in Agents, AnyIssue(a)
  PROVE  AgentChanges(a)
<1>c. a \in Controllers
  BY DEF Controllers
<1>t. \A type \in StoredUTypes, d \in Devices, h \in Persons, scope \in SUBSET Texts :
        (type = "SELFACCESS" => h = a)
          => MadeBy(a, GenTicket(type, d, table[a][d].order, h, scope, a))
  BY <1>c, GenTicketType, TypeParts DEF MadeBy, RowOrder
<1>1. ASSUME NEW h \in Persons, SetInitTicket(a, h)
      PROVE  AgentChanges(a)
  BY <1>c, <1>1, GenInitTicketType, Unchanged DEF SetInitTicket, AgentChanges, TypeOK
<1>2. ASSUME NEW d \in Devices, NEW scope \in SUBSET Texts, IssueSelfAccessToHerself(a, d, scope)
      PROVE  AgentChanges(a)
  <2> DEFINE u == GenTicket("SELFACCESS", d, table[a][d].order, a, scope, a)
  <2>1. MadeBy(a, u)
    BY <1>c, <1>t DEF StoredUTypes, Persons
  <2>2. table' = [table EXCEPT ![a][d].uOwner = u]
    BY <1>2 DEF IssueSelfAccessToHerself
  <2> HIDE DEF u
  <2>3. RowFrom(a, a, d, [table[a][d] EXCEPT !.uOwner = u])
    BY <1>c, <2>1, TicketIntoRow, TypeParts, Unchanged
  <2>4. \A b \in Agents, e \in Devices :
          table'[b][e] = IF b = a /\ e = d THEN [table[a][d] EXCEPT !.uOwner = u] ELSE table[b][e]
    BY <1>c, <2>2 DEF TypeOK
  <2>5. \A b \in Agents, e \in Devices : RowFrom(a, b, e, table'[b][e])
    BY <1>c, <2>3, <2>4, RowChanges
  <2> QED
    BY <1>2, <1>c, <2>5, Unchanged DEF IssueSelfAccessToHerself, AgentChanges
<1>3. ASSUME NEW d \in Devices, NEW h \in Persons, IssueOwnershipToHolder(a, d, h)
      PROVE  AgentChanges(a)
  <2> DEFINE u == GenTicket("OWNERSHIP", d, table[a][d].order, h, {}, a)
  <2>1. MadeBy(a, u)
    BY <1>c, <1>t DEF StoredUTypes
  <2>2. table' = [table EXCEPT ![a][d].ownUOthers = u] /\ SendU(u, a)
    BY <1>3 DEF IssueOwnershipToHolder
  <2> HIDE DEF u
  <2>3. RowFrom(a, a, d, [table[a][d] EXCEPT !.ownUOthers = u])
    BY <1>c, <2>1, TicketIntoRow, TypeParts, Unchanged
  <2>4. \A b \in Agents, e \in Devices :
          table'[b][e] = IF b = a /\ e = d THEN [table[a][d] EXCEPT !.ownUOthers = u] ELSE table[b][e]
    BY <1>c, <2>2 DEF TypeOK
  <2>5. \A b \in Agents, e \in Devices : RowFrom(a, b, e, table'[b][e])
    BY <1>c, <2>3, <2>4, RowChanges
  <2> QED
    BY <1>3, <1>c, <2>1, <2>2, <2>5, SendChanges, Unchanged DEF IssueOwnershipToHolder, AgentChanges
<1>4. ASSUME NEW d \in Devices, NEW h \in Persons, NEW scope \in SUBSET Texts,
             IssueAccessToHolder(a, d, h, scope)
      PROVE  AgentChanges(a)
  <2> DEFINE u == GenTicket("ACCESS", d, table[a][d].order, h, scope, a)
  <2>1. MadeBy(a, u)
    BY <1>c, <1>t DEF StoredUTypes
  <2>2. table' = [table EXCEPT ![a][d].accUOthers = u] /\ SendU(u, a)
    BY <1>4 DEF IssueAccessToHolder
  <2> HIDE DEF u
  <2>3. RowFrom(a, a, d, [table[a][d] EXCEPT !.accUOthers = u])
    BY <1>c, <2>1, TicketIntoRow, TypeParts, Unchanged
  <2>4. \A b \in Agents, e \in Devices :
          table'[b][e] = IF b = a /\ e = d THEN [table[a][d] EXCEPT !.accUOthers = u] ELSE table[b][e]
    BY <1>c, <2>2 DEF TypeOK
  <2>5. \A b \in Agents, e \in Devices : RowFrom(a, b, e, table'[b][e])
    BY <1>c, <2>3, <2>4, RowChanges
  <2> QED
    BY <1>4, <1>c, <2>1, <2>2, <2>5, SendChanges, Unchanged DEF IssueAccessToHolder, AgentChanges
<1> QED
  BY <1>1, <1>2, <1>3, <1>4 DEF AnyIssue

LEMMA CallChanges ==
  ASSUME TypeOK, NEW a \in Agents, AnyCall(a)
  PROVE  AgentChanges(a)
<1>c. a \in Controllers
  BY DEF Controllers
<1>1. CASE AnyIssue(a)
  BY <1>1, IssueChanges
<1>2. ASSUME NEW d \in Devices, HolderSendRTicketToIssuer(a, d)
      PROVE  AgentChanges(a)
  <2>1. \A b \in Agents, e \in Devices : RowFrom(a, b, e, table'[b][e])
    BY <1>2, TouchRowChanges DEF HolderSendRTicketToIssuer, DeviceIds
  <2>2. OldReceipt(table[a][d].rOwner)
    BY DEF OldReceipt
  <2> QED
    BY <1>2, <1>c, <2>1, <2>2, SendChanges, Unchanged DEF HolderSendRTicketToIssuer, AgentChanges
<1>3. ASSUME NEW d \in DeviceIds, NEW cmd \in Texts, HolderApplyUTicket(a, d, cmd)
      PROVE  AgentChanges(a)
  <2>1. \A b \in Agents, e \in Devices : RowFrom(a, b, e, table'[b][e])
    BY <1>3, TouchRowChanges DEF HolderApplyUTicket
  <2>2. OldTicket(StoredUTicket(a, d))
    BY DEF OldTicket, StoredUTicket, DeviceIds
  <2>3. \A e \in Devices : state'[e] = state[e]
    BY <1>3, PartiesAssumption DEF HolderApplyUTicket, Goto, TypeOK, Controllers
  <2>4. /\ OldTicket(channel'.u) \/ MadeBy(a, channel'.u)
        /\ OldReceipt(channel'.r) \/ AnswerBy(a, channel'.r)
    BY <1>3, <1>c, <2>2, SendChanges, Unchanged DEF HolderApplyUTicket
  <2> QED
    BY <1>3, <2>1, <2>3, <2>4 DEF HolderApplyUTicket, AgentChanges
<1>4. ASSUME NEW d \in Devices, NEW cmd \in Texts, NEW type \in TokenTypes,
             HolderSendCmd(a, d, cmd, type)
      PROVE  AgentChanges(a)
  <2> DEFINE s == session[a]
  <2> DEFINE c == Encrypt(cmd, s.key, s.ivCmd)
  <2>1. s \in Session /\ cmd \in Texts /\ type \in TokenTypes
    BY <1>c, TypeParts
  <2>2. c \in Cipher
    BY <2>1, EncryptType, SessionFields
  <2>3. PICK f \in Nat : SendU(GenToken(type, s.ut.dev, RowOrder(a, s.ut.dev), c, f), a)
    BY <1>4, FreshNoncesType DEF HolderSendCmd
  <2> HIDE DEF c
  <2>4. RowOrder(a, s.ut.dev) \in Nat /\ s.ut.dev \in DeviceIds
    BY <2>1, SessionFields, TypeParts DEF RowOrder
  <2>5. MadeBy(a, GenToken(type, s.ut.dev, RowOrder(a, s.ut.dev), c, f))
    BY <2>1, <2>2, <2>4, GenTokenType DEF MadeBy, TokenTypes
  <2>6. \A e \in Devices : state'[e] = state[e]
    BY <1>4, PartiesAssumption DEF HolderSendCmd, Goto, TypeOK, Controllers
  <2> QED
    BY <1>4, <1>c, <2>3, <2>5, <2>6, SendChanges, Unchanged DEF HolderSendCmd, AgentChanges
<1> QED
  BY <1>1, <1>2, <1>3, <1>4 DEF AnyCall

LEMMA StoredRowChanges ==
  ASSUME TypeOK, NEW a \in Agents, channel.r.dev \in Devices
  PROVE  LET d == channel.r.dev
             row == StoredRow(a, channel.r)
         IN
           /\ RowFrom(a, a, d, row)
           /\ channel.r.ok =>
                /\ RowFrom(a, a, d, [row EXCEPT !.order = channel.r.order])
                /\ RowFrom(a, a, d, [row EXCEPT !.accUOthers = NoUT, !.order = channel.r.order])
<1> DEFINE d == channel.r.dev
<1> DEFINE row == StoredRow(a, channel.r)
<1>0. row \in Row
  BY TypeParts, StoredRowType
<1>1. RowFrom(a, a, d, row)
  <2> DEFINE old == table[a][d]
  <2>1. old \in Row /\ NoRow \in Row
    BY TypeParts, EmptyTypes
  <2>2. CASE channel.r.type = "INITIALIZATION"
    <3>1. row = [NoRow EXCEPT !.present = TRUE, !.uOwner = initTicket[a], !.rOwner = channel.r]
      BY <2>2 DEF StoredRow
    <3>2. /\ row.order = 0 /\ row.uOwner = initTicket[a] /\ row.rOwner = channel.r
          /\ row.ownUOthers = NoUT /\ row.accUOthers = NoUT
      BY <2>1, <3>1, EmptyFields DEF Row
    <3> QED
      BY <3>2, Unchanged DEF RowFrom, KnownOrder
  <2>3. CASE channel.r.type # "INITIALIZATION"
    <3>1. \E r \in {old.rOwner, channel.r} :
            row = [old EXCEPT !.present = TRUE, !.rOwner = r]
      BY <2>3 DEF StoredRow
    <3>2. /\ row.order = old.order /\ row.uOwner = old.uOwner
          /\ row.ownUOthers = old.ownUOthers /\ row.accUOthers = old.accUOthers
          /\ row.rOwner \in {old.rOwner, channel.r}
      BY <2>1, <3>1 DEF Row
    <3> QED
      BY <3>2, Unchanged DEF RowFrom
  <2> QED
    BY <2>2, <2>3
<1> HIDE DEF row
<1>2. channel.r.ok => KnownOrder(a, d, channel.r.order)
  BY DEF KnownOrder
<1> QED
  BY <1>0, <1>1, <1>2, Unchanged DEF RowFrom, Row, row

LEMMA AgentRecvChanges ==
  ASSUME TypeOK, NEW a \in Agents, AgentRecv(a)
  PROVE  AgentChanges(a)
<1>c. a \in Controllers
  BY DEF Controllers
<1>g. \A s : Goto(a, s) => \A e \in Devices : state'[e] = state[e]
  BY PartiesAssumption DEF Goto, TypeOK, Controllers
<1>m. Consume => OldTicket(channel'.u) /\ OldReceipt(channel'.r)
  BY <1>c, SendChanges, Unchanged
<1>set. \A row : (channel.r.dev \in Devices => RowFrom(a, a, channel.r.dev, row))
                   /\ SetRow(a, channel.r.dev, row)
                 => \A b \in Agents, e \in Devices : RowFrom(a, b, e, table'[b][e])
  BY Unchanged DEF SetRow, TypeOK
<1>ok. \A start : HasExecuted(a, start, channel.r) => channel.r.ok
  BY DEF HasExecuted, VerifyHasExecuted
<1>1. CASE AgentRecvUTicket(a)
  <2> DEFINE row == [NoRow EXCEPT !.present = TRUE, !.order = channel.u.order, !.uOwner = channel.u]
  <2>1. /\ row.order = channel.u.order /\ row.uOwner = channel.u
        /\ row.ownUOthers = NoUT /\ row.accUOthers = NoUT /\ row.rOwner = NoRT
    BY EmptyFields, EmptyTypes DEF Row
  <2>2. table' \in {table, [table EXCEPT ![a][channel.u.dev] = row]}
    BY <1>1 DEF AgentRecvUTicket
  <2> HIDE DEF row
  <2>3. RowFrom(a, a, channel.u.dev, row)
    BY <2>1, Unchanged DEF RowFrom, KnownOrder
  <2>4. \A b \in Agents, e \in Devices : RowFrom(a, b, e, table'[b][e])
    BY <2>2, <2>3, Unchanged DEF TypeOK
  <2> QED
    BY <1>1, <1>m, <2>4 DEF AgentRecvUTicket, AgentChanges
<1>2. CASE IssuerRecvRTicket(a)
  <2>1. \A b \in Agents, e \in Devices : RowFrom(a, b, e, table'[b][e])
    BY <1>2, <1>ok, <1>set, StoredRowChanges, Unchanged DEF IssuerRecvRTicket
  <2> QED
    BY <1>2, <1>m, <2>1 DEF IssuerRecvRTicket, AgentChanges
<1>3. CASE IssuerRefuseRTicket(a)
  BY <1>3, <1>m, Unchanged DEF IssuerRefuseRTicket, AgentChanges
<1>4. CASE HolderRecvRTicket(a)
  <2>1. \A b \in Agents, e \in Devices : RowFrom(a, b, e, table'[b][e])
    BY <1>4, <1>ok, <1>set, StoredRowChanges, Unchanged DEF HolderRecvRTicket
  <2> QED
    BY <1>4, <1>g, <1>m, <2>1 DEF HolderRecvRTicket, AgentChanges
<1>5. CASE HolderRecvCrKe1(a)
  <2>1. \A f \in FreshNonces : AnswerBy(a, CrKe2(a, HolderSession(a, channel.r, f)))
    BY TypeParts, HolderSessionType, FreshNoncesType, CrKe2Type DEF AnswerBy, ReceiptTypes
  <2>2. /\ OldTicket(channel'.u)
        /\ OldReceipt(channel'.r) \/ AnswerBy(a, channel'.r)
    BY <1>5, <1>c, <1>m, <2>1, SendChanges, Unchanged DEF HolderRecvCrKe1
  <2> QED
    BY <1>5, <1>g, <2>2, Unchanged DEF HolderRecvCrKe1, AgentChanges
<1>6. CASE HolderRecvCrKe3(a)
  BY <1>6, <1>g, <1>m, Unchanged DEF HolderRecvCrKe3, AgentChanges
<1>7. CASE HolderRecvData(a)
  <2>1. channel.r.dev \in DeviceIds \cup Controllers
    BY TypeParts, RTicketFields DEF DeviceIds
  <2>2. \A d \in Devices : channel.r.dev = d /\ channel.r.ok =>
          RowFrom(a, a, d, [table[a][d] EXCEPT !.order = channel.r.order])
    BY TypeParts, Unchanged DEF RowFrom, KnownOrder, Row
  <2>3. ASSUME channel.r.dev \in Devices, channel.r.ok,
               table' = [table EXCEPT ![a][channel.r.dev].order = channel.r.order]
        PROVE  \A b \in Agents, e \in Devices : RowFrom(a, b, e, table'[b][e])
    <3>1. \A b \in Agents, e \in Devices :
            table'[b][e] = IF b = a /\ e = channel.r.dev
                           THEN [table[a][channel.r.dev] EXCEPT !.order = channel.r.order]
                           ELSE table[b][e]
      BY <2>3 DEF TypeOK
    <3> QED
      BY <2>2, <2>3, <3>1, RowChanges
  <2>4. \A b \in Agents, e \in Devices : RowFrom(a, b, e, table'[b][e])
    BY <1>7, <1>ok, <2>1, <2>3, TouchRowChanges, Unchanged DEF HolderRecvData, TypeOK
  <2> QED
    BY <1>7, <1>g, <1>m, <2>4 DEF HolderRecvData, AgentChanges
<1>8. CASE AgentRefusesAsDevice(a)
  <2>1. \A type \in {"DATA_RTOKEN", "ACCESS_END"} : AnswerBy(a, GenFailure(type, a, AgentOrder))
    BY <1>c, GenFailureType, PartiesAssumption DEF AnswerBy, AgentOrder, RTypes, ReceiptTypes
  <2>2. /\ OldTicket(channel'.u)
        /\ OldReceipt(channel'.r) \/ AnswerBy(a, channel'.r)
    BY <1>8, <1>c, <1>m, <2>1, SendChanges, Unchanged DEF AgentRefusesAsDevice
  <2> QED
    BY <1>8, <2>2, Unchanged DEF AgentRefusesAsDevice, AgentChanges
<1> QED
  BY <1>1, <1>2, <1>3, <1>4, <1>5, <1>6, <1>7, <1>8 DEF AgentRecv

(***************************************************************************)
(* The steps of a device.                                                  *)
(***************************************************************************)
NoReceipt(r) == ~ (r.ok /\ r.type \in {"INITIALIZATION", "OWNERSHIP"})

(* What the device says bears its order; or it says nothing. *)
OwnAnswer(d, r) == r.dev \in Devices => r.dev = d /\ r.order = order'[d]

Quiet(d) ==
  /\ order'[d] = order[d] /\ owner'[d] = owner[d]
  /\ NoReceipt(channel'.r)

EndsAccess(d) ==
  /\ Live(d)
  /\ order[d] > 0
  /\ order'[d] = order[d] + 1 /\ owner'[d] = owner[d]
  /\ NoReceipt(channel'.r)

ChangesHands(d) ==
  /\ Live(d)
  /\ channel.u.type \in {"INITIALIZATION", "OWNERSHIP"}
  /\ CanExecute(d, channel.u)
  /\ order'[d] = order[d] + 1 /\ owner'[d] = channel.u.holder
  /\ NoReceipt(channel'.r) \/ channel'.r.start.holder = channel.u.holder

DeviceChanges(d) ==
  /\ UNCHANGED <<table, initTicket>>
  /\ channel'.u = NoUT
  /\ OwnAnswer(d, channel'.r)
  /\ order' \in [Devices -> Nat] /\ owner' \in [Devices -> Persons]
  /\ \A e \in Devices \ {d} :
       order'[e] = order[e] /\ owner'[e] = owner[e] /\ state'[e] = state[e]
  /\ Live(d)' <=> Live(d)
  /\ Quiet(d) \/ EndsAccess(d) \/ ChangesHands(d)

LEMMA DeviceStepSafe ==
  ASSUME SafeInv, TypeOK', NEW d \in Devices, DeviceChanges(d)
  PROVE  SafeInv'
<1>o. order[d] \in Nat /\ order'[d] \in {order[d], order[d] + 1}
  BY TypeParts DEF SafeInv, DeviceChanges, Quiet, EndsAccess, ChangesHands
<1>1. \A c \in Controllers \cup {NoId}, o \in Nat : NotAhead(c, o) => NotAhead(c, o)'
  BY <1>o, TypeParts DEF SafeInv, DeviceChanges, NotAhead, Live
<1>2. \A u \in UTicket : TicketOk(u) => TicketOk(u)'
  BY <1>1, UTicketFields DEF TicketOk, DeviceIds, Controllers
<1>3. ASSUME NEW r \in RTicket, ReceiptOk(r)
      PROVE  ReceiptOk(r)'
  <2>1. NotAhead(r.dev, r.order)'
    BY <1>1, <1>3, RTicketFields DEF ReceiptOk
  <2>2. CASE r.dev = d /\ order'[d] = order[d] + 1
    (* An older receipt is not the latest any more. *)
    <3>1. Live(d) => r.order =< order[d]
      BY <1>3, <2>2 DEF ReceiptOk, NotAhead
    <3>2. Live(d)' => r.order # order'[d]
      <4>1. Live(d)' => Live(d)
        BY DEF DeviceChanges, Live
      <4>2. r.order \in Nat
        BY RTicketFields
      <4>3. Live(d) => r.order # order'[d]
        BY <1>o, <2>2, <3>1, <4>2
      <4> QED
        BY <4>1, <4>3
    <3>3. NamesOwner(r)'
      BY <2>2, <3>2 DEF NamesOwner, IsLatest
    <3> QED
      BY <2>1, <3>3 DEF ReceiptOk
  <2>3. CASE ~ (r.dev = d /\ order'[d] = order[d] + 1)
    BY <1>o, <1>3, <2>1, <2>3
       DEF ReceiptOk, NamesOwner, IsLatest, DeviceChanges, Quiet, EndsAccess, ChangesHands, Live
  <2> QED
    BY <2>2, <2>3
<1>4. NotAhead(channel.r.dev, channel.r.order)'
  BY DEF DeviceChanges, OwnAnswer, NotAhead
<1>5. NamesOwner(channel.r)'
  BY <1>o DEF DeviceChanges, OwnAnswer, Quiet, EndsAccess, ChangesHands, NoReceipt, NamesOwner, IsLatest
<1>6. \A a \in Agents, e \in Devices : RowOk(a, e)'
  <2> SUFFICES ASSUME NEW a \in Agents, NEW e \in Devices
               PROVE  RowOk(a, e)'
    OBVIOUS
  <2>1. table'[a][e] = table[a][e]
    BY DEF DeviceChanges
  <2> QED
    BY <1>1, <1>2, <1>3, <2>1, TypeParts DEF SafeInv, RowOk, Controllers
<1>7. TicketOk(channel.u)'
  BY EmptyFields, PartiesAssumption DEF DeviceChanges, TicketOk, NotAhead
<1> QED
  BY <1>4, <1>5, <1>6, <1>7 DEF SafeInv, ReceiptOk, DeviceChanges

LEMMA DeviceRecvChanges ==
  ASSUME TypeOK, TypeOK', NEW d \in Devices, DeviceRecv(d)
  PROVE  DeviceChanges(d)
<1>c. d \in Controllers
  BY DEF Controllers
<1>p. /\ channel.u \in UTicket /\ channel.r \in RTicket /\ Id(channel.u) \in UTicket
      /\ session[d] \in Session /\ session[d].ut \in UTicket /\ order[d] \in Nat
  BY <1>c, TypeParts, SessionFields, IdType
<1>g. \A s : Goto(d, s) => \A e \in Devices \ {d} : state'[e] = state[e]
  BY DEF Goto, TypeOK
<1>l. /\ \A s \in DeviceStates : Goto(d, s) => state'[d] # Lost
      /\ \A s \in DeviceStates : Incoming(d, s) => Live(d)
  BY <1>c DEF Goto, TypeOK, Incoming, Live, Lost, DeviceStates
<1>t. order' \in [Devices -> Nat] /\ owner' \in [Devices -> Persons]
  BY DEF TypeOK
<1>1. CASE DeviceExecuteOwnership(d)
  <2> DEFINE r == GenReceipt(channel.u.type, d, order[d] + 1, Id(channel.u))
  <2>1. channel.u.type \in RTypes
    BY <1>1 DEF DeviceExecuteOwnership, RTypes, ReceiptTypes
  <2>2. r.dev = d /\ r.order = order[d] + 1 /\ r.start.holder = channel.u.holder
    BY <1>p, <2>1, GenReceiptType, IdType
  <2>3. SendR(r, d)
    BY <1>1 DEF DeviceExecuteOwnership
  <2> HIDE DEF r
  <2>4. channel'.u = NoUT /\ channel'.r = r
    BY <1>c, <2>3, SendChanges
  <2>5. order'[d] = order[d] + 1 /\ owner'[d] = channel.u.holder
    BY <1>1, <1>p DEF DeviceExecuteOwnership, TypeOK
  <2>6. ChangesHands(d)
    BY <1>1, <1>l, <2>2, <2>4, <2>5 DEF DeviceExecuteOwnership, ChangesHands, DeviceStates
  <2> QED
    BY <1>1, <1>t, <2>2, <2>4, <2>5, <2>6
       DEF DeviceExecuteOwnership, DeviceChanges, OwnAnswer, TypeOK, Live
(* The steps that say nothing, or refuse, or answer in a session. *)
<1>quiet. ASSUME NEW r, \/ SendR(r, d) /\ OwnAnswer(d, r) /\ NoReceipt(r)
                        \/ Consume /\ r = NoRT,
                 UNCHANGED <<order, owner, table, initTicket>>,
                 Live(d)' <=> Live(d), \A e \in Devices \ {d} : state'[e] = state[e]
          PROVE  DeviceChanges(d)
  <2>1. channel'.u = NoUT /\ channel'.r = r
    BY <1>c, <1>quiet, SendChanges
  <2>2. OwnAnswer(d, r) /\ NoReceipt(r)
    BY <1>quiet, EmptyFields, PartiesAssumption DEF OwnAnswer, NoReceipt
  <2> QED
    BY <1>t, <1>quiet, <2>1, <2>2 DEF DeviceChanges, Quiet
<1>refuse. \A type \in RTypes : UNCHANGED order =>
             OwnAnswer(d, Refusal(type, d)) /\ NoReceipt(Refusal(type, d))
  BY RefusalType DEF OwnAnswer, NoReceipt
<1>answer. \A type \in CrKeTypes \cup {"DATA_RTOKEN"}, u \in UTicket, m \in Nat, n \in Nat, c \in Cipher :
             LET r == GenReceipt(type, d, order[d], u) IN
             UNCHANGED order =>
               /\ OwnAnswer(d, [r EXCEPT !.n1 = m, !.iv = n])
               /\ NoReceipt([r EXCEPT !.n1 = m, !.iv = n])
               /\ OwnAnswer(d, [r EXCEPT !.iv = n, !.cipher = c])
               /\ NoReceipt([r EXCEPT !.iv = n, !.cipher = c])
  <2> SUFFICES ASSUME NEW type \in CrKeTypes \cup {"DATA_RTOKEN"}, NEW u \in UTicket, UNCHANGED order,
                      NEW m \in Nat, NEW n \in Nat, NEW c \in Cipher,
                      NEW r, r = GenReceipt(type, d, order[d], u)
               PROVE  /\ OwnAnswer(d, [r EXCEPT !.n1 = m, !.iv = n])
                      /\ NoReceipt([r EXCEPT !.n1 = m, !.iv = n])
                      /\ OwnAnswer(d, [r EXCEPT !.iv = n, !.cipher = c])
                      /\ NoReceipt([r EXCEPT !.iv = n, !.cipher = c])
    OBVIOUS
  <2>1. r \in RTicket /\ r.type = type /\ r.dev = d /\ r.order = order[d]
    BY <1>p, GenReceiptType DEF RTypes
  <2> QED
    BY <2>1 DEF RTicket, OwnAnswer, NoReceipt, CrKeTypes
<1>2. CASE DeviceOpenSession(d)
  <2>1. PICK f \in Nat :
          SendR([GenReceipt("CR-KE-1", d, order[d], Id(channel.u)) EXCEPT !.n1 = f, !.iv = f], d)
    BY <1>2, FreshNoncesType DEF DeviceOpenSession
  <2> DEFINE r == [GenReceipt("CR-KE-1", d, order[d], Id(channel.u)) EXCEPT !.n1 = f, !.iv = f]
  <2>2. UNCHANGED <<order, owner, table, initTicket>>
    BY <1>2 DEF DeviceOpenSession
  <2>3. OwnAnswer(d, r) /\ NoReceipt(r)
    BY <1>p, <1>answer, <2>2, EmptyTypes DEF CrKeTypes
  <2> HIDE DEF r
  <2>4. /\ Live(d)' <=> Live(d)
        /\ \A e \in Devices \ {d} : state'[e] = state[e]
    BY <1>2, <1>g, <1>l DEF DeviceOpenSession, Live, DeviceStates
  <2> QED
    BY <1>quiet, <2>1, <2>2, <2>3, <2>4 DEF r
<1>3. CASE DeviceRefuseUTicket(d)
  BY <1>3, <1>quiet, <1>refuse DEF DeviceRefuseUTicket, Live, RTypes, CrKeTypes
<1>4. CASE DeviceDropMessage(d) \/ DeviceIgnoreInSession(d) \/ LostDeviceDropsMessage(d)
  BY <1>4, <1>quiet DEF DeviceDropMessage, DeviceIgnoreInSession, LostDeviceDropsMessage, Live
<1>5. CASE DeviceAcceptCrKe2(d)
  <2> DEFINE k == DeviceSessionKey(d, channel.r)
  <2> DEFINE c == Encrypt(channel.r.cipher.text, k, channel.r.ivData)
  <2>1. k \in Key
    BY <1>c, <1>p, SessionKeyType, SessionFields, RTicketFields DEF DeviceSessionKey
  <2>2. c \in Cipher
    BY <1>p, <2>1, EncryptType, RTicketFields
  <2>3. PICK f \in Nat :
          SendR([GenReceipt("CR-KE-3", d, order[d], session[d].ut) EXCEPT !.iv = f, !.cipher = c], d)
    BY <1>5, FreshNoncesType DEF DeviceAcceptCrKe2
  <2> HIDE DEF c
  <2> DEFINE r == [GenReceipt("CR-KE-3", d, order[d], session[d].ut) EXCEPT !.iv = f, !.cipher = c]
  <2>4. UNCHANGED <<order, owner, table, initTicket>>
    BY <1>5 DEF DeviceAcceptCrKe2
  <2>5. OwnAnswer(d, r) /\ NoReceipt(r)
    BY <1>p, <1>answer, <2>2, <2>4 DEF CrKeTypes
  <2> HIDE DEF r
  <2>6. /\ Live(d)' <=> Live(d)
        /\ \A e \in Devices \ {d} : state'[e] = state[e]
    BY <1>5, <1>g, <1>l DEF DeviceAcceptCrKe2, Live, DeviceStates
  <2> QED
    BY <1>quiet, <2>3, <2>4, <2>5, <2>6 DEF r
<1>6. CASE DeviceRefuseCrKe2(d)
  BY <1>6, <1>g, <1>l, <1>quiet, <1>refuse
     DEF DeviceRefuseCrKe2, Live, RTypes, CrKeTypes, DeviceStates
<1>7. CASE DeviceExecuteCmd(d)
  <2> DEFINE c == Encrypt(channel.u.cipher.text, session[d].key, channel.u.ivData)
  <2>1. c \in Cipher
    BY <1>p, EncryptType, UTicketFields, SessionFields
  <2>2. PICK f \in Nat :
          SendR([GenReceipt("DATA_RTOKEN", d, order[d], session[d].ut)
                   EXCEPT !.iv = f, !.cipher = c], d)
    BY <1>7, FreshNoncesType DEF DeviceExecuteCmd
  <2> HIDE DEF c
  <2> DEFINE r == [GenReceipt("DATA_RTOKEN", d, order[d], session[d].ut)
                     EXCEPT !.iv = f, !.cipher = c]
  <2>3. UNCHANGED <<state, order, owner, table, initTicket>>
    BY <1>7 DEF DeviceExecuteCmd
  <2>4. OwnAnswer(d, r) /\ NoReceipt(r)
    BY <1>p, <1>answer, <2>1, <2>3
  <2> HIDE DEF r
  <2> QED
    BY <1>quiet, <2>2, <2>3, <2>4 DEF r, Live
<1>8. CASE DeviceEndAccess(d)
  <2> DEFINE r == GenReceipt("ACCESS_END", d, order'[d], session[d].ut)
  <2>1. order'[d] = IF channel.u.cipher.text = EndCmd THEN order[d] + 1 ELSE order[d]
    BY <1>8 DEF DeviceEndAccess, TypeOK
  <2>2. order[d] > 0
    BY <1>8, <1>p
       DEF DeviceEndAccess, DeviceReadsToken, CanExecute, VerifyCanExecute, VerifyUDeviceId
  <2>3. r.dev = d /\ r.order = order'[d] /\ r.type = "ACCESS_END"
    BY DEF GenReceipt, NoRT
  <2>4. SendR(r, d)
    BY <1>8 DEF DeviceEndAccess
  <2> HIDE DEF r
  <2>5. channel'.u = NoUT /\ channel'.r = r
    BY <1>c, <2>4, SendChanges
  <2>6. NoReceipt(r) /\ OwnAnswer(d, r)
    BY <2>3 DEF NoReceipt, OwnAnswer
  <2>7. owner'[d] = owner[d]
    BY <1>8 DEF DeviceEndAccess
  <2>8. Live(d) /\ Live(d)'
    BY <1>8, <1>l DEF DeviceEndAccess, Live, DeviceStates
  <2>9. Quiet(d) \/ EndsAccess(d)
    BY <2>1, <2>2, <2>5, <2>6, <2>7, <2>8 DEF Quiet, EndsAccess
  <2> QED
    BY <1>8, <1>g, <1>t, <2>5, <2>6, <2>8, <2>9 DEF DeviceEndAccess, DeviceChanges, TypeOK
<1>9. CASE DeviceRefuseToken(d)
  BY <1>9, <1>quiet, <1>refuse DEF DeviceRefuseToken, Live, RTypes, ReceiptTypes
<1>10. CASE DeviceExecuteTicketInSession(d)
  <2>1. channel'.u = NoUT /\ channel'.r = NoRT
    BY <1>10, <1>c, SendChanges DEF DeviceExecuteTicketInSession
  <2>2. Live(d) /\ Live(d)'
    BY <1>10, <1>l DEF DeviceExecuteTicketInSession, Live, DeviceStates
  <2>3. NoReceipt(NoRT) /\ OwnAnswer(d, NoRT)
    BY EmptyFields, PartiesAssumption DEF NoReceipt, OwnAnswer
  <2>4. Quiet(d) \/ ChangesHands(d)
    BY <1>10, <1>p, <2>1, <2>2, <2>3 DEF DeviceExecuteTicketInSession, Quiet, ChangesHands, TypeOK
  <2> QED
    BY <1>10, <1>t, <2>1, <2>2, <2>3, <2>4 DEF DeviceExecuteTicketInSession, DeviceChanges, TypeOK
<1> QED
  BY <1>1, <1>2, <1>3, <1>4, <1>5, <1>6, <1>7, <1>8, <1>9, <1>10 DEF DeviceRecv

(* A rebooted device has no say any more, and nobody else changes. *)
LEMMA RebootSafe ==
  ASSUME SafeInv, TypeOK', NEW d \in Devices, RebootDevice(d)
  PROVE  SafeInv'
<1>1. /\ state'[d] = Lost
      /\ \A e \in Devices \ {d} :
           state'[e] = state[e] /\ order'[e] = order[e] /\ owner'[e] = owner[e]
  BY DEF RebootDevice, Goto, SafeInv, TypeOK, Controllers
<1>2. UNCHANGED <<initTicket, table, channel>>
  BY DEF RebootDevice
<1>3. \A c, o : NotAhead(c, o) => NotAhead(c, o)'
  BY <1>1 DEF NotAhead, Live
<1>4. \A r : NamesOwner(r) => NamesOwner(r)'
  BY <1>1 DEF NamesOwner, IsLatest, Live
<1> QED
  BY <1>2, <1>3, <1>4 DEF SafeInv, RowOk, TicketOk, ReceiptOk

(* SafeInv is the inductive invariant behind the theorems below. *)
THEOREM Safe == Spec => []SafeInv
<1>1. ASSUME SafeInv, TypeOK', [Next]_vars
      PROVE  SafeInv'
  <2> TypeOK
    BY <1>1 DEF SafeInv
  <2>1. CASE UNCHANGED vars
    BY <1>1, <2>1 DEF vars, SafeInv, RowOk, TicketOk, ReceiptOk, NotAhead, NamesOwner, IsLatest, Live
  <2>2. ASSUME NEW a \in Agents, Call(a) \/ AgentRecv(a)
        PROVE  SafeInv'
    BY <1>1, <2>2, CallIsAnyCall, CallChanges, AgentRecvChanges, AgentStepSafe
  <2>3. ASSUME NEW d \in Devices, DeviceRecv(d)
        PROVE  SafeInv'
    BY <1>1, <2>3, DeviceRecvChanges, DeviceStepSafe
  <2>4. ASSUME NEW d \in Fragile, RebootDevice(d)
        PROVE  SafeInv'
    BY <1>1, <2>4, RebootSafe, InputsAssumption
  <2> QED
    BY <1>1, <2>1, <2>2, <2>3, <2>4 DEF Next
<1> QED
  BY <1>1, SafeInit, TypeCorrect, PTL DEF Spec

(* OrderBound: no row, ticket or message names an order that its device,   *)
(* which only counts up, has not reached.                                  *)
THEOREM NothingAhead == Spec => []OrderBound
BY Safe, SafeInvImplies, PTL

(* LatestReceipt: the receipt of a device's present order names its owner. *)
THEOREM LatestNamesOwner == Spec => []LatestReceipt
BY Safe, SafeInvImplies, PTL

(***************************************************************************)
(* What an issuer gives up.                                                *)
(***************************************************************************)
ChannelShape == channel.u = NoUT \/ channel.r = NoRT

(* The channel holds one message. *)
LEMMA OneMessage == Spec => []ChannelShape
<1>1. Init => ChannelShape
  BY EmptyFields DEF Init, ChannelShape
<1>2. ASSUME ChannelShape, [Next]_vars
      PROVE  ChannelShape'
  <2>1. CASE UNCHANGED vars
    BY <1>2, <2>1 DEF vars, ChannelShape
  <2>2. ASSUME UNCHANGED channel \/ Consume \/ (\E c \in Controllers : (\E u : SendU(u, c)) \/ (\E r : SendR(r, c)))
        PROVE  ChannelShape'
    BY <1>2, <2>2, SendChanges, EmptyFields DEF ChannelShape, Consume
  <2>3. ASSUME NEW a \in Agents, Call(a)
        PROVE  ChannelShape'
    BY <2>2, <2>3 DEF Call, Issue, IssueInitToHerself, IssueSelfAccessToHerself,
       IssueOwnershipToHolder, IssueAccessToHolder, HolderSendRTicketToIssuer,
       HolderApplyUTicket, HolderSendCmd, Controllers
  <2>4. ASSUME NEW a \in Agents, AgentRecv(a)
        PROVE  ChannelShape'
    BY <2>2, <2>4 DEF AgentRecv, AgentRecvUTicket, IssuerRecvRTicket, IssuerRefuseRTicket,
       HolderRecvRTicket, HolderRecvCrKe1, HolderRecvCrKe3, HolderRecvData,
       AgentRefusesAsDevice, Controllers
  <2>5. ASSUME NEW d \in Devices, DeviceRecv(d)
        PROVE  ChannelShape'
    BY <2>2, <2>5 DEF DeviceRecv, DeviceExecuteOwnership, DeviceOpenSession, DeviceRefuseUTicket,
       DeviceDropMessage, DeviceAcceptCrKe2, DeviceRefuseCrKe2, DeviceExecuteCmd, DeviceEndAccess,
       DeviceRefuseToken, DeviceExecuteTicketInSession, DeviceIgnoreInSession,
       LostDeviceDropsMessage, Controllers
  <2>6. ASSUME NEW d \in Fragile, RebootDevice(d)
        PROVE  ChannelShape'
    BY <2>2, <2>6 DEF RebootDevice
  <2> QED
    BY <1>2, <2>1, <2>3, <2>4, <2>5, <2>6 DEF Next
<1> QED
  BY <1>1, <1>2, PTL DEF Spec

(* A row that is kept: it stays or is made anew, and so does its access    *)
(* ticket when a receipt for an access came in.                            *)
Keeps(a, d) ==
  LET row == table[a][d]
      new == table'[a][d]
  IN
    /\ new.present \/ new.ownUOthers = row.ownUOthers
    /\ channel.r.type = "ACCESS_END" => new.accUOthers \in {row.accUOthers} \/ new.accUOthers # NoUT

LEMMA KeepsForgetsNothing ==
  ASSUME NEW a \in Agents, NEW d \in Devices, Keeps(a, d)
  PROVE  IssuerForgets(a, d)
<1>1. NoRow.present = FALSE /\ NoRow.ownUOthers = NoUT
  BY DEF NoRow
<1> QED
  BY <1>1 DEF Keeps, IssuerForgets

LEMMA CallKeeps ==
  ASSUME TypeOK, NEW b \in Agents, Call(b), NEW a \in Agents, NEW d \in Devices
  PROVE  Keeps(a, d)
<1>r. table[a][d] \in Row
  BY TypeParts
<1>0. table'[a][d] = table[a][d] => Keeps(a, d)
  BY DEF Keeps
<1>p. table'[a][d] = [table[a][d] EXCEPT !.present = TRUE] => Keeps(a, d)
  BY <1>r DEF Keeps, Row
<1>t. ASSUME NEW e \in DeviceIds, TouchRow(b, e)
      PROVE  Keeps(a, d)
  BY <1>t, <1>0, <1>p DEF TouchRow, TypeOK
<1>1. ASSUME b \in Issuers, Issue(b)
      PROVE  Keeps(a, d)
  <2>1. CASE IssueInitToHerself(b)
    BY <2>1, <1>0 DEF IssueInitToHerself
  <2>2. ASSUME NEW e \in Devices, NEW scope \in Scopes, IssueSelfAccessToHerself(b, e, scope)
        PROVE  Keeps(a, d)
    <3>1. table'[a][d] = table[a][d] \/ \E u : table'[a][d] = [table[a][d] EXCEPT !.uOwner = u]
      BY <2>2 DEF IssueSelfAccessToHerself, TypeOK
    <3> QED
      BY <3>1, <1>r, <1>0 DEF Keeps, Row
  <2>3. ASSUME NEW e \in Devices, NEW h \in Agents, IssueOwnershipToHolder(b, e, h)
        PROVE  Keeps(a, d)
    <3>1. \/ table'[a][d] = table[a][d]
          \/ table[a][d].present /\ \E u : table'[a][d] = [table[a][d] EXCEPT !.ownUOthers = u]
      BY <2>3 DEF IssueOwnershipToHolder, TypeOK
    <3> QED
      BY <3>1, <1>r, <1>0 DEF Keeps, Row
  <2>4. ASSUME NEW e \in Devices, NEW h \in Agents, NEW scope \in Scopes,
               IssueAccessToHolder(b, e, h, scope)
        PROVE  Keeps(a, d)
    <3> DEFINE u == GenTicket("ACCESS", e, table[b][e].order, h, scope, b)
    <3>1. u # NoUT
      <4>1. /\ scope \in SUBSET Texts /\ "ACCESS" \in StoredUTypes /\ table[b][e].order \in Nat
            /\ h \in Persons
        BY TypeParts, InputsAssumption DEF StoredUTypes, Persons
      <4>2. u.type = "ACCESS"
        BY <4>1, GenTicketType
      <4> QED
        BY <4>2, EmptyFields
    <3>2. table' = [table EXCEPT ![b][e].accUOthers = u] /\ table[b][e].present
      BY <2>4 DEF IssueAccessToHolder
    <3> HIDE DEF u
    <3>3. \/ table'[a][d] = table[a][d]
          \/ table[a][d].present /\ table'[a][d] = [table[a][d] EXCEPT !.accUOthers = u]
      BY <3>2 DEF TypeOK
    <3> QED
      BY <3>1, <3>3, <1>r, <1>0 DEF Keeps, Row
  <2> QED
    BY <1>1, <2>1, <2>2, <2>3, <2>4 DEF Issue
<1>2. ASSUME NEW e \in Devices, HolderSendRTicketToIssuer(b, e)
      PROVE  Keeps(a, d)
  BY <1>2, <1>t DEF HolderSendRTicketToIssuer, DeviceIds
<1>3. ASSUME NEW e \in DeviceIds, NEW cmd \in FirstCmds, HolderApplyUTicket(b, e, cmd)
      PROVE  Keeps(a, d)
  BY <1>3, <1>t DEF HolderApplyUTicket
<1>4. ASSUME NEW e \in Devices, NEW cmd \in CmdInputs, NEW type \in TokenKinds,
             HolderSendCmd(b, e, cmd, type)
      PROVE  Keeps(a, d)
  BY <1>4, <1>0 DEF HolderSendCmd
<1> QED
  BY <1>1, <1>2, <1>3, <1>4 DEF Call

LEMMA AgentRecvKeeps ==
  ASSUME TypeOK, ChannelShape, NEW b \in Agents, AgentRecv(b), NEW a \in Agents, NEW d \in Devices
  PROVE  Keeps(a, d) \/ (a = b /\ channel.r.dev = d /\ IssuerRecvRTicket(b))
<1>r. table[a][d] \in Row /\ channel.r \in RTicket
  BY TypeParts
<1>0. table'[a][d] = table[a][d] => Keeps(a, d)
  BY DEF Keeps
<1>1. CASE AgentRecvUTicket(b)
  <2>1. channel.u # NoUT
    BY <1>1, EmptyFields DEF AgentRecvUTicket, UTypes, StoredUTypes, TokenTypes
  <2>2. channel.r.type # "ACCESS_END"
    BY <2>1, EmptyFields DEF ChannelShape
  <2> DEFINE row == [NoRow EXCEPT !.present = TRUE, !.order = channel.u.order, !.uOwner = channel.u]
  <2>3. row.present
    BY EmptyTypes DEF Row
  <2>4. table'[a][d] \in {table[a][d], row}
    BY <1>1 DEF AgentRecvUTicket, TypeOK
  <2> HIDE DEF row
  <2> QED
    BY <1>0, <2>2, <2>3, <2>4 DEF Keeps
<1>2. CASE IssuerRecvRTicket(b)
  <2>1. (a = b /\ d = channel.r.dev) \/ table'[a][d] = table[a][d]
    BY <1>2 DEF IssuerRecvRTicket, SetRow, TypeOK
  <2> QED
    BY <1>0, <1>2, <2>1
<1>3. CASE HolderRecvRTicket(b)
  <2>1. CASE table'[a][d] = table[a][d]
    BY <1>0, <2>1
  <2>2. CASE table'[a][d] # table[a][d]
    <3>1. /\ a = b /\ d = channel.r.dev
          /\ table'[a][d] \in {StoredRow(a, channel.r),
                               [StoredRow(a, channel.r) EXCEPT !.order = channel.r.order]}
      BY <1>3, <2>2 DEF HolderRecvRTicket, SetRow, TypeOK
    <3>2. StoredRow(a, channel.r) \in Row
      BY <1>r, <3>1, StoredRowType
    <3>3. /\ StoredRow(a, channel.r).present
          /\ channel.r.type = "ACCESS_END" =>
               StoredRow(a, channel.r).accUOthers = table[a][d].accUOthers
      BY <1>r, <3>1, EmptyTypes DEF StoredRow, Row
    <3> QED
      BY <3>1, <3>2, <3>3 DEF Keeps, Row
  <2> QED
    BY <2>1, <2>2
<1>4. CASE HolderRecvData(b)
  <2>1. \/ table'[a][d] = table[a][d]
        \/ table'[a][d] = [table[a][d] EXCEPT !.present = TRUE]
        \/ table'[a][d] = [table[a][d] EXCEPT !.order = channel.r.order]
    <3>1. CASE TouchRow(b, channel.r.dev)
      BY <3>1 DEF TouchRow, TypeOK
    <3>2. CASE UNCHANGED table
      BY <3>2
    <3>3. CASE table' = [table EXCEPT ![b][channel.r.dev].order = channel.r.order]
      BY <3>3 DEF TypeOK
    <3> QED
      BY <1>4, <3>1, <3>2, <3>3 DEF HolderRecvData
  <2> QED
    BY <1>r, <1>0, <2>1 DEF Keeps, Row
<1>5. CASE IssuerRefuseRTicket(b) \/ HolderRecvCrKe1(b) \/ HolderRecvCrKe3(b)
             \/ AgentRefusesAsDevice(b)
  BY <1>5, <1>0
     DEF IssuerRefuseRTicket, HolderRecvCrKe1, HolderRecvCrKe3, AgentRefusesAsDevice
<1> QED
  BY <1>1, <1>2, <1>3, <1>4, <1>5 DEF AgentRecv

(* The issuer verified a receipt of the next order, and nothing is ahead. *)
LEMMA IssuerRecvForgets ==
  ASSUME SafeInv, NEW a \in Agents, NEW d \in Devices, channel.r.dev = d,
         IssuerRecvRTicket(a), Live(d)
  PROVE  IssuerForgets(a, d)
<1> DEFINE r == channel.r
<1> DEFINE row == table[a][d]
<1> DEFINE start == IssuedUTicket(a, r)
<1>1. /\ row \in Row /\ row.order \in Nat /\ order[d] \in Nat /\ r \in RTicket /\ r.order \in Nat
      /\ row.ownUOthers \in UTicket
  BY TypeParts, RTicketFields DEF SafeInv
<1>2. r.order =< order[d] /\ NamesOwner(r)
  BY DEF SafeInv, ReceiptOk, NotAhead
<1>3. StoredRow(a, r).present /\ StoredRow(a, r) \in Row
      /\ (r.type # "INITIALIZATION" => StoredRow(a, r).accUOthers = row.accUOthers)
  BY <1>1, StoredRowType, EmptyTypes DEF StoredRow, Row, SafeInv
<1>4. CASE SetRow(a, r.dev, StoredRow(a, r))
  <2>1. table'[a][d] = StoredRow(a, r)
    BY <1>4 DEF SetRow, SafeInv, TypeOK
  <2>2. Keeps(a, d)
    BY <1>3, <2>1 DEF Keeps
  <2> QED
    BY <2>2, KeepsForgetsNothing
<1>5. CASE start # NoUT /\ HasExecuted(a, start, r) /\ r.type \in {"OWNERSHIP", "ACCESS_END"}
  <2>1. r.ok /\ r.order = row.order + 1 /\ r.start = Id(start)
    BY <1>5 DEF HasExecuted, VerifyHasExecuted, VerifyROrder, VerifyRAuditStart, RowOrder, CrKeTypes
  <2>2. order[d] > row.order
    BY <1>1, <1>2, <2>1
  <2>3. r.type = "OWNERSHIP" /\ order[d] = row.order + 1 => owner[d] = row.ownUOthers.holder
    BY <1>1, <1>2, <2>1, IdType DEF NamesOwner, IsLatest, IssuedUTicket
  <2>4. CASE r.type = "OWNERSHIP"
    BY <2>2, <2>3, <2>4 DEF IssuerForgets
  <2>5. CASE r.type = "ACCESS_END"
    <3>1. table'[a][d] \in {StoredRow(a, r),
                            [StoredRow(a, r) EXCEPT !.accUOthers = NoUT, !.order = r.order]}
      BY <2>5 DEF IssuerRecvRTicket, SetRow, SafeInv, TypeOK
    <3>2. table'[a][d].present
      BY <1>3, <3>1 DEF Row
    <3> QED
      BY <2>2, <3>2 DEF IssuerForgets, NoRow
  <2> QED
    BY <1>5, <2>4, <2>5
<1> QED
  BY <1>4, <1>5 DEF IssuerRecvRTicket

(* IssuerForgetsOnlyExecuted: an issuer gives up a row or an access ticket *)
(* only after the device went on, and the row of an ownership it gave away *)
(* only if the holder it named got it.                                     *)
THEOREM ForgetsOnlyExecuted == Spec => IssuerForgetsOnlyExecuted
<1>1. ASSUME SafeInv, ChannelShape, [Next]_vars
      PROVE  [\A a \in Agents, d \in Devices : Live(d) => IssuerForgets(a, d)]_vars
  <2> SUFFICES ASSUME NEW a \in Agents, NEW d \in Devices, Live(d)
               PROVE  vars' = vars \/ IssuerForgets(a, d)
    BY DEF vars
  <2> TypeOK
    BY <1>1 DEF SafeInv
  <2>0. table'[a][d] = table[a][d] => IssuerForgets(a, d)
    BY KeepsForgetsNothing DEF Keeps
  <2>1. ASSUME NEW b \in Agents, Call(b)
        PROVE  IssuerForgets(a, d)
    BY <2>1, CallKeeps, KeepsForgetsNothing
  <2>2. ASSUME NEW b \in Agents, AgentRecv(b)
        PROVE  IssuerForgets(a, d)
    BY <1>1, <2>2, AgentRecvKeeps, KeepsForgetsNothing, IssuerRecvForgets
  <2>3. ASSUME NEW e \in Devices, DeviceRecv(e)
        PROVE  IssuerForgets(a, d)
    BY <2>0, <2>3 DEF DeviceRecv, DeviceExecuteOwnership, DeviceOpenSession, DeviceRefuseUTicket,
       DeviceDropMessage, DeviceAcceptCrKe2, DeviceRefuseCrKe2, DeviceExecuteCmd, DeviceEndAccess,
       DeviceRefuseToken, DeviceExecuteTicketInSession, DeviceIgnoreInSession,
       LostDeviceDropsMessage
  <2>4. ASSUME NEW e \in Fragile, RebootDevice(e)
        PROVE  IssuerForgets(a, d)
    BY <2>0, <2>4 DEF RebootDevice
  <2> QED
    BY <1>1, <2>1, <2>2, <2>3, <2>4 DEF Next
<1> QED
  BY <1>1, Safe, OneMessage, PTL DEF Spec, IssuerForgetsOnlyExecuted
(***************************************************************************)
(* An order that is lost.                                                  *)
(***************************************************************************)
(* The empty ticket and receipt are of no device.                          *)
LEMMA EmptyNamesNothing ==
  /\ NoUT.dev = NoId /\ NoRT.dev = NoId /\ ~ NoRT.ok
  /\ NoMessage.u = NoUT /\ NoMessage.r = NoRT
BY EmptyFields

(* An agent names no order but those in her rows, and takes none over but  *)
(* from a ticket or the receipt of a success.                              *)
LEMMA AgentKeepsLost ==
  ASSUME SafeInv, NEW a \in Agents, AgentChanges(a), NEW d \in Devices, OrderLost(d)
  PROVE  OrderLost(d)'
<1>t. TypeOK
  BY DEF SafeInv
<1>0. order[d] \in Nat /\ order[d] > 0 /\ order'[d] = order[d] /\ d # NoId
  <2>1. table[a][d].order \in Nat /\ table[a][d].order < order[d] /\ order[d] \in Nat
    BY <1>t, TypeParts DEF OrderLost
  <2> QED
    BY <2>1, PartiesAssumption DEF AgentChanges
<1>1. ASSUME NEW u, OldTicket(u) \/ MadeBy(a, u), u.dev = d
      PROVE  u.order < order[d]
  <2>1. CASE OldTicket(u)
    BY <1>0, <1>1, <2>1, EmptyNamesNothing
       DEF OldTicket, OrderLost, TicketsHeld, RowTickets, SafeInv
  <2>2. CASE MadeBy(a, u)
    BY <1>1, <2>2 DEF MadeBy, RowOrder, OrderLost
  <2> QED
    BY <1>1, <2>1, <2>2
<1>2. ASSUME NEW r, OldReceipt(r) \/ AnswerBy(a, r), r.dev = d, r.ok
      PROVE  r.order < order[d]
  <2>1. CASE OldReceipt(r)
    BY <1>2, <2>1, EmptyNamesNothing DEF OldReceipt, OrderLost, ReceiptsHeld
  <2>2. CASE AnswerBy(a, r)
    BY <1>2, <2>2 DEF AnswerBy, RowOrder, OrderLost
  <2> QED
    BY <1>2, <2>1, <2>2
<1>3. ASSUME NEW b \in Agents
      PROVE  table'[b][d].order < order[d]
  <2>1. KnownOrder(b, d, table'[b][d].order)
    BY DEF AgentChanges, RowFrom
  <2>2. channel.u.dev = d => channel.u.order < order[d]
    BY DEF OrderLost, TicketsHeld
  <2>3. channel.r.dev = d /\ channel.r.ok => channel.r.order < order[d]
    BY DEF OrderLost, ReceiptsHeld
  <2> QED
    BY <1>0, <2>1, <2>2, <2>3 DEF KnownOrder, OrderLost
<1>4. ASSUME NEW u \in TicketsHeld', u.dev = d
      PROVE  u.order < order[d]
  <2>1. OldTicket(u) \/ MadeBy(a, u)
    BY <1>4 DEF TicketsHeld, RowTickets, AgentChanges, RowFrom
  <2> QED
    BY <1>1, <1>4, <2>1
<1>5. ASSUME NEW r \in ReceiptsHeld', r.dev = d, r.ok
      PROVE  r.order < order[d]
  <2>1. OldReceipt(r) \/ AnswerBy(a, r)
    BY <1>5 DEF ReceiptsHeld, AgentChanges, RowFrom
  <2> QED
    BY <1>2, <1>5, <2>1
<1>6. state'[d] = "DEVICE_WAIT_FOR_UT"
  BY DEF AgentChanges, OrderLost
<1> QED
  BY <1>0, <1>3, <1>4, <1>5, <1>6 DEF OrderLost

(* Another device speaks of itself only. *)
LEMMA DeviceKeepsLost ==
  ASSUME NEW e \in Devices, DeviceChanges(e), NEW d \in Devices \ {e}, OrderLost(d)
  PROVE  OrderLost(d)' /\ UNCHANGED <<order[d], owner[d]>>
<1>1. /\ UNCHANGED <<table, state[d], order[d], owner[d]>>
      /\ channel'.u = NoUT /\ channel'.r.dev # d
  BY DEF DeviceChanges, OwnAnswer
<1>2. \A u \in TicketsHeld' : u.dev = d => u \in TicketsHeld
  BY <1>1, EmptyNamesNothing, PartiesAssumption DEF TicketsHeld, RowTickets
<1>3. \A r \in ReceiptsHeld' : r.dev = d => r \in ReceiptsHeld
  BY <1>1 DEF ReceiptsHeld
<1> QED
  BY <1>1, <1>2, <1>3 DEF OrderLost

(* The device itself can only refuse what it receives, and an agent takes  *)
(* no order from a refusal.                                                *)
LEMMA RefusalKeepsLost ==
  ASSUME SafeInv, NEW d \in Devices, DeviceRecv(d), OrderLost(d)
  PROVE  OrderLost(d)' /\ UNCHANGED <<order[d], owner[d]>>
<1>t. TypeOK /\ channel.u \in UTicket /\ d \in Controllers
  BY TypeParts DEF SafeInv, Controllers
<1>1. ~ CanExecute(d, channel.u)
  <2> SUFFICES ASSUME CanExecute(d, channel.u)
               PROVE  FALSE
    OBVIOUS
  <2>1. CASE channel.u.type = "INITIALIZATION"
    <3>1. order[d] = 0 /\ channel.u.holder # NoOne
      BY <2>1 DEF CanExecute, VerifyCanExecute, VerifyUOrder, VerifyUHolder
    <3>2. PICK a \in Agents : TRUE
      BY <1>t, <3>1, UTicketFields DEF Persons
    <3>3. table[a][d].order \in Nat /\ table[a][d].order < order[d]
      BY <1>t, TypeParts DEF OrderLost
    <3> QED
      BY <3>1, <3>3
  <2>2. CASE channel.u.type # "INITIALIZATION"
    <3>1. channel.u.dev = d /\ channel.u.order = order[d]
      BY <2>2 DEF CanExecute, VerifyCanExecute, VerifyUOrder, VerifyUDeviceId
    <3>2. channel.u.order < order[d]
      BY <3>1 DEF OrderLost, TicketsHeld
    <3> QED
      BY <1>t, <3>1, <3>2, TypeParts
  <2> QED
    BY <2>1, <2>2
<1>2. /\ UNCHANGED <<state, order, owner, table>>
      /\ \/ Consume
         \/ \E type \in RTypes : SendR(Refusal(type, d), d)
  BY <1>1 DEF OrderLost, DeviceRecv, DeviceExecuteOwnership, DeviceOpenSession, DeviceRefuseUTicket,
     DeviceDropMessage, DeviceAcceptCrKe2, DeviceRefuseCrKe2, DeviceExecuteCmd, DeviceEndAccess,
     DeviceRefuseToken, DeviceExecuteTicketInSession, DeviceIgnoreInSession,
     LostDeviceDropsMessage, Incoming, Lost, RTypes, ReceiptTypes, CrKeTypes
<1>3. channel'.u = NoUT /\ ~ channel'.r.ok
  <2>1. \A type \in RTypes : ~ Refusal(type, d).ok
    BY EmptyNamesNothing DEF Refusal, GenFailure, NoRT
  <2> QED
    BY <1>2, <1>t, <2>1, SendChanges, EmptyNamesNothing DEF Consume
<1>4. \A u \in TicketsHeld' : u.dev = d => u \in TicketsHeld
  BY <1>2, <1>3, EmptyNamesNothing, PartiesAssumption DEF TicketsHeld, RowTickets
<1>5. \A r \in ReceiptsHeld' : r.ok => r \in ReceiptsHeld
  BY <1>2, <1>3 DEF ReceiptsHeld
<1> QED
  BY <1>2, <1>4, <1>5 DEF OrderLost

(* OrderLostForever: a device tells its new order once, in a receipt       *)
(* (flow_apply_u_ticket.cpp, flow_issue_u_token.cpp); once no row, ticket  *)
(* or successful receipt names it, nothing that is called or received      *)
(* changes the device or brings its order back.                            *)
THEOREM OrderStaysLost == Spec => OrderLostForever
<1>1. ASSUME SafeInv, TypeOK', [Next]_vars
      PROVE  [\A d \in Devices \ Fragile :
                OrderLost(d) => OrderLost(d)' /\ UNCHANGED <<order[d], owner[d]>>]_vars
  <2> SUFFICES ASSUME NEW d \in Devices \ Fragile, OrderLost(d)
               PROVE  vars' = vars \/ (OrderLost(d)' /\ UNCHANGED <<order[d], owner[d]>>)
    BY DEF vars
  <2>t. TypeOK
    BY <1>1 DEF SafeInv
  <2>1. ASSUME NEW a \in Agents, Call(a) \/ AgentRecv(a)
        PROVE  OrderLost(d)' /\ UNCHANGED <<order[d], owner[d]>>
    <3>1. AgentChanges(a)
      BY <2>t, <2>1, CallIsAnyCall, CallChanges, AgentRecvChanges
    <3> QED
      BY <1>1, <3>1, AgentKeepsLost DEF AgentChanges
  <2>2. ASSUME NEW e \in Devices, DeviceRecv(e)
        PROVE  OrderLost(d)' /\ UNCHANGED <<order[d], owner[d]>>
    <3>1. CASE e = d
      BY <1>1, <2>2, <3>1, RefusalKeepsLost
    <3>2. CASE e # d
      BY <1>1, <2>t, <2>2, <3>2, DeviceRecvChanges, DeviceKeepsLost
    <3> QED
      BY <3>1, <3>2
  <2>3. ASSUME NEW e \in Fragile, RebootDevice(e)
        PROVE  OrderLost(d)' /\ UNCHANGED <<order[d], owner[d]>>
    <3>1. /\ UNCHANGED <<table, channel>>
          /\ UNCHANGED <<state[d], order[d], owner[d]>>
      BY <2>t, <2>3 DEF RebootDevice, Goto, TypeOK, Controllers
    <3> QED
      BY <3>1 DEF OrderLost, TicketsHeld, ReceiptsHeld, RowTickets
  <2> QED
    BY <1>1, <2>1, <2>2, <2>3 DEF Next
<1> QED
  BY <1>1, Safe, TypeCorrect, PTL DEF Spec, OrderLostForever
=============================================================================
