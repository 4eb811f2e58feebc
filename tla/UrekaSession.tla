---------------------------- MODULE UrekaSession ----------------------------
(***************************************************************************)
(* Sessions of Ureka: why an answer is authorised, why an agent reads the  *)
(* answer to its own command, and why a stranded device stays stranded.    *)
(*                                                                         *)
(* Three things are carried through every step. What is stored are tickets *)
(* and receipts, never tokens or answers, so nothing with an iv in it comes*)
(* back later (Plain). While a device is in a session nothing that names   *)
(* it has come further than the session's ticket, and either its key is of *)
(* that ticket's holder or no token can be made for it (SessionSound). And *)
(* what bears the iv an agent drew last for an answer has the text of its  *)
(* last command (Answers).                                                 *)
(***************************************************************************)
EXTENDS UrekaSafety

(***************************************************************************)
(* The invariant.                                                          *)
(***************************************************************************)
PlainTicket(u) == u.type \notin TokenTypes /\ u.cipher = NoCipher /\ u.ivData = 0

PlainReceipt(r) ==
  /\ r.type \in ReceiptTypes \cup {""}
  /\ r.iv = 0
  /\ r.ok => r.start.type # ""

PlainRow(row) ==
  /\ PlainTicket(row.uOwner) /\ PlainTicket(row.ownUOthers) /\ PlainTicket(row.accUOthers)
  /\ PlainReceipt(row.rOwner)

Plain ==
  /\ \A a \in Agents : PlainTicket(initTicket[a])
  /\ \A a \in Agents, d \in Devices : PlainRow(table[a][d])

(* What is in the channel, by its type. *)
TokenShape(u) == IF u.type \in TokenTypes THEN u.ivData # 0 ELSE PlainTicket(u)

AnswerShape(r) ==
  /\ r.type \in ReceiptTypes \cup {""} => PlainReceipt(r)
  /\ r.type = "CR-KE-2" => r.ivData # 0
  /\ r.ok /\ r.type = "CR-KE-1" => r.cipher.iv = 0
  /\ r.ok /\ r.type = "CR-KE-3" => r.order > 0
  /\ r.ok /\ r.type \in {"CR-KE-3", "DATA_RTOKEN"} => r.cipher.iv # 0 /\ r.dev \in Devices
  /\ r.ok /\ r.type = "DATA_RTOKEN" => r.start.type # ""

Shapes == Plain /\ TokenShape(channel.u) /\ AnswerShape(channel.r)

InSession(d) == state[d] \in {"DEVICE_WAIT_FOR_CRKE2", "DEVICE_WAIT_FOR_CMD"}

(* Nothing that names d has come further than the order o. *)
Bounded(d, o) ==
  /\ channel.u.dev = d => channel.u.order =< o
  /\ channel.r.dev = d /\ channel.r.ok => channel.r.order =< o
  /\ \A a \in Agents, e \in Devices :
       /\ e = d => table[a][e].order =< o
       /\ \A u \in RowTickets(a, e) : u.dev = d => u.order =< o
       /\ table[a][e].rOwner.dev = d /\ table[a][e].rOwner.ok => table[a][e].rOwner.order =< o

KeyFits(d) ==
  LET k == session[d].key IN k = SessionKey(k.n1, k.n2, d, session[d].ut.holder)

SessionSound(d) ==
  InSession(d) =>
    /\ session[d].ut.type # ""
    /\ order[d] > 0
    /\ session[d].ut.order =< order[d]
    /\ session[d].ivCmd # 0
    /\ Bounded(d, session[d].ut.order)
    /\ state[d] = "DEVICE_WAIT_FOR_CRKE2" => session[d].ut.order = order[d]
    /\ state[d] = "DEVICE_WAIT_FOR_CMD" => session[d].key.dev = d
    /\ state[d] = "DEVICE_WAIT_FOR_CMD" => KeyFits(d) \/ OutOfReach(d)

(* The text that iv stands for is the last command of a, and so is that of *)
(* the ciphertext a would send once more.                                  *)
Answers(a, iv, text) ==
  iv = session[a].ivData => text = session[a].cmd /\ session[a].cipher.text = session[a].cmd

AnswersInChannel(a) ==
  /\ channel.u.type \in TokenTypes => Answers(a, channel.u.ivData, channel.u.cipher.text)
  /\ channel.r.type = "CR-KE-2" => Answers(a, channel.r.ivData, channel.r.cipher.text)
  /\ channel.r.ok /\ channel.r.type \in {"CR-KE-3", "DATA_RTOKEN"} =>
       Answers(a, channel.r.cipher.iv, channel.r.cipher.text)

SessionInv ==
  /\ SafeInv
  /\ Shapes
  /\ \A d \in Devices : SessionSound(d)
  /\ \A a \in Agents : AnswersInChannel(a)
  /\ DataIsAuthorised

(***************************************************************************)
(* What is stored and what is sent.                                        *)
(***************************************************************************)
LEMMA EmptyPlain ==
  /\ PlainTicket(NoUT) /\ PlainReceipt(NoRT) /\ PlainRow(NoRow)
  /\ TokenShape(NoUT) /\ AnswerShape(NoRT)
BY DEF NoUT, NoRT, NoRow, PlainTicket, PlainReceipt, PlainRow, TokenShape, AnswerShape, TokenTypes

LEMMA TicketPlain ==
  ASSUME NEW a \in Agents
  PROVE  /\ PlainTicket(GenInitTicket(a))
         /\ \A type \in StoredUTypes : \A d, n, h, scope :
              PlainTicket(GenTicket(type, d, n, h, scope, a))
BY DEF GenInitTicket, GenTicket, NoUT, PlainTicket, StoredUTypes, TokenTypes

LEMMA PlainRows ==
  ASSUME NEW row \in Row, PlainRow(row)
  PROVE  /\ PlainRow([row EXCEPT !.present = TRUE])
         /\ \A n : PlainRow([row EXCEPT !.order = n])
         /\ \A n : PlainRow([row EXCEPT !.accUOthers = NoUT, !.order = n])
         /\ \A u : PlainTicket(u) => /\ PlainRow([row EXCEPT !.uOwner = u])
                                     /\ PlainRow([row EXCEPT !.ownUOthers = u])
                                     /\ PlainRow([row EXCEPT !.accUOthers = u])
         /\ \A r : PlainReceipt(r) => PlainRow([row EXCEPT !.present = TRUE, !.rOwner = r])
BY EmptyPlain DEF PlainRow, Row

(* One row changes, and what is sent has a shape. *)
LEMMA TableShapes ==
  ASSUME TypeOK, Plain, NEW a \in Agents, NEW d \in Devices, NEW row, PlainRow(row),
         table' = [table EXCEPT ![a][d] = row], UNCHANGED initTicket
  PROVE  Plain'
BY DEF Plain, TypeOK

LEMMA CallShapes ==
  ASSUME TypeOK, Shapes, NEW a \in Agents, Call(a)
  PROVE  Shapes'
<1>c. a \in Controllers
  BY DEF Controllers
<1>row. \A d \in Devices : table[a][d] \in Row /\ PlainRow(table[a][d])
  BY TypeParts DEF Shapes, Plain
<1>send. /\ \A u : SendU(u, a) /\ (PlainTicket(u) \/ TokenShape(u)) =>
                     TokenShape(channel'.u) /\ AnswerShape(channel'.r)
         /\ \A r : SendR(r, a) /\ PlainReceipt(r) =>
                     TokenShape(channel'.u) /\ AnswerShape(channel'.r)
  <2>1. \A u : PlainTicket(u) => TokenShape(u)
    BY DEF PlainTicket, TokenShape
  <2>2. \A r : PlainReceipt(r) => AnswerShape(r)
    BY DEF PlainReceipt, AnswerShape, ReceiptTypes
  <2> QED
    BY <1>c, <2>1, <2>2, SendChanges, EmptyPlain
<1>touch. ASSUME NEW d \in DeviceIds, TouchRow(a, d), UNCHANGED initTicket
          PROVE  Plain'
  <2>1. CASE d \in Devices
    <3>1. table' = [table EXCEPT ![a][d] = [table[a][d] EXCEPT !.present = TRUE]]
      BY <1>touch, <2>1 DEF TouchRow
    <3>2. PlainRow([table[a][d] EXCEPT !.present = TRUE])
      BY <1>row, <2>1, PlainRows
    <3> QED
      BY <1>touch, <2>1, <3>1, <3>2, TableShapes DEF Shapes
  <2>2. CASE d \notin Devices
    BY <1>touch, <2>2 DEF TouchRow, Shapes, Plain
  <2> QED
    BY <2>1, <2>2
<1>1. CASE IssueInitToHerself(a)
  BY <1>1, TicketPlain DEF IssueInitToHerself, Shapes, Plain, TypeOK
<1>2. ASSUME NEW d \in Devices, NEW scope \in Scopes, IssueSelfAccessToHerself(a, d, scope)
      PROVE  Shapes'
  <2> DEFINE u == GenTicket("SELFACCESS", d, table[a][d].order, a, scope, a)
  <2>1. PlainTicket(u)
    BY TicketPlain DEF StoredUTypes
  <2>2. table' = [table EXCEPT ![a][d].uOwner = u] /\ UNCHANGED <<initTicket, channel>>
    BY <1>2 DEF IssueSelfAccessToHerself
  <2> HIDE DEF u
  <2>3. table' = [table EXCEPT ![a][d] = [table[a][d] EXCEPT !.uOwner = u]]
    BY <2>2
  <2>4. Plain'
    BY <1>row, <2>1, <2>2, <2>3, PlainRows, TableShapes DEF Shapes
  <2> QED
    BY <2>2, <2>4 DEF Shapes
<1>3. ASSUME NEW d \in Devices, NEW h \in Agents, IssueOwnershipToHolder(a, d, h)
      PROVE  Shapes'
  <2> DEFINE u == GenTicket("OWNERSHIP", d, table[a][d].order, h, {}, a)
  <2>1. PlainTicket(u)
    BY TicketPlain DEF StoredUTypes
  <2>2. table' = [table EXCEPT ![a][d].ownUOthers = u] /\ UNCHANGED initTicket /\ SendU(u, a)
    BY <1>3 DEF IssueOwnershipToHolder
  <2> HIDE DEF u
  <2>3. table' = [table EXCEPT ![a][d] = [table[a][d] EXCEPT !.ownUOthers = u]]
    BY <2>2
  <2>4. Plain'
    BY <1>row, <2>1, <2>2, <2>3, PlainRows, TableShapes DEF Shapes
  <2> QED
    BY <1>send, <2>1, <2>2, <2>4 DEF Shapes
<1>4. ASSUME NEW d \in Devices, NEW h \in Agents, NEW scope \in Scopes,
             IssueAccessToHolder(a, d, h, scope)
      PROVE  Shapes'
  <2> DEFINE u == GenTicket("ACCESS", d, table[a][d].order, h, scope, a)
  <2>1. PlainTicket(u)
    BY TicketPlain DEF StoredUTypes
  <2>2. table' = [table EXCEPT ![a][d].accUOthers = u] /\ UNCHANGED initTicket /\ SendU(u, a)
    BY <1>4 DEF IssueAccessToHolder
  <2> HIDE DEF u
  <2>3. table' = [table EXCEPT ![a][d] = [table[a][d] EXCEPT !.accUOthers = u]]
    BY <2>2
  <2>4. Plain'
    BY <1>row, <2>1, <2>2, <2>3, PlainRows, TableShapes DEF Shapes
  <2> QED
    BY <1>send, <2>1, <2>2, <2>4 DEF Shapes
<1>5. ASSUME NEW d \in Devices, HolderSendRTicketToIssuer(a, d)
      PROVE  Shapes'
  <2>1. Plain'
    BY <1>5, <1>touch DEF HolderSendRTicketToIssuer, DeviceIds
  <2> QED
    BY <1>5, <1>row, <1>send, <2>1 DEF HolderSendRTicketToIssuer, Shapes, PlainRow
<1>6. ASSUME NEW d \in DeviceIds, NEW cmd \in FirstCmds, HolderApplyUTicket(a, d, cmd)
      PROVE  Shapes'
  <2>1. Plain'
    BY <1>6, <1>touch DEF HolderApplyUTicket
  <2>2. PlainTicket(StoredUTicket(a, d))
    BY <1>row DEF StoredUTicket, DeviceIds, PlainRow, Shapes, Plain
  <2> QED
    BY <1>6, <1>send, <2>1, <2>2 DEF HolderApplyUTicket, Shapes
<1>7. ASSUME NEW d \in Devices, NEW cmd \in CmdInputs, NEW type \in TokenKinds,
             HolderSendCmd(a, d, cmd, type)
      PROVE  Shapes'
  <2>1. PICK f \in FreshNonces :
          \E o, c : SendU(GenToken(type, session[a].ut.dev, o, c, f), a)
    BY <1>7 DEF HolderSendCmd
  <2>2. f # 0
    BY NonceAssumption DEF FreshNonces, Nonces
  <2>3. \A o, c : TokenShape(GenToken(type, session[a].ut.dev, o, c, f))
    BY <2>2, InputsAssumption DEF GenToken, NoUT, TokenShape
  <2> QED
    BY <1>7, <1>send, <2>1, <2>3 DEF HolderSendCmd, Shapes, Plain
<1> QED
  BY <1>1, <1>2, <1>3, <1>4, <1>5, <1>6, <1>7 DEF Call, Issue

LEMMA StoredRowPlain ==
  ASSUME TypeOK, Shapes, NEW a \in Agents, channel.r.dev \in Devices,
         channel.r.type \in ReceiptTypes
  PROVE  PlainRow(StoredRow(a, channel.r))
<1>1. table[a][channel.r.dev] \in Row /\ PlainRow(table[a][channel.r.dev]) /\ NoRow \in Row
  BY TypeParts, EmptyTypes DEF Shapes, Plain
<1>2. PlainReceipt(channel.r) /\ PlainTicket(initTicket[a])
  BY DEF Shapes, Plain, AnswerShape
<1>3. PlainReceipt(table[a][channel.r.dev].rOwner)
  BY <1>1 DEF PlainRow
<1>4. CASE channel.r.type = "INITIALIZATION"
  <2>1. StoredRow(a, channel.r) =
          [NoRow EXCEPT !.present = TRUE, !.uOwner = initTicket[a], !.rOwner = channel.r]
    BY <1>4 DEF StoredRow
  <2> QED
    BY <1>1, <1>2, <2>1, EmptyPlain DEF PlainRow, Row
<1>5. CASE channel.r.type # "INITIALIZATION"
  <2>1. PICK r \in {channel.r, table[a][channel.r.dev].rOwner} :
          StoredRow(a, channel.r) = [table[a][channel.r.dev] EXCEPT !.present = TRUE, !.rOwner = r]
    BY <1>5 DEF StoredRow
  <2>2. PlainReceipt(r)
    BY <1>2, <1>3
  <2>3. PlainRow([table[a][channel.r.dev] EXCEPT !.present = TRUE, !.rOwner = r])
    BY <1>1, <2>2, PlainRows
  <2> QED
    BY <2>1, <2>3
<1> QED
  BY <1>4, <1>5

(* What an agent answers with a CR-KE-2 left it with an iv for the data: a *)
(* new one, or the one that it could decrypt with.                         *)
LEMMA AnswersAreReadable ==
  ASSUME TypeOK, AnswerShape(channel.r), NEW a \in Agents, NEW f \in FreshNonces,
         HasExecuted(a, NoUT, channel.r), HolderReads(a, channel.r)
  PROVE  HolderSession(a, channel.r, f).ivData # 0
<1> DEFINE r == channel.r
<1>1. r \in RTicket /\ session[a] \in Session /\ f # 0
  BY TypeParts, NonceAssumption DEF Controllers, FreshNonces, Nonces
<1>2. r.ok /\ r.type # "" /\ r.type # "CR-KE-2" /\ VerifyRAuditStart(NoUT, session[a].ut, r)
  BY DEF HasExecuted, VerifyHasExecuted, VerifyRDeviceId, HolderReads
<1>3. r.type \notin ReceiptTypes
  BY <1>2 DEF AnswerShape, PlainReceipt, VerifyRAuditStart, ReceiptTypes, CrKeTypes, Id, NoUT
<1>4. CASE r.type = "CR-KE-1"
  BY <1>1, <1>4 DEF HolderSession, Session
<1>5. CASE r.type \in {"CR-KE-3", "DATA_RTOKEN"}
  <2>1. session[a].ivData # 0
    BY <1>2, <1>5 DEF HolderReads, Decrypts, AnswerShape
  <2> QED
    BY <1>1, <1>5, <2>1 DEF HolderSession, Session
<1> QED
  BY <1>1, <1>2, <1>3, <1>4, <1>5 DEF RTicket, RTypes, CrKeTypes

LEMMA CrKe2Shape ==
  ASSUME NEW a \in Agents, NEW s, s.ivData # 0
  PROVE  AnswerShape(CrKe2(a, s))
<1>1. CrKe2(a, s).type = "CR-KE-2" /\ CrKe2(a, s).ivData = s.ivData
  BY DEF CrKe2, NoRT
<1> QED
  BY <1>1 DEF AnswerShape, ReceiptTypes

LEMMA AgentRecvShapes ==
  ASSUME TypeOK, Shapes, NEW a \in Agents, AgentRecv(a)
  PROVE  Shapes'
<1>c. a \in Controllers
  BY DEF Controllers
<1>m. Consume => TokenShape(channel'.u) /\ AnswerShape(channel'.r)
  BY <1>c, SendChanges, EmptyPlain
<1>row. \A d \in Devices : table[a][d] \in Row /\ PlainRow(table[a][d])
  BY TypeParts DEF Shapes, Plain
<1>same. UNCHANGED <<table, initTicket>> => Plain'
  BY DEF Shapes, Plain
<1>set. \A row : (channel.r.dev \in Devices => PlainRow(row))
                    /\ SetRow(a, channel.r.dev, row) /\ UNCHANGED initTicket => Plain'
  BY <1>same, TableShapes DEF SetRow, Shapes
<1>1. CASE AgentRecvUTicket(a)
  <2> DEFINE row == [NoRow EXCEPT !.present = TRUE, !.order = channel.u.order, !.uOwner = channel.u]
  <2>1. channel.u.type \in {"OWNERSHIP", "ACCESS"} => PlainTicket(channel.u)
    BY DEF Shapes, TokenShape, TokenTypes
  <2>2. channel.u.type \in {"OWNERSHIP", "ACCESS"} => PlainRow(row)
    BY <2>1, EmptyTypes, EmptyPlain DEF PlainRow, Row
  <2>3. \/ UNCHANGED table
        \/ /\ channel.u.type \in {"OWNERSHIP", "ACCESS"}
           /\ table' = [table EXCEPT ![a][channel.u.dev] = row]
    BY <1>1 DEF AgentRecvUTicket
  <2>4. UNCHANGED initTicket /\ Consume
    BY <1>1 DEF AgentRecvUTicket
  <2> HIDE DEF row
  <2>5. Plain'
    BY <2>2, <2>3, <2>4 DEF Shapes, Plain, TypeOK
  <2> QED
    BY <1>m, <2>4, <2>5 DEF Shapes
<1>2. CASE IssuerRecvRTicket(a)
  <2>1. /\ channel.r.type \in ReceiptTypes
        /\ \E row \in {NoRow, StoredRow(a, channel.r),
                       [StoredRow(a, channel.r) EXCEPT !.accUOthers = NoUT, !.order = channel.r.order]} :
             SetRow(a, channel.r.dev, row)
    BY <1>2 DEF IssuerRecvRTicket
  <2>2. channel.r.dev \in Devices => StoredRow(a, channel.r) \in Row
    BY TypeParts, StoredRowType
  <2>3. Plain'
    BY <1>2, <1>set, <2>1, <2>2, StoredRowPlain, PlainRows, EmptyPlain DEF IssuerRecvRTicket
  <2> QED
    BY <1>2, <1>m, <2>3 DEF IssuerRecvRTicket, Shapes
<1>3. CASE IssuerRefuseRTicket(a)
  BY <1>3, <1>m, <1>same DEF IssuerRefuseRTicket, Shapes
<1>4. CASE HolderRecvRTicket(a)
  <2>1. channel.r.dev \in Devices => StoredRow(a, channel.r) \in Row
    BY TypeParts, StoredRowType
  <2>2. \/ UNCHANGED table
        \/ /\ channel.r.type \in ReceiptTypes
           /\ \E row \in {StoredRow(a, channel.r),
                          [StoredRow(a, channel.r) EXCEPT !.order = channel.r.order]} :
                SetRow(a, channel.r.dev, row)
    BY <1>4 DEF HolderRecvRTicket
  <2>3. Plain'
    BY <1>4, <1>set, <1>same, <2>1, <2>2, StoredRowPlain, PlainRows DEF HolderRecvRTicket
  <2> QED
    BY <1>4, <1>m, <2>3 DEF HolderRecvRTicket, Shapes
<1>5. CASE HolderRecvCrKe1(a)
  <2>1. ASSUME NEW f \in FreshNonces, SendR(CrKe2(a, HolderSession(a, channel.r, f)), a),
               HasExecuted(a, NoUT, channel.r), HolderReads(a, channel.r)
        PROVE  TokenShape(channel'.u) /\ AnswerShape(channel'.r)
    <3> DEFINE s == HolderSession(a, channel.r, f)
    <3>1. s.ivData # 0
      BY <2>1, AnswersAreReadable DEF Shapes
    <3>2. AnswerShape(CrKe2(a, s))
      BY <3>1, CrKe2Shape
    <3> QED
      BY <2>1, <1>c, <3>2, SendChanges, EmptyPlain
  <2> QED
    BY <1>5, <1>m, <1>same, <2>1 DEF HolderRecvCrKe1, Shapes
<1>6. CASE HolderRecvCrKe3(a)
  BY <1>6, <1>m, <1>same DEF HolderRecvCrKe3, Shapes
<1>7. CASE HolderRecvData(a)
  <2>0. UNCHANGED initTicket /\ Consume
    BY <1>7 DEF HolderRecvData
  <2>1. \/ UNCHANGED table
        \/ channel.r.dev \in Devices /\ \E row \in {[table[a][channel.r.dev] EXCEPT !.present = TRUE],
                     [table[a][channel.r.dev] EXCEPT !.order = channel.r.order]} :
             table' = [table EXCEPT ![a][channel.r.dev] = row]
    BY <1>7 DEF HolderRecvData, TouchRow
  <2>2. ASSUME NEW d \in Devices, NEW row \in {[table[a][d] EXCEPT !.present = TRUE],
                                                [table[a][d] EXCEPT !.order = channel.r.order]},
               table' = [table EXCEPT ![a][d] = row]
        PROVE  Plain'
    <3>0. table[a][d] \in Row /\ PlainRow(table[a][d])
      BY <1>row
    <3>1. PlainRow(row)
      <4>1. PlainRow([table[a][d] EXCEPT !.present = TRUE])
        BY <3>0, PlainRows
      <4>2. PlainRow([table[a][d] EXCEPT !.order = channel.r.order])
        BY <3>0, PlainRows
      <4> QED
        BY <2>2, <4>1, <4>2
    <3> QED
      BY <2>0, <2>2, <3>1, TableShapes DEF Shapes
  <2>3. Plain'
    BY <1>same, <2>0, <2>1, <2>2
  <2> QED
    BY <1>m, <2>0, <2>3 DEF Shapes
<1>8. CASE AgentRefusesAsDevice(a)
  <2>1. \A type \in {"DATA_RTOKEN", "ACCESS_END"} : AnswerShape(GenFailure(type, a, AgentOrder))
    BY DEF AnswerShape, GenFailure, NoRT, PlainReceipt, ReceiptTypes
  <2> QED
    BY <1>8, <1>c, <1>m, <1>same, <2>1, SendChanges, EmptyPlain DEF AgentRefusesAsDevice, Shapes
<1> QED
  BY <1>1, <1>2, <1>3, <1>4, <1>5, <1>6, <1>7, <1>8 DEF AgentRecv

(***************************************************************************)
(* What a step of a device changes.                                        *)
(***************************************************************************)
(* A receipt or a refusal: nothing that is used in a session. *)
NoAnswer(r) ==
  /\ r.iv = 0 /\ r.type # "CR-KE-2"
  /\ r.ok => r.type \in ReceiptTypes /\ r.start.type # ""

DeviceOnly(d) ==
  /\ \A c \in Controllers \ {d} : session'[c] = session[c] /\ state'[c] = state[c]
  /\ \A e \in Devices \ {d} : order'[e] = order[e]
  /\ UNCHANGED <<table, initTicket>>
  /\ channel'.u = NoUT
  /\ channel'.r.dev \in {NoId, d}
  /\ channel'.r.iv = 0 \/ channel'.r.iv \in FreshNonces

(* Afterwards it is in no session, or where it was. *)
Leaves(d) == ~ InSession(d)' /\ NoAnswer(channel'.r)
Stays(d)  == UNCHANGED <<state, order, session>> /\ NoAnswer(channel'.r) /\ ~ channel'.r.ok

LEMMA NoAnswerShape ==
  ASSUME NEW r, NoAnswer(r)
  PROVE  AnswerShape(r)
BY DEF NoAnswer, AnswerShape, PlainReceipt, ReceiptTypes

LEMMA RefusalNoAnswer ==
  ASSUME NEW d \in Devices, NEW type \in RTypes \ {"CR-KE-2"}
  PROVE  LET r == Refusal(type, d) IN NoAnswer(r) /\ ~ r.ok /\ r.dev \in {NoId, d}
<1>1. LET r == GenFailure(type, d, order[d]) IN NoAnswer(r) /\ ~ r.ok /\ r.dev = d
  BY DEF GenFailure, NoRT, NoAnswer
<1>2. NoAnswer(NoRT) /\ ~ NoRT.ok /\ NoRT.dev = NoId
  BY DEF NoRT, NoAnswer
<1> QED
  BY <1>1, <1>2 DEF Refusal

LEMMA ReceiptNoAnswer ==
  ASSUME NEW d, NEW type \in ReceiptTypes, NEW n, NEW u, u.type # ""
  PROVE  NoAnswer(GenReceipt(type, d, n, u)) /\ GenReceipt(type, d, n, u).dev = d
BY DEF GenReceipt, NoRT, NoAnswer, ReceiptTypes

LEMMA DeviceCases ==
  ASSUME TypeOK, NEW d \in Devices, SessionSound(d), DeviceRecv(d)
  PROVE  /\ DeviceOnly(d)
         /\ \/ Leaves(d) \/ Stays(d)
            \/ DeviceOpenSession(d) \/ DeviceAcceptCrKe2(d)
            \/ DeviceExecuteCmd(d) \/ DeviceExecuteTicketInSession(d)
<1>c. d \in Controllers
  BY DEF Controllers
<1>g. \A s : Goto(d, s) => /\ state'[d] = s
                           /\ \A c \in Controllers \ {d} : state'[c] = state[c]
  BY <1>c DEF Goto, TypeOK
<1>s. \A s : session' = [session EXCEPT ![d] = s] =>
               \A c \in Controllers \ {d} : session'[c] = session[c]
  BY <1>c DEF TypeOK
<1>o. \A n : order' = [order EXCEPT ![d] = n] => \A e \in Devices \ {d} : order'[e] = order[e]
  BY DEF TypeOK
(* The steps that send r, and the others that take the message only. *)
<1>only. ASSUME NEW r, SendR(r, d) \/ (Consume /\ r = NoRT),
                r.dev \in {NoId, d}, r.iv = 0 \/ r.iv \in FreshNonces,
                \A c \in Controllers \ {d} : session'[c] = session[c] /\ state'[c] = state[c],
                \A e \in Devices \ {d} : order'[e] = order[e],
                UNCHANGED <<table, initTicket>>
         PROVE  DeviceOnly(d) /\ channel'.r = r
  BY <1>c, <1>only, SendChanges DEF DeviceOnly
<1>empty. NoAnswer(NoRT) /\ ~ NoRT.ok /\ NoRT.dev = NoId
  BY DEF NoRT, NoAnswer
<1>1. CASE DeviceExecuteOwnership(d)
  <2> DEFINE n == order[d] + 1
  <2> DEFINE r == GenReceipt(channel.u.type, d, n, Id(channel.u))
  <2>1. channel.u.type \in ReceiptTypes /\ Id(channel.u).type # ""
    BY <1>1, TypeParts DEF DeviceExecuteOwnership, ReceiptTypes, Id, UTicket
  <2> HIDE DEF n
  <2>2. NoAnswer(r) /\ r.dev = d
    BY <2>1 DEF GenReceipt, NoRT, NoAnswer, ReceiptTypes
  <2>3. SendR(r, d) /\ UNCHANGED <<state, session, table, initTicket>>
        /\ order' = [order EXCEPT ![d] = @ + 1]
    BY <1>1 DEF DeviceExecuteOwnership, n
  <2> HIDE DEF r
  <2>4. DeviceOnly(d) /\ channel'.r = r
    BY <1>o, <1>only, <2>2, <2>3 DEF NoAnswer
  <2>5. ~ InSession(d)'
    BY <1>1, <2>3 DEF DeviceExecuteOwnership, Incoming, InSession
  <2> QED
    BY <2>2, <2>4, <2>5 DEF Leaves
<1>2. CASE DeviceOpenSession(d)
  <2>1. PICK f \in FreshNonces :
          /\ OpenSession(d, channel.u, f)
          /\ SendR([GenReceipt("CR-KE-1", d, order[d], Id(channel.u)) EXCEPT !.n1 = f, !.iv = f], d)
    BY <1>2 DEF DeviceOpenSession
  <2> DEFINE r == [GenReceipt("CR-KE-1", d, order[d], Id(channel.u)) EXCEPT !.n1 = f, !.iv = f]
  <2>2. r.dev = d /\ r.iv = f
    BY DEF GenReceipt, NoRT
  <2>3. SendR(r, d)
    BY <2>1
  <2> HIDE DEF r
  <2>4. \A c \in Controllers \ {d} : session'[c] = session[c] /\ state'[c] = state[c]
    <3>1. \A c \in Controllers \ {d} : session'[c] = session[c]
      BY <1>s, <2>1 DEF OpenSession
    <3> QED
      BY <1>2, <1>g, <3>1 DEF DeviceOpenSession
  <2>5. UNCHANGED <<order, table, initTicket>>
    BY <1>2 DEF DeviceOpenSession
  <2> QED
    BY <1>2, <1>only, <2>2, <2>3, <2>4, <2>5
<1>3. CASE DeviceRefuseUTicket(d)
  <2>1. PICK type \in RTypes \ {"CR-KE-2"} : SendR(Refusal(type, d), d)
    BY <1>3 DEF DeviceRefuseUTicket, RTypes, ReceiptTypes, CrKeTypes
  <2>2. UNCHANGED <<state, order, session, table, initTicket>>
    BY <1>3 DEF DeviceRefuseUTicket
  <2>3. /\ NoAnswer(Refusal(type, d)) /\ ~ Refusal(type, d).ok
        /\ Refusal(type, d).dev \in {NoId, d}
    BY RefusalNoAnswer
  <2>4. DeviceOnly(d) /\ channel'.r = Refusal(type, d)
    BY <1>only, <2>1, <2>2, <2>3 DEF NoAnswer
  <2> QED
    BY <2>2, <2>3, <2>4 DEF Stays
<1>4. CASE DeviceDropMessage(d) \/ DeviceIgnoreInSession(d) \/ LostDeviceDropsMessage(d)
  <2>1. Consume /\ UNCHANGED <<state, order, session, table, initTicket>>
    BY <1>4 DEF DeviceDropMessage, DeviceIgnoreInSession, LostDeviceDropsMessage
  <2>2. DeviceOnly(d) /\ channel'.r = NoRT
    BY <1>only, <1>empty, <2>1 DEF NoAnswer
  <2> QED
    BY <1>empty, <2>1, <2>2 DEF Stays
<1>5. CASE DeviceAcceptCrKe2(d)
  <2> DEFINE k == DeviceSessionKey(d, channel.r)
  <2> DEFINE c == Encrypt(channel.r.cipher.text, k, channel.r.ivData)
  <2>1. PICK f \in FreshNonces :
          /\ session' = [session EXCEPT ![d].key = k, ![d].ivCmd = f]
          /\ SendR([GenReceipt("CR-KE-3", d, order[d], session[d].ut) EXCEPT !.iv = f, !.cipher = c], d)
    BY <1>5 DEF DeviceAcceptCrKe2
  <2> HIDE DEF k, c
  <2> DEFINE r == [GenReceipt("CR-KE-3", d, order[d], session[d].ut) EXCEPT !.iv = f, !.cipher = c]
  <2>2. r.dev = d /\ r.iv = f
    BY DEF GenReceipt, NoRT
  <2>3. SendR(r, d)
    BY <2>1
  <2> HIDE DEF r
  <2>4. \A b \in Controllers \ {d} : session'[b] = session[b] /\ state'[b] = state[b]
    BY <1>5, <1>g, <1>s, <2>1 DEF DeviceAcceptCrKe2
  <2>5. UNCHANGED <<order, table, initTicket>>
    BY <1>5 DEF DeviceAcceptCrKe2
  <2> QED
    BY <1>5, <1>only, <2>2, <2>3, <2>4, <2>5
<1>6. CASE DeviceRefuseCrKe2(d)
  <2>1. NoAnswer(Refusal("CR-KE-3", d)) /\ Refusal("CR-KE-3", d).dev \in {NoId, d}
    BY RefusalNoAnswer DEF RTypes, CrKeTypes
  <2>2. /\ SendR(Refusal("CR-KE-3", d), d) /\ Goto(d, "DEVICE_WAIT_FOR_UT")
        /\ UNCHANGED <<order, table, initTicket>>
    BY <1>6 DEF DeviceRefuseCrKe2
  <2>3. \A c \in Controllers \ {d} : session'[c] = session[c] /\ state'[c] = state[c]
    BY <1>6, <1>g, <1>s, <2>2 DEF DeviceRefuseCrKe2
  <2>4. DeviceOnly(d) /\ channel'.r = Refusal("CR-KE-3", d)
    BY <1>only, <2>1, <2>2, <2>3 DEF NoAnswer
  <2>5. ~ InSession(d)'
    BY <1>g, <2>2 DEF InSession
  <2> QED
    BY <2>1, <2>4, <2>5 DEF Leaves
<1>7. CASE DeviceExecuteCmd(d)
  <2> DEFINE c == Encrypt(channel.u.cipher.text, session[d].key, channel.u.ivData)
  <2>1. PICK f \in FreshNonces :
          /\ session' = [session EXCEPT ![d].ivCmd = f]
          /\ SendR([GenReceipt("DATA_RTOKEN", d, order[d], session[d].ut)
                      EXCEPT !.iv = f, !.cipher = c], d)
    BY <1>7 DEF DeviceExecuteCmd
  <2> HIDE DEF c
  <2> DEFINE r == [GenReceipt("DATA_RTOKEN", d, order[d], session[d].ut)
                     EXCEPT !.iv = f, !.cipher = c]
  <2>2. r.dev = d /\ r.iv = f
    BY DEF GenReceipt, NoRT
  <2>3. SendR(r, d)
    BY <2>1
  <2> HIDE DEF r
  <2>4. \A b \in Controllers \ {d} : session'[b] = session[b] /\ state'[b] = state[b]
    BY <1>7, <1>s, <2>1 DEF DeviceExecuteCmd
  <2>5. UNCHANGED <<order, table, initTicket>>
    BY <1>7 DEF DeviceExecuteCmd
  <2> QED
    BY <1>7, <1>only, <2>2, <2>3, <2>4, <2>5
<1>8. CASE DeviceEndAccess(d)
  <2> DEFINE r == GenReceipt("ACCESS_END", d, order'[d], session[d].ut)
  <2>1. session[d].ut.type # ""
    BY <1>8 DEF DeviceEndAccess, Incoming, SessionSound, InSession
  <2>2. NoAnswer(r) /\ r.dev = d
    BY <2>1, ReceiptNoAnswer DEF ReceiptTypes
  <2>3. SendR(r, d) /\ Goto(d, "DEVICE_WAIT_FOR_UT") /\ UNCHANGED <<table, initTicket>>
    BY <1>8 DEF DeviceEndAccess
  <2> HIDE DEF r
  <2>4. \A c \in Controllers \ {d} : session'[c] = session[c] /\ state'[c] = state[c]
    BY <1>8, <1>g, <1>s, <2>3 DEF DeviceEndAccess
  <2>5. \A e \in Devices \ {d} : order'[e] = order[e]
    BY <1>8, <1>o DEF DeviceEndAccess
  <2>6. DeviceOnly(d) /\ channel'.r = r
    BY <1>only, <2>2, <2>3, <2>4, <2>5 DEF NoAnswer
  <2>7. ~ InSession(d)'
    BY <1>g, <2>3 DEF InSession
  <2> QED
    BY <2>2, <2>6, <2>7 DEF Leaves
<1>9. CASE DeviceRefuseToken(d)
  <2>1. PICK type \in RTypes \ {"CR-KE-2"} : SendR(Refusal(type, d), d)
    BY <1>9 DEF DeviceRefuseToken, RTypes, ReceiptTypes, CrKeTypes
  <2>2. UNCHANGED <<state, order, session, table, initTicket>>
    BY <1>9 DEF DeviceRefuseToken
  <2>3. /\ NoAnswer(Refusal(type, d)) /\ ~ Refusal(type, d).ok
        /\ Refusal(type, d).dev \in {NoId, d}
    BY RefusalNoAnswer
  <2>4. DeviceOnly(d) /\ channel'.r = Refusal(type, d)
    BY <1>only, <2>1, <2>2, <2>3 DEF NoAnswer
  <2> QED
    BY <2>2, <2>3, <2>4 DEF Stays
<1>10. CASE DeviceExecuteTicketInSession(d)
  <2>1. Consume /\ UNCHANGED <<state, table, initTicket>>
    BY <1>10 DEF DeviceExecuteTicketInSession
  <2>2. \A c \in Controllers \ {d} : session'[c] = session[c]
    BY <1>10, <1>s DEF DeviceExecuteTicketInSession, OpenSession
  <2>3. \A e \in Devices \ {d} : order'[e] = order[e]
    BY <1>10, <1>o DEF DeviceExecuteTicketInSession
  <2> QED
    BY <1>10, <1>only, <1>empty, <2>1, <2>2, <2>3 DEF NoAnswer
<1> QED
  BY <1>1, <1>2, <1>3, <1>4, <1>5, <1>6, <1>7, <1>8, <1>9, <1>10 DEF DeviceRecv

(* Only a CR-KE-2 is accepted as one: a receipt or an answer to a token    *)
(* names a ticket, a CR-KE-1 has nothing to decrypt, and a CR-KE-3 has the *)
(* order of its device where the device, whose table is empty, expects 0.  *)
LEMMA AcceptsCrKe2 ==
  ASSUME TypeOK, Shapes, NEW d \in Devices, SessionSound(d), DeviceAcceptCrKe2(d)
  PROVE  channel.r.type = "CR-KE-2" /\ channel.r.ivData # 0
<1> DEFINE r == channel.r
<1>1. /\ r.ok /\ r.type # "" /\ VerifyROrder(0, order[d], r)
      /\ VerifyRAuditStart(NoUT, session[d].ut, r)
      /\ r.cipher.iv = session[d].ivCmd
  BY DEF DeviceAcceptCrKe2, DeviceVerifiesCrKe2, DeviceReadsCrKe2, Decrypts, VerifyHasExecuted,
         VerifyRDeviceId
<1>2. session[d].ivCmd # 0
  BY DEF DeviceAcceptCrKe2, Incoming, SessionSound, InSession
<1>3. AnswerShape(r) /\ r.type \in RTypes \cup {""}
  BY TypeParts, RTicketFields DEF Shapes
<1> HIDE DEF r
<1>4. Id(NoUT).type = ""
  BY DEF Id, NoUT
<1>5. r.type \notin ReceiptTypes \cup {"DATA_RTOKEN"}
  BY <1>1, <1>3, <1>4 DEF AnswerShape, PlainReceipt, VerifyRAuditStart, ReceiptTypes, CrKeTypes
<1>6. r.type # "CR-KE-1"
  BY <1>1, <1>2, <1>3 DEF AnswerShape
<1>7. r.type # "CR-KE-3"
  <2>1. r.type = "CR-KE-3" => r.order = 0 /\ r.order > 0
    BY <1>1, <1>3 DEF AnswerShape, VerifyROrder
  <2> QED
    BY <2>1
<1>8. r.type = "CR-KE-2"
  BY <1>1, <1>3, <1>5, <1>6, <1>7 DEF RTypes, CrKeTypes
<1> QED
  BY <1>3, <1>8 DEF AnswerShape, r

LEMMA DeviceShapes ==
  ASSUME TypeOK, Shapes, NEW d \in Devices, SessionSound(d), DeviceRecv(d)
  PROVE  Shapes'
<1>c. d \in Controllers
  BY DEF Controllers
<1>1. DeviceOnly(d)
  BY DeviceCases
<1>2. Plain'
  BY <1>1 DEF DeviceOnly, Shapes, Plain
<1>3. TokenShape(channel'.u)
  BY <1>1, EmptyPlain DEF DeviceOnly
<1>4. AnswerShape(channel'.r)
  <2>1. CASE Leaves(d) \/ Stays(d)
    BY <2>1, NoAnswerShape DEF Leaves, Stays
  <2>2. CASE DeviceOpenSession(d)
    <3>1. PICK f \in FreshNonces :
            SendR([GenReceipt("CR-KE-1", d, order[d], Id(channel.u)) EXCEPT !.n1 = f, !.iv = f], d)
      BY <2>2 DEF DeviceOpenSession
    <3> DEFINE r == [GenReceipt("CR-KE-1", d, order[d], Id(channel.u)) EXCEPT !.n1 = f, !.iv = f]
    <3>2. r.type = "CR-KE-1" /\ r.cipher.iv = 0
      BY DEF GenReceipt, NoRT, NoCipher
    <3>3. SendR(r, d)
      BY <3>1
    <3> HIDE DEF r
    <3> QED
      BY <1>c, <3>2, <3>3, SendChanges DEF AnswerShape, ReceiptTypes
  <2>3. CASE DeviceAcceptCrKe2(d)
    <3> DEFINE c == Encrypt(channel.r.cipher.text, DeviceSessionKey(d, channel.r), channel.r.ivData)
    <3>1. PICK f \in FreshNonces :
            SendR([GenReceipt("CR-KE-3", d, order[d], session[d].ut) EXCEPT !.iv = f, !.cipher = c], d)
      BY <2>3 DEF DeviceAcceptCrKe2
    <3>2. c.iv # 0
      BY <2>3, AcceptsCrKe2 DEF Encrypt
    <3> HIDE DEF c
    <3> DEFINE r == [GenReceipt("CR-KE-3", d, order[d], session[d].ut) EXCEPT !.iv = f, !.cipher = c]
    <3>3. r.type = "CR-KE-3" /\ r.cipher = c /\ r.order = order[d] /\ r.dev = d
      BY DEF GenReceipt, NoRT
    <3>4. SendR(r, d)
      BY <3>1
    <3>5. order[d] > 0
      BY <2>3 DEF DeviceAcceptCrKe2, Incoming, SessionSound, InSession
    <3> HIDE DEF r
    <3> QED
      BY <1>c, <3>2, <3>3, <3>4, <3>5, SendChanges DEF AnswerShape, ReceiptTypes
  <2>4. CASE DeviceExecuteCmd(d)
    <3> DEFINE c == Encrypt(channel.u.cipher.text, session[d].key, channel.u.ivData)
    <3>1. PICK f \in FreshNonces :
            SendR([GenReceipt("DATA_RTOKEN", d, order[d], session[d].ut)
                     EXCEPT !.iv = f, !.cipher = c], d)
      BY <2>4 DEF DeviceExecuteCmd
    <3>2. c.iv # 0
      BY <2>4 DEF DeviceExecuteCmd, Shapes, TokenShape, TokenTypes, Encrypt
    <3> HIDE DEF c
    <3> DEFINE r == [GenReceipt("DATA_RTOKEN", d, order[d], session[d].ut)
                       EXCEPT !.iv = f, !.cipher = c]
    <3>3. r.type = "DATA_RTOKEN" /\ r.cipher = c /\ r.start = session[d].ut /\ r.dev = d
      BY DEF GenReceipt, NoRT
    <3>4. SendR(r, d)
      BY <3>1
    <3>5. session[d].ut.type # ""
      BY <2>4 DEF DeviceExecuteCmd, Incoming, SessionSound, InSession
    <3> HIDE DEF r
    <3> QED
      BY <1>c, <3>2, <3>3, <3>4, <3>5, SendChanges DEF AnswerShape, ReceiptTypes
  <2>5. CASE DeviceExecuteTicketInSession(d)
    BY <2>5, <1>c, SendChanges, EmptyPlain DEF DeviceExecuteTicketInSession
  <2> QED
    BY <2>1, <2>2, <2>3, <2>4, <2>5, DeviceCases
<1> QED
  BY <1>2, <1>3, <1>4 DEF Shapes

(***************************************************************************)
(* What a step of an agent changes.                                        *)
(***************************************************************************)
(* A message that is of no use in a session. *)
Silent(m) ==
  /\ m.u.type \notin TokenTypes /\ m.u.cipher.iv = 0
  /\ m.r.iv = 0 /\ m.r.type # "CR-KE-2"
  /\ m.r.ok => m.r.type \notin {"CR-KE-3", "DATA_RTOKEN"}

(* A key with a salt just drawn or with the agent as the device, or the iv *)
(* that is in the channel: the agent gets no closer to a device than that. *)
KeyStep(a) ==
  LET s == session[a]
      t == session'[a]
  IN
    \/ t.key = s.key /\ t.ivCmd \in {s.ivCmd, channel.r.iv}
    \/ t.key.n2 \in FreshNonces
    \/ t.key.dev = a

(* What an agent sends on is a token of its session, or has no iv in it.   *)
SendStep(a) ==
  /\ channel'.r = channel.r \/ channel'.r.iv = 0
  /\ \/ channel'.u = channel.u
     \/ channel'.u.cipher.iv = 0
     \/ channel'.u.cipher.key = session[a].key /\ channel'.u.cipher.iv = session[a].ivCmd

(* Data is what an answer says to whoever has the iv for it. *)
DataStep(a) ==
  session'[a].data # session[a].data =>
    /\ channel.r.ok /\ channel.r.type \in {"CR-KE-3", "DATA_RTOKEN"}
    /\ channel.r.cipher.iv = session[a].ivData
    /\ session'[a].data = channel.r.cipher.text

(* A message that can be answered has an iv just drawn with the latest     *)
(* command, or repeats both after an answer.                               *)
AskStep(a) ==
  LET s == session[a]
      t == session'[a]
      u == channel'.u
      r == channel'.r
  IN
    \/ UNCHANGED channel /\ t = s
    \/ Silent(channel')
    \/ /\ u.ivData = t.ivData /\ t.ivData \in FreshNonces
       /\ u.cipher.text = t.cmd /\ t.cipher.text = t.cmd
       /\ r = NoRT
    \/ /\ r.ivData = t.ivData /\ t.ivData \in FreshNonces
       /\ r.cipher.text = t.cmd /\ t.cipher.text = t.cmd
       /\ u = NoUT /\ r.type = "CR-KE-2"
    \/ /\ r.ivData = s.ivData /\ t.ivData = s.ivData
       /\ r.cipher = s.cipher /\ t.cipher = s.cipher /\ t.cmd = s.cmd
       /\ channel.r.ok /\ channel.r.type \in {"CR-KE-3", "DATA_RTOKEN"}
       /\ channel.r.cipher.iv = s.ivData
       /\ u = NoUT /\ r.type = "CR-KE-2"

SessionStep(a) ==
  /\ \A c \in Controllers \ {a} : session'[c] = session[c]
  /\ KeyStep(a) /\ SendStep(a) /\ DataStep(a) /\ AskStep(a)

LEMMA SilentSends ==
  ASSUME NEW c \in Controllers
  PROVE  /\ \A u : SendU(u, c) /\ PlainTicket(u) => Silent(channel')
         /\ \A r : SendR(r, c) /\ PlainReceipt(r) => Silent(channel')
         /\ Consume => Silent(channel')
<1>1. /\ NoUT.type \notin TokenTypes /\ NoUT.cipher.iv = 0
      /\ NoRT.iv = 0 /\ NoRT.type # "CR-KE-2" /\ ~ NoRT.ok /\ NoCipher.iv = 0
  BY DEF NoUT, NoRT, NoCipher, TokenTypes
<1> QED
  BY <1>1, SendChanges DEF Silent, PlainTicket, PlainReceipt, ReceiptTypes

LEMMA SilentStep ==
  ASSUME NEW a \in Agents, UNCHANGED channel \/ Silent(channel'), UNCHANGED session
  PROVE  SessionStep(a)
BY DEF SessionStep, KeyStep, SendStep, DataStep, AskStep, Silent

LEMMA CallStep ==
  ASSUME TypeOK, Shapes, NEW a \in Agents, Call(a)
  PROVE  SessionStep(a)
<1>c. a \in Controllers /\ session[a] \in Session
  BY TypeParts DEF Controllers
<1>1. CASE UNCHANGED <<session, channel>>
  BY <1>1, SilentStep
<1>2. ASSUME NEW u, PlainTicket(u), SendU(u, a), UNCHANGED session
      PROVE  SessionStep(a)
  BY <1>2, <1>c, SilentSends, SilentStep
<1>3. ASSUME NEW d \in Devices, NEW h \in Agents, IssueOwnershipToHolder(a, d, h)
      PROVE  SessionStep(a)
  <2>1. PlainTicket(GenTicket("OWNERSHIP", d, table[a][d].order, h, {}, a))
    BY TicketPlain DEF StoredUTypes
  <2> QED
    BY <1>2, <1>3, <2>1 DEF IssueOwnershipToHolder
<1>4. ASSUME NEW d \in Devices, NEW h \in Agents, NEW scope \in Scopes,
             IssueAccessToHolder(a, d, h, scope)
      PROVE  SessionStep(a)
  <2>1. PlainTicket(GenTicket("ACCESS", d, table[a][d].order, h, scope, a))
    BY TicketPlain DEF StoredUTypes
  <2> QED
    BY <1>2, <1>4, <2>1 DEF IssueAccessToHolder
<1>5. ASSUME NEW d \in Devices, HolderSendRTicketToIssuer(a, d)
      PROVE  SessionStep(a)
  <2>1. PlainReceipt(table[a][d].rOwner)
    BY DEF Shapes, Plain, PlainRow
  <2> QED
    BY <1>5, <1>c, <2>1, SilentSends, SilentStep DEF HolderSendRTicketToIssuer
<1>6. ASSUME NEW d \in DeviceIds, NEW cmd \in FirstCmds, HolderApplyUTicket(a, d, cmd)
      PROVE  SessionStep(a)
  <2> DEFINE u == StoredUTicket(a, d)
  <2>1. PlainTicket(u)
    BY DEF Shapes, Plain, PlainRow, StoredUTicket, DeviceIds
  <2>2. CASE u.type \in {"", "INITIALIZATION", "OWNERSHIP"}
    BY <1>1, <1>2, <1>6, <2>1, <2>2 DEF HolderApplyUTicket
  <2>3. CASE u.type \in {"ACCESS", "SELFACCESS"}
    <3>1. SendU(u, a) /\ session' = [session EXCEPT ![a].ut = Id(u), ![a].cmd = cmd]
      BY <1>6, <2>3 DEF HolderApplyUTicket
    <3> HIDE DEF u
    <3>2. session'[a] = [session[a] EXCEPT !.ut = Id(u), !.cmd = cmd]
          /\ \A c \in Controllers \ {a} : session'[c] = session[c]
      BY <1>c, <3>1 DEF TypeOK
    <3>3. /\ session'[a].key = session[a].key /\ session'[a].ivCmd = session[a].ivCmd
          /\ session'[a].data = session[a].data
      BY <1>c, <3>2 DEF Session
    <3>4. Silent(channel')
      BY <1>c, <2>1, <3>1, SilentSends
    <3> QED
      BY <3>2, <3>3, <3>4 DEF SessionStep, KeyStep, SendStep, DataStep, AskStep, Silent
  <2> QED
    BY <1>6, <2>2, <2>3 DEF HolderApplyUTicket
<1>7. ASSUME NEW d \in Devices, NEW cmd \in CmdInputs, NEW type \in TokenKinds,
             HolderSendCmd(a, d, cmd, type)
      PROVE  SessionStep(a)
  <2> DEFINE s == session[a]
  <2> DEFINE c == Encrypt(cmd, s.key, s.ivCmd)
  <2>1. PICK f \in FreshNonces :
          /\ session' = [session EXCEPT ![a].cmd = cmd, ![a].cipher = c, ![a].ivData = f]
          /\ SendU(GenToken(type, s.ut.dev, RowOrder(a, s.ut.dev), c, f), a)
    BY <1>7 DEF HolderSendCmd
  <2>2. c.key = s.key /\ c.iv = s.ivCmd /\ c.text = cmd
    BY DEF Encrypt
  <2> HIDE DEF c
  <2>3. session'[a] = [s EXCEPT !.cmd = cmd, !.cipher = c, !.ivData = f]
        /\ \A b \in Controllers \ {a} : session'[b] = session[b]
    BY <1>c, <2>1 DEF TypeOK
  <2> HIDE DEF s
  <2>4. /\ session'[a].key = s.key /\ session'[a].ivCmd = s.ivCmd /\ session'[a].data = s.data
        /\ session'[a].cmd = cmd /\ session'[a].cipher = c /\ session'[a].ivData = f
    BY <1>c, <2>3 DEF Session, s
  <2>5. channel'.u.cipher = c /\ channel'.u.ivData = f /\ channel'.r = NoRT
    <3>1. channel'.u = GenToken(type, s.ut.dev, RowOrder(a, s.ut.dev), c, f) /\ channel'.r = NoRT
      BY <1>c, <2>1, SendChanges DEF s
    <3> QED
      BY <3>1 DEF GenToken, NoUT
  <2>6. NoRT.iv = 0
    BY DEF NoRT
  <2> QED
    BY <2>2, <2>3, <2>4, <2>5, <2>6 DEF SessionStep, KeyStep, SendStep, DataStep, AskStep, s
<1>8. CASE a \in Issuers /\ Issue(a)
  BY <1>1, <1>3, <1>4, <1>8 DEF Issue, IssueInitToHerself, IssueSelfAccessToHerself
<1> QED
  BY <1>5, <1>6, <1>7, <1>8 DEF Call

(* What a message does to the session of an agent. *)
LEMMA HolderSessionFields ==
  ASSUME NEW a \in Agents, NEW r, NEW f, NEW s, s = session[a], s \in Session,
         NEW t, t = HolderSession(a, r, f)
  PROVE  /\ r.type = "CR-KE-1" => /\ t.key.n2 = f /\ t.ivData = f
                                  /\ t.cmd = s.cmd /\ t.cipher.text = s.cmd /\ t.data = s.data
         /\ r.type = "CR-KE-2" => t.key.dev = a /\ t.data = s.data
         /\ r.type \in {"CR-KE-3", "DATA_RTOKEN"} =>
              /\ t.key = s.key /\ t.ivCmd = r.iv
              /\ t.ivData = s.ivData /\ t.cmd = s.cmd /\ t.cipher = s.cipher
              /\ t.data # s.data => Decrypts(r.cipher, s.key, s.ivData) /\ t.data = r.cipher.text
         /\ r.type \notin CrKeTypes \cup {"DATA_RTOKEN"} => t = s
<1>1. ASSUME r.type = "CR-KE-1"
      PROVE  /\ t.key.n2 = f /\ t.ivData = f
             /\ t.cmd = s.cmd /\ t.cipher.text = s.cmd /\ t.data = s.data
  <2> DEFINE k == SessionKey(r.n1, f, s.ut.dev, a)
  <2> DEFINE c == Encrypt(s.cmd, k, r.iv)
  <2>1. t = [s EXCEPT !.n1 = r.n1, !.key = k, !.ivCmd = r.iv, !.cipher = c, !.ivData = f]
    BY <1>1 DEF HolderSession
  <2>2. k.n2 = f /\ c.text = s.cmd
    BY DEF SessionKey, Encrypt
  <2> HIDE DEF k, c
  <2> QED
    BY <2>1, <2>2 DEF Session
<1>2. ASSUME r.type = "CR-KE-2"
      PROVE  t.key.dev = a /\ t.data = s.data
  <2> DEFINE k == SessionKey(s.n1, r.n2, a, s.ut.holder)
  <2>1. t = [s EXCEPT !.key = k, !.cipher = r.cipher]
    BY <1>2 DEF HolderSession
  <2>2. k.dev = a
    BY DEF SessionKey
  <2> HIDE DEF k
  <2> QED
    BY <2>1, <2>2 DEF Session
<1>3. ASSUME r.type \in {"CR-KE-3", "DATA_RTOKEN"}
      PROVE  /\ t.key = s.key /\ t.ivCmd = r.iv
             /\ t.ivData = s.ivData /\ t.cmd = s.cmd /\ t.cipher = s.cipher
             /\ t.data # s.data => Decrypts(r.cipher, s.key, s.ivData) /\ t.data = r.cipher.text
  <2> DEFINE text == IF Decrypts(r.cipher, s.key, s.ivData) THEN r.cipher.text ELSE s.data
  <2>1. t = [s EXCEPT !.ivCmd = r.iv, !.data = text]
    BY <1>3 DEF HolderSession
  <2>2. text # s.data => Decrypts(r.cipher, s.key, s.ivData) /\ text = r.cipher.text
    OBVIOUS
  <2> HIDE DEF text
  <2> QED
    BY <2>1, <2>2 DEF Session
<1>4. ASSUME r.type \notin CrKeTypes \cup {"DATA_RTOKEN"}
      PROVE  t = s
  BY <1>4 DEF HolderSession, CrKeTypes
<1> QED
  BY <1>1, <1>2, <1>3, <1>4

LEMMA HolderSessionStep ==
  ASSUME TypeOK, NEW a \in Agents, NEW f,
         f \in FreshNonces \/ channel.r.type # "CR-KE-1", channel.r.ok,
         session' = [session EXCEPT ![a] = HolderSession(a, channel.r, f)]
  PROVE  /\ \A c \in Controllers \ {a} : session'[c] = session[c]
         /\ session'[a] = HolderSession(a, channel.r, f)
         /\ KeyStep(a) /\ DataStep(a)
<1>1. a \in Controllers /\ session[a] \in Session
  BY TypeParts DEF Controllers
<1>2. session'[a] = HolderSession(a, channel.r, f)
      /\ \A c \in Controllers \ {a} : session'[c] = session[c]
  BY <1>1 DEF TypeOK
<1>3. CASE channel.r.type = "CR-KE-1"
  BY <1>1, <1>2, <1>3, HolderSessionFields DEF KeyStep, DataStep
<1>4. CASE channel.r.type = "CR-KE-2"
  BY <1>1, <1>2, <1>4, HolderSessionFields DEF KeyStep, DataStep
<1>5. CASE channel.r.type \in {"CR-KE-3", "DATA_RTOKEN"}
  BY <1>1, <1>2, <1>5, HolderSessionFields DEF KeyStep, DataStep, Decrypts
<1>6. CASE channel.r.type \notin CrKeTypes \cup {"DATA_RTOKEN"}
  BY <1>1, <1>2, <1>6, HolderSessionFields DEF KeyStep, DataStep
<1>7. KeyStep(a) /\ DataStep(a)
  BY <1>3, <1>4, <1>5, <1>6 DEF CrKeTypes
<1> QED
  BY <1>2, <1>7

LEMMA AgentRecvStep ==
  ASSUME TypeOK, Shapes, NEW a \in Agents, AgentRecv(a)
  PROVE  SessionStep(a)
<1>c. a \in Controllers /\ session[a] \in Session
  BY TypeParts DEF Controllers
<1>m. Consume => Silent(channel')
  BY <1>c, SilentSends
<1>silent. Silent(channel') => SendStep(a) /\ AskStep(a)
  BY DEF Silent, SendStep, AskStep
<1>ok. \A start : HasExecuted(a, start, channel.r) => channel.r.ok
  BY DEF HasExecuted, VerifyHasExecuted
<1>1. CASE AgentRecvUTicket(a) \/ IssuerRecvRTicket(a) \/ IssuerRefuseRTicket(a) \/ HolderRecvRTicket(a)
  <2>1. Consume /\ UNCHANGED session
    BY <1>1 DEF AgentRecvUTicket, IssuerRecvRTicket, IssuerRefuseRTicket, HolderRecvRTicket
  <2> QED
    BY <1>m, <2>1, SilentStep
<1>2. CASE HolderRecvCrKe1(a)
  <2>1. CASE Consume /\ UNCHANGED session
    BY <1>m, <2>1, SilentStep
  <2>2. ASSUME Consume, HasExecuted(a, NoUT, channel.r), ~ HolderReads(a, channel.r),
               session' = [session EXCEPT ![a] = HolderSession(a, channel.r, 0)]
        PROVE  SessionStep(a)
    <3>1. channel.r.type # "CR-KE-1"
      BY <2>2 DEF HolderReads
    <3> QED
      BY <1>m, <1>silent, <1>ok, <2>2, <3>1, HolderSessionStep DEF SessionStep
  <2>3. ASSUME NEW f \in FreshNonces, HasExecuted(a, NoUT, channel.r), HolderReads(a, channel.r),
               session' = [session EXCEPT ![a] = HolderSession(a, channel.r, f)],
               SendR(CrKe2(a, HolderSession(a, channel.r, f)), a)
        PROVE  SessionStep(a)
    <3> DEFINE s == session[a]
    <3> DEFINE t == session'[a]
    <3>1. /\ \A c \in Controllers \ {a} : session'[c] = session[c]
          /\ t = HolderSession(a, channel.r, f) /\ KeyStep(a) /\ DataStep(a)
      BY <1>ok, <2>3, HolderSessionStep
    <3>2. channel'.u = NoUT /\ channel'.r = CrKe2(a, t)
      BY <1>c, <2>3, <3>1, SendChanges
    <3>3. /\ channel'.r.type = "CR-KE-2" /\ channel'.r.ivData = t.ivData
          /\ channel'.r.cipher = t.cipher /\ channel'.r.iv = 0
      BY <3>2 DEF CrKe2, NoRT
    <3>4. NoUT.cipher.iv = 0
      BY DEF NoUT, NoCipher
    <3>5. SendStep(a)
      BY <3>2, <3>3, <3>4 DEF SendStep
    <3>6. channel.r.type # "CR-KE-2" /\ channel.r.type \in CrKeTypes \cup {"DATA_RTOKEN"}
      <4>1. /\ channel.r.type # "" /\ channel.r.type # "CR-KE-2" /\ channel.r.ok
            /\ VerifyRAuditStart(NoUT, session[a].ut, channel.r)
        BY <2>3 DEF HasExecuted, VerifyHasExecuted, VerifyRDeviceId, HolderReads
      <4>2. channel.r.type \notin ReceiptTypes
        BY <4>1 DEF Shapes, AnswerShape, PlainReceipt, VerifyRAuditStart, ReceiptTypes, CrKeTypes,
                    Id, NoUT
      <4>3. channel.r.type \in RTypes \cup {""}
        BY TypeParts, RTicketFields
      <4> QED
        BY <4>1, <4>2, <4>3 DEF RTypes
    <3>7. CASE channel.r.type = "CR-KE-1"
      <4>1. t.ivData = f /\ t.cipher.text = s.cmd /\ t.cmd = s.cmd
        BY <1>c, <3>1, <3>7, HolderSessionFields
      <4> QED
        BY <3>1, <3>2, <3>3, <3>5, <4>1 DEF SessionStep, AskStep
    <3>8. CASE channel.r.type \in {"CR-KE-3", "DATA_RTOKEN"}
      <4>1. t.ivData = s.ivData /\ t.cipher = s.cipher /\ t.cmd = s.cmd
        BY <1>c, <3>1, <3>8, HolderSessionFields
      <4>2. channel.r.ok /\ channel.r.cipher.iv = s.ivData
        BY <1>ok, <2>3, <3>8 DEF HolderReads, Decrypts
      <4> QED
        BY <3>1, <3>2, <3>3, <3>5, <3>8, <4>1, <4>2 DEF SessionStep, AskStep
    <3> QED
      BY <3>6, <3>7, <3>8 DEF CrKeTypes
  <2> QED
    BY <1>2, <2>1, <2>2, <2>3 DEF HolderRecvCrKe1
<1>3. CASE HolderRecvCrKe3(a)
  <2>1. CASE UNCHANGED session
    BY <1>3, <1>m, <2>1, SilentStep DEF HolderRecvCrKe3
  <2>2. ASSUME NEW f \in FreshNonces, HasExecuted(a, NoUT, channel.r),
               session' = [session EXCEPT ![a] = HolderSession(a, channel.r, f)]
        PROVE  SessionStep(a)
    <3>1. Silent(channel')
      BY <1>3, <1>m DEF HolderRecvCrKe3
    <3> QED
      BY <1>silent, <1>ok, <2>2, <3>1, HolderSessionStep DEF SessionStep
  <2> QED
    BY <1>3, <2>1, <2>2 DEF HolderRecvCrKe3
<1>4. CASE HolderRecvData(a)
  <2>0. Silent(channel')
    BY <1>4, <1>m DEF HolderRecvData
  <2>1. CASE UNCHANGED session
    BY <2>0, <2>1, SilentStep
  <2>2. ASSUME NEW start, NEW f, HasExecuted(a, start, channel.r),
               f \in FreshNonces \/ ~ HolderReads(a, channel.r),
               session' = [session EXCEPT ![a] = HolderSession(a, channel.r, f)]
        PROVE  SessionStep(a)
    <3>1. f \in FreshNonces \/ channel.r.type # "CR-KE-1"
      BY <2>2 DEF HolderReads
    <3> QED
      BY <1>silent, <1>ok, <2>0, <2>2, <3>1, HolderSessionStep DEF SessionStep
  <2> QED
    BY <1>4, <2>1, <2>2 DEF HolderRecvData
<1>5. CASE AgentRefusesAsDevice(a)
  <2>1. \A type \in {"DATA_RTOKEN", "ACCESS_END"} :
          SendR(GenFailure(type, a, AgentOrder), a) => Silent(channel')
    <3>1. \A type \in {"DATA_RTOKEN", "ACCESS_END"} :
            LET r == GenFailure(type, a, AgentOrder) IN r.type = type /\ r.iv = 0 /\ ~ r.ok
      BY DEF GenFailure, NoRT
    <3>2. NoUT.type \notin TokenTypes /\ NoUT.cipher.iv = 0
      BY DEF NoUT, NoCipher, TokenTypes
    <3> QED
      BY <1>c, <3>1, <3>2, SendChanges DEF Silent
  <2> QED
    BY <1>5, <1>m, <2>1, SilentStep DEF AgentRefusesAsDevice
<1> QED
  BY <1>1, <1>2, <1>3, <1>4, <1>5 DEF AgentRecv

(***************************************************************************)
(* A device in a session.                                                  *)
(***************************************************************************)
LEMMA FreshFacts ==
  ASSUME NEW f \in FreshNonces
  PROVE  /\ f # 0
         /\ \A c \in Controllers :
              f \notin {session[c].ivCmd, session[c].ivData, session[c].key.n2}
<1>1. f \notin InUse /\ f # 0
  BY NonceAssumption DEF FreshNonces, Nonces
<1>2. \A c \in Controllers : {session[c].ivCmd, session[c].ivData, session[c].key.n2} \subseteq InUse
  <2> DEFINE places(c) == {session[c].n1, session[c].key.n1, session[c].key.n2, session[c].ivCmd,
                           session[c].ivData} \cup CipherNonces(session[c].cipher)
  <2>1. UNION {places(c) : c \in Controllers} \subseteq InUse
    BY DEF InUse
  <2>2. \A c \in Controllers : {session[c].ivCmd, session[c].ivData, session[c].key.n2} \subseteq places(c)
    OBVIOUS
  <2> HIDE DEF places
  <2> QED
    BY <2>1, <2>2
<1> QED
  BY <1>1, <1>2

(* Whom no agent can reach no agent gets to: new keys have new salts, and  *)
(* an iv comes from the channel.                                           *)
LEMMA AgentKeepsOutOfReach ==
  ASSUME TypeOK, NEW a \in Agents, SessionStep(a), NEW d \in Devices,
         session[d].ivCmd # 0, session[d].key.dev = d, OutOfReach(d)
  PROVE  OutOfReach(d)'
<1>c. a \in Controllers /\ d \in Controllers /\ a # d
  BY PartiesAssumption DEF Controllers
<1>1. session'[d] = session[d] /\ \A b \in Agents \ {a} : session'[b] = session[b]
  BY <1>c DEF SessionStep, Controllers
<1>2. ~ TokenFits(d)'
  BY <1>1 DEF SessionStep, SendStep, OutOfReach, TokenFits, CanMakeToken
<1>3. ASSUME NEW b \in Agents \ {a}
      PROVE  ~ CanMakeToken(b, d)'
  BY <1>1 DEF SessionStep, SendStep, OutOfReach, CanMakeToken
<1>4. ~ CanMakeToken(a, d)'
  <2>1. session[d].key.n2 \notin FreshNonces
    BY <1>c, FreshFacts
  <2> QED
    BY <1>1, <1>c, <2>1 DEF SessionStep, SendStep, KeyStep, OutOfReach, CanMakeToken
<1> QED
  BY <1>2, <1>3, <1>4 DEF OutOfReach

LEMMA AgentSound ==
  ASSUME SafeInv, NEW a \in Agents, SessionStep(a), AgentChanges(a),
         NEW d \in Devices, SessionSound(d)
  PROVE  SessionSound(d)'
<1>c. d \in Controllers /\ a # d /\ TypeOK
  BY PartiesAssumption DEF Controllers, SafeInv
<1>1. session'[d] = session[d] /\ state'[d] = state[d] /\ order'[d] = order[d]
  BY <1>c DEF SessionStep, AgentChanges
<1>2. PICK o \in Nat : o = session[d].ut.order
  BY <1>c, TypeParts, SessionFields, UTicketFields
<1>3. ASSUME Bounded(d, o)
      PROVE  Bounded(d, o)'
  <2>1. \A u : OldTicket(u) /\ u.dev = d => u.order =< o
    BY <1>3, EmptyFields, PartiesAssumption DEF OldTicket, Bounded, RowTickets, SafeInv
  <2>2. \A u : MadeBy(a, u) /\ u.dev = d => u.order =< o
    BY <1>3 DEF MadeBy, RowOrder, Bounded
  <2>3. \A r : OldReceipt(r) /\ r.dev = d /\ r.ok => r.order =< o
    BY <1>3, EmptyFields DEF OldReceipt, Bounded
  <2>4. \A r : AnswerBy(a, r) /\ r.dev = d => r.order =< o
    BY <1>3 DEF AnswerBy, RowOrder, Bounded
  <2>5. \A b \in Agents : \A n : KnownOrder(b, d, n) => n =< o
    BY <1>3, <1>c, TypeParts DEF KnownOrder, Bounded
  <2>6. ASSUME NEW b \in Agents, NEW e \in Devices
        PROVE  /\ e = d => table'[b][e].order =< o
               /\ \A u \in RowTickets(b, e)' : u.dev = d => u.order =< o
               /\ table'[b][e].rOwner.dev = d /\ table'[b][e].rOwner.ok =>
                    table'[b][e].rOwner.order =< o
    <3>1. RowFrom(a, b, e, table'[b][e])
      BY DEF AgentChanges
    <3> QED
      BY <2>1, <2>2, <2>3, <2>5, <3>1 DEF RowFrom, RowTickets
  <2>7. /\ channel'.u.dev = d => channel'.u.order =< o
        /\ channel'.r.dev = d /\ channel'.r.ok => channel'.r.order =< o
    BY <2>1, <2>2, <2>3, <2>4 DEF AgentChanges
  <2> QED
    BY <2>6, <2>7 DEF Bounded
<1>4. InSession(d) => Bounded(d, session[d].ut.order)'
  <2>1. InSession(d) => Bounded(d, o)
    BY <1>2 DEF SessionSound
  <2> QED
    BY <1>1, <1>2, <1>3, <2>1 DEF Bounded
<1>5. ASSUME state[d] = "DEVICE_WAIT_FOR_CMD"
      PROVE  (KeyFits(d) \/ OutOfReach(d))'
  <2>1. CASE KeyFits(d)
    BY <1>1, <2>1 DEF KeyFits
  <2>2. CASE OutOfReach(d)
    BY <1>5, <1>c, <2>2, AgentKeepsOutOfReach DEF SessionSound, InSession
  <2> QED
    BY <1>5, <2>1, <2>2 DEF SessionSound, InSession
<1> QED
  BY <1>1, <1>4, <1>5 DEF SessionSound, InSession

(* What another device says is none of its business. *)
LEMMA OtherDeviceSound ==
  ASSUME TypeOK, NEW d \in Devices, DeviceOnly(d), NEW e \in Devices \ {d}, SessionSound(e)
  PROVE  SessionSound(e)'
<1>c. e \in Controllers /\ d \in Controllers /\ \A a \in Agents : a \in Controllers \ {d}
  BY PartiesAssumption DEF Controllers
<1>1. /\ session'[e] = session[e] /\ state'[e] = state[e] /\ order'[e] = order[e]
      /\ \A a \in Agents : session'[a] = session[a]
      /\ UNCHANGED table
      /\ channel'.u = NoUT /\ channel'.r.dev # e
  BY <1>c, PartiesAssumption DEF DeviceOnly
<1>2. NoUT.dev # e /\ NoUT.cipher.iv = 0
  BY PartiesAssumption DEF NoUT, NoCipher
<1>3. InSession(e) => Bounded(e, session[e].ut.order)'
  BY <1>1, <1>2 DEF SessionSound, Bounded, RowTickets
<1>4. ASSUME OutOfReach(e), session[e].ivCmd # 0
      PROVE  OutOfReach(e)'
  <2>1. channel'.r.iv # session[e].ivCmd
    BY <1>4, <1>c, FreshFacts DEF DeviceOnly
  <2> QED
    BY <1>1, <1>2, <1>4, <2>1 DEF OutOfReach, TokenFits, CanMakeToken
<1>5. KeyFits(e) => KeyFits(e)'
  BY <1>1 DEF KeyFits
<1> QED
  BY <1>1, <1>3, <1>4, <1>5 DEF SessionSound, InSession

(* What a device in a session executes is of the order of its session.     *)
LEMMA ExecutesAtOrder ==
  ASSUME TypeOK, NEW d \in Devices, SessionSound(d), InSession(d), CanExecute(d, channel.u)
  PROVE  /\ channel.u.type # "INITIALIZATION" /\ channel.u.type # ""
         /\ channel.u.order = order[d] /\ session[d].ut.order = order[d]
<1>1. /\ order[d] \in Nat /\ order[d] > 0
      /\ session[d].ut.order \in Nat /\ session[d].ut.order =< order[d]
  BY TypeParts, SessionFields, UTicketFields DEF SessionSound, Controllers
<1>2. channel.u.type # "INITIALIZATION"
  BY <1>1 DEF CanExecute, VerifyCanExecute, VerifyUOrder
<1>3. channel.u.type # "" /\ channel.u.dev = d /\ channel.u.order = order[d]
  BY <1>2 DEF CanExecute, VerifyCanExecute, VerifyUOrder, VerifyUDeviceId
<1>4. channel.u.order =< session[d].ut.order
  BY <1>3 DEF SessionSound, Bounded
<1>5. \A m, n \in Nat : m =< n /\ n =< m => m = n
  OBVIOUS
<1> QED
  BY <1>1, <1>2, <1>3, <1>4, <1>5

(* Nothing names a device at an order that it has not reached. *)
LEMMA BoundedByOrder ==
  ASSUME SafeInv', NEW d \in Devices, Live(d)'
  PROVE  Bounded(d, order[d])'
BY DEF SafeInv, RowOk, TicketOk, ReceiptOk, NotAhead, Bounded, RowTickets

LEMMA DeviceSound ==
  ASSUME SafeInv, SafeInv', Shapes, NEW d \in Devices, SessionSound(d), DeviceRecv(d)
  PROVE  SessionSound(d)'
<1>c. d \in Controllers /\ TypeOK /\ session[d] \in Session /\ order[d] \in Nat
  BY TypeParts DEF Controllers, SafeInv
<1>1. DeviceOnly(d)
  BY <1>c, DeviceCases
<1>e. /\ \A a \in Agents : session'[a] = session[a]
      /\ UNCHANGED table /\ channel'.u = NoUT /\ NoUT.dev # d /\ NoUT.cipher.iv = 0
  BY <1>1, PartiesAssumption DEF DeviceOnly, Controllers, NoUT, NoCipher
(* An iv that was just drawn is known to nobody, and 0 to everybody. *)
<1>reach. ASSUME \A a \in Agents : session'[d].ivCmd \notin {session[a].ivCmd, channel'.r.iv},
                 session'[d].ivCmd # 0
          PROVE  OutOfReach(d)'
  BY <1>e, <1>reach DEF OutOfReach, TokenFits, CanMakeToken
<1>same. ASSUME session'[d].key = session[d].key, session'[d].ivCmd = session[d].ivCmd,
                session[d].ivCmd # 0, channel'.r.iv = 0, OutOfReach(d)
         PROVE  OutOfReach(d)'
  BY <1>e, <1>same DEF OutOfReach, TokenFits, CanMakeToken
<1>2. CASE Leaves(d)
  BY <1>2 DEF Leaves, SessionSound
<1>3. CASE Stays(d)
  <2>1. InSession(d) => Bounded(d, session[d].ut.order)'
    BY <1>3, <1>e DEF Stays, SessionSound, Bounded, RowTickets
  <2>2. KeyFits(d) => KeyFits(d)'
    BY <1>3 DEF Stays, KeyFits
  <2>3. session[d].ivCmd # 0 /\ OutOfReach(d) => OutOfReach(d)'
    BY <1>3, <1>same DEF Stays, NoAnswer
  <2> QED
    BY <1>3, <2>1, <2>2, <2>3 DEF Stays, SessionSound, InSession
<1>4. CASE DeviceOpenSession(d)
  <2>1. PICK f \in FreshNonces : OpenSession(d, channel.u, f)
    BY <1>4 DEF DeviceOpenSession
  <2>2. session'[d].ut = Id(channel.u) /\ session'[d].ivCmd = f
    BY <1>c, <2>1 DEF OpenSession, TypeOK, Session
  <2>3. state'[d] = "DEVICE_WAIT_FOR_CRKE2" /\ order'[d] = order[d]
    BY <1>4, <1>c DEF DeviceOpenSession, Goto, TypeOK
  <2>4. channel.u.type \in {"ACCESS", "SELFACCESS"} /\ channel.u.order = order[d] /\ order[d] > 0
    BY <1>4 DEF DeviceOpenSession, CanExecute, VerifyCanExecute, VerifyUOrder, VerifyUDeviceId
  <2>5. Id(channel.u).type # "" /\ Id(channel.u).order = order[d]
    BY <1>c, <2>4, TypeParts DEF Id, UTicket
  <2>6. Bounded(d, order[d])'
    BY <2>3, BoundedByOrder DEF Live, Lost
  <2>7. Bounded(d, session[d].ut.order)'
    BY <2>2, <2>3, <2>5, <2>6 DEF Bounded
  <2>8. f # 0
    BY FreshFacts
  <2> QED
    <3>1. /\ session'[d].ut.type # "" /\ session'[d].ivCmd # 0
          /\ session'[d].ut.order = order'[d] /\ order'[d] > 0
      BY <2>2, <2>3, <2>4, <2>5, <2>8
    <3>2. order'[d] =< order'[d]
      BY <1>c, <2>3
    <3> QED
      BY <2>3, <2>7, <3>1, <3>2 DEF SessionSound
<1>5. CASE DeviceAcceptCrKe2(d)
  <2> DEFINE k == DeviceSessionKey(d, channel.r)
  <2>1. PICK f \in FreshNonces : session' = [session EXCEPT ![d].key = k, ![d].ivCmd = f]
    BY <1>5 DEF DeviceAcceptCrKe2
  <2>2. k.dev = d /\ k = SessionKey(k.n1, k.n2, d, session[d].ut.holder)
    BY DEF DeviceSessionKey, SessionKey
  <2> HIDE DEF k
  <2>3. session'[d].ut = session[d].ut /\ session'[d].key = k /\ session'[d].ivCmd = f
    BY <1>c, <2>1 DEF TypeOK, Session
  <2>4. state'[d] = "DEVICE_WAIT_FOR_CMD" /\ order'[d] = order[d]
    BY <1>5, <1>c DEF DeviceAcceptCrKe2, Goto, TypeOK
  <2>5. session[d].ut.type # "" /\ order[d] > 0 /\ session[d].ut.order = order[d]
    BY <1>5 DEF DeviceAcceptCrKe2, Incoming, SessionSound, InSession
  <2>6. Bounded(d, order[d])'
    BY <2>4, BoundedByOrder DEF Live, Lost
  <2>7. Bounded(d, session[d].ut.order)'
    BY <2>3, <2>4, <2>5, <2>6 DEF Bounded
  <2>8. KeyFits(d)'
    BY <2>2, <2>3 DEF KeyFits
  <2>9. f # 0
    BY FreshFacts
  <2> QED
    <3>1. /\ session'[d].ut.type # "" /\ session'[d].ivCmd # 0
          /\ session'[d].ut.order = order'[d] /\ order'[d] > 0
          /\ session'[d].key.dev = d
      BY <2>2, <2>3, <2>4, <2>5, <2>9
    <3>2. order'[d] =< order'[d]
      BY <1>c, <2>4
    <3> QED
      BY <2>4, <2>7, <2>8, <3>1, <3>2 DEF SessionSound
<1>6. CASE DeviceExecuteCmd(d)
  <2>0. InSession(d) /\ state[d] = "DEVICE_WAIT_FOR_CMD"
    BY <1>6 DEF DeviceExecuteCmd, Incoming, InSession
  <2>1. PICK f \in FreshNonces : session' = [session EXCEPT ![d].ivCmd = f]
    BY <1>6 DEF DeviceExecuteCmd
  <2>2. session'[d].ut = session[d].ut /\ session'[d].key = session[d].key /\ session'[d].ivCmd = f
    BY <1>c, <2>1 DEF TypeOK, Session
  <2>3. state'[d] = "DEVICE_WAIT_FOR_CMD" /\ order'[d] = order[d]
    BY <1>6, <2>0 DEF DeviceExecuteCmd
  <2>4. session[d].ut.order = order[d]
    BY <1>6, <1>c, <2>0, ExecutesAtOrder DEF DeviceExecuteCmd, DeviceReadsToken
  <2>5. Bounded(d, order[d])'
    BY <2>3, BoundedByOrder DEF Live, Lost
  <2>6. Bounded(d, session[d].ut.order)'
    BY <2>2, <2>3, <2>4, <2>5 DEF Bounded
  <2>7. KeyFits(d)
    BY <1>6, <2>0 DEF DeviceExecuteCmd, DeviceReadsToken, Decrypts, SessionSound, InSession,
                      OutOfReach, TokenFits
  <2>8. KeyFits(d)'
    BY <2>2, <2>7 DEF KeyFits
  <2>9. f # 0
    BY FreshFacts
  <2> QED
    BY <1>c, <2>0, <2>2, <2>3, <2>4, <2>6, <2>8, <2>9 DEF SessionSound
<1>7. CASE DeviceExecuteTicketInSession(d)
  <2>0. InSession(d) /\ state[d] = "DEVICE_WAIT_FOR_CMD" /\ state'[d] = "DEVICE_WAIT_FOR_CMD"
    BY <1>7 DEF DeviceExecuteTicketInSession, Incoming, InSession
  <2>1. channel'.r = NoRT /\ NoRT.iv = 0 /\ ~ NoRT.ok
    BY <1>7, <1>c, SendChanges DEF DeviceExecuteTicketInSession, NoRT
  <2>2. channel.u.order = order[d] /\ session[d].ut.order = order[d] /\ channel.u.type # "INITIALIZATION"
    BY <1>7, <1>c, <2>0, ExecutesAtOrder DEF DeviceExecuteTicketInSession
  <2>3. CASE channel.u.type = "OWNERSHIP"
    <3>1. order'[d] = order[d] + 1 /\ UNCHANGED session
      BY <1>7, <1>c, <2>3 DEF DeviceExecuteTicketInSession, TypeOK
    <3>2. Bounded(d, session[d].ut.order)'
      BY <1>e, <2>0, <2>1, <3>1 DEF SessionSound, Bounded, RowTickets
    <3>3. session[d].ut.order =< order'[d] /\ order'[d] > 0
      BY <1>c, <2>2, <3>1
    <3>4. KeyFits(d) => KeyFits(d)'
      BY <3>1 DEF KeyFits
    <3>5. OutOfReach(d) => OutOfReach(d)'
      BY <1>same, <2>0, <2>1, <3>1 DEF SessionSound
    <3> QED
      BY <2>0, <3>1, <3>2, <3>3, <3>4, <3>5 DEF SessionSound
  <2>4. CASE channel.u.type \in {"ACCESS", "SELFACCESS"}
    <3>1. PICK f \in FreshNonces : OpenSession(d, channel.u, f) /\ order'[d] = order[d]
      BY <1>7, <2>4 DEF DeviceExecuteTicketInSession
    <3>2. /\ session'[d].ut = Id(channel.u) /\ session'[d].ivCmd = f
          /\ session'[d].key = session[d].key
      BY <1>c, <3>1 DEF OpenSession, TypeOK, Session
    <3>3. Id(channel.u).type # "" /\ Id(channel.u).order = order[d]
      BY <1>c, <2>2, <2>4, TypeParts DEF Id, UTicket
    <3>4. Bounded(d, order[d])'
      BY <2>0, BoundedByOrder DEF Live, Lost
    <3>5. Bounded(d, session[d].ut.order)'
      BY <3>1, <3>2, <3>3, <3>4 DEF Bounded
    <3>6. OutOfReach(d)'
      BY <1>reach, <2>1, <3>2, FreshFacts DEF Controllers
    <3>7. f # 0
      BY FreshFacts
    <3> QED
      <4>1. /\ session'[d].ut.type # "" /\ session'[d].ivCmd # 0
            /\ session'[d].ut.order = order'[d]
        BY <3>1, <3>2, <3>3, <3>7
      <4>2. order'[d] > 0 /\ session'[d].key.dev = d
        BY <2>0, <3>1, <3>2 DEF SessionSound
      <4>3. order'[d] =< order'[d]
        BY <1>c, <3>1
      <4> QED
        BY <2>0, <3>5, <3>6, <4>1, <4>2, <4>3 DEF SessionSound
  <2> QED
    BY <1>7, <2>2, <2>3, <2>4 DEF DeviceExecuteTicketInSession
<1> QED
  BY <1>c, <1>2, <1>3, <1>4, <1>5, <1>6, <1>7, DeviceCases

(***************************************************************************)
(* Answers.                                                                *)
(***************************************************************************)
LEMMA EmptyAnswers ==
  NoUT.type \notin TokenTypes /\ NoRT.type # "CR-KE-2" /\ ~ NoRT.ok
BY DEF NoUT, NoRT, TokenTypes

LEMMA AgentAnswers ==
  ASSUME NEW a \in Agents, SessionStep(a), NEW b \in Agents, AnswersInChannel(b), AnswersInChannel(a)
  PROVE  AnswersInChannel(b)'
<1>c. a \in Controllers /\ b \in Controllers /\ (a # b => session'[b] = session[b])
  BY DEF SessionStep, Controllers
<1>1. CASE UNCHANGED channel /\ session'[a] = session[a]
  BY <1>1, <1>c DEF AnswersInChannel, Answers
<1>2. CASE Silent(channel')
  BY <1>2 DEF Silent, AnswersInChannel
(* An iv just drawn is another agent's for nothing. *)
<1>3. ASSUME session'[a].ivData \in FreshNonces, session'[a].cipher.text = session'[a].cmd
      PROVE  session'[a].ivData = session'[b].ivData =>
               session'[a].cmd = session'[b].cmd /\ session'[b].cipher.text = session'[b].cmd
  <2>1. CASE a = b
    BY <1>3, <2>1
  <2>2. CASE a # b
    <3>1. session'[a].ivData # session[b].ivData
      BY <1>3, <1>c, FreshFacts
    <3> QED
      BY <1>c, <2>2, <3>1
  <2> QED
    BY <2>1, <2>2
<1>4. CASE /\ channel'.u.ivData = session'[a].ivData /\ session'[a].ivData \in FreshNonces
           /\ channel'.u.cipher.text = session'[a].cmd
           /\ session'[a].cipher.text = session'[a].cmd
           /\ channel'.r = NoRT
  <2>1. channel'.u.ivData = session'[b].ivData =>
          /\ channel'.u.cipher.text = session'[b].cmd
          /\ session'[b].cipher.text = session'[b].cmd
    BY <1>3, <1>4
  <2> QED
    BY <1>4, <2>1, EmptyAnswers DEF AnswersInChannel, Answers
<1>5. CASE /\ channel'.r.ivData = session'[a].ivData /\ session'[a].ivData \in FreshNonces
           /\ channel'.r.cipher.text = session'[a].cmd
           /\ session'[a].cipher.text = session'[a].cmd
           /\ channel'.u = NoUT /\ channel'.r.type = "CR-KE-2"
  <2>1. channel'.r.ivData = session'[b].ivData =>
          /\ channel'.r.cipher.text = session'[b].cmd
          /\ session'[b].cipher.text = session'[b].cmd
    BY <1>3, <1>5
  <2> QED
    BY <1>5, <2>1, EmptyAnswers DEF AnswersInChannel, Answers
(* The same iv and text as before: those of the answer in the channel. *)
<1>6. CASE /\ channel'.r.ivData = session[a].ivData /\ session'[a].ivData = session[a].ivData
           /\ channel'.r.cipher = session[a].cipher /\ session'[a].cipher = session[a].cipher
           /\ session'[a].cmd = session[a].cmd
           /\ channel.r.ok /\ channel.r.type \in {"CR-KE-3", "DATA_RTOKEN"}
           /\ channel.r.cipher.iv = session[a].ivData
           /\ channel'.u = NoUT /\ channel'.r.type = "CR-KE-2"
  <2>1. session[a].cipher.text = channel.r.cipher.text
    BY <1>6 DEF AnswersInChannel, Answers
  <2>2. Answers(b, session[a].ivData, channel.r.cipher.text)
    BY <1>6 DEF AnswersInChannel
  <2>3. /\ session'[b].ivData = session[b].ivData /\ session'[b].cmd = session[b].cmd
        /\ session'[b].cipher = session[b].cipher
    BY <1>6, <1>c
  <2>4. channel'.r.ivData = session'[b].ivData =>
          /\ channel'.r.cipher.text = session'[b].cmd
          /\ session'[b].cipher.text = session'[b].cmd
    BY <1>6, <2>1, <2>2, <2>3 DEF Answers
  <2> QED
    BY <1>6, <2>4, EmptyAnswers DEF AnswersInChannel, Answers
<1> QED
  BY <1>1, <1>2, <1>4, <1>5, <1>6 DEF SessionStep, AskStep

(* The answer of a device to a verified message. *)
LEMMA AcceptAnswer ==
  ASSUME TypeOK, NEW d \in Devices, DeviceAcceptCrKe2(d)
  PROVE  /\ channel'.u = NoUT /\ channel'.r.type = "CR-KE-3"
         /\ channel'.r.dev = d /\ channel'.r.order = order[d] /\ channel'.r.start = session[d].ut
         /\ channel'.r.cipher.text = channel.r.cipher.text
         /\ channel'.r.cipher.key = DeviceSessionKey(d, channel.r)
         /\ channel'.r.cipher.iv = channel.r.ivData
         /\ session'[d].ut = session[d].ut /\ session'[d].key = DeviceSessionKey(d, channel.r)
<1>c. d \in Controllers /\ session[d] \in Session
  BY TypeParts DEF Controllers
<1> DEFINE k == DeviceSessionKey(d, channel.r)
<1> DEFINE c == Encrypt(channel.r.cipher.text, k, channel.r.ivData)
<1>1. PICK f \in FreshNonces :
        /\ session' = [session EXCEPT ![d].key = k, ![d].ivCmd = f]
        /\ SendR([GenReceipt("CR-KE-3", d, order[d], session[d].ut) EXCEPT !.iv = f, !.cipher = c], d)
  BY DEF DeviceAcceptCrKe2
<1>c1. c.text = channel.r.cipher.text /\ c.key = k /\ c.iv = channel.r.ivData
  BY DEF Encrypt
<1> HIDE DEF c
<1> DEFINE r == [GenReceipt("CR-KE-3", d, order[d], session[d].ut) EXCEPT !.iv = f, !.cipher = c]
<1>2. r.type = "CR-KE-3" /\ r.dev = d /\ r.order = order[d] /\ r.start = session[d].ut /\ r.cipher = c
  BY DEF GenReceipt, NoRT
<1>3. SendR(r, d)
  BY <1>1
<1> HIDE DEF r
<1>4. channel'.u = NoUT /\ channel'.r = r
  BY <1>c, <1>3, SendChanges
<1> HIDE DEF k
<1>5. session'[d].ut = session[d].ut /\ session'[d].key = k
  BY <1>c, <1>1 DEF TypeOK, Session
<1> QED
  BY <1>2, <1>4, <1>5, <1>c1 DEF k

LEMMA CmdAnswer ==
  ASSUME TypeOK, NEW d \in Devices, DeviceExecuteCmd(d)
  PROVE  /\ channel'.u = NoUT /\ channel'.r.type = "DATA_RTOKEN"
         /\ channel'.r.dev = d /\ channel'.r.order = order[d] /\ channel'.r.start = session[d].ut
         /\ channel'.r.cipher.text = channel.u.cipher.text
         /\ channel'.r.cipher.key = session[d].key /\ channel'.r.cipher.iv = channel.u.ivData
         /\ session'[d].ut = session[d].ut /\ session'[d].key = session[d].key
<1>c. d \in Controllers /\ session[d] \in Session
  BY TypeParts DEF Controllers
<1> DEFINE c == Encrypt(channel.u.cipher.text, session[d].key, channel.u.ivData)
<1>1. PICK f \in FreshNonces :
        /\ session' = [session EXCEPT ![d].ivCmd = f]
        /\ SendR([GenReceipt("DATA_RTOKEN", d, order[d], session[d].ut)
                    EXCEPT !.iv = f, !.cipher = c], d)
  BY DEF DeviceExecuteCmd
<1>c1. c.text = channel.u.cipher.text /\ c.key = session[d].key /\ c.iv = channel.u.ivData
  BY DEF Encrypt
<1> HIDE DEF c
<1> DEFINE r == [GenReceipt("DATA_RTOKEN", d, order[d], session[d].ut)
                   EXCEPT !.iv = f, !.cipher = c]
<1>2. r.type = "DATA_RTOKEN" /\ r.dev = d /\ r.order = order[d] /\ r.start = session[d].ut /\ r.cipher = c
  BY DEF GenReceipt, NoRT
<1>3. SendR(r, d)
  BY <1>1
<1> HIDE DEF r
<1>4. channel'.u = NoUT /\ channel'.r = r
  BY <1>c, <1>3, SendChanges
<1>5. session'[d].ut = session[d].ut /\ session'[d].key = session[d].key
  BY <1>c, <1>1 DEF TypeOK, Session
<1> QED
  BY <1>2, <1>4, <1>5, <1>c1

(* The other steps of a device answer nothing. *)
LEMMA DeviceIsMute ==
  ASSUME TypeOK, NEW d \in Devices, SessionSound(d), DeviceRecv(d)
  PROVE  \/ DeviceAcceptCrKe2(d) \/ DeviceExecuteCmd(d)
         \/ channel'.u = NoUT /\ channel'.r.type # "CR-KE-2"
              /\ ~ (channel'.r.ok /\ channel'.r.type \in {"CR-KE-3", "DATA_RTOKEN"})
<1>c. d \in Controllers
  BY DEF Controllers
<1>1. channel'.u = NoUT
  BY DeviceCases DEF DeviceOnly
<1>2. CASE Leaves(d) \/ Stays(d)
  BY <1>1, <1>2 DEF Leaves, Stays, NoAnswer, ReceiptTypes
<1>3. CASE DeviceOpenSession(d)
  <2>1. PICK f \in FreshNonces :
          SendR([GenReceipt("CR-KE-1", d, order[d], Id(channel.u)) EXCEPT !.n1 = f, !.iv = f], d)
    BY <1>3 DEF DeviceOpenSession
  <2> DEFINE r == [GenReceipt("CR-KE-1", d, order[d], Id(channel.u)) EXCEPT !.n1 = f, !.iv = f]
  <2>2. r.type = "CR-KE-1"
    BY DEF GenReceipt, NoRT
  <2>3. SendR(r, d)
    BY <2>1
  <2> HIDE DEF r
  <2> QED
    BY <1>1, <1>c, <2>2, <2>3, SendChanges
<1>4. CASE DeviceExecuteTicketInSession(d)
  BY <1>1, <1>4, <1>c, SendChanges, EmptyAnswers DEF DeviceExecuteTicketInSession
<1> QED
  BY <1>2, <1>3, <1>4, DeviceCases

LEMMA DeviceAnswers ==
  ASSUME TypeOK, Shapes, NEW d \in Devices, SessionSound(d), DeviceRecv(d),
         NEW a \in Agents, AnswersInChannel(a)
  PROVE  AnswersInChannel(a)'
<1>c. session'[a] = session[a]
  BY DeviceCases, PartiesAssumption DEF DeviceOnly, Controllers
<1>1. CASE DeviceAcceptCrKe2(d)
  <2>1. Answers(a, channel.r.ivData, channel.r.cipher.text)
    BY <1>1, AcceptsCrKe2 DEF AnswersInChannel
  <2>2. channel'.r.cipher.iv = channel.r.ivData /\ channel'.r.cipher.text = channel.r.cipher.text
    BY <1>1, AcceptAnswer
  <2>3. channel'.u = NoUT /\ channel'.r.type = "CR-KE-3"
    BY <1>1, AcceptAnswer
  <2> QED
    BY <1>c, <2>1, <2>2, <2>3, EmptyAnswers DEF AnswersInChannel, Answers
<1>2. CASE DeviceExecuteCmd(d)
  <2>1. Answers(a, channel.u.ivData, channel.u.cipher.text)
    BY <1>2 DEF DeviceExecuteCmd, AnswersInChannel, TokenTypes
  <2>2. channel'.r.cipher.iv = channel.u.ivData /\ channel'.r.cipher.text = channel.u.cipher.text
    BY <1>2, CmdAnswer
  <2>3. channel'.u = NoUT /\ channel'.r.type = "DATA_RTOKEN"
    BY <1>2, CmdAnswer
  <2> QED
    BY <1>c, <2>1, <2>2, <2>3, EmptyAnswers DEF AnswersInChannel, Answers
<1>3. CASE /\ channel'.u = NoUT /\ channel'.r.type # "CR-KE-2"
           /\ ~ (channel'.r.ok /\ channel'.r.type \in {"CR-KE-3", "DATA_RTOKEN"})
  BY <1>3, EmptyAnswers DEF AnswersInChannel
<1> QED
  BY <1>1, <1>2, <1>3, DeviceIsMute

(***************************************************************************)
(* Authorised data.                                                        *)
(***************************************************************************)
LEMMA AgentAuthorised ==
  ASSUME TypeOK, Shapes, DataIsAuthorised, NEW a \in Agents, SessionStep(a), AgentChanges(a)
  PROVE  DataIsAuthorised'
<1>1. CASE UNCHANGED channel
  <2> SUFFICES ASSUME channel.r.ok, channel.r.type \in {"CR-KE-3", "DATA_RTOKEN"}
               PROVE  DataIsAuthorised'
    BY <1>1 DEF DataIsAuthorised
  <2>1. channel.r.dev \in Devices
    BY DEF Shapes, AnswerShape
  <2>2. state'[channel.r.dev] = state[channel.r.dev] /\ session'[channel.r.dev] = session[channel.r.dev]
    BY <2>1, PartiesAssumption DEF AgentChanges, SessionStep, Controllers
  <2> QED
    BY <1>1, <2>2 DEF DataIsAuthorised, Live
<1>2. CASE ~ (channel'.r.ok /\ channel'.r.type \in {"CR-KE-3", "DATA_RTOKEN"})
  BY <1>2 DEF DataIsAuthorised
<1> QED
  BY <1>1, <1>2, EmptyAnswers DEF SessionStep, AskStep, Silent

LEMMA DeviceAuthorised ==
  ASSUME TypeOK, NEW d \in Devices, SessionSound(d), DeviceRecv(d)
  PROVE  DataIsAuthorised'
<1>1. CASE DeviceAcceptCrKe2(d)
  <2> DEFINE k == DeviceSessionKey(d, channel.r)
  <2>1. channel.r.cipher.text \in session[d].ut.scope
    BY <1>1 DEF DeviceAcceptCrKe2, DeviceReadsCrKe2
  <2>2. k = SessionKey(k.n1, k.n2, d, session[d].ut.holder)
    BY DEF DeviceSessionKey, SessionKey
  <2>3. session[d].ut.order = order[d]
    BY <1>1 DEF DeviceAcceptCrKe2, Incoming, SessionSound, InSession
  <2>4. /\ channel'.r.cipher.text = channel.r.cipher.text /\ channel'.r.cipher.key = k
        /\ channel'.r.dev = d /\ channel'.r.order = order[d] /\ channel'.r.start = session[d].ut
        /\ session'[d].ut = session[d].ut /\ session'[d].key = k
    BY <1>1, AcceptAnswer
  <2> HIDE DEF k
  <2> QED
    BY <2>1, <2>2, <2>3, <2>4 DEF DataIsAuthorised
<1>2. CASE DeviceExecuteCmd(d)
  <2> DEFINE k == session[d].key
  <2>0. InSession(d) /\ state[d] = "DEVICE_WAIT_FOR_CMD"
    BY <1>2 DEF DeviceExecuteCmd, Incoming, InSession
  <2>1. channel.u.cipher.text \in session[d].ut.scope
    BY <1>2 DEF DeviceExecuteCmd, DeviceReadsToken
  <2>2. k = SessionKey(k.n1, k.n2, d, session[d].ut.holder)
    BY <1>2, <2>0 DEF DeviceExecuteCmd, DeviceReadsToken, Decrypts, SessionSound, KeyFits,
                      OutOfReach, TokenFits
  <2>3. session[d].ut.order = order[d]
    BY <1>2, <2>0, ExecutesAtOrder DEF DeviceExecuteCmd, DeviceReadsToken
  <2>4. /\ channel'.r.cipher.text = channel.u.cipher.text /\ channel'.r.cipher.key = k
        /\ channel'.r.dev = d /\ channel'.r.order = order[d] /\ channel'.r.start = session[d].ut
        /\ session'[d].ut = session[d].ut /\ session'[d].key = k
    BY <1>2, CmdAnswer
  <2> HIDE DEF k
  <2> QED
    BY <2>1, <2>2, <2>3, <2>4 DEF DataIsAuthorised
<1>3. CASE ~ (channel'.r.ok /\ channel'.r.type \in {"CR-KE-3", "DATA_RTOKEN"})
  BY <1>3 DEF DataIsAuthorised
<1> QED
  BY <1>1, <1>2, <1>3, DeviceIsMute
(***************************************************************************)
(* The invariant holds.                                                    *)
(***************************************************************************)
LEMMA SessionInit ==
  ASSUME Init
  PROVE  SessionInv
<1>1. channel.u = NoUT /\ channel.r = NoRT
  BY EmptyFields DEF Init
<1>2. Shapes
  BY <1>1, EmptyPlain DEF Init, Shapes, Plain
<1>3. \A d \in Devices : SessionSound(d)
  BY DEF Init, SessionSound, InSession, Controllers
<1>4. DataIsAuthorised /\ \A a \in Agents : AnswersInChannel(a)
  BY <1>1, EmptyAnswers DEF DataIsAuthorised, AnswersInChannel
<1> QED
  BY <1>2, <1>3, <1>4, SafeInit DEF SessionInv

(* A rebooted device is in no session. *)
LEMMA RebootSession ==
  ASSUME SessionInv, SafeInv', NEW d \in Devices, RebootDevice(d)
  PROVE  SessionInv'
<1>c. TypeOK /\ d \in Controllers /\ \A a \in Agents : a \in Controllers \ {d}
  BY PartiesAssumption DEF SessionInv, SafeInv, Controllers
<1>1. /\ state'[d] = Lost
      /\ \A c \in Controllers \ {d} : state'[c] = state[c] /\ session'[c] = session[c]
      /\ \A e \in Devices \ {d} : order'[e] = order[e]
      /\ UNCHANGED <<initTicket, table, channel>>
  BY <1>c DEF RebootDevice, Goto, TypeOK
<1>2. Shapes'
  BY <1>1 DEF SessionInv, Shapes, Plain
<1>3. ASSUME NEW e \in Devices
      PROVE  SessionSound(e)'
  <2>1. CASE e = d
    BY <1>1, <2>1 DEF SessionSound, InSession, Lost
  <2>2. CASE e # d
    <3>1. /\ state'[e] = state[e] /\ session'[e] = session[e] /\ order'[e] = order[e]
          /\ \A a \in Agents : session'[a] = session[a]
      BY <1>1, <1>c, <2>2 DEF Controllers
    <3>2. KeyFits(e) \/ OutOfReach(e) => (KeyFits(e) \/ OutOfReach(e))'
      BY <1>1, <3>1 DEF KeyFits, OutOfReach, TokenFits, CanMakeToken
    <3>3. Bounded(e, session[e].ut.order) => Bounded(e, session[e].ut.order)'
      BY <1>1, <3>1 DEF Bounded, RowTickets
    <3> QED
      BY <3>1, <3>2, <3>3 DEF SessionInv, SessionSound, InSession
  <2> QED
    BY <2>1, <2>2
<1>4. \A a \in Agents : AnswersInChannel(a)'
  BY <1>1, <1>c DEF SessionInv, AnswersInChannel, Answers
<1>5. DataIsAuthorised'
  <2>1. CASE channel.r.ok /\ channel.r.type \in {"CR-KE-3", "DATA_RTOKEN"} /\ channel.r.dev # d
    <3>1. channel.r.dev \in Devices \ {d}
      BY <2>1 DEF SessionInv, Shapes, AnswerShape
    <3>2. state'[channel.r.dev] = state[channel.r.dev] /\ session'[channel.r.dev] = session[channel.r.dev]
      BY <1>1, <3>1 DEF Controllers
    <3> QED
      BY <1>1, <3>2 DEF SessionInv, DataIsAuthorised, Live
  <2>2. CASE channel.r.dev = d
    BY <1>1, <2>2 DEF DataIsAuthorised, Live
  <2>3. CASE ~ (channel.r.ok /\ channel.r.type \in {"CR-KE-3", "DATA_RTOKEN"})
    BY <1>1, <2>3 DEF DataIsAuthorised
  <2> QED
    BY <2>1, <2>2, <2>3
<1> QED
  BY <1>2, <1>3, <1>4, <1>5 DEF SessionInv

(* SessionInv is the inductive invariant behind the theorems below. *)
THEOREM SessionSafe == Spec => []SessionInv
<1>1. ASSUME SessionInv, SafeInv', [Next]_vars
      PROVE  SessionInv'
  <2>0. TypeOK /\ SafeInv /\ Shapes /\ \A d \in Devices : SessionSound(d)
    BY <1>1 DEF SessionInv, SafeInv
  <2>1. CASE UNCHANGED vars
    <3>1. Shapes'
      BY <2>0, <2>1 DEF vars, Shapes, Plain
    <3>2. ASSUME NEW d \in Devices
          PROVE  SessionSound(d)'
      <4>1. Bounded(d, session[d].ut.order) => Bounded(d, session[d].ut.order)'
        BY <2>1 DEF vars, Bounded, RowTickets
      <4>2. KeyFits(d) \/ OutOfReach(d) => (KeyFits(d) \/ OutOfReach(d))'
        BY <2>1 DEF vars, KeyFits, OutOfReach, TokenFits, CanMakeToken
      <4> QED
        BY <2>0, <2>1, <4>1, <4>2 DEF vars, SessionSound, InSession
    <3>3. DataIsAuthorised' /\ \A a \in Agents : AnswersInChannel(a)'
      BY <1>1, <2>1 DEF vars, SessionInv, AnswersInChannel, Answers, DataIsAuthorised, Live
    <3> QED
      BY <1>1, <3>1, <3>2, <3>3 DEF SessionInv
  <2>2. ASSUME NEW a \in Agents, Call(a) \/ AgentRecv(a)
        PROVE  SessionInv'
    <3>1. SessionStep(a) /\ AgentChanges(a) /\ Shapes'
      BY <2>0, <2>2, CallStep, AgentRecvStep, CallIsAnyCall, CallChanges, AgentRecvChanges, CallShapes,
         AgentRecvShapes
    <3>2. \A d \in Devices : SessionSound(d)'
      BY <2>0, <3>1, AgentSound
    <3>3. \A b \in Agents : AnswersInChannel(b)'
      BY <1>1, <3>1, AgentAnswers DEF SessionInv
    <3>4. DataIsAuthorised'
      BY <1>1, <2>0, <3>1, AgentAuthorised DEF SessionInv
    <3> QED
      BY <1>1, <3>1, <3>2, <3>3, <3>4 DEF SessionInv
  <2>3. ASSUME NEW d \in Devices, DeviceRecv(d)
        PROVE  SessionInv'
    <3>1. DeviceOnly(d) /\ Shapes'
      BY <2>0, <2>3, DeviceCases, DeviceShapes
    <3>2. SessionSound(d)'
      BY <1>1, <2>0, <2>3, DeviceSound
    <3>3. \A e \in Devices \ {d} : SessionSound(e)'
      BY <2>0, <3>1, OtherDeviceSound
    <3>4. \A a \in Agents : AnswersInChannel(a)'
      BY <1>1, <2>0, <2>3, DeviceAnswers DEF SessionInv
    <3>5. DataIsAuthorised'
      BY <2>0, <2>3, DeviceAuthorised
    <3> QED
      BY <1>1, <3>1, <3>2, <3>3, <3>4, <3>5 DEF SessionInv
  <2>4. ASSUME NEW d \in Fragile, RebootDevice(d)
        PROVE  SessionInv'
    BY <1>1, <2>4, RebootSession, InputsAssumption
  <2> QED
    BY <1>1, <2>1, <2>2, <2>3, <2>4 DEF Next
<1> QED
  BY <1>1, SessionInit, Safe, PTL DEF Spec

(* DataIsAuthorised: a successful answer is to a command in the scope of   *)
(* the ticket of the session it was given in, under its holder's key.      *)
THEOREM Authorised == Spec => []DataIsAuthorised
<1>1. SessionInv => DataIsAuthorised
  BY DEF SessionInv
<1> QED
  BY <1>1, SessionSafe, PTL

(* DataAnswersCommand: what an agent reads answers its latest command.     *)
THEOREM AnswersLatest == Spec => DataAnswersCommand
<1>1. ASSUME SessionInv, [Next]_vars
      PROVE  [\A a \in Agents : session'[a].data # session[a].data =>
                                  session'[a].data = session[a].cmd]_vars
  <2> SUFFICES ASSUME NEW a \in Agents, session'[a].data # session[a].data, Next
               PROVE  session'[a].data = session[a].cmd
    BY <1>1 DEF vars
  <2>0. TypeOK /\ Shapes /\ \A d \in Devices : SessionSound(d)
    BY <1>1 DEF SessionInv, SafeInv
  <2>c. \A d \in Devices : a \in Controllers \ {d}
    BY PartiesAssumption DEF Controllers
  <2>1. ASSUME NEW b \in Agents, Call(b) \/ AgentRecv(b)
        PROVE  session'[a].data = session[a].cmd
    <3>1. SessionStep(b)
      BY <2>0, <2>1, CallStep, AgentRecvStep
    <3>2. a = b
      BY <3>1 DEF SessionStep, Controllers
    <3>3. DataStep(a) /\ AnswersInChannel(a)
      BY <1>1, <3>1, <3>2 DEF SessionStep, SessionInv
    <3> QED
      BY <3>3 DEF DataStep, AnswersInChannel, Answers
  <2>2. ASSUME NEW d \in Devices, DeviceRecv(d)
        PROVE  FALSE
    BY <2>0, <2>2, <2>c, DeviceCases DEF DeviceOnly
  <2>3. ASSUME NEW d \in Fragile, RebootDevice(d)
        PROVE  FALSE
    BY <2>0, <2>3, <2>c, InputsAssumption DEF RebootDevice, TypeOK
  <2> QED
    BY <2>1, <2>2, <2>3 DEF Next
<1> QED
  BY <1>1, SessionSafe, PTL DEF Spec, DataAnswersCommand

(***************************************************************************)
(* A stranded device.                                                      *)
(***************************************************************************)
(* No device answers with the iv that it or another has already given out. *)
LEMMA DeviceKeepsOutOfReach ==
  ASSUME NEW d \in Devices, DeviceOnly(d), NEW e \in Devices, session[e].ivCmd # 0, OutOfReach(e),
         session'[e].key = session[e].key, session'[e].ivCmd = session[e].ivCmd
  PROVE  OutOfReach(e)'
<1>c. e \in Controllers /\ \A a \in Agents : a \in Controllers \ {d}
  BY PartiesAssumption DEF Controllers
<1>1. channel'.u = NoUT /\ NoUT.cipher.iv = 0 /\ \A a \in Agents : session'[a] = session[a]
  BY <1>c DEF DeviceOnly, NoUT, NoCipher
<1>2. channel'.r.iv # session[e].ivCmd
  BY <1>c, FreshFacts DEF DeviceOnly
<1> QED
  BY <1>1, <1>2 DEF OutOfReach, TokenFits, CanMakeToken

LEMMA StrandedDevice ==
  ASSUME SessionInv, NEW d \in Devices, Stranded(d), DeviceRecv(d)
  PROVE  Stranded(d)'
<1>c. /\ TypeOK /\ d \in Controllers /\ session[d] \in Session /\ order[d] \in Nat
      /\ SessionSound(d) /\ InSession(d) /\ state[d] = "DEVICE_WAIT_FOR_CMD"
  BY TypeParts DEF SessionInv, SafeInv, Controllers, Stranded, InSession
<1>1. DeviceOnly(d) /\ session[d].ivCmd # 0
  BY <1>c, DeviceCases DEF SessionSound
<1>reach. CanExecute(d, channel.u) =>
            session[d].ut.order = order[d] /\ OutOfReach(d) /\ channel.u.type # "INITIALIZATION"
  BY <1>c, ExecutesAtOrder DEF Stranded
<1>2. CASE UNCHANGED <<state, order, session>>
  BY <1>1, <1>2, DeviceKeepsOutOfReach DEF Stranded
<1>3. CASE DeviceExecuteCmd(d) \/ DeviceEndAccess(d)
  BY <1>3, <1>reach DEF DeviceExecuteCmd, DeviceEndAccess, DeviceReadsToken, Decrypts, OutOfReach,
     TokenFits
<1>4. CASE DeviceExecuteTicketInSession(d)
  <2>1. state' = state /\ session[d].ut.order = order[d] /\ Consume
    BY <1>4, <1>reach DEF DeviceExecuteTicketInSession
  <2>2. CASE order' = [order EXCEPT ![d] = @ + 1] /\ UNCHANGED session
    BY <1>c, <2>1, <2>2 DEF Stranded, TypeOK
  <2>3. ASSUME NEW f \in FreshNonces, OpenSession(d, channel.u, f)
        PROVE  Stranded(d)'
    <3>1. session'[d].ivCmd = f
      BY <1>c, <2>3 DEF OpenSession, TypeOK, Session
    <3>2. \A a \in Agents : session'[a] = session[a] /\ session[a].ivCmd # f
      BY <1>1, FreshFacts, PartiesAssumption DEF DeviceOnly, Controllers
    <3>3. channel'.u.cipher.iv = 0 /\ channel'.r.iv = 0 /\ f # 0
      <4>1. channel'.u = NoUT /\ channel'.r = NoRT
        BY <1>c, <2>1, SendChanges
      <4>2. NoUT.cipher.iv = 0 /\ NoRT.iv = 0
        BY DEF NoUT, NoRT, NoCipher
      <4> QED
        BY <4>1, <4>2, FreshFacts
    <3> QED
      BY <1>c, <2>1, <3>1, <3>2, <3>3 DEF Stranded, OutOfReach, TokenFits, CanMakeToken
  <2> QED
    BY <1>4, <2>2, <2>3 DEF DeviceExecuteTicketInSession
<1>5. CASE DeviceRefuseToken(d) \/ DeviceIgnoreInSession(d)
  BY <1>2, <1>5 DEF DeviceRefuseToken, DeviceIgnoreInSession
<1> QED
  BY <1>c, <1>3, <1>4, <1>5 DEF DeviceRecv, DeviceExecuteOwnership, DeviceOpenSession,
     DeviceRefuseUTicket, DeviceDropMessage, DeviceAcceptCrKe2, DeviceRefuseCrKe2,
     LostDeviceDropsMessage, Incoming, Lost

(* StrandedForever: a device in a session whose ticket is out of date, or  *)
(* for which nobody can make a token, is so after every further step.      *)
THEOREM StaysStranded == Spec => StrandedForever
<1>1. ASSUME SessionInv, [Next]_vars
      PROVE  [\A d \in Devices \ Fragile : Stranded(d) => Stranded(d)']_vars
  <2> SUFFICES ASSUME NEW d \in Devices \ Fragile, Stranded(d), Next
               PROVE  Stranded(d)'
    BY <1>1 DEF vars
  <2>0. TypeOK /\ Shapes /\ \A e \in Devices : SessionSound(e)
    BY <1>1 DEF SessionInv, SafeInv
  <2>c. d \in Controllers /\ \A a \in Agents : a \in Controllers /\ a # d
    BY PartiesAssumption DEF Controllers
  <2>s. session[d].ivCmd # 0 /\ session[d].key.dev = d
    BY <2>0 DEF Stranded, SessionSound, InSession
  <2>1. ASSUME NEW a \in Agents, Call(a) \/ AgentRecv(a)
        PROVE  Stranded(d)'
    <3>1. SessionStep(a) /\ AgentChanges(a)
      BY <2>0, <2>1, CallStep, AgentRecvStep, CallIsAnyCall, CallChanges, AgentRecvChanges
    <3>2. session'[d] = session[d] /\ state'[d] = state[d] /\ order'[d] = order[d]
      BY <2>c, <3>1 DEF SessionStep, AgentChanges
    <3>3. OutOfReach(d) => OutOfReach(d)'
      BY <2>0, <2>s, <3>1, AgentKeepsOutOfReach
    <3> QED
      BY <3>2, <3>3 DEF Stranded
  <2>2. ASSUME NEW e \in Devices, DeviceRecv(e)
        PROVE  Stranded(d)'
    <3>1. CASE e = d
      BY <1>1, <2>2, <3>1, StrandedDevice
    <3>2. CASE e # d
      <4>1. DeviceOnly(e)
        BY <2>0, <2>2, DeviceCases
      <4>2. session'[d] = session[d] /\ state'[d] = state[d] /\ order'[d] = order[d]
        BY <2>c, <3>2, <4>1 DEF DeviceOnly
      <4> QED
        BY <2>s, <4>1, <4>2, DeviceKeepsOutOfReach DEF Stranded
    <3> QED
      BY <3>1, <3>2
  <2>3. ASSUME NEW e \in Fragile, RebootDevice(e)
        PROVE  Stranded(d)'
    <3>1. /\ e \in Devices \ {d} /\ e \in Controllers
          /\ \A a \in Agents : a \in Controllers \ {e}
      BY PartiesAssumption, InputsAssumption DEF Controllers
    <3>2. /\ session'[d] = session[d] /\ state'[d] = state[d] /\ order'[d] = order[d]
          /\ \A a \in Agents : session'[a] = session[a]
          /\ UNCHANGED channel
      BY <2>0, <2>3, <2>c, <3>1 DEF RebootDevice, Goto, TypeOK
    <3> QED
      BY <3>2 DEF Stranded, OutOfReach, TokenFits, CanMakeToken
  <2> QED
    BY <2>1, <2>2, <2>3 DEF Next
<1> QED
  BY <1>1, SessionSafe, PTL DEF Spec, StrandedForever
=============================================================================
