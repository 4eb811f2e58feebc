----------------------------- MODULE UrekaTypes -----------------------------
(***************************************************************************)
(* Lemmas about the data of Ureka, and type correctness of its             *)
(* specification. The lemmas say once that each object the actions build   *)
(* is of its type, so that the proof of a step needs no record's fields.   *)
(***************************************************************************)
EXTENDS Ureka, TLAPS

LEMMA EmptyTypes ==
  /\ NoKey \in Key
  /\ NoCipher \in Cipher
  /\ NoUT \in UTicket
  /\ NoRT \in RTicket
  /\ NoSession \in Session
  /\ NoRow \in Row
  /\ NoMessage \in Message
<1>1. NoKey \in Key
  BY DEF NoKey, Key, Persons
<1>2. NoCipher \in Cipher
  BY <1>1 DEF NoCipher, Cipher, Texts
<1>3. NoUT \in UTicket
  BY <1>2 DEF NoUT, UTicket, DeviceIds, Persons
<1>4. NoRT \in RTicket
  BY <1>2, <1>3 DEF NoRT, RTicket, Persons
<1>5. NoSession \in Session
  BY <1>1, <1>2, <1>3 DEF NoSession, Session, Texts
<1>6. NoRow \in Row
  BY <1>3, <1>4 DEF NoRow, Row
<1>7. NoMessage \in Message
  BY <1>3, <1>4 DEF NoMessage, Message
<1> QED
  BY <1>1, <1>2, <1>3, <1>4, <1>5, <1>6, <1>7

LEMMA IdType ==
  ASSUME NEW u \in UTicket
  PROVE  /\ Id(u) \in UTicket
         /\ Id(u).holder = u.holder /\ Id(u).order = u.order /\ Id(u).dev = u.dev
BY DEF Id, UTicket, Persons

LEMMA EncryptType ==
  ASSUME NEW text \in Texts, NEW key \in Key, NEW iv \in Nat
  PROVE  Encrypt(text, key, iv) \in Cipher
BY DEF Encrypt, Cipher

LEMMA SessionKeyType ==
  ASSUME NEW m \in Nat, NEW n \in Nat, NEW c \in Controllers \cup {NoId}, NEW h \in Persons
  PROVE  SessionKey(m, n, c, h) \in Key
BY DEF SessionKey, Key

LEMMA GenInitTicketType ==
  ASSUME NEW a \in Persons
  PROVE  LET u == GenInitTicket(a) IN
           u \in UTicket /\ u.type = "INITIALIZATION" /\ u.dev = NoId /\ u.order = 0
BY EmptyTypes DEF GenInitTicket, NoUT, UTicket, UTypes, StoredUTypes, DeviceIds, Persons

LEMMA GenTicketType ==
  ASSUME NEW type \in StoredUTypes, NEW d \in Devices, NEW n \in Nat, NEW h \in Persons,
         NEW scope \in SUBSET Texts, NEW a \in Agents
  PROVE  LET u == GenTicket(type, d, n, h, scope, a) IN
           /\ u \in UTicket
           /\ u.type = type /\ u.dev = d /\ u.order = n /\ u.holder = h
           /\ type \in {"OWNERSHIP", "ACCESS"} => u.signer = a
<1>1. \A s \in Persons :
        LET u == [NoUT EXCEPT !.type = type, !.dev = d, !.order = n, !.holder = h,
                              !.scope = scope, !.signer = s]
        IN /\ u \in UTicket
           /\ u.type = type /\ u.dev = d /\ u.order = n /\ u.holder = h /\ u.signer = s
  BY EmptyTypes DEF UTicket, UTypes, DeviceIds, Persons
<1>2. CASE type \in {"OWNERSHIP", "ACCESS"}
  BY <1>1, <1>2 DEF GenTicket, Persons
<1>3. CASE type \notin {"OWNERSHIP", "ACCESS"}
  BY <1>1, <1>3 DEF GenTicket, Persons
<1> QED
  BY <1>2, <1>3

LEMMA GenTokenType ==
  ASSUME NEW type \in TokenTypes, NEW d \in DeviceIds, NEW n \in Nat, NEW c \in Cipher,
         NEW f \in Nat
  PROVE  LET u == GenToken(type, d, n, c, f) IN
           u \in UTicket /\ u.type = type /\ u.dev = d /\ u.order = n
BY DEF GenToken, NoUT, UTicket, UTypes, Persons

LEMMA GenFailureType ==
  ASSUME NEW type \in RTypes, NEW c \in Controllers, NEW n \in Nat
  PROVE  LET r == GenFailure(type, c, n) IN
           r \in RTicket /\ r.type = type /\ r.dev = c /\ r.order = n /\ ~ r.ok
BY EmptyTypes DEF GenFailure, NoRT, RTicket

LEMMA GenReceiptType ==
  ASSUME NEW type \in RTypes, NEW d \in Devices, NEW n \in Nat, NEW u \in UTicket
  PROVE  LET r == GenReceipt(type, d, n, u) IN
           r \in RTicket /\ r.type = type /\ r.dev = d /\ r.order = n /\ r.ok /\ r.start = u
BY EmptyTypes DEF GenReceipt, NoRT, RTicket, Controllers

LEMMA AnswerType ==
  ASSUME NEW r \in RTicket, NEW m \in Nat, NEW n \in Nat, NEW c \in Cipher
  PROVE  LET q == [r EXCEPT !.n1 = m, !.iv = n]
             t == [r EXCEPT !.iv = n, !.cipher = c]
         IN
           /\ q \in RTicket /\ q.type = r.type /\ q.dev = r.dev /\ q.order = r.order
           /\ t \in RTicket /\ t.type = r.type /\ t.dev = r.dev /\ t.order = r.order
BY DEF RTicket

LEMMA SendType ==
  /\ \A u \in UTicket, c \in Controllers : [u |-> u, r |-> NoRT, from |-> c] \in Message
  /\ \A r \in RTicket, c \in Controllers : [u |-> NoUT, r |-> r, from |-> c] \in Message
BY EmptyTypes DEF Message

LEMMA RowTypes ==
  ASSUME NEW row \in Row, NEW u \in UTicket, NEW r \in RTicket, NEW n \in Nat
  PROVE  /\ [row EXCEPT !.present = TRUE] \in Row
         /\ [row EXCEPT !.order = n] \in Row
         /\ [row EXCEPT !.uOwner = u] \in Row
         /\ [row EXCEPT !.ownUOthers = u] \in Row
         /\ [row EXCEPT !.accUOthers = u] \in Row
         /\ [row EXCEPT !.accUOthers = u, !.order = n] \in Row
         /\ [row EXCEPT !.present = TRUE, !.rOwner = r] \in Row
         /\ [row EXCEPT !.present = TRUE, !.uOwner = u, !.rOwner = r] \in Row
         /\ [row EXCEPT !.present = TRUE, !.order = n, !.uOwner = u] \in Row
BY DEF Row

LEMMA FreshNoncesType == FreshNonces \subseteq Nat
BY NonceAssumption DEF FreshNonces, Nonces

LEMMA InitType == Init => TypeOK
BY EmptyTypes DEF Init, TypeOK, Controllers, DeviceStates, AgentStates, Idle, Persons

LEMMA StoredRowType ==
  ASSUME TypeOK, NEW a \in Agents, NEW r \in RTicket, r.dev \in Devices
  PROVE  StoredRow(a, r) \in Row
<1>1. table[a][r.dev] \in Row /\ initTicket[a] \in UTicket /\ table[a][r.dev].rOwner \in RTicket
  BY DEF TypeOK, Row
<1>2. \A t \in {r, table[a][r.dev].rOwner} :
        /\ [NoRow EXCEPT !.present = TRUE, !.uOwner = initTicket[a], !.rOwner = t] \in Row
        /\ [table[a][r.dev] EXCEPT !.present = TRUE, !.rOwner = t] \in Row
  BY <1>1, EmptyTypes, RowTypes
<1> QED
  BY <1>1, <1>2, RowTypes, EmptyTypes DEF StoredRow

LEMMA RTicketFields ==
  ASSUME NEW r \in RTicket
  PROVE  /\ r.n1 \in Nat /\ r.n2 \in Nat /\ r.iv \in Nat /\ r.ivData \in Nat /\ r.order \in Nat
         /\ r.cipher \in Cipher /\ r.cipher.text \in Texts /\ r.cipher.key \in Key
         /\ r.start \in UTicket /\ r.dev \in Controllers \cup {NoId}
         /\ r.type \in RTypes \cup {""} /\ r.ok \in BOOLEAN
BY DEF RTicket, Cipher

LEMMA UTicketFields ==
  ASSUME NEW u \in UTicket
  PROVE  /\ u.dev \in DeviceIds /\ u.order \in Nat /\ u.holder \in Persons
         /\ u.signer \in Persons /\ u.cipher \in Cipher /\ u.cipher.text \in Texts
         /\ u.ivData \in Nat /\ u.type \in UTypes \cup {""} /\ u.scope \in SUBSET Texts
BY DEF UTicket, Cipher

LEMMA SessionFields ==
  ASSUME NEW s \in Session
  PROVE  /\ s.ut \in UTicket /\ s.n1 \in Nat /\ s.key \in Key /\ s.ivCmd \in Nat
         /\ s.ivData \in Nat /\ s.cmd \in Texts /\ s.cipher \in Cipher /\ s.data \in Texts
         /\ s.ut.dev \in DeviceIds /\ s.ut.holder \in Persons /\ s.key.n2 \in Nat
BY DEF Session, UTicket, Key

LEMMA HolderSessionType ==
  ASSUME TypeOK, NEW a \in Agents, NEW r \in RTicket, NEW f \in Nat
  PROVE  HolderSession(a, r, f) \in Session
<1> DEFINE s == session[a]
<1>1. s \in Session /\ a \in Controllers /\ a \in Persons
  BY DEF TypeOK, Controllers, Persons
<1> HIDE DEF s
<1>2. /\ SessionKey(r.n1, f, s.ut.dev, a) \in Key
      /\ SessionKey(s.n1, r.n2, a, s.ut.holder) \in Key
  BY <1>1, SessionFields, RTicketFields, SessionKeyType DEF DeviceIds, Controllers
<1>3. Encrypt(s.cmd, SessionKey(r.n1, f, s.ut.dev, a), r.iv) \in Cipher
  BY <1>1, <1>2, SessionFields, RTicketFields, EncryptType
<1>4. CASE r.type = "CR-KE-1"
  <2>1. [s EXCEPT !.n1 = r.n1, !.key = SessionKey(r.n1, f, s.ut.dev, a), !.ivCmd = r.iv,
                  !.cipher = Encrypt(s.cmd, SessionKey(r.n1, f, s.ut.dev, a), r.iv),
                  !.ivData = f] \in Session
    BY <1>1, <1>2, <1>3, SessionFields, RTicketFields DEF Session
  <2> QED
    BY <1>4, <2>1 DEF HolderSession, s
<1>5. CASE r.type = "CR-KE-2"
  <2>1. [s EXCEPT !.key = SessionKey(s.n1, r.n2, a, s.ut.holder), !.cipher = r.cipher] \in Session
    BY <1>1, <1>2, RTicketFields DEF Session
  <2> QED
    BY <1>5, <2>1 DEF HolderSession, s
<1>6. CASE r.type \in {"CR-KE-3", "DATA_RTOKEN"}
  <2>1. \A t \in {r.cipher.text, s.data} : [s EXCEPT !.ivCmd = r.iv, !.data = t] \in Session
    BY <1>1, RTicketFields DEF Session
  <2> QED
    BY <1>6, <2>1 DEF HolderSession, s
<1>7. CASE r.type \notin CrKeTypes \cup {"DATA_RTOKEN"}
  BY <1>1, <1>7 DEF HolderSession, CrKeTypes, s
<1> QED
  BY <1>4, <1>5, <1>6, <1>7 DEF CrKeTypes

LEMMA CrKe2Type ==
  ASSUME TypeOK, NEW a \in Agents, NEW s \in Session
  PROVE  LET r == CrKe2(a, s) IN
           /\ r \in RTicket /\ r.type = "CR-KE-2" /\ r.dev = s.ut.dev
           /\ r.order = RowOrder(a, s.ut.dev)
<1>1. RowOrder(a, s.ut.dev) \in Nat
  BY DEF RowOrder, TypeOK, Row
<1>2. a \in Persons
  BY DEF Persons
<1>3. s.ut.dev \in Controllers \cup {NoId}
  BY SessionFields DEF DeviceIds, Controllers
<1> QED
  BY <1>1, <1>2, <1>3, SessionFields, EmptyTypes
     DEF CrKe2, NoRT, RTicket, RTypes, CrKeTypes

(* The type of the state, one variable at a time. *)
LEMMA TypeParts ==
  ASSUME TypeOK
  PROVE  /\ \A c \in Controllers : session[c] \in Session
         /\ \A a \in Agents : initTicket[a] \in UTicket
         /\ \A d \in Devices : order[d] \in Nat /\ owner[d] \in Persons
         /\ \A a \in Agents, d \in Devices :
              /\ table[a][d] \in Row /\ table[a][d].order \in Nat
              /\ table[a][d].uOwner \in UTicket /\ table[a][d].ownUOthers \in UTicket
              /\ table[a][d].accUOthers \in UTicket /\ table[a][d].rOwner \in RTicket
         /\ channel.u \in UTicket /\ channel.r \in RTicket
BY DEF TypeOK, Row, Message

(* What the actions do to a variable keeps its type. *)
LEMMA UpdateTypes ==
  ASSUME TypeOK
  PROVE  /\ \A c \in Controllers, s \in DeviceStates \cup AgentStates \cup {Lost} :
              Goto(c, s) => state' \in [Controllers -> DeviceStates \cup AgentStates \cup {Lost}]
         /\ \A c \in Controllers, s \in Session :
              session' = [session EXCEPT ![c] = s] => session' \in [Controllers -> Session]
         /\ \A a \in Agents, row \in Row, d \in Devices :
              table' = [table EXCEPT ![a][d] = row] => table' \in [Agents -> [Devices -> Row]]
         /\ \A a \in Agents, d \in DeviceIds \cup Controllers :
              TouchRow(a, d) => table' \in [Agents -> [Devices -> Row]]
         /\ \A u \in UTicket, c \in Controllers : SendU(u, c) => channel' \in Message
         /\ \A r \in RTicket, c \in Controllers : SendR(r, c) => channel' \in Message
         /\ Consume => channel' \in Message
<1>1. \A c \in Controllers, s \in DeviceStates \cup AgentStates \cup {Lost} :
        Goto(c, s) => state' \in [Controllers -> DeviceStates \cup AgentStates \cup {Lost}]
  BY DEF TypeOK, Goto
<1>2. \A c \in Controllers, s \in Session :
        session' = [session EXCEPT ![c] = s] => session' \in [Controllers -> Session]
  BY DEF TypeOK
<1>3. \A a \in Agents, row \in Row, d \in Devices :
        table' = [table EXCEPT ![a][d] = row] => table' \in [Agents -> [Devices -> Row]]
  BY DEF TypeOK
<1>4. \A a \in Agents, d \in DeviceIds \cup Controllers :
        TouchRow(a, d) => table' \in [Agents -> [Devices -> Row]]
  <2> SUFFICES ASSUME NEW a \in Agents, NEW d \in Devices,
                      table' = [table EXCEPT ![a][d].present = TRUE]
               PROVE  table' \in [Agents -> [Devices -> Row]]
    BY DEF TouchRow, TypeOK
  <2>1. [table[a][d] EXCEPT !.present = TRUE] \in Row
    BY TypeParts DEF Row
  <2> QED
    BY <2>1 DEF TypeOK
<1>5. \A u \in UTicket, c \in Controllers : SendU(u, c) => channel' \in Message
  BY SendType DEF SendU
<1>6. \A r \in RTicket, c \in Controllers : SendR(r, c) => channel' \in Message
  BY SendType, EmptyTypes DEF SendR
<1>7. Consume => channel' \in Message
  BY EmptyTypes DEF Consume
<1> QED
  BY <1>1, <1>2, <1>3, <1>4, <1>5, <1>6, <1>7

(***************************************************************************)
(* The calls of an application that is free in its inputs: the lemmas      *)
(* below hold for those, and so for every application of this model.       *)
(***************************************************************************)
SetInitTicket(a, h) ==
  /\ initTicket' = [initTicket EXCEPT ![a] = GenInitTicket(h)]
  /\ UNCHANGED <<state, order, owner, session, table, channel>>

AnyIssue(a) ==
  \/ \E h \in Persons : SetInitTicket(a, h)
  \/ \E d \in Devices, scope \in SUBSET Texts :
       \/ IssueSelfAccessToHerself(a, d, scope)
       \/ \E h \in Persons : IssueOwnershipToHolder(a, d, h) \/ IssueAccessToHolder(a, d, h, scope)

AnyCall(a) ==
  \/ AnyIssue(a)
  \/ \E d \in Devices : HolderSendRTicketToIssuer(a, d)
  \/ \E d \in DeviceIds, cmd \in Texts : HolderApplyUTicket(a, d, cmd)
  \/ \E d \in Devices, cmd \in Texts, type \in TokenTypes : HolderSendCmd(a, d, cmd, type)

LEMMA CallIsAnyCall ==
  ASSUME NEW a \in Agents, Call(a)
  PROVE  AnyCall(a)
<1>1. Issue(a) => AnyIssue(a)
  BY InputsAssumption DEF Issue, AnyIssue, IssueInitToHerself, SetInitTicket, Persons
<1> QED
  BY <1>1, InputsAssumption DEF Call, AnyCall

LEMMA IssueType ==
  ASSUME TypeOK, NEW a \in Agents, AnyIssue(a)
  PROVE  TypeOK'
<1> a \in Controllers
  BY DEF Controllers
<1>1. ASSUME NEW h \in Persons, SetInitTicket(a, h)
      PROVE  TypeOK'
  BY <1>1, GenInitTicketType DEF SetInitTicket, TypeOK
<1>2. ASSUME NEW d \in Devices, NEW scope \in SUBSET Texts, IssueSelfAccessToHerself(a, d, scope)
      PROVE  TypeOK'
  <2>1. GenTicket("SELFACCESS", d, table[a][d].order, a, scope, a) \in UTicket
    BY GenTicketType, TypeParts DEF StoredUTypes, Persons
  <2>2. [table[a][d] EXCEPT !.uOwner = GenTicket("SELFACCESS", d, table[a][d].order, a, scope, a)]
          \in Row
    BY <2>1, TypeParts, RowTypes
  <2>3. table' \in [Agents -> [Devices -> Row]]
    BY <1>2, <2>2 DEF IssueSelfAccessToHerself, TypeOK
  <2> QED
    BY <1>2, <2>3 DEF IssueSelfAccessToHerself, TypeOK
<1>3. ASSUME NEW d \in Devices, NEW h \in Persons, IssueOwnershipToHolder(a, d, h)
      PROVE  TypeOK'
  <2> DEFINE u == GenTicket("OWNERSHIP", d, table[a][d].order, h, {}, a)
  <2>1. u \in UTicket
    BY GenTicketType, TypeParts DEF StoredUTypes
  <2>2. table' = [table EXCEPT ![a][d].ownUOthers = u] /\ SendU(u, a)
    BY <1>3 DEF IssueOwnershipToHolder
  <2> HIDE DEF u
  <2>3. [table[a][d] EXCEPT !.ownUOthers = u] \in Row
    BY <2>1, TypeParts, RowTypes
  <2>4. table' \in [Agents -> [Devices -> Row]]
    BY <2>2, <2>3 DEF TypeOK
  <2>5. channel' \in Message
    BY <2>1, <2>2, UpdateTypes
  <2> QED
    BY <1>3, <2>4, <2>5 DEF IssueOwnershipToHolder, TypeOK
<1>4. ASSUME NEW d \in Devices, NEW h \in Persons, NEW scope \in SUBSET Texts,
             IssueAccessToHolder(a, d, h, scope)
      PROVE  TypeOK'
  <2> DEFINE u == GenTicket("ACCESS", d, table[a][d].order, h, scope, a)
  <2>1. u \in UTicket
    BY GenTicketType, TypeParts DEF StoredUTypes
  <2>2. table' = [table EXCEPT ![a][d].accUOthers = u] /\ SendU(u, a)
    BY <1>4 DEF IssueAccessToHolder
  <2> HIDE DEF u
  <2>3. [table[a][d] EXCEPT !.accUOthers = u] \in Row
    BY <2>1, TypeParts, RowTypes
  <2>4. table' \in [Agents -> [Devices -> Row]]
    BY <2>2, <2>3 DEF TypeOK
  <2>5. channel' \in Message
    BY <2>1, <2>2, UpdateTypes
  <2> QED
    BY <1>4, <2>4, <2>5 DEF IssueAccessToHolder, TypeOK
<1> QED
  BY <1>1, <1>2, <1>3, <1>4 DEF AnyIssue

LEMMA CallType ==
  ASSUME TypeOK, NEW a \in Agents, AnyCall(a)
  PROVE  TypeOK'
<1> a \in Controllers
  BY DEF Controllers
<1>1. CASE AnyIssue(a)
  BY <1>1, IssueType
<1>2. ASSUME NEW d \in Devices, HolderSendRTicketToIssuer(a, d)
      PROVE  TypeOK'
  <2>1. table' \in [Agents -> [Devices -> Row]] /\ channel' \in Message
    BY <1>2, UpdateTypes, TypeParts DEF HolderSendRTicketToIssuer, DeviceIds
  <2> QED
    BY <1>2, <2>1 DEF HolderSendRTicketToIssuer, TypeOK
<1>3. ASSUME NEW d \in DeviceIds, NEW cmd \in Texts, HolderApplyUTicket(a, d, cmd)
      PROVE  TypeOK'
  <2> DEFINE u == StoredUTicket(a, d)
  <2>1. u \in UTicket /\ Id(u) \in UTicket
    BY TypeParts, IdType DEF StoredUTicket, DeviceIds
  <2>2. table' \in [Agents -> [Devices -> Row]]
    BY <1>3, UpdateTypes DEF HolderApplyUTicket
  <2>3. [session[a] EXCEPT !.ut = Id(u), !.cmd = cmd] \in Session
    BY <2>1, TypeParts DEF Session
  <2>4. \/ UNCHANGED <<state, session, channel>>
        \/ Goto(a, "AGENT_WAIT_FOR_RT") /\ SendU(u, a) /\ UNCHANGED session
        \/ /\ session' = [session EXCEPT ![a] = [session[a] EXCEPT !.ut = Id(u), !.cmd = cmd]]
           /\ Goto(a, "AGENT_WAIT_FOR_CRKE1") /\ SendU(u, a)
    BY <1>3, TypeParts DEF HolderApplyUTicket, TypeOK
  <2> HIDE DEF u
  <2>5. /\ state' \in [Controllers -> DeviceStates \cup AgentStates \cup {Lost}]
        /\ session' \in [Controllers -> Session]
        /\ channel' \in Message
    BY <2>1, <2>3, <2>4, UpdateTypes DEF TypeOK, AgentStates
  <2> QED
    BY <1>3, <2>2, <2>5 DEF HolderApplyUTicket, TypeOK
<1>4. ASSUME NEW d \in Devices, NEW cmd \in Texts, NEW type \in TokenTypes,
             HolderSendCmd(a, d, cmd, type)
      PROVE  TypeOK'
  <2> DEFINE s == session[a]
  <2> DEFINE c == Encrypt(cmd, s.key, s.ivCmd)
  <2>1. s \in Session /\ cmd \in Texts /\ type \in TokenTypes
    BY TypeParts
  <2>2. c \in Cipher
    BY <2>1, EncryptType, SessionFields
  <2>3. PICK f \in Nat :
          /\ session' = [session EXCEPT ![a].cmd = cmd, ![a].cipher = c, ![a].ivData = f]
          /\ SendU(GenToken(type, s.ut.dev, RowOrder(a, s.ut.dev), c, f), a)
    BY <1>4, FreshNoncesType DEF HolderSendCmd
  <2> HIDE DEF c
  <2>4. session' \in [Controllers -> Session]
    BY <2>1, <2>2, <2>3 DEF TypeOK, Session
  <2>5. RowOrder(a, s.ut.dev) \in Nat /\ s.ut.dev \in DeviceIds
    BY <2>1, SessionFields, TypeParts DEF RowOrder
  <2>6. channel' \in Message
    BY <2>1, <2>2, <2>3, <2>5, GenTokenType, UpdateTypes
  <2>7. state' \in [Controllers -> DeviceStates \cup AgentStates \cup {Lost}]
    BY <1>4, UpdateTypes DEF HolderSendCmd, AgentStates
  <2> QED
    BY <1>4, <2>4, <2>6, <2>7 DEF HolderSendCmd, TypeOK
<1> QED
  BY <1>1, <1>2, <1>3, <1>4 DEF AnyCall

LEMMA RefusalType ==
  ASSUME TypeOK, NEW d \in Devices, NEW type \in RTypes
  PROVE  /\ Refusal(type, d) \in RTicket
         /\ ~ Refusal(type, d).ok
         /\ Refusal(type, d).dev \in Devices =>
              Refusal(type, d).dev = d /\ Refusal(type, d).order = order[d]
<1>1. GenFailure(type, d, order[d]) \in RTicket /\ d \in Controllers
  BY GenFailureType, TypeParts DEF Controllers
<1>2. CASE order[d] = 0
  <2>1. Refusal(type, d) = NoRT
    BY <1>2 DEF Refusal
  <2>2. NoRT.dev = NoId /\ NoRT.ok = FALSE /\ NoRT \in RTicket
    BY EmptyTypes DEF NoRT
  <2> QED
    BY <2>1, <2>2, PartiesAssumption
<1>3. CASE order[d] # 0
  BY <1>1, <1>3, GenFailureType, TypeParts DEF Refusal
<1> QED
  BY <1>2, <1>3

LEMMA DeviceType ==
  ASSUME TypeOK, NEW d \in Devices, DeviceRecv(d)
  PROVE  TypeOK'
<1> DEFINE States == DeviceStates \cup AgentStates \cup {Lost}
<1>c. /\ d \in Controllers
      /\ {"DEVICE_WAIT_FOR_UT", "DEVICE_WAIT_FOR_CRKE2", "DEVICE_WAIT_FOR_CMD"} \subseteq States
  BY DEF Controllers, DeviceStates
<1>s. session[d] \in Session /\ session[d].ut \in UTicket /\ session[d].key \in Key
  BY <1>c, TypeParts, SessionFields
<1>u. channel.u \in UTicket /\ channel.r \in RTicket /\ Id(channel.u) \in UTicket
  BY TypeParts, IdType
<1>o. order[d] \in Nat /\ order[d] + 1 \in Nat
  BY TypeParts
<1>open. \A f \in FreshNonces :
           OpenSession(d, channel.u, f) => session' \in [Controllers -> Session]
  <2> SUFFICES ASSUME NEW f \in Nat, OpenSession(d, channel.u, f)
               PROVE  session' \in [Controllers -> Session]
    BY FreshNoncesType
  <2>1. [session[d] EXCEPT !.ut = Id(channel.u), !.n1 = f, !.ivCmd = f] \in Session
    BY <1>s, <1>u DEF Session
  <2> QED
    BY <1>c, <2>1 DEF OpenSession, TypeOK
<1>iv. (\E f \in FreshNonces : session' = [session EXCEPT ![d].ivCmd = f])
          => session' \in [Controllers -> Session]
  BY <1>c, <1>s, FreshNoncesType DEF TypeOK, Session
<1>k. DeviceSessionKey(d, channel.r) \in Key
  BY <1>c, <1>s, <1>u, SessionKeyType, SessionFields, RTicketFields DEF DeviceSessionKey
<1>1. CASE DeviceExecuteOwnership(d)
  <2>1. channel.u.type \in RTypes
    BY <1>1 DEF DeviceExecuteOwnership, RTypes, ReceiptTypes
  <2>2. GenReceipt(channel.u.type, d, order[d] + 1, Id(channel.u)) \in RTicket
    BY <2>1, <1>u, <1>o, GenReceiptType
  <2>3. channel' \in Message
    BY <1>1, <1>c, <2>2, UpdateTypes DEF DeviceExecuteOwnership
  <2> QED
    BY <1>1, <2>3, <1>u, <1>o, UTicketFields DEF DeviceExecuteOwnership, TypeOK
<1>2. CASE DeviceOpenSession(d)
  <2>1. PICK f \in FreshNonces :
          /\ OpenSession(d, channel.u, f)
          /\ SendR([GenReceipt("CR-KE-1", d, order[d], Id(channel.u)) EXCEPT !.n1 = f, !.iv = f], d)
    BY <1>2 DEF DeviceOpenSession
  <2>2. GenReceipt("CR-KE-1", d, order[d], Id(channel.u)) \in RTicket
    BY <1>u, <1>o, GenReceiptType DEF RTypes, CrKeTypes
  <2>3. [GenReceipt("CR-KE-1", d, order[d], Id(channel.u)) EXCEPT !.n1 = f, !.iv = f] \in RTicket
    BY <2>2, AnswerType, FreshNoncesType, EmptyTypes
  <2>4. channel' \in Message
    BY <1>c, <2>1, <2>3, UpdateTypes
  <2>5. session' \in [Controllers -> Session]
    BY <1>open, <2>1
  <2>6. state' \in [Controllers -> States]
    BY <1>2, <1>c, UpdateTypes DEF DeviceOpenSession
  <2> QED
    BY <1>2, <2>4, <2>5, <2>6 DEF DeviceOpenSession, TypeOK
<1>3. CASE DeviceRefuseUTicket(d)
  <2>1. channel' \in Message
    BY <1>3, <1>c, RefusalType, UpdateTypes DEF DeviceRefuseUTicket, RTypes, CrKeTypes
  <2> QED
    BY <1>3, <2>1 DEF DeviceRefuseUTicket, TypeOK
<1>4. CASE DeviceDropMessage(d) \/ DeviceIgnoreInSession(d) \/ LostDeviceDropsMessage(d)
  BY <1>4, UpdateTypes
     DEF DeviceDropMessage, DeviceIgnoreInSession, LostDeviceDropsMessage, TypeOK
<1>5. CASE DeviceAcceptCrKe2(d)
  <2> DEFINE k == DeviceSessionKey(d, channel.r)
  <2> DEFINE c == Encrypt(channel.r.cipher.text, k, channel.r.ivData)
  <2>1. PICK f \in FreshNonces :
          /\ session' = [session EXCEPT ![d].key = k, ![d].ivCmd = f]
          /\ SendR([GenReceipt("CR-KE-3", d, order[d], session[d].ut)
                      EXCEPT !.iv = f, !.cipher = c], d)
    BY <1>5 DEF DeviceAcceptCrKe2
  <2>2. c \in Cipher
    BY <1>k, <1>u, EncryptType, RTicketFields
  <2>3. GenReceipt("CR-KE-3", d, order[d], session[d].ut) \in RTicket
    BY <1>s, <1>o, GenReceiptType DEF RTypes, CrKeTypes
  <2> HIDE DEF k, c
  <2>4. [GenReceipt("CR-KE-3", d, order[d], session[d].ut) EXCEPT !.iv = f, !.cipher = c]
          \in RTicket
    BY <2>2, <2>3, AnswerType, FreshNoncesType
  <2>5. channel' \in Message
    BY <1>c, <2>1, <2>4, UpdateTypes
  <2>6. session' \in [Controllers -> Session]
    BY <1>c, <1>s, <1>k, <2>1, FreshNoncesType DEF TypeOK, Session, k
  <2>7. state' \in [Controllers -> States]
    BY <1>5, <1>c, UpdateTypes DEF DeviceAcceptCrKe2
  <2> QED
    BY <1>5, <2>5, <2>6, <2>7 DEF DeviceAcceptCrKe2, TypeOK
<1>6. CASE DeviceRefuseCrKe2(d)
  <2>1. channel' \in Message
    BY <1>6, <1>c, RefusalType, UpdateTypes DEF DeviceRefuseCrKe2, RTypes, CrKeTypes
  <2>2. session' \in [Controllers -> Session]
    BY <1>6, <1>c, <1>s, <1>k DEF DeviceRefuseCrKe2, TypeOK, Session
  <2>3. state' \in [Controllers -> States]
    BY <1>6, <1>c, UpdateTypes DEF DeviceRefuseCrKe2
  <2> QED
    BY <1>6, <2>1, <2>2, <2>3 DEF DeviceRefuseCrKe2, TypeOK
<1>7. CASE DeviceExecuteCmd(d)
  <2> DEFINE c == Encrypt(channel.u.cipher.text, session[d].key, channel.u.ivData)
  <2>1. PICK f \in FreshNonces :
          /\ session' = [session EXCEPT ![d].ivCmd = f]
          /\ SendR([GenReceipt("DATA_RTOKEN", d, order[d], session[d].ut)
                      EXCEPT !.iv = f, !.cipher = c], d)
    BY <1>7 DEF DeviceExecuteCmd
  <2>2. c \in Cipher
    BY <1>s, <1>u, EncryptType, UTicketFields
  <2>3. GenReceipt("DATA_RTOKEN", d, order[d], session[d].ut) \in RTicket
    BY <1>s, <1>o, GenReceiptType DEF RTypes
  <2> HIDE DEF c
  <2>4. [GenReceipt("DATA_RTOKEN", d, order[d], session[d].ut) EXCEPT !.iv = f, !.cipher = c]
          \in RTicket
    BY <2>2, <2>3, AnswerType, FreshNoncesType
  <2>5. channel' \in Message
    BY <1>c, <2>1, <2>4, UpdateTypes
  <2>6. session' \in [Controllers -> Session]
    BY <1>iv, <2>1
  <2> QED
    BY <1>7, <2>5, <2>6 DEF DeviceExecuteCmd, TypeOK
<1>8. CASE DeviceEndAccess(d)
  <2>1. order' \in [Devices -> Nat] /\ order'[d] \in Nat
    BY <1>8, <1>o DEF DeviceEndAccess, TypeOK
  <2>2. GenReceipt("ACCESS_END", d, order'[d], session[d].ut) \in RTicket
    BY <1>s, <2>1, GenReceiptType DEF RTypes, ReceiptTypes
  <2>3. channel' \in Message
    BY <1>8, <1>c, <2>2, UpdateTypes DEF DeviceEndAccess
  <2>4. session' \in [Controllers -> Session]
    BY <1>8, <1>iv DEF DeviceEndAccess
  <2>5. state' \in [Controllers -> States]
    BY <1>8, <1>c, UpdateTypes DEF DeviceEndAccess
  <2> QED
    BY <1>8, <2>1, <2>3, <2>4, <2>5 DEF DeviceEndAccess, TypeOK
<1>9. CASE DeviceRefuseToken(d)
  <2>1. channel' \in Message
    BY <1>9, <1>c, RefusalType, UpdateTypes DEF DeviceRefuseToken, RTypes, ReceiptTypes
  <2> QED
    BY <1>9, <2>1 DEF DeviceRefuseToken, TypeOK
<1>10. CASE DeviceExecuteTicketInSession(d)
  <2>1. session' \in [Controllers -> Session]
    BY <1>10, <1>open DEF DeviceExecuteTicketInSession, TypeOK
  <2>2. order' \in [Devices -> Nat] /\ owner' \in [Devices -> Persons]
    BY <1>10, <1>o, <1>u, UTicketFields DEF DeviceExecuteTicketInSession, TypeOK
  <2>3. channel' \in Message
    BY <1>10, UpdateTypes DEF DeviceExecuteTicketInSession
  <2> QED
    BY <1>10, <2>1, <2>2, <2>3 DEF DeviceExecuteTicketInSession, TypeOK
<1> QED
  BY <1>1, <1>2, <1>3, <1>4, <1>5, <1>6, <1>7, <1>8, <1>9, <1>10 DEF DeviceRecv

LEMMA AgentType ==
  ASSUME TypeOK, NEW a \in Agents, AgentRecv(a)
  PROVE  TypeOK'
<1> DEFINE States == DeviceStates \cup AgentStates \cup {Lost}
<1>c. a \in Controllers /\ Idle \in AgentStates
  BY DEF Controllers, AgentStates, Idle
<1>u. channel.u \in UTicket /\ channel.r \in RTicket /\ channel.r.order \in Nat
  BY TypeParts, RTicketFields
<1>m. Consume => channel' \in Message
  BY UpdateTypes
<1>row. channel.r.dev \in Devices =>
          /\ StoredRow(a, channel.r) \in Row
          /\ [StoredRow(a, channel.r) EXCEPT !.order = channel.r.order] \in Row
          /\ [StoredRow(a, channel.r) EXCEPT !.accUOthers = NoUT, !.order = channel.r.order] \in Row
  BY <1>u, StoredRowType, RowTypes, EmptyTypes
<1>set. \A row : (channel.r.dev \in Devices => row \in Row) /\ SetRow(a, channel.r.dev, row)
                   => table' \in [Agents -> [Devices -> Row]]
  BY DEF SetRow, TypeOK
<1>ses. \A f \in FreshNonces \cup {0} :
          session' = [session EXCEPT ![a] = HolderSession(a, channel.r, f)]
            => session' \in [Controllers -> Session]
  BY <1>c, <1>u, HolderSessionType, FreshNoncesType, UpdateTypes
<1>1. CASE AgentRecvUTicket(a)
  <2>1. [NoRow EXCEPT !.present = TRUE, !.order = channel.u.order, !.uOwner = channel.u] \in Row
    BY <1>u, UTicketFields, EmptyTypes DEF Row
  <2>2. table' \in [Agents -> [Devices -> Row]]
    BY <1>1, <2>1 DEF AgentRecvUTicket, TypeOK
  <2> QED
    BY <1>1, <1>m, <2>2 DEF AgentRecvUTicket, TypeOK
<1>2. CASE IssuerRecvRTicket(a)
  <2>1. table' \in [Agents -> [Devices -> Row]]
    BY <1>2, <1>row, <1>set, EmptyTypes DEF IssuerRecvRTicket
  <2> QED
    BY <1>2, <1>m, <2>1 DEF IssuerRecvRTicket, TypeOK
<1>3. CASE IssuerRefuseRTicket(a)
  BY <1>3, <1>m DEF IssuerRefuseRTicket, TypeOK
<1>4. CASE HolderRecvRTicket(a)
  <2>1. table' \in [Agents -> [Devices -> Row]]
    BY <1>4, <1>row, <1>set DEF HolderRecvRTicket, TypeOK
  <2>2. state' \in [Controllers -> States]
    BY <1>4, <1>c, UpdateTypes DEF HolderRecvRTicket, TypeOK
  <2> QED
    BY <1>4, <1>m, <2>1, <2>2 DEF HolderRecvRTicket, TypeOK
<1>5. CASE HolderRecvCrKe1(a)
  <2>1. session' \in [Controllers -> Session]
    BY <1>5, <1>ses DEF HolderRecvCrKe1, TypeOK
  <2>2. state' \in [Controllers -> States]
    BY <1>5, <1>c, UpdateTypes DEF HolderRecvCrKe1, AgentStates
  <2>3. \A f \in FreshNonces : CrKe2(a, HolderSession(a, channel.r, f)) \in RTicket
    BY <1>u, HolderSessionType, FreshNoncesType, CrKe2Type
  <2>4. channel' \in Message
    BY <1>5, <1>c, <1>m, <2>3, UpdateTypes DEF HolderRecvCrKe1
  <2> QED
    BY <1>5, <2>1, <2>2, <2>4 DEF HolderRecvCrKe1, TypeOK
<1>6. CASE HolderRecvCrKe3(a)
  <2>1. session' \in [Controllers -> Session]
    BY <1>6, <1>ses DEF HolderRecvCrKe3, TypeOK
  <2>2. state' \in [Controllers -> States]
    BY <1>6, <1>c, UpdateTypes DEF HolderRecvCrKe3
  <2> QED
    BY <1>6, <1>m, <2>1, <2>2 DEF HolderRecvCrKe3, TypeOK
<1>7. CASE HolderRecvData(a)
  <2>1. session' \in [Controllers -> Session]
    BY <1>7, <1>ses DEF HolderRecvData, TypeOK
  <2>2. state' \in [Controllers -> States]
    BY <1>7, <1>c, UpdateTypes DEF HolderRecvData, TypeOK, DeviceStates
  <2>3. \A d \in Devices : [table[a][d] EXCEPT !.order = channel.r.order] \in Row
    BY <1>u, TypeParts, RowTypes
  <2>4. channel.r.dev \in DeviceIds \cup Controllers
    BY <1>u, RTicketFields DEF DeviceIds
  <2>5. table' \in [Agents -> [Devices -> Row]]
    BY <1>7, <2>3, <2>4, UpdateTypes DEF HolderRecvData, TypeOK
  <2> QED
    BY <1>7, <1>m, <2>1, <2>2, <2>5 DEF HolderRecvData, TypeOK
<1>8. CASE AgentRefusesAsDevice(a)
  <2>1. \A type \in {"DATA_RTOKEN", "ACCESS_END"} : GenFailure(type, a, AgentOrder) \in RTicket
    BY <1>c, GenFailureType DEF AgentOrder, RTypes, ReceiptTypes
  <2>2. channel' \in Message
    BY <1>8, <1>c, <1>m, <2>1, UpdateTypes DEF AgentRefusesAsDevice
  <2> QED
    BY <1>8, <2>2 DEF AgentRefusesAsDevice, TypeOK
<1> QED
  BY <1>1, <1>2, <1>3, <1>4, <1>5, <1>6, <1>7, <1>8 DEF AgentRecv

(* TypeOK: every variable of controllers, tables and channel keeps its type *)
(* under every call of the program.                                         *)
THEOREM TypeCorrect == Spec => []TypeOK
<1>1. ASSUME TypeOK, [Next]_vars
      PROVE  TypeOK'
  <2>1. CASE UNCHANGED vars
    BY <1>1, <2>1 DEF TypeOK, vars
  <2>2. ASSUME NEW d \in Fragile, RebootDevice(d)
        PROVE  TypeOK'
    <3>1. d \in Devices /\ d \in Controllers /\ MaxOrder \in Nat
      BY InputsAssumption DEF Controllers
    <3>2. order' \in [Devices -> Nat] /\ owner' \in [Devices -> Persons]
      BY <1>1, <2>2, <3>1 DEF RebootDevice, TypeOK, Persons
    <3>3. state' \in [Controllers -> DeviceStates \cup AgentStates \cup {Lost}]
      BY <1>1, <2>2, <3>1, UpdateTypes DEF RebootDevice
    <3>4. session' \in [Controllers -> Session]
      BY <1>1, <2>2, <3>1, EmptyTypes DEF RebootDevice, TypeOK
    <3> QED
      BY <1>1, <2>2, <3>2, <3>3, <3>4 DEF RebootDevice, TypeOK
  <2> QED
    BY <1>1, <2>1, <2>2, CallIsAnyCall, CallType, AgentType, DeviceType DEF Next
<1> QED
  BY <1>1, InitType, PTL DEF Spec
=============================================================================
