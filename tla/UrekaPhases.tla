---------------------------- MODULE UrekaPhases -----------------------------
(***************************************************************************)
(* The calls of UrekaDriver one by one: what is true of the device, of its *)
(* user and of the channel after so many calls of a sequence (Phase), and  *)
(* that each call takes the sequence from one phase to the next, leaves    *)
(* everybody else alone and does to the service what TicketService allows  *)
(* (Advances).                                                             *)
(***************************************************************************)
EXTENDS UrekaDriver, UrekaSafety

(***************************************************************************)
(* The invariant between two sequences of calls.                           *)
(***************************************************************************)
AccessTypes == {"ACCESS", "SELFACCESS"}

HeldTicket(a, d) == table[a][d].uOwner

TicketSound(a, d) ==
  LET u == HeldTicket(a, d) IN
  u.type \in AccessTypes =>
    /\ u.dev = d /\ u.holder = a /\ u.order < MaxOrder /\ u.order =< order[d]
    /\ u.order = order[d] =>
         /\ table[a][d].order = u.order
         /\ owner[d] \in Agents
         /\ u.type = "SELFACCESS" => owner[d] = a /\ u.scope = AllScope
         /\ u.type = "ACCESS" => /\ u.signer = owner[d] /\ table[owner[d]][d].accUOthers = u
                                 /\ a # owner[d] /\ table[a][d].accUOthers = NoUT

(* The owner's row has the order of the device. *)
Owned(d) == owner[d] \in Agents /\ order[d] > 0 /\ table[owner[d]][d].order = order[d]

(* The device d is in a session of a, and but for the iv both sides are at *)
(* the same point of it.                                                   *)
SameSession(a, d) ==
  LET u == HeldTicket(a, d) IN
    /\ u.type \in AccessTypes /\ u.order = order[d]
    /\ session[d].ut = Id(u) /\ session[a].ut = Id(u)
    /\ session[a].key = session[d].key

Agreed(a, d) == SameSession(a, d) /\ session[a].ivCmd = session[d].ivCmd

Resting(d) == state[d] = "DEVICE_WAIT_FOR_UT"

Serving(a, d) == Owned(d) /\ state[d] = "DEVICE_WAIT_FOR_CMD" /\ SameSession(a, d)

NobodyMayEnter(d) ==
  \A a \in Agents : HeldTicket(a, d).type \in AccessTypes => HeldTicket(a, d).order # order[d]

EndReceipt(u) == GenReceipt("ACCESS_END", u.dev, u.order + 1, Id(u))

(* The owner b has not heard of the end of the access she gave to a: her   *)
(* row and her ticket are of the order before, a has the receipt, and      *)
(* nobody can use the device.                                              *)
Granted(d) == table[owner[d]][d].accUOthers

Behind(a, b, d) ==
  LET w == Granted(d) IN
    /\ Resting(d) /\ owner[d] = b /\ a # b /\ NobodyMayEnter(d)
    /\ w.type = "ACCESS" /\ w.dev = d /\ w.holder = a /\ w.order < MaxOrder
    /\ order[d] = w.order + 1 /\ table[b][d].order = w.order
    /\ table[a][d].rOwner = EndReceipt(w)

Settled(d) ==
  \/ Resting(d) /\ order[d] = 0 /\ owner[d] = NoOne
  \/ Resting(d) /\ Owned(d)
  \/ \E a \in Agents : Serving(a, d) /\ Agreed(a, d)
  \/ \E a, b \in Agents : Behind(a, b, d)

(* Who is in a session may have got, or not got, the data of a command. *)
IdleAgent(a) ==
  /\ state[a] \in {Idle, "DEVICE_WAIT_FOR_CMD", "AGENT_WAIT_FOR_DATA"}
  /\ Free(a) => state[a] = Idle

AtRest ==
  /\ \A d \in Devices : Settled(d)
  /\ \A a \in Agents : IdleAgent(a)

(***************************************************************************)
(* The invariant within a sequence of calls: n of them have returned.      *)
(***************************************************************************)
(* Messages. *)
Carries(u, r) == channel.u = u /\ channel.r = r

Offer(g)   == GenTicket("OWNERSHIP", g.dev, g.ord, g.to, {}, g.by)
Grant(g)   == GenTicket("ACCESS", g.dev, g.ord, g.to, g.scope, g.by)
Token(g, type) ==
  GenToken(type, g.dev, g.ord, Encrypt(g.text, session[g.dev].key, session[g.dev].ivCmd),
           session[g.to].ivData)
InitReceipt(g)     == GenReceipt("INITIALIZATION", g.dev, 1, Id(GenInitTicket(g.to)))
TransferReceipt(g) == GenReceipt("OWNERSHIP", g.dev, g.ord + 1, Id(Offer(g)))
CrKe1(g) ==
  [GenReceipt("CR-KE-1", g.dev, g.ord, Id(HeldTicket(g.to, g.dev)))
     EXCEPT !.n1 = session[g.dev].n1, !.iv = session[g.dev].ivCmd]
Answer(g, type) ==
  [GenReceipt(type, g.dev, g.ord, session[g.dev].ut)
     EXCEPT !.iv = session[g.dev].ivCmd,
            !.cipher = Encrypt(g.text, session[g.dev].key, session[g.to].ivData)]

(* The device is at rest with the owner, at the order the goal began with. *)
With(g, a) == Resting(g.dev) /\ Owned(g.dev) /\ owner[g.dev] = a /\ order[g.dev] = g.ord

(* The device has gone on to the next order. *)
Past(g, a) == Resting(g.dev) /\ owner[g.dev] = a /\ order[g.dev] = g.ord + 1

GrantedToNobody(a, d) == table[a][d].accUOthers = NoUT \/ table[a][d].accUOthers.order # order[d]

Initializing(g, n) ==
  LET unowned == Resting(g.dev) /\ order[g.dev] = 0 /\ owner[g.dev] = NoOne
      asked   == initTicket[g.to] = GenInitTicket(g.to)
  IN
  g.ord = 0 /\
    \/ n = 0 /\ unowned /\ state[g.to] = Idle
    \/ n = 1 /\ unowned /\ asked /\ state[g.to] = Idle
    \/ n = 2 /\ unowned /\ asked /\ state[g.to] = "AGENT_WAIT_FOR_RT"
                /\ Carries(GenInitTicket(g.to), NoRT)
    \/ n = 3 /\ Past(g, g.to) /\ asked /\ state[g.to] = "AGENT_WAIT_FOR_RT"
                /\ Carries(NoUT, InitReceipt(g))
                /\ table[g.to][g.dev].order = 0 /\ NobodyMayEnter(g.dev)
    \/ n = 4 /\ Past(g, g.to) /\ Owned(g.dev) /\ state[g.to] = Idle

Transferring(g, n) ==
  LET offered == /\ table[g.by][g.dev].ownUOthers = Offer(g)
                 /\ table[g.by][g.dev].order = g.ord
      received == /\ HeldTicket(g.to, g.dev) = Offer(g)
                  /\ table[g.to][g.dev].ownUOthers = NoUT
      behind == table[g.to][g.dev].order = g.ord
      stored == table[g.to][g.dev].rOwner = TransferReceipt(g)
  IN
    \/ n = 0 /\ With(g, g.by) /\ state[g.to] = Idle
    \/ n = 1 /\ With(g, g.by) /\ state[g.to] = Idle /\ offered /\ Carries(Offer(g), NoRT)
    \/ n = 2 /\ With(g, g.by) /\ state[g.to] = Idle /\ offered /\ received /\ behind
    \/ n = 3 /\ With(g, g.by) /\ state[g.to] = "AGENT_WAIT_FOR_RT" /\ offered /\ received
                /\ behind /\ Carries(Offer(g), NoRT)
    \/ n = 4 /\ Past(g, g.to) /\ state[g.to] = "AGENT_WAIT_FOR_RT" /\ offered /\ received
                /\ behind /\ Carries(NoUT, TransferReceipt(g))
    \/ n = 5 /\ Past(g, g.to) /\ Owned(g.dev) /\ state[g.to] = Idle /\ offered /\ stored
    \/ n = 6 /\ Past(g, g.to) /\ Owned(g.dev) /\ state[g.to] = Idle /\ offered
                /\ Carries(NoUT, TransferReceipt(g))
    \/ n = 7 /\ Past(g, g.to) /\ Owned(g.dev) /\ state[g.to] = Idle

(* Opening a session, after so many calls of the handshake.                *)
Opening(g, n) ==
  LET a == g.to
      d == g.dev
      u == HeldTicket(a, d)
      ticket == u.type \in AccessTypes /\ u.order = g.ord /\ u.scope = g.scope
      asked  == session[a].ut = Id(u) /\ session[a].cmd = g.text
      opened == state[d] = "DEVICE_WAIT_FOR_CRKE2" /\ session[d].ut = Id(u)
      shared == /\ session[a].ut = Id(u) /\ session[a].ivCmd = session[d].ivCmd
                /\ session[a].key = SessionKey(session[d].n1, session[a].key.n2, d, a)
                /\ session[a].cipher = Encrypt(g.text, session[a].key, session[d].ivCmd)
  IN
  /\ Owned(d) /\ order[d] = g.ord /\ ticket
  /\ \/ n = 0 /\ Resting(d) /\ state[a] = Idle
     \/ n = 1 /\ Resting(d) /\ state[a] = "AGENT_WAIT_FOR_CRKE1" /\ asked /\ Carries(u, NoRT)
     \/ n = 2 /\ opened /\ state[a] = "AGENT_WAIT_FOR_CRKE1" /\ asked /\ Carries(NoUT, CrKe1(g))
     \/ n = 3 /\ opened /\ state[a] = "AGENT_WAIT_FOR_CRKE3" /\ shared
                  /\ Carries(NoUT, CrKe2(a, session[a]))
     \/ n = 4 /\ state[a] = "AGENT_WAIT_FOR_CRKE3" /\ session[a].ut = Id(u)
                  /\ IF Allowed(g)
                     THEN Serving(a, d) /\ Carries(NoUT, Answer(g, "CR-KE-3"))
                     ELSE Resting(d) /\ Carries(NoUT, GenFailure("CR-KE-3", d, g.ord))
     \/ n = 5 /\ state[a] = Idle
                  /\ IF Allowed(g)
                     THEN Serving(a, d) /\ Agreed(a, d) /\ session[a].data = g.text
                     ELSE Resting(d)

Entering(g, n) ==
  \/ /\ g.kind = "Reopen"
     /\ Opening(g, n)
  \/ /\ g.kind = "SelfAccess"
     /\ \/ n = 0 /\ With(g, g.to) /\ state[g.to] = Idle
        \/ n \in 1 .. 6 /\ Opening(g, n - 1)
  \/ /\ g.kind = "Access"
     /\ \/ n = 0 /\ With(g, g.by) /\ state[g.to] = Idle /\ GrantedToNobody(g.by, g.dev)
        \/ n = 1 /\ With(g, g.by) /\ state[g.to] = Idle
                    /\ table[g.by][g.dev].accUOthers = Grant(g) /\ Carries(Grant(g), NoRT)
        \/ n \in 2 .. 7 /\ Opening(g, n - 2)

Commanding(g, n) ==
  LET a == g.to
      d == g.dev
  IN
  /\ Serving(a, d) /\ order[d] = g.ord /\ session[d].ut.scope = g.scope
  /\ \/ n = 0 /\ Agreed(a, d)
     \/ n = 1 /\ Agreed(a, d) /\ state[a] = "AGENT_WAIT_FOR_DATA"
                 /\ Carries(Token(g, "CMD_UTOKEN"), NoRT)
     \/ n = 2 /\ state[a] = "AGENT_WAIT_FOR_DATA"
                 /\ IF Allowed(g)
                    THEN Carries(NoUT, Answer(g, "DATA_RTOKEN"))
                    ELSE Agreed(a, d) /\ Carries(NoUT, GenFailure("DATA_RTOKEN", d, g.ord))
     \/ n = 3 /\ Agreed(a, d) /\ (Allowed(g) => session[a].data = g.text)
                 /\ state[a] \in {"DEVICE_WAIT_FOR_CMD", "AGENT_WAIT_FOR_DATA"}

(* The owner may be in a session of her own and drop the report. *)
Ending(g, n) ==
  LET a == g.to
      b == g.by
      d == g.dev
      u == HeldTicket(a, d)
      inside == Serving(a, d) /\ Agreed(a, d) /\ owner[d] = b /\ order[d] = g.ord
  IN
    \/ n = 0 /\ inside
    \/ n = 1 /\ inside /\ state[a] = "AGENT_WAIT_FOR_RT" /\ Carries(Token(g, "ACCESS_END"), NoRT)
    \/ n = 2 /\ Past(g, b) /\ NobodyMayEnter(d) /\ table[b][d].order = g.ord
                /\ state[a] = "AGENT_WAIT_FOR_RT"
                /\ u.dev = d /\ u.order = g.ord /\ u.order < MaxOrder /\ table[a][d].order = g.ord
                /\ (a # b => /\ Granted(d) = u /\ u.type = "ACCESS" /\ u.holder = a
                             /\ table[a][d].accUOthers = NoUT)
                /\ Carries(NoUT, EndReceipt(u))
    \/ n = 3 /\ Past(g, b) /\ state[a] = Idle /\ IF a = b THEN Owned(d) ELSE Behind(a, b, d)
    \/ n = 4 /\ Past(g, b) /\ state[a] = Idle /\ Behind(a, b, d)
                /\ Carries(NoUT, EndReceipt(Granted(d)))
    \/ n = 5 /\ Past(g, b) /\ state[a] = Idle
                /\ (Owned(d) \/ (Behind(a, b, d) /\ ~ Free(b)))

Repeating(g, n) ==
  /\ owner[g.dev] = g.by /\ order[g.dev] = g.ord /\ state[g.to] = Idle
  /\ \/ n = 0 /\ Behind(g.to, g.by, g.dev)
     \/ n = 1 /\ Behind(g.to, g.by, g.dev) /\ Carries(NoUT, EndReceipt(Granted(g.dev)))
     \/ n = 2 /\ Resting(g.dev) /\ Owned(g.dev)

(* What the application asked for makes sense.                             *)
GoalOk(g) ==
  /\ g \in Goals
  /\ g.kind \in {"Initialize", "SelfAccess"} => g.by = g.to
  /\ g.kind \in {"Transfer", "Access", "Report"} => g.by # g.to
  /\ g.kind \in {"Transfer", "SelfAccess", "Access"} => g.ord < MaxOrder
  /\ g.kind = "SelfAccess" => g.scope = AllScope
  /\ g.kind = "End" => g.text = EndCmd

(* The others are not disturbed, and the issuer is there for the report.   *)
Undisturbed(g) ==
  /\ \A e \in Devices \ {g.dev} : Settled(e) /\ UserOf(e) # g.to
  /\ UserOf(g.dev) \in {NoOne, g.to}
  /\ g.kind \in {"Transfer", "Access", "Report"} => Free(g.by)
  /\ \A a \in Agents \ {g.to} : IdleAgent(a)

Phase(g, n) ==
  /\ g.kind = "Initialize" => Initializing(g, n)
  /\ g.kind = "Transfer"   => Transferring(g, n)
  /\ g.kind \in Entry      => Entering(g, n)
  /\ g.kind = "Command"    => Commanding(g, n)
  /\ g.kind = "End"        => Ending(g, n)
  /\ g.kind = "Report"     => Repeating(g, n)

Sound == \A a \in Agents, d \in Devices : TicketSound(a, d)

(***************************************************************************)
(* What a call may do beside taking its sequence to the next phase.        *)
(***************************************************************************)
(* It is about one device, the agent that uses it and who issued the ticket. *)
Around(g) ==
  /\ \A e \in Devices \ {g.dev} : UNCHANGED <<state[e], session[e], order[e], owner[e]>>
  /\ \A x \in Agents \ {g.to} : UNCHANGED <<state[x], session[x]>>
  /\ \A x \in Agents, e \in Devices :
       table'[x][e] # table[x][e] => e = g.dev /\ x \in {g.by, g.to}

Book(d) == IF owner[d] = NoOne THEN 0 ELSE table[owner[d]][d].order

(* The effect on the service: none, or one of those of TicketService.      *)
Serves(g) ==
  LET d == g.dev
      ownerSame == owner'[d] = owner[d]
      orderSame == order'[d] = order[d]
      orderNext == order[d] = g.ord /\ order'[d] = order[d] + 1
      userSame  == UserOf(d)' = UserOf(d)
      bookSame  == Book(d)' = Book(d)
      readSame  == session'[g.to].data = session[g.to].data
  IN
    \/ ownerSame /\ orderSame /\ userSame /\ bookSame /\ readSame
    \/ /\ g.kind \in {"Initialize", "Transfer"}
       /\ UserOf(d) = NoOne /\ owner'[d] = g.to
       /\ orderNext /\ userSame /\ bookSame /\ readSame
    \/ /\ g.kind \in Entry /\ Allowed(g)
       /\ UserOf(d) = NoOne /\ UserOf(d)' = g.to
       /\ ownerSame /\ orderSame /\ bookSame /\ readSame
    \/ /\ g.kind \in Entry \cup {"Command"} /\ Allowed(g)
       /\ UserOf(d) = g.to /\ session'[g.to].data = g.text
       /\ ownerSame /\ orderSame /\ userSame /\ bookSame
    \/ /\ g.kind = "End"
       /\ UserOf(d) = g.to /\ UserOf(d)' = NoOne
       /\ ownerSame /\ orderNext /\ bookSame /\ readSame
    \/ /\ Book(d) # order[d] /\ Book(d)' = order[d]
       /\ ownerSame /\ orderSame /\ userSame /\ readSame

SoundAt(d) == \A a \in Agents : TicketSound(a, d)

Advances(g, n) ==
  /\ Phase(g, n)'
  /\ Around(g)
  /\ SoundAt(g.dev)'
  /\ UserOf(g.dev)' \in {NoOne, g.to}
  /\ Serves(g)

(***************************************************************************)
(* Goals, records and rows.                                                *)
(***************************************************************************)
LEMMA GoalFields ==
  ASSUME NEW g \in Goals
  PROVE  /\ g.dev \in Devices /\ g.by \in Agents /\ g.to \in Agents
         /\ g.scope \in SUBSET Texts /\ g.text \in Texts /\ g.ord \in Nat
         /\ g.kind \in {"Initialize", "Transfer", "Command", "End", "Report",
                         "SelfAccess", "Access", "Reopen"}
         /\ g.dev \in Controllers /\ g.to \in Controllers /\ g.by \in Controllers
         /\ g.dev # g.to /\ g.dev # g.by /\ g.to # NoOne /\ g.by # NoOne /\ g.dev # NoId
<1>1. g \in [kind : {"Initialize", "Transfer", "Command", "End", "Report"} \cup Entry, dev : Devices,
              by : Agents, to : Agents, scope : SUBSET Texts, text : Texts, ord : 0 .. MaxOrder]
  BY DEF Goals
<1>2. /\ g.dev \in Devices /\ g.by \in Agents /\ g.to \in Agents
      /\ g.scope \in SUBSET Texts /\ g.text \in Texts /\ g.ord \in 0 .. MaxOrder
      /\ g.kind \in {"Initialize", "Transfer", "Command", "End", "Report"} \cup Entry
  BY <1>1
<1> QED
  BY <1>2, InputsAssumption, PartiesAssumption DEF Entry, Controllers

(* What the invariant says of a ticket survives when order, owner and rows *)
(* stay, and when the device goes on to the next order.                    *)
TicketsKept(d) ==
  \A x \in Agents : /\ table'[x][d].uOwner = table[x][d].uOwner
                    /\ table'[x][d].order = table[x][d].order
                    /\ table'[x][d].accUOthers = table[x][d].accUOthers

LEMMA SoundKept ==
  ASSUME NEW d \in Devices, SoundAt(d), TicketsKept(d),
         order'[d] = order[d], owner'[d] = owner[d]
  PROVE  SoundAt(d)'
BY DEF SoundAt, TicketsKept, TicketSound, HeldTicket

LEMMA SoundBut ==
  ASSUME NEW d \in Devices, SoundAt(d), order'[d] = order[d], owner'[d] = owner[d],
         NEW a \in Agents, TicketSound(a, d)',
         \A x \in Agents \ {a} : table'[x][d] = table[x][d],
         owner[d] = a => table'[a][d].accUOthers = table[a][d].accUOthers
  PROVE  SoundAt(d)'
<1>1. ASSUME NEW x \in Agents \ {a}
      PROVE  TicketSound(x, d)'
  <2>1. TicketSound(x, d) /\ table'[x][d] = table[x][d]
    BY DEF SoundAt
  <2>2. owner[d] \in Agents => table'[owner[d]][d].accUOthers = table[owner[d]][d].accUOthers
    OBVIOUS
  <2> QED
    BY <2>1, <2>2 DEF TicketSound, HeldTicket
<1> QED
  BY <1>1 DEF SoundAt

LEMMA SoundPast ==
  ASSUME NEW d \in Devices, TypeOK, SoundAt(d), order'[d] = order[d] + 1,
         \A x \in Agents : table'[x][d].uOwner = table[x][d].uOwner
  PROVE  SoundAt(d)' /\ NobodyMayEnter(d)'
<1>1. ASSUME NEW x \in Agents
      PROVE  /\ TicketSound(x, d)'
             /\ HeldTicket(x, d)'.type \in AccessTypes => HeldTicket(x, d)'.order # order'[d]
  <2>1. order[d] \in Nat /\ table[x][d].uOwner.order \in Nat
    BY TypeParts, UTicketFields
  <2>2. TicketSound(x, d)
    BY DEF SoundAt
  <2> QED
    BY <2>1, <2>2 DEF TicketSound, HeldTicket
<1> QED
  BY <1>1 DEF SoundAt, NobodyMayEnter

(***************************************************************************)
(* A call that the service does not notice.                                *)
(***************************************************************************)
Noticed(g) ==
  /\ SoundAt(g.dev)'
  /\ UserOf(g.dev)' \in {NoOne, g.to}
  /\ Serves(g)

LEMMA BookKept ==
  ASSUME NEW d \in Devices, TypeOK, TicketsKept(d), owner'[d] = owner[d]
  PROVE  Book(d)' = Book(d)
<1>1. owner[d] = NoOne \/ owner[d] \in Agents
  BY TypeParts DEF Persons
<1> QED
  BY <1>1 DEF Book, TicketsKept

LEMMA Unnoticed ==
  ASSUME NEW g \in Goals, SafeInv, Sound, Undisturbed(g), TicketsKept(g.dev),
         order'[g.dev] = order[g.dev], owner'[g.dev] = owner[g.dev],
         UserOf(g.dev)' = UserOf(g.dev), session'[g.to].data = session[g.to].data
  PROVE  Noticed(g)
<1>1. g.dev \in Devices /\ TypeOK /\ SoundAt(g.dev)
  BY GoalFields DEF SafeInv, Sound, SoundAt
<1>2. SoundAt(g.dev)'
  BY <1>1, SoundKept
<1>3. Book(g.dev)' = Book(g.dev)
  BY <1>1, BookKept
<1>4. UserOf(g.dev)' \in {NoOne, g.to}
  BY DEF Undisturbed
<1> QED
  BY <1>2, <1>3, <1>4 DEF Noticed, Serves

(***************************************************************************)
(* Which handler takes what is in the channel: one of the receiver's state *)
(* and of the kind of message.                                             *)
(***************************************************************************)
LEMMA AgentTakes ==
  ASSUME NEW a \in Agents, AgentRecv(a)
  PROVE  /\ state[a] = Idle /\ channel.r = NoRT => AgentRecvUTicket(a)
         /\ state[a] = Idle /\ channel.u = NoUT /\ channel.r.type \in ReceiptTypes =>
              IssuerRecvRTicket(a)
         /\ state[a] = "AGENT_WAIT_FOR_RT" => HolderRecvRTicket(a)
         /\ state[a] = "AGENT_WAIT_FOR_CRKE1" => HolderRecvCrKe1(a)
         /\ state[a] = "AGENT_WAIT_FOR_CRKE3" => HolderRecvCrKe3(a)
         /\ state[a] = "AGENT_WAIT_FOR_DATA" => HolderRecvData(a)
         /\ state[a] = "DEVICE_WAIT_FOR_CMD" => AgentRefusesAsDevice(a)
<1>1. NoUT.type \notin UTypes /\ NoRT.type \notin RTypes
  BY EmptyFields DEF UTypes, StoredUTypes, TokenTypes, RTypes, ReceiptTypes, CrKeTypes
<1>2. ReceiptTypes \subseteq RTypes
  BY DEF RTypes
<1> QED
  BY <1>1, <1>2 DEF AgentRecv, AgentRecvUTicket, IssuerRecvRTicket, IssuerRefuseRTicket, HolderRecvRTicket,
                    HolderRecvCrKe1, HolderRecvCrKe3, HolderRecvData, AgentRefusesAsDevice,
                    Incoming, Idle

LEMMA DeviceTakes ==
  ASSUME NEW d \in Devices, DeviceRecv(d)
  PROVE  /\ state[d] = "DEVICE_WAIT_FOR_UT" /\ CanExecute(d, channel.u) =>
              /\ channel.u.type \in {"INITIALIZATION", "OWNERSHIP"} => DeviceExecuteOwnership(d)
              /\ channel.u.type \in AccessTypes => DeviceOpenSession(d)
         /\ state[d] = "DEVICE_WAIT_FOR_CRKE2" => DeviceAcceptCrKe2(d) \/ DeviceRefuseCrKe2(d)
         /\ state[d] = "DEVICE_WAIT_FOR_CMD" =>
              /\ channel.u.type = "CMD_UTOKEN" => DeviceExecuteCmd(d) \/ DeviceRefuseToken(d)
              /\ channel.u.type = "ACCESS_END" => DeviceEndAccess(d) \/ DeviceRefuseToken(d)
BY DEF DeviceRecv, DeviceExecuteOwnership, DeviceOpenSession, DeviceRefuseUTicket, DeviceDropMessage,
       DeviceAcceptCrKe2, DeviceRefuseCrKe2, DeviceExecuteCmd, DeviceEndAccess, DeviceRefuseToken,
       DeviceExecuteTicketInSession, DeviceIgnoreInSession, LostDeviceDropsMessage, Incoming,
       Lost, AccessTypes, StoredUTypes, TokenTypes

(* Touching a row changes nothing that matters in it, and no other row.    *)
OnlyRow(a, d) ==
  \A x \in Agents, e \in Devices : table'[x][e] # table[x][e] => x = a /\ e = d

RowsKept(d) ==
  \A x \in Agents : /\ table'[x][d].uOwner = table[x][d].uOwner
                    /\ table'[x][d].order = table[x][d].order
                    /\ table'[x][d].accUOthers = table[x][d].accUOthers
                    /\ table'[x][d].ownUOthers = table[x][d].ownUOthers
                    /\ table'[x][d].rOwner = table[x][d].rOwner

LEMMA TouchKeeps ==
  ASSUME TypeOK, NEW a \in Agents, NEW d \in Devices, TouchRow(a, d)
  PROVE  OnlyRow(a, d) /\ RowsKept(d) /\ TicketsKept(d)
<1>1. \A x \in Agents, e \in Devices :
        table'[x][e] = IF x = a /\ e = d THEN [table[a][d] EXCEPT !.present = TRUE] ELSE table[x][e]
  BY DEF TouchRow, TypeOK
<1>2. table[a][d] \in Row
  BY TypeParts
<1>3. RowsKept(d)
  BY <1>1, <1>2 DEF RowsKept, Row
<1> QED
  BY <1>1, <1>3 DEF OnlyRow, RowsKept, TicketsKept

LEMMA OfferFields ==
  ASSUME NEW g \in Goals
  PROVE  LET u == Offer(g) IN
           /\ u \in UTicket /\ u.type = "OWNERSHIP" /\ u.dev = g.dev /\ u.order = g.ord
           /\ u.holder = g.to /\ u.signer = g.by /\ u # NoUT
<1> DEFINE u == GenTicket("OWNERSHIP", g.dev, g.ord, g.to, {}, g.by)
<1>1. /\ "OWNERSHIP" \in StoredUTypes /\ g.to \in Persons /\ {} \in SUBSET Texts
      /\ g.dev \in Devices /\ g.ord \in Nat /\ g.by \in Agents
  BY GoalFields DEF StoredUTypes, Persons
<1>2. /\ u \in UTicket /\ u.type = "OWNERSHIP" /\ u.dev = g.dev /\ u.order = g.ord
      /\ u.holder = g.to /\ u.signer = g.by
  BY <1>1, GenTicketType
<1> QED
  BY <1>2, EmptyFields DEF Offer

LEMMA InitFields ==
  ASSUME NEW a \in Agents
  PROVE  LET u == GenInitTicket(a) IN
           /\ u \in UTicket /\ u.type = "INITIALIZATION" /\ u.dev = NoId /\ u.order = 0
           /\ u.holder = a
<1>1. GenInitTicket(a).holder = a
  BY DEF GenInitTicket, NoUT
<1> QED
  BY <1>1, GenInitTicketType DEF Persons

LEMMA GrantFields ==
  ASSUME NEW g \in Goals
  PROVE  LET u == Grant(g) IN
           /\ u \in UTicket /\ u.type = "ACCESS" /\ u.dev = g.dev /\ u.order = g.ord
           /\ u.holder = g.to /\ u.signer = g.by /\ u.scope = g.scope
<1>1. /\ "ACCESS" \in StoredUTypes /\ g.to \in Persons /\ g.scope \in SUBSET Texts
      /\ g.dev \in Devices /\ g.ord \in Nat /\ g.by \in Agents
  BY GoalFields DEF StoredUTypes, Persons
<1>2. Grant(g) \in UTicket
  BY <1>1, GenTicketType DEF Grant
<1> QED
  BY <1>2 DEF Grant, GenTicket, NoUT

LEMMA IdFields ==
  ASSUME NEW u \in UTicket
  PROVE  /\ Id(u).type = u.type /\ Id(u).scope = u.scope /\ Id(u).holder = u.holder
         /\ Id(u).dev = u.dev /\ Id(u).order = u.order
BY DEF Id, UTicket

LEMMA TransferReceiptFields ==
  ASSUME NEW g \in Goals
  PROVE  LET r == TransferReceipt(g) IN
           /\ r.type = "OWNERSHIP" /\ r.dev = g.dev /\ r.ok /\ r.order = g.ord + 1
           /\ r.start = Id(Offer(g))
BY DEF TransferReceipt, GenReceipt, NoRT

(***************************************************************************)
(* What the calls do.                                                      *)
(***************************************************************************)
SetsRow(a, d, row) ==
  \A x \in Agents, e \in Devices :
    table'[x][e] = IF x = a /\ e = d THEN row ELSE table[x][e]

(* A ticket is received: its row is new.                                   *)
ReceivedRow(u) == [NoRow EXCEPT !.present = TRUE, !.order = u.order, !.uOwner = u]

LEMMA ReceivedRowFields ==
  ASSUME NEW u \in UTicket
  PROVE  LET row == ReceivedRow(u) IN
           /\ row.uOwner = u /\ row.order = u.order
           /\ row.ownUOthers = NoUT /\ row.accUOthers = NoUT
BY DEF ReceivedRow, NoRow

LEMMA TicketReceived ==
  ASSUME TypeOK, NEW a \in Agents, NEW u \in UTicket, u.type \in {"OWNERSHIP", "ACCESS"},
         u.dev \in Devices, channel.u = u, AgentRecvUTicket(a)
  PROVE  /\ UNCHANGED <<state, order, owner, session>>
         /\ SetsRow(a, u.dev, ReceivedRow(u))
<1>1. table' = [table EXCEPT ![a][u.dev] = ReceivedRow(u)]
  BY DEF AgentRecvUTicket, ReceivedRow
<1> QED
  BY <1>1 DEF AgentRecvUTicket, SetsRow, TypeOK

(* A receipt is received that is what the holder waits for.                *)
LEMMA ReceiptTaken ==
  ASSUME TypeOK, NEW a \in Agents, NEW d \in Devices, channel.r.dev = d,
         channel.r.type \in ReceiptTypes, NEW row, StoredRow(a, channel.r) = row,
         HasExecuted(a, row.uOwner, channel.r), HolderRecvRTicket(a)
  PROVE  /\ UNCHANGED <<order, owner, session>>
         /\ state'[a] = Idle /\ \A c \in Controllers \ {a} : state'[c] = state[c]
         /\ SetsRow(a, d, [row EXCEPT !.order = channel.r.order])
<1>1. /\ SetRow(a, d, [row EXCEPT !.order = channel.r.order])
      /\ Goto(a, Idle) /\ UNCHANGED <<order, owner, session>>
  BY DEF HolderRecvRTicket
<1>2. a \in Controllers
  BY DEF Controllers
<1> QED
  BY <1>1, <1>2 DEF SetRow, SetsRow, Goto, TypeOK

LEMMA AccessApplied ==
  ASSUME NEW a, NEW d, NEW cmd, NEW u, StoredUTicket(a, d) = u,
         u.type \in {"ACCESS", "SELFACCESS"}, HolderApplyUTicket(a, d, cmd)
  PROVE  /\ UNCHANGED <<order, owner>> /\ TouchRow(a, d)
         /\ session' = [session EXCEPT ![a].ut = Id(u), ![a].cmd = cmd]
         /\ state' = [state EXCEPT ![a] = "AGENT_WAIT_FOR_CRKE1"]
         /\ channel'.u = u /\ channel'.r = NoRT
<1>1. u.type # "" /\ u.type \notin {"INITIALIZATION", "OWNERSHIP"}
  OBVIOUS
<1>2. /\ Goto(a, "AGENT_WAIT_FOR_CRKE1") /\ SendU(u, a)
      /\ session' = [session EXCEPT ![a].ut = Id(u), ![a].cmd = cmd]
  BY <1>1 DEF HolderApplyUTicket
<1> QED
  BY <1>2 DEF HolderApplyUTicket, Goto, SendU

ReadyTo(g, call) == SafeInv /\ Sound /\ GoalOk(g) /\ Undisturbed(g) /\ Make(call, g)

Ready(g, n, call) == Phase(g, n) /\ ReadyTo(g, call)

(* A report is received that the issuer waits for: the row goes with the   *)
(* device, the ticket goes with the access.                                *)
ReportedRow(a, r) ==
  IF r.type = "OWNERSHIP" THEN NoRow
                          ELSE [StoredRow(a, r) EXCEPT !.accUOthers = NoUT, !.order = r.order]

LEMMA ReportTaken ==
  ASSUME TypeOK, NEW a \in Agents, NEW d \in Devices, channel.r.dev = d,
         channel.r.type \in {"OWNERSHIP", "ACCESS_END"},
         NEW start, IssuedUTicket(a, channel.r) = start, start # NoUT,
         HasExecuted(a, start, channel.r), IssuerRecvRTicket(a)
  PROVE  /\ UNCHANGED <<state, order, owner, session>>
         /\ SetsRow(a, d, ReportedRow(a, channel.r))
<1>1. SetRow(a, d, ReportedRow(a, channel.r)) /\ UNCHANGED <<state, order, owner, session>>
  BY DEF IssuerRecvRTicket, ReportedRow
<1> QED
  BY <1>1 DEF SetRow, SetsRow, TypeOK

(* A ticket is applied: one that a receipt answers, one that opens a session. *)
LEMMA TicketApplied ==
  ASSUME NEW a, NEW d, NEW cmd, NEW u, StoredUTicket(a, d) = u,
         u.type \in {"INITIALIZATION", "OWNERSHIP"}, HolderApplyUTicket(a, d, cmd)
  PROVE  /\ UNCHANGED <<order, owner, session>> /\ TouchRow(a, d)
         /\ state' = [state EXCEPT ![a] = "AGENT_WAIT_FOR_RT"]
         /\ channel'.u = u /\ channel'.r = NoRT
<1>1. u.type # "" /\ u.type \notin {"ACCESS", "SELFACCESS"}
  OBVIOUS
<1>2. Goto(a, "AGENT_WAIT_FOR_RT") /\ SendU(u, a) /\ UNCHANGED session
  BY <1>1 DEF HolderApplyUTicket
<1> QED
  BY <1>2 DEF HolderApplyUTicket, Goto, SendU

LEMMA ReadyFacts ==
  ASSUME NEW g \in Goals, NEW call, ReadyTo(g, call)
  PROVE  /\ SafeInv /\ TypeOK /\ Sound /\ SoundAt(g.dev) /\ GoalOk(g) /\ Undisturbed(g)
         /\ g.dev \in Devices /\ g.by \in Agents /\ g.to \in Agents /\ g.ord \in Nat
         /\ g.dev \in Controllers /\ g.to \in Controllers /\ g.by \in Controllers
         /\ g.dev # g.to /\ g.dev # g.by /\ g.to # NoOne /\ g.by # NoOne /\ g.dev # NoId
         /\ g.kind \in {"Transfer", "Access"} => g.to # g.by
BY GoalFields DEF ReadyTo, SafeInv, GoalOk, Sound, SoundAt

(***************************************************************************)
(* A transfer.                                                             *)
(***************************************************************************)
LEMMA TransferIssued ==
  ASSUME NEW g \in Goals, g.kind = "Transfer", Ready(g, 0, "Issue")
  PROVE  Advances(g, 1)
<1> DEFINE a == g.to
           b == g.by
           d == g.dev
<1>g. /\ a \in Agents /\ b \in Agents /\ d \in Devices /\ a # b /\ a # d /\ b # d
      /\ TypeOK /\ SafeInv /\ Sound /\ Undisturbed(g)
  BY ReadyFacts DEF Ready
<1>1. With(g, b) /\ state[a] = Idle
  BY DEF Ready, Phase, Transferring
<1>2. IssueOwnershipToHolder(b, d, a)
  BY DEF Ready, ReadyTo, Make, IssueFor
<1>3. /\ UNCHANGED <<state, order, owner, session, initTicket>>
      /\ channel'.u = Offer(g) /\ channel'.r = NoRT
      /\ table' = [table EXCEPT ![b][d].ownUOthers = Offer(g)]
  BY <1>g, <1>1, <1>2 DEF IssueOwnershipToHolder, With, Owned, Offer, SendU
<1>4. \A x \in Agents, e \in Devices :
        table'[x][e] = IF x = b /\ e = d THEN [table[b][d] EXCEPT !.ownUOthers = Offer(g)]
                                         ELSE table[x][e]
  BY <1>3, <1>g DEF TypeOK
<1>5. TicketsKept(d) /\ table'[b][d].ownUOthers = Offer(g)
  BY <1>4, <1>g, TypeParts DEF TicketsKept, Row
<1>6. Phase(g, 1)'
  BY <1>g, <1>1, <1>3, <1>5 DEF Phase, Transferring, Entry, With, Resting, Owned, Carries, TicketsKept,
                             Offer
<1>7. Around(g)
  BY <1>3, <1>4 DEF Around
<1>8. Noticed(g)
  BY <1>3, <1>5, <1>g, Unnoticed DEF UserOf
<1> QED
  BY <1>6, <1>7, <1>8 DEF Advances, Noticed

LEMMA TransferReceived ==
  ASSUME NEW g \in Goals, g.kind = "Transfer", Ready(g, 1, "HolderRecv")
  PROVE  Advances(g, 2)
<1> DEFINE a == g.to
           b == g.by
           d == g.dev
<1>g. /\ a \in Agents /\ b \in Agents /\ d \in Devices /\ a # b
      /\ TypeOK /\ SoundAt(d) /\ Undisturbed(g)
  BY ReadyFacts DEF Ready
<1>1. /\ With(g, b) /\ state[a] = Idle /\ Carries(Offer(g), NoRT)
      /\ table[b][d].ownUOthers = Offer(g) /\ table[b][d].order = g.ord
  BY DEF Ready, Phase, Transferring
<1>2. AgentRecvUTicket(a)
  BY <1>1, <1>g, AgentTakes DEF Ready, ReadyTo, Make, Carries
<1>3. /\ UNCHANGED <<state, order, owner, session>>
      /\ SetsRow(a, d, ReceivedRow(Offer(g)))
  BY <1>1, <1>2, <1>g, OfferFields, TicketReceived DEF Carries
<1>4. /\ table'[a][d].uOwner = Offer(g) /\ table'[a][d].order = g.ord
      /\ table'[a][d].ownUOthers = NoUT
      /\ \A x \in Agents \ {a} : table'[x][d] = table[x][d]
  BY <1>3, <1>g, OfferFields, ReceivedRowFields DEF SetsRow
<1>5. Phase(g, 2)'
  BY <1>g, <1>1, <1>3, <1>4 DEF Phase, Transferring, Entry, With, Resting, Owned, HeldTicket, Offer
<1>6. Around(g)
  BY <1>3, <1>g DEF Around, SetsRow
<1>7. SoundAt(d)'
  <2>1. TicketSound(a, d)'
    BY <1>4, OfferFields DEF TicketSound, HeldTicket, AccessTypes
  <2> QED
    BY <2>1, <1>1, <1>3, <1>4, <1>g, SoundBut DEF With
<1>8. Book(d)' = Book(d) /\ UserOf(d)' = UserOf(d)
  BY <1>1, <1>3, <1>4, <1>g DEF Book, With, UserOf
<1> QED
  BY <1>3, <1>5, <1>6, <1>7, <1>8, <1>g DEF Advances, Serves, Undisturbed

LEMMA TransferApplied ==
  ASSUME NEW g \in Goals, g.kind = "Transfer", Ready(g, 2, "Apply")
  PROVE  Advances(g, 3)
<1> DEFINE a == g.to
           b == g.by
           d == g.dev
<1>g. /\ a \in Agents /\ b \in Agents /\ d \in Devices /\ a # b /\ a # d /\ d # NoId
      /\ a \in Controllers /\ d \in Controllers
      /\ TypeOK /\ SafeInv /\ Sound /\ Undisturbed(g)
  BY ReadyFacts DEF Ready
<1>1. /\ With(g, b) /\ table[b][d].ownUOthers = Offer(g) /\ table[b][d].order = g.ord
      /\ HeldTicket(a, d) = Offer(g) /\ table[a][d].ownUOthers = NoUT
      /\ table[a][d].order = g.ord
  BY DEF Ready, Phase, Transferring
<1>2. HolderApplyUTicket(a, d, g.text)
  BY DEF Ready, ReadyTo, Make, ApplyFor
<1>3. StoredUTicket(a, d) = Offer(g)
  BY <1>1, <1>g DEF StoredUTicket, HeldTicket
<1>4. /\ UNCHANGED <<order, owner, session>> /\ TouchRow(a, d)
      /\ state' = [state EXCEPT ![a] = "AGENT_WAIT_FOR_RT"]
      /\ channel'.u = Offer(g) /\ channel'.r = NoRT
  BY <1>2, <1>3, OfferFields, TicketApplied
<1>5. OnlyRow(a, d) /\ RowsKept(d) /\ TicketsKept(d)
  BY <1>4, <1>g, TouchKeeps
<1>6. /\ state'[a] = "AGENT_WAIT_FOR_RT"
      /\ \A c \in Controllers \ {a} : state'[c] = state[c]
  BY <1>4, <1>g DEF TypeOK
<1>7. Phase(g, 3)'
  BY <1>g, <1>1, <1>4, <1>5, <1>6
     DEF Phase, Transferring, Entry, With, Resting, Owned, HeldTicket, RowsKept, Carries, Offer
<1>8. Around(g)
  BY <1>4, <1>5, <1>6, <1>g, PartiesAssumption DEF Around, OnlyRow, Controllers
<1>9. Noticed(g)
  BY <1>4, <1>5, <1>6, <1>g, Unnoticed DEF UserOf
<1> QED
  BY <1>7, <1>8, <1>9 DEF Advances, Noticed

LEMMA TransferExecuted ==
  ASSUME NEW g \in Goals, g.kind = "Transfer", Ready(g, 3, "DeviceRecv")
  PROVE  Advances(g, 4)
<1> DEFINE a == g.to
           b == g.by
           d == g.dev
<1>g. /\ a \in Agents /\ b \in Agents /\ d \in Devices /\ a # b /\ a # d /\ a # NoOne /\ b # NoOne
      /\ a \in Controllers /\ d \in Controllers
      /\ TypeOK /\ SafeInv /\ Sound /\ Undisturbed(g)
  BY ReadyFacts DEF Ready
<1>1. /\ With(g, b) /\ table[b][d].ownUOthers = Offer(g) /\ table[b][d].order = g.ord
      /\ HeldTicket(a, d) = Offer(g) /\ table[a][d].ownUOthers = NoUT
      /\ table[a][d].order = g.ord /\ state[a] = "AGENT_WAIT_FOR_RT"
      /\ Carries(Offer(g), NoRT)
  BY DEF Ready, Phase, Transferring
<1>2. DeviceExecuteOwnership(d)
  <2>1. CanExecute(d, Offer(g))
    BY <1>1, <1>g, OfferFields
       DEF CanExecute, VerifyCanExecute, VerifyUDeviceId, VerifyUOrder, VerifyUHolder, VerifyUScope,
           VerifyUPs, VerifyUSignature, With, Owned, TokenTypes
  <2> QED
    BY <2>1, <1>1, <1>g, OfferFields, DeviceTakes DEF Ready, ReadyTo, Make, Carries, With, Resting
<1>3. /\ owner' = [owner EXCEPT ![d] = a] /\ order' = [order EXCEPT ![d] = @ + 1]
      /\ SendR(TransferReceipt(g), d)
      /\ UNCHANGED <<state, session, table>>
  BY <1>1, <1>2, OfferFields DEF DeviceExecuteOwnership, Carries, With, TransferReceipt
<1>4. /\ owner'[d] = a /\ order'[d] = g.ord + 1
      /\ \A e \in Devices \ {d} : UNCHANGED <<order[e], owner[e]>>
      /\ channel'.u = NoUT /\ channel'.r = TransferReceipt(g)
  BY <1>1, <1>3, <1>g, SendChanges DEF TypeOK, With
<1>5. Phase(g, 4)'
  BY <1>g, <1>1, <1>3, <1>4
     DEF Phase, Transferring, Entry, With, Past, Resting, HeldTicket, Carries, Offer,
         TransferReceipt
<1>6. Around(g)
  BY <1>3, <1>4 DEF Around
<1>7. SoundAt(d)'
  BY <1>1, <1>3, <1>4, <1>g, SoundPast DEF Sound, SoundAt, With
<1>8. UserOf(d) = NoOne /\ UserOf(d)' = UserOf(d) /\ Book(d)' = Book(d)
  BY <1>1, <1>3, <1>4, <1>g DEF Book, UserOf, With, Resting
<1> QED
  BY <1>1, <1>3, <1>4, <1>5, <1>6, <1>7, <1>8, <1>g DEF Advances, Serves, With

LEMMA TransferConfirmed ==
  ASSUME NEW g \in Goals, g.kind = "Transfer", Ready(g, 4, "HolderRecv")
  PROVE  Advances(g, 5)
<1> DEFINE a == g.to
           b == g.by
           d == g.dev
           r == TransferReceipt(g)
           row == [table[a][d] EXCEPT !.present = TRUE, !.rOwner = r]
<1>g. /\ a \in Agents /\ b \in Agents /\ d \in Devices /\ a # b /\ a # d /\ g.ord \in Nat /\ a # NoOne /\ SoundAt(d)
      /\ a \in Controllers /\ d \in Controllers
      /\ TypeOK /\ SafeInv /\ Sound /\ Undisturbed(g) /\ table[a][d] \in Row
  BY ReadyFacts, TypeParts DEF Ready
<1>1. /\ Past(g, a) /\ table[b][d].ownUOthers = Offer(g) /\ table[b][d].order = g.ord
      /\ HeldTicket(a, d) = Offer(g) /\ table[a][d].ownUOthers = NoUT
      /\ table[a][d].order = g.ord /\ state[a] = "AGENT_WAIT_FOR_RT"
      /\ Carries(NoUT, r)
  BY DEF Ready, Phase, Transferring
<1>2. HolderRecvRTicket(a)
  BY <1>1, <1>g, AgentTakes DEF Ready, ReadyTo, Make
<1>3. /\ r.type = "OWNERSHIP" /\ r.dev = d /\ r.ok /\ r.order = g.ord + 1
      /\ r.start = Id(Offer(g))
  BY <1>g, TransferReceiptFields
<1>4. StoredRow(a, r) = row
  BY <1>1, <1>3 DEF StoredRow
<1>5. HasExecuted(a, row.uOwner, r)
  BY <1>1, <1>3, <1>g, OfferFields
     DEF HasExecuted, VerifyHasExecuted, VerifyRDeviceId, VerifyROrder, VerifyRAuditStart, VerifyRPs,
         VerifyRSignature, RowOrder, HeldTicket, CrKeTypes, Row
<1>6. /\ SetsRow(a, d, [row EXCEPT !.order = g.ord + 1])
      /\ state'[a] = Idle /\ \A c \in Controllers \ {a} : state'[c] = state[c]
      /\ UNCHANGED <<order, owner, session>>
  <2> HIDE DEF r, row
  <2> QED
    BY <1>1, <1>2, <1>3, <1>4, <1>5, <1>g, ReceiptTaken DEF Carries, ReceiptTypes
<1>7. /\ table'[a][d].uOwner = Offer(g) /\ table'[a][d].order = g.ord + 1
      /\ table'[a][d].rOwner = r /\ table'[a][d].accUOthers = table[a][d].accUOthers
      /\ \A x \in Agents \ {a} : table'[x][d] = table[x][d]
  BY <1>1, <1>6, <1>g DEF SetsRow, Row, HeldTicket
<1>8. Phase(g, 5)'
  <2> HIDE DEF r, row
  <2> QED
    BY <1>g, <1>1, <1>6, <1>7
       DEF Phase, Transferring, Entry, Past, Resting, Owned, Offer, r, TransferReceipt
<1>9. Around(g)
  BY <1>6, <1>g, PartiesAssumption DEF Around, SetsRow, Controllers
<1>10. SoundAt(d)'
  <2>1. TicketSound(a, d)'
    BY <1>7, OfferFields DEF TicketSound, HeldTicket, AccessTypes
  <2> QED
    BY <2>1, <1>6, <1>7, <1>g, SoundBut
<1>11. /\ UserOf(d)' = UserOf(d) /\ Book(d) # order[d] /\ Book(d)' = order[d]
  BY <1>1, <1>6, <1>7, <1>g DEF Book, UserOf, Past
<1> QED
  BY <1>6, <1>8, <1>9, <1>10, <1>11, <1>g DEF Advances, Serves, Undisturbed

LEMMA TransferReported ==
  ASSUME NEW g \in Goals, g.kind = "Transfer", Ready(g, 5, "Report")
  PROVE  Advances(g, 6)
<1> DEFINE a == g.to
           b == g.by
           d == g.dev
           r == TransferReceipt(g)
<1>g. /\ a \in Agents /\ b \in Agents /\ d \in Devices /\ a # b /\ a # d /\ g.ord \in Nat
      /\ a \in Controllers /\ d \in Controllers
      /\ TypeOK /\ SafeInv /\ Sound /\ Undisturbed(g)
  BY ReadyFacts DEF Ready
<1>1. /\ Past(g, a) /\ Owned(d) /\ state[a] = Idle
      /\ table[b][d].ownUOthers = Offer(g) /\ table[b][d].order = g.ord
      /\ table[a][d].rOwner = r
  BY DEF Ready, Phase, Transferring
<1>2. HolderSendRTicketToIssuer(a, d)
  BY DEF Ready, ReadyTo, Make
<1>3. /\ UNCHANGED <<state, order, owner, session>> /\ TouchRow(a, d)
      /\ channel'.u = NoUT /\ channel'.r = r
  BY <1>1, <1>2, <1>g, SendChanges DEF HolderSendRTicketToIssuer
<1>4. OnlyRow(a, d) /\ RowsKept(d) /\ TicketsKept(d)
  BY <1>3, <1>g, TouchKeeps
<1>5. Phase(g, 6)'
  BY <1>g, <1>1, <1>3, <1>4
     DEF Phase, Transferring, Entry, Past, Resting, Owned, RowsKept, Carries, Offer,
         TransferReceipt
<1>6. Around(g)
  BY <1>3, <1>4, <1>g DEF Around, OnlyRow
<1>7. Noticed(g)
  BY <1>3, <1>4, <1>g, Unnoticed DEF UserOf
<1> QED
  BY <1>5, <1>6, <1>7 DEF Advances, Noticed

LEMMA TransferRecorded ==
  ASSUME NEW g \in Goals, g.kind = "Transfer", Ready(g, 6, "IssuerRecv")
  PROVE  Advances(g, 7)
<1> DEFINE a == g.to
           b == g.by
           d == g.dev
           r == TransferReceipt(g)
<1>g. /\ a \in Agents /\ b \in Agents /\ d \in Devices /\ a # b /\ a # d /\ g.ord \in Nat
      /\ a \in Controllers /\ d \in Controllers /\ a # NoOne
      /\ TypeOK /\ SafeInv /\ SoundAt(d) /\ Undisturbed(g)
  BY ReadyFacts DEF Ready
<1>1. /\ Past(g, a) /\ Owned(d) /\ state[a] = Idle
      /\ table[b][d].ownUOthers = Offer(g) /\ table[b][d].order = g.ord
      /\ Carries(NoUT, r)
  BY DEF Ready, Phase, Transferring
<1>2. /\ r.type = "OWNERSHIP" /\ r.dev = d /\ r.ok /\ r.order = g.ord + 1
      /\ r.start = Id(Offer(g))
  BY <1>g, TransferReceiptFields
<1>3. IssuerRecvRTicket(b)
  <2>1. state[b] = Idle
    BY <1>g DEF Undisturbed, IdleAgent
  <2> QED
    BY <2>1, <1>1, <1>2, <1>g, AgentTakes DEF Ready, ReadyTo, Make, Carries, ReceiptTypes
<1>4. HasExecuted(b, Offer(g), r)
  BY <1>1, <1>2, <1>g, OfferFields
     DEF HasExecuted, VerifyHasExecuted, VerifyRDeviceId, VerifyROrder, VerifyRAuditStart, VerifyRPs,
         VerifyRSignature, RowOrder, CrKeTypes
<1>5. SetsRow(b, d, NoRow) /\ UNCHANGED <<state, order, owner, session>>
  <2>1. IssuedUTicket(b, r) = Offer(g) /\ Offer(g) # NoUT
    BY <1>1, <1>2, <1>g, OfferFields DEF IssuedUTicket
  <2> HIDE DEF r
  <2> QED
    BY <2>1, <1>1, <1>2, <1>3, <1>4, <1>g, ReportTaken DEF Carries, ReportedRow
<1>6. \A x \in Agents \ {b} : table'[x][d] = table[x][d]
  BY <1>5, <1>g DEF SetsRow
<1>7. Phase(g, 7)'
  BY <1>1, <1>5, <1>6, <1>g DEF Phase, Transferring, Entry, Past, Resting, Owned
<1>8. Around(g)
  BY <1>5, <1>g DEF Around, SetsRow
<1>9. SoundAt(d)'
  <2>1. TicketSound(b, d)'
    BY <1>5, <1>g, EmptyFields DEF SetsRow, TicketSound, HeldTicket, AccessTypes
  <2> QED
    BY <2>1, <1>1, <1>5, <1>6, <1>g, SoundBut DEF Past
<1>10. UserOf(d)' = UserOf(d) /\ Book(d)' = Book(d)
  BY <1>1, <1>5, <1>6, <1>g DEF Book, UserOf, Past
<1> QED
  BY <1>5, <1>7, <1>8, <1>9, <1>10, <1>g DEF Advances, Serves, Undisturbed

(***************************************************************************)
(* An initialisation.                                                      *)
(***************************************************************************)
LEMMA InitIssued ==
  ASSUME NEW g \in Goals, g.kind = "Initialize", Ready(g, 0, "Issue")
  PROVE  Advances(g, 1)
<1> DEFINE a == g.to
           d == g.dev
<1>g. a \in Agents /\ d \in Devices /\ TypeOK /\ SafeInv /\ Sound /\ Undisturbed(g)
  BY ReadyFacts DEF Ready
<1>1. /\ Resting(d) /\ order[d] = 0 /\ owner[d] = NoOne /\ state[a] = Idle /\ g.ord = 0
  BY DEF Ready, Phase, Initializing
<1>2. IssueInitToHerself(a)
  BY DEF Ready, ReadyTo, Make, IssueFor
<1>3. /\ UNCHANGED <<state, order, owner, session, table>>
      /\ initTicket'[a] = GenInitTicket(a)
  BY <1>2, <1>g DEF IssueInitToHerself, TypeOK
<1>4. Phase(g, 1)'
  BY <1>1, <1>3 DEF Phase, Initializing, Entry, Resting
<1>5. Around(g)
  BY <1>3 DEF Around
<1>6. Noticed(g)
  BY <1>3, <1>g, Unnoticed DEF UserOf, TicketsKept
<1> QED
  BY <1>4, <1>5, <1>6 DEF Advances, Noticed

LEMMA InitApplied ==
  ASSUME NEW g \in Goals, g.kind = "Initialize", Ready(g, 1, "Apply")
  PROVE  Advances(g, 2)
<1> DEFINE a == g.to
           d == g.dev
<1>g. /\ a \in Agents /\ d \in Devices /\ TypeOK /\ SafeInv /\ Sound /\ Undisturbed(g)
      /\ a \in Controllers /\ d \in Controllers /\ a # d
  BY ReadyFacts DEF Ready
<1>1. /\ Resting(d) /\ order[d] = 0 /\ owner[d] = NoOne /\ g.ord = 0
      /\ initTicket[a] = GenInitTicket(a)
  BY DEF Ready, Phase, Initializing
<1>2. HolderApplyUTicket(a, NoId, g.text)
  BY DEF Ready, ReadyTo, Make, ApplyFor
<1>3. /\ UNCHANGED <<order, owner, session, initTicket>> /\ TouchRow(a, NoId)
      /\ state' = [state EXCEPT ![a] = "AGENT_WAIT_FOR_RT"]
      /\ channel'.u = GenInitTicket(a) /\ channel'.r = NoRT
  <2>1. StoredUTicket(a, NoId) = GenInitTicket(a) /\ GenInitTicket(a).type = "INITIALIZATION"
    BY <1>1, <1>g, InitFields DEF StoredUTicket
  <2>2. UNCHANGED initTicket
    BY <1>2 DEF HolderApplyUTicket
  <2> QED
    BY <2>1, <2>2, <1>2, TicketApplied
<1>4. UNCHANGED table
  BY <1>3, PartiesAssumption DEF TouchRow
<1>5. /\ state'[a] = "AGENT_WAIT_FOR_RT"
      /\ \A c \in Controllers \ {a} : state'[c] = state[c]
  BY <1>3, <1>g DEF TypeOK
<1>6. Phase(g, 2)'
  BY <1>1, <1>3, <1>4, <1>5, <1>g DEF Phase, Initializing, Entry, Resting, Carries
<1>7. Around(g)
  BY <1>3, <1>4, <1>5, <1>g, PartiesAssumption DEF Around, Controllers
<1>8. Noticed(g)
  BY <1>3, <1>4, <1>5, <1>g, Unnoticed DEF UserOf, TicketsKept
<1> QED
  BY <1>6, <1>7, <1>8 DEF Advances, Noticed

LEMMA InitExecuted ==
  ASSUME NEW g \in Goals, g.kind = "Initialize", Ready(g, 2, "DeviceRecv")
  PROVE  Advances(g, 3)
<1> DEFINE a == g.to
           d == g.dev
<1>g. /\ a \in Agents /\ d \in Devices /\ TypeOK /\ SafeInv /\ SoundAt(d) /\ Undisturbed(g)
      /\ a \in Controllers /\ d \in Controllers /\ a # d /\ a # NoOne
  BY ReadyFacts DEF Ready
<1>1. /\ Resting(d) /\ order[d] = 0 /\ owner[d] = NoOne /\ g.ord = 0
      /\ initTicket[a] = GenInitTicket(a) /\ state[a] = "AGENT_WAIT_FOR_RT"
      /\ Carries(GenInitTicket(a), NoRT)
  BY DEF Ready, Phase, Initializing
<1>2. DeviceExecuteOwnership(d)
  <2>1. CanExecute(d, GenInitTicket(a))
    BY <1>1, <1>g, InitFields
       DEF CanExecute, VerifyCanExecute, VerifyUDeviceId, VerifyUOrder, VerifyUHolder, VerifyUScope,
           VerifyUPs, VerifyUSignature, TokenTypes
  <2> QED
    BY <2>1, <1>1, <1>g, InitFields, DeviceTakes DEF Ready, ReadyTo, Make, Carries, Resting
<1>3. /\ owner' = [owner EXCEPT ![d] = a] /\ order' = [order EXCEPT ![d] = @ + 1]
      /\ SendR(InitReceipt(g), d)
      /\ UNCHANGED <<state, session, initTicket, table>>
  <2>1. channel.u = GenInitTicket(a) /\ channel.u.type = "INITIALIZATION"
        /\ channel.u.holder = a /\ order[d] + 1 = 1
    BY <1>1, <1>g, InitFields DEF Carries
  <2>2. GenReceipt(channel.u.type, d, order[d] + 1, Id(channel.u)) = InitReceipt(g)
    BY <2>1 DEF InitReceipt
  <2> QED
    BY <2>1, <2>2, <1>2 DEF DeviceExecuteOwnership
<1>4. /\ owner'[d] = a /\ order'[d] = 1 /\ order'[d] = order[d] + 1
      /\ \A e \in Devices \ {d} : UNCHANGED <<order[e], owner[e]>>
      /\ channel'.u = NoUT /\ channel'.r = InitReceipt(g)
  BY <1>1, <1>3, <1>g, SendChanges DEF TypeOK
<1>5. SoundAt(d)' /\ NobodyMayEnter(d)'
  BY <1>3, <1>4, <1>g, SoundPast
<1>6. table[a][d].order = 0
  <2>1. table[a][d].order \in Nat /\ table[a][d].order =< order[d]
    BY <1>1, <1>g, TypeParts DEF SafeInv, RowOk, NotAhead, Live, Lost, Resting
  <2> QED
    BY <2>1, <1>1
<1>7. Phase(g, 3)'
  BY <1>1, <1>3, <1>4, <1>5, <1>6
     DEF Phase, Initializing, Entry, Past, Resting, Carries, InitReceipt
<1>8. Around(g)
  BY <1>3, <1>4 DEF Around
<1>9. UserOf(d) = NoOne /\ UserOf(d)' = NoOne /\ Book(d)' = Book(d)
  BY <1>1, <1>3, <1>4, <1>6, <1>g DEF Book, UserOf, Resting
<1> QED
  BY <1>1, <1>3, <1>4, <1>5, <1>7, <1>8, <1>9 DEF Advances, Serves

LEMMA InitConfirmed ==
  ASSUME NEW g \in Goals, g.kind = "Initialize", Ready(g, 3, "HolderRecv")
  PROVE  Advances(g, 4)
<1> DEFINE a == g.to
           d == g.dev
           r == InitReceipt(g)
           row == [NoRow EXCEPT !.present = TRUE, !.uOwner = GenInitTicket(a), !.rOwner = r]
<1>g. /\ a \in Agents /\ d \in Devices /\ TypeOK /\ SafeInv /\ SoundAt(d) /\ Undisturbed(g)
      /\ a \in Controllers /\ d \in Controllers /\ a # d /\ a # NoOne
  BY ReadyFacts DEF Ready
<1>1. /\ Past(g, a) /\ g.ord = 0 /\ initTicket[a] = GenInitTicket(a)
      /\ state[a] = "AGENT_WAIT_FOR_RT" /\ Carries(NoUT, r)
      /\ table[a][d].order = 0 /\ NobodyMayEnter(d)
  BY DEF Ready, Phase, Initializing
<1>2. HolderRecvRTicket(a)
  BY <1>1, <1>g, AgentTakes DEF Ready, ReadyTo, Make
<1>3. /\ r.type = "INITIALIZATION" /\ r.dev = d /\ r.ok /\ r.order = 1
      /\ r.start = Id(GenInitTicket(a))
  BY DEF InitReceipt, GenReceipt, NoRT
<1>4. StoredRow(a, r) = row
  BY <1>1, <1>3 DEF StoredRow
<1>5. HasExecuted(a, row.uOwner, r)
  BY <1>3
     DEF HasExecuted, VerifyHasExecuted, VerifyRDeviceId, VerifyROrder, VerifyRAuditStart, VerifyRPs,
         VerifyRSignature, CrKeTypes, NoRow
<1>6. /\ SetsRow(a, d, [row EXCEPT !.order = 1])
      /\ state'[a] = Idle /\ \A c \in Controllers \ {a} : state'[c] = state[c]
      /\ UNCHANGED <<order, owner, session>>
  <2> HIDE DEF r, row
  <2> QED
    BY <1>1, <1>2, <1>3, <1>4, <1>5, <1>g, ReceiptTaken DEF Carries, ReceiptTypes
<1>7. /\ table'[a][d].uOwner = GenInitTicket(a) /\ table'[a][d].order = 1
      /\ \A x \in Agents \ {a} : table'[x][d] = table[x][d]
  BY <1>6, <1>g DEF SetsRow, NoRow
<1>8. Phase(g, 4)'
  BY <1>1, <1>6, <1>7, <1>g DEF Phase, Initializing, Entry, Past, Resting, Owned
<1>9. Around(g)
  BY <1>6, <1>g, PartiesAssumption DEF Around, SetsRow, Controllers
<1>10. SoundAt(d)'
  <2>1. ASSUME NEW x \in Agents
        PROVE  TicketSound(x, d)'
    <3>1. CASE x = a
      BY <3>1, <1>7, InitFields DEF TicketSound, HeldTicket, AccessTypes
    <3>2. CASE x # a
      <4>1. TicketSound(x, d) /\ table'[x][d] = table[x][d] /\ order'[d] = order[d]
        BY <3>2, <1>6, <1>7, <1>g DEF SoundAt
      <4>2. HeldTicket(x, d).type \in AccessTypes => HeldTicket(x, d).order # order[d]
        BY <1>1 DEF NobodyMayEnter
      <4> QED
        BY <4>1, <4>2 DEF TicketSound, HeldTicket
    <3> QED
      BY <3>1, <3>2
  <2> QED
    BY <2>1 DEF SoundAt
<1>11. /\ UserOf(d)' = UserOf(d) /\ Book(d) # order[d] /\ Book(d)' = order[d]
  BY <1>1, <1>6, <1>7, <1>g DEF Book, UserOf, Past
<1> QED
  BY <1>6, <1>8, <1>9, <1>10, <1>11, <1>g DEF Advances, Serves, Undisturbed

(***************************************************************************)
(* The ticket for an access.                                               *)
(***************************************************************************)
LEMMA SelfAccessIssued ==
  ASSUME NEW g \in Goals, g.kind = "SelfAccess", Ready(g, 0, "Issue")
  PROVE  Advances(g, 1)
<1> DEFINE a == g.to
           d == g.dev
           u == GenTicket("SELFACCESS", d, g.ord, a, g.scope, a)
<1>g. /\ a \in Agents /\ d \in Devices /\ TypeOK /\ SafeInv /\ SoundAt(d) /\ Undisturbed(g)
      /\ g.ord < MaxOrder /\ g.scope = AllScope /\ g.scope \in SUBSET Texts /\ g.ord \in Nat
  BY ReadyFacts, GoalFields DEF Ready, GoalOk
<1>1. With(g, a) /\ state[a] = Idle
  BY DEF Ready, Phase, Entering, Entry
<1>2. IssueSelfAccessToHerself(a, d, g.scope)
  BY DEF Ready, ReadyTo, Make, IssueFor
<1>3. /\ UNCHANGED <<state, order, owner, session>>
      /\ table' = [table EXCEPT ![a][d].uOwner = u]
  BY <1>1, <1>2 DEF IssueSelfAccessToHerself, With, Owned
<1>4. /\ u.type = "SELFACCESS" /\ u.dev = d /\ u.order = g.ord /\ u.holder = a
      /\ u.scope = g.scope
  BY DEF GenTicket, NoUT
<1> HIDE DEF u
<1>5. SetsRow(a, d, [table[a][d] EXCEPT !.uOwner = u])
  BY <1>3, <1>g DEF SetsRow, TypeOK
<1>6. /\ table'[a][d].uOwner = u /\ table'[a][d].order = table[a][d].order
      /\ table'[a][d].accUOthers = table[a][d].accUOthers
      /\ \A x \in Agents \ {a} : table'[x][d] = table[x][d]
  BY <1>5, <1>g, TypeParts DEF SetsRow, Row
<1>7. Opening(g, 0)'
  BY <1>1, <1>3, <1>4, <1>6, <1>g DEF Opening, With, Owned, Resting, HeldTicket, AccessTypes
<1>8. Phase(g, 1)'
  BY <1>7 DEF Phase, Entering, Entry
<1>9. Around(g)
  BY <1>3, <1>5 DEF Around, SetsRow
<1>10. SoundAt(d)'
  <2>1. TicketSound(a, d)'
    BY <1>1, <1>3, <1>4, <1>6, <1>g DEF TicketSound, HeldTicket, AccessTypes, With, Owned
  <2> QED
    BY <2>1, <1>3, <1>6, <1>g, SoundBut
<1>11. UserOf(d)' = UserOf(d) /\ Book(d)' = Book(d)
  BY <1>1, <1>3, <1>6, <1>g DEF Book, UserOf, With, Owned
<1> QED
  BY <1>3, <1>8, <1>9, <1>10, <1>11, <1>g DEF Advances, Serves, Undisturbed

LEMMA AccessIssued ==
  ASSUME NEW g \in Goals, g.kind = "Access", Ready(g, 0, "Issue")
  PROVE  Advances(g, 1)
<1> DEFINE a == g.to
           b == g.by
           d == g.dev
<1>g. /\ a \in Agents /\ b \in Agents /\ a # b /\ d \in Devices /\ TypeOK /\ SafeInv /\ SoundAt(d)
      /\ Undisturbed(g) /\ b # NoOne
  BY ReadyFacts DEF Ready
<1>1. With(g, b) /\ state[a] = Idle /\ GrantedToNobody(b, d)
  BY DEF Ready, Phase, Entering, Entry
<1>2. IssueAccessToHolder(b, d, a, g.scope)
  BY DEF Ready, ReadyTo, Make, IssueFor
<1>3. /\ UNCHANGED <<state, order, owner, session>>
      /\ channel'.u = Grant(g) /\ channel'.r = NoRT
      /\ table' = [table EXCEPT ![b][d].accUOthers = Grant(g)]
  BY <1>1, <1>2 DEF IssueAccessToHolder, With, Owned, Grant, SendU
<1>4. SetsRow(b, d, [table[b][d] EXCEPT !.accUOthers = Grant(g)])
  BY <1>3, <1>g DEF SetsRow, TypeOK
<1>5. /\ table'[b][d].uOwner = table[b][d].uOwner /\ table'[b][d].order = table[b][d].order
      /\ table'[b][d].accUOthers = Grant(g)
      /\ \A x \in Agents \ {b} : table'[x][d] = table[x][d]
  BY <1>4, <1>g, TypeParts DEF SetsRow, Row
<1>6. Phase(g, 1)'
  BY <1>1, <1>3, <1>5, <1>g
     DEF Phase, Entering, Entry, With, Owned, Resting, Carries, Grant
<1>7. Around(g)
  BY <1>3, <1>4 DEF Around, SetsRow
<1>8. SoundAt(d)'
  <2>1. ASSUME NEW x \in Agents
        PROVE  TicketSound(x, d)'
    <3>1. HeldTicket(x, d).type = "ACCESS" => HeldTicket(x, d).order # order[d]
      <4>1. HeldTicket(x, d).type = "ACCESS" /\ HeldTicket(x, d).order = order[d] =>
              table[b][d].accUOthers = HeldTicket(x, d)
        BY <1>1, <1>g DEF SoundAt, TicketSound, AccessTypes, With
      <4>2. table[b][d].accUOthers.type = "" \/ table[b][d].accUOthers.order # order[d]
        BY <1>1, EmptyFields DEF GrantedToNobody
      <4> QED
        BY <4>1, <4>2
    <3>2. TicketSound(x, d) /\ HeldTicket(x, d)' = HeldTicket(x, d)
          /\ table'[x][d].order = table[x][d].order
      BY <1>5, <1>g DEF SoundAt, HeldTicket
    <3> QED
      BY <3>1, <3>2, <1>3 DEF TicketSound, AccessTypes
  <2> QED
    BY <2>1 DEF SoundAt
<1>9. UserOf(d)' = UserOf(d) /\ Book(d)' = Book(d)
  BY <1>1, <1>3, <1>5, <1>g DEF Book, UserOf, With, Owned
<1> QED
  BY <1>3, <1>6, <1>7, <1>8, <1>9, <1>g DEF Advances, Serves, Undisturbed

LEMMA AccessReceived ==
  ASSUME NEW g \in Goals, g.kind = "Access", Ready(g, 1, "HolderRecv")
  PROVE  Advances(g, 2)
<1> DEFINE a == g.to
           b == g.by
           d == g.dev
<1>g. /\ a \in Agents /\ b \in Agents /\ d \in Devices /\ a # b /\ g.ord \in Nat
      /\ TypeOK /\ SoundAt(d) /\ Undisturbed(g) /\ b # NoOne /\ g.ord < MaxOrder
  BY ReadyFacts DEF Ready, GoalOk
<1>1. /\ With(g, b) /\ state[a] = Idle /\ Carries(Grant(g), NoRT)
      /\ table[b][d].accUOthers = Grant(g)
  BY DEF Ready, Phase, Entering, Entry
<1>2. AgentRecvUTicket(a)
  BY <1>1, <1>g, AgentTakes DEF Ready, ReadyTo, Make, Carries
<1>u. /\ Grant(g) \in UTicket /\ Grant(g).type = "ACCESS" /\ Grant(g).dev = d
      /\ Grant(g).order = g.ord /\ Grant(g).holder = a /\ Grant(g).signer = b
      /\ Grant(g).scope = g.scope
  BY GrantFields
<1>3. /\ UNCHANGED <<state, order, owner, session>>
      /\ SetsRow(a, d, ReceivedRow(Grant(g)))
  BY <1>1, <1>2, <1>g, <1>u, TicketReceived DEF Carries
<1>4. /\ table'[a][d].uOwner = Grant(g) /\ table'[a][d].order = g.ord
      /\ table'[a][d].accUOthers = NoUT
      /\ \A x \in Agents \ {a} : table'[x][d] = table[x][d]
  BY <1>3, <1>g, <1>u, ReceivedRowFields DEF SetsRow
<1>5. Opening(g, 0)'
  BY <1>g, <1>u, <1>1, <1>3, <1>4 DEF Opening, With, Resting, Owned, HeldTicket, AccessTypes
<1>6. Phase(g, 2)'
  BY <1>5 DEF Phase, Entering, Entry
<1>7. Around(g)
  BY <1>3, <1>g DEF Around, SetsRow
<1>8. SoundAt(d)'
  <2>1. TicketSound(a, d)'
    BY <1>1, <1>3, <1>4, <1>u, <1>g DEF TicketSound, HeldTicket, AccessTypes, With
  <2> QED
    BY <2>1, <1>1, <1>3, <1>4, <1>g, SoundBut DEF With
<1>9. Book(d)' = Book(d) /\ UserOf(d)' = UserOf(d)
  BY <1>1, <1>3, <1>4, <1>g DEF Book, With, UserOf
<1> QED
  BY <1>3, <1>6, <1>7, <1>8, <1>9, <1>g DEF Advances, Serves, Undisturbed


(***************************************************************************)
(* The handshake.                                                          *)
(***************************************************************************)
Opens(g, m) == Opening(g, m)' /\ Around(g) /\ Noticed(g)

LEMMA OpeningFacts ==
  ASSUME NEW g \in Goals, NEW call, NEW m, ReadyTo(g, call), Opening(g, m)
  PROVE  LET a == g.to
             d == g.dev
             u == HeldTicket(a, d)
         IN /\ Owned(d) /\ order[d] = g.ord /\ order[d] \in Nat /\ order[d] > 0
            /\ u \in UTicket /\ u.type \in AccessTypes /\ u.dev = d /\ u.order = g.ord
            /\ u.holder = a /\ u.scope = g.scope /\ table[a][d].order = g.ord
            /\ Id(u).dev = d /\ Id(u).holder = a /\ Id(u).scope = g.scope
            /\ u.type = "SELFACCESS" => owner[d] = a /\ u.scope = AllScope
            /\ u.type = "ACCESS" => u.signer = owner[d]
            /\ session[a] \in Session /\ session[d] \in Session
<1> DEFINE a == g.to
           d == g.dev
           u == HeldTicket(a, d)
<1>1. TypeOK /\ TicketSound(a, d) /\ a \in Agents /\ d \in Devices /\ a \in Controllers
      /\ d \in Controllers
  BY ReadyFacts DEF SoundAt
<1>2. Owned(d) /\ order[d] = g.ord /\ u.type \in AccessTypes /\ u.order = g.ord /\ u.scope = g.scope
  BY DEF Opening
<1>3. u \in UTicket
  BY <1>1, TypeParts DEF HeldTicket
<1>4. session[a] \in Session /\ session[d] \in Session /\ order[d] \in Nat
  BY <1>1, TypeParts
<1> QED
  BY <1>1, <1>2, <1>3, <1>4, IdFields DEF TicketSound, Owned, AccessTypes

LEMMA OpeningApplied ==
  ASSUME NEW g \in Goals, ReadyTo(g, "Apply"), g.kind # "Initialize", Opening(g, 0)
  PROVE  Opens(g, 1)
<1> DEFINE a == g.to
           d == g.dev
           u == HeldTicket(a, d)
<1>g. /\ a \in Agents /\ d \in Devices /\ a # d /\ d # NoId /\ a \in Controllers /\ d \in Controllers
      /\ TypeOK /\ SafeInv /\ Sound /\ Undisturbed(g)
  BY ReadyFacts
<1>1. Resting(d)
  BY DEF Opening
<1>2. /\ Owned(d) /\ order[d] = g.ord /\ session[a] \in Session
      /\ u.type \in AccessTypes /\ u.order = g.ord /\ u.scope = g.scope
  BY OpeningFacts
<1>3. HolderApplyUTicket(a, d, g.text)
  BY DEF ReadyTo, Make, ApplyFor
<1>4. /\ UNCHANGED <<order, owner>> /\ TouchRow(a, d)
      /\ session' = [session EXCEPT ![a].ut = Id(u), ![a].cmd = g.text]
      /\ state' = [state EXCEPT ![a] = "AGENT_WAIT_FOR_CRKE1"]
      /\ channel'.u = u /\ channel'.r = NoRT
  BY <1>2, <1>3, <1>g, AccessApplied DEF StoredUTicket, HeldTicket, AccessTypes
<1>5. /\ state'[a] = "AGENT_WAIT_FOR_CRKE1" /\ \A c \in Controllers \ {a} : state'[c] = state[c]
      /\ session'[a] = [session[a] EXCEPT !.ut = Id(u), !.cmd = g.text]
      /\ \A c \in Controllers \ {a} : session'[c] = session[c]
  BY <1>4, <1>g DEF TypeOK
<1>6. session'[a].ut = Id(u) /\ session'[a].cmd = g.text /\ session'[a].data = session[a].data
  BY <1>2, <1>5 DEF Session
<1>7. OnlyRow(a, d) /\ RowsKept(d) /\ TicketsKept(d)
  BY <1>4, <1>g, TouchKeeps
<1>8. Opening(g, 1)'
  <2>1. HeldTicket(a, d)' = u
    BY <1>7, <1>g DEF HeldTicket, RowsKept
  <2> HIDE DEF u
  <2>2. Owned(d)' /\ Resting(d)' /\ order'[d] = g.ord
    BY <1>1, <1>2, <1>4, <1>5, <1>7, <1>g DEF Owned, Resting, RowsKept
  <2> QED
    BY <2>1, <2>2, <1>2, <1>4, <1>5, <1>6 DEF Opening, Carries
<1>9. Around(g)
  BY <1>4, <1>5, <1>7, <1>g, PartiesAssumption DEF Around, OnlyRow, Controllers
<1>10. Noticed(g)
  <2>1. UserOf(d)' = UserOf(d)
    BY <1>5, <1>g DEF UserOf
  <2> QED
    BY <2>1, <1>4, <1>6, <1>7, <1>g, Unnoticed
<1> QED
  BY <1>8, <1>9, <1>10 DEF Opens

LEMMA OpeningOffered ==
  ASSUME NEW g \in Goals, ReadyTo(g, "DeviceRecv"), Opening(g, 1)
  PROVE  Opens(g, 2)
<1> DEFINE a == g.to
           d == g.dev
           u == HeldTicket(a, d)
<1>g. /\ a \in Agents /\ d \in Devices /\ a # d /\ d # NoId /\ a \in Controllers /\ d \in Controllers
      /\ TypeOK /\ SafeInv /\ Sound /\ Undisturbed(g) /\ a # NoOne
  BY ReadyFacts
<1>1. /\ Resting(d) /\ state[a] = "AGENT_WAIT_FOR_CRKE1" /\ Carries(u, NoRT)
      /\ session[a].ut = Id(u) /\ session[a].cmd = g.text
  BY DEF Opening
<1>2. /\ Owned(d) /\ order[d] = g.ord /\ order[d] > 0 /\ session[d] \in Session
      /\ u.type \in AccessTypes /\ u.dev = d /\ u.order = g.ord /\ u.holder = a /\ u.scope = g.scope
      /\ u.type = "SELFACCESS" => owner[d] = a /\ u.scope = AllScope
      /\ u.type = "ACCESS" => u.signer = owner[d]
  BY OpeningFacts
<1> HIDE DEF u
<1>3. DeviceOpenSession(d)
  <2>1. CanExecute(d, u)
    BY <1>2, <1>g
       DEF CanExecute, VerifyCanExecute, VerifyUDeviceId, VerifyUOrder, VerifyUHolder, VerifyUScope,
           VerifyUPs, VerifyUSignature, TokenTypes, AccessTypes
  <2> QED
    BY <2>1, <1>1, <1>2, <1>g, DeviceTakes DEF ReadyTo, Make, Carries, Resting
<1>4. PICK f \in FreshNonces :
        /\ session' = [session EXCEPT ![d].ut = Id(u), ![d].n1 = f, ![d].ivCmd = f]
        /\ SendR([GenReceipt("CR-KE-1", d, order[d], Id(u)) EXCEPT !.n1 = f, !.iv = f], d)
  BY <1>1, <1>3 DEF DeviceOpenSession, OpenSession, Carries
<1>5. /\ UNCHANGED <<order, owner, table>>
      /\ state'[d] = "DEVICE_WAIT_FOR_CRKE2" /\ \A c \in Controllers \ {d} : state'[c] = state[c]
  BY <1>3, <1>g DEF DeviceOpenSession, Goto, TypeOK
<1>6. /\ session'[d] = [session[d] EXCEPT !.ut = Id(u), !.n1 = f, !.ivCmd = f]
      /\ \A c \in Controllers \ {d} : session'[c] = session[c]
  BY <1>4, <1>g DEF TypeOK
<1>7. session'[d].ut = Id(u) /\ session'[d].n1 = f /\ session'[d].ivCmd = f
  BY <1>2, <1>6 DEF Session
<1>8. Opening(g, 2)'
  <2>1. HeldTicket(a, d)' = u
    BY <1>5 DEF HeldTicket, u
  <2>2. Owned(d)' /\ order'[d] = g.ord
    BY <1>2, <1>5 DEF Owned
  <2>3. CrKe1(g)' = [GenReceipt("CR-KE-1", d, order[d], Id(u)) EXCEPT !.n1 = f, !.iv = f]
    BY <2>1, <1>2, <1>7 DEF CrKe1
  <2>4. Carries(NoUT, CrKe1(g))'
    BY <2>3, <1>4, <1>g, SendChanges DEF Carries
  <2> QED
    BY <2>1, <2>2, <2>4, <1>1, <1>2, <1>5, <1>6, <1>7, <1>g DEF Opening
<1>9. Around(g)
  BY <1>5, <1>6, <1>g, PartiesAssumption DEF Around, Controllers
<1>10. Noticed(g)
  <2>1. UserOf(d)' = UserOf(d) /\ TicketsKept(d)
    BY <1>1, <1>5, <1>g DEF UserOf, Resting, TicketsKept
  <2> QED
    BY <2>1, <1>5, <1>6, <1>g, Unnoticed
<1> QED
  BY <1>8, <1>9, <1>10 DEF Opens


LEMMA OpeningAccepted ==
  ASSUME NEW g \in Goals, ReadyTo(g, "HolderRecv"), Opening(g, 2)
  PROVE  Opens(g, 3)
<1> DEFINE a == g.to
           d == g.dev
           u == HeldTicket(a, d)
           r == CrKe1(g)
<1>g. /\ a \in Agents /\ d \in Devices /\ a # d /\ d # NoId /\ a \in Controllers /\ d \in Controllers
      /\ TypeOK /\ SafeInv /\ Sound /\ Undisturbed(g) /\ a # NoOne
  BY ReadyFacts
<1>1. /\ state[d] = "DEVICE_WAIT_FOR_CRKE2" /\ session[d].ut = Id(u)
      /\ state[a] = "AGENT_WAIT_FOR_CRKE1" /\ Carries(NoUT, r)
      /\ session[a].ut = Id(u) /\ session[a].cmd = g.text
  BY DEF Opening
<1>2. /\ Owned(d) /\ order[d] = g.ord /\ session[a] \in Session /\ table[a][d].order = g.ord
      /\ u.type \in AccessTypes /\ u.order = g.ord /\ u.scope = g.scope /\ Id(u).dev = d
  BY OpeningFacts
<1>3. /\ r.type = "CR-KE-1" /\ r.dev = d /\ r.ok /\ r.order = g.ord /\ r.start = Id(u)
      /\ r.n1 = session[d].n1 /\ r.iv = session[d].ivCmd
  BY DEF CrKe1, GenReceipt, NoRT
<1> HIDE DEF u, r
<1>4. HasExecuted(a, NoUT, r) /\ HolderReads(a, r)
  BY <1>1, <1>2, <1>3, <1>g
     DEF HasExecuted, VerifyHasExecuted, VerifyRDeviceId, VerifyROrder, VerifyRAuditStart, VerifyRPs,
         VerifyRSignature, RowOrder, CrKeTypes, HolderReads
<1>5. HolderRecvCrKe1(a)
  BY <1>1, <1>g, AgentTakes DEF ReadyTo, Make
<1>6. PICK f \in FreshNonces :
        /\ session' = [session EXCEPT ![a] = HolderSession(a, r, f)]
        /\ SendR(CrKe2(a, HolderSession(a, r, f)), a)
        /\ Goto(a, "AGENT_WAIT_FOR_CRKE3")
  BY <1>1, <1>4, <1>5 DEF HolderRecvCrKe1, Carries
<1> DEFINE k == SessionKey(r.n1, f, session[a].ut.dev, a)
<1>7. HolderSession(a, r, f) =
        [session[a] EXCEPT !.n1 = r.n1, !.key = k, !.ivCmd = r.iv,
                           !.cipher = Encrypt(session[a].cmd, k, r.iv), !.ivData = f]
  BY <1>3 DEF HolderSession
<1>k. k = SessionKey(session[d].n1, f, d, a) /\ k.n2 = f
  BY <1>1, <1>2, <1>3 DEF SessionKey
<1> HIDE DEF k
<1>8. /\ session'[a] = HolderSession(a, r, f)
      /\ \A c \in Controllers \ {a} : session'[c] = session[c]
      /\ state'[a] = "AGENT_WAIT_FOR_CRKE3" /\ \A c \in Controllers \ {a} : state'[c] = state[c]
      /\ UNCHANGED <<order, owner, table>>
  BY <1>5, <1>6, <1>g DEF HolderRecvCrKe1, Goto, TypeOK
<1>9. /\ session'[a].ut = Id(u) /\ session'[a].ivCmd = session[d].ivCmd
      /\ session'[a].key = k /\ session'[a].cipher = Encrypt(g.text, k, session[d].ivCmd)
      /\ session'[a].data = session[a].data
  BY <1>1, <1>2, <1>3, <1>7, <1>8 DEF Session
<1>10. Opening(g, 3)'
  <2>1. HeldTicket(a, d)' = u
    BY <1>8 DEF HeldTicket, u
  <2>2. Owned(d)' /\ order'[d] = g.ord
    BY <1>2, <1>8 DEF Owned
  <2>3. Carries(NoUT, CrKe2(a, session[a]))'
    <3>1. CrKe2(a, session[a])' = CrKe2(a, session'[a])
      BY <1>8 DEF CrKe2, RowOrder
    <3> QED
      BY <3>1, <1>6, <1>8, <1>g, SendChanges DEF Carries
  <2>4. session'[a].key = SessionKey(session'[d].n1, session'[a].key.n2, d, a)
    BY <1>k, <1>8, <1>9, <1>g
  <2> QED
    BY <2>1, <2>2, <2>3, <2>4, <1>1, <1>2, <1>8, <1>9, <1>g DEF Opening
<1>11. Around(g)
  BY <1>8, <1>g, PartiesAssumption DEF Around, Controllers
<1>12. Noticed(g)
  <2>1. UserOf(d)' = UserOf(d) /\ TicketsKept(d)
    BY <1>8, <1>g DEF UserOf, TicketsKept
  <2> QED
    BY <2>1, <1>8, <1>9, <1>g, Unnoticed
<1> QED
  BY <1>10, <1>11, <1>12 DEF Opens

LEMMA OpeningDecided ==
  ASSUME NEW g \in Goals, g.kind \in Entry, ReadyTo(g, "DeviceRecv"), Opening(g, 3)
  PROVE  Opens(g, 4)
<1> DEFINE a == g.to
           d == g.dev
           u == HeldTicket(a, d)
           r == CrKe2(a, session[a])
           k == session[a].key
<1>g. /\ a \in Agents /\ d \in Devices /\ a # d /\ d # NoId /\ a \in Controllers /\ d \in Controllers
      /\ TypeOK /\ SafeInv /\ Sound /\ SoundAt(d) /\ Undisturbed(g) /\ a # NoOne
  BY ReadyFacts
<1>1. /\ state[d] = "DEVICE_WAIT_FOR_CRKE2" /\ session[d].ut = Id(u)
      /\ state[a] = "AGENT_WAIT_FOR_CRKE3" /\ Carries(NoUT, r)
      /\ session[a].ut = Id(u) /\ session[a].ivCmd = session[d].ivCmd
      /\ k = SessionKey(session[d].n1, k.n2, d, a)
      /\ session[a].cipher = Encrypt(g.text, k, session[d].ivCmd)
  BY DEF Opening
<1>2. /\ Owned(d) /\ order[d] = g.ord /\ order[d] > 0
      /\ session[a] \in Session /\ session[d] \in Session /\ table[a][d].order = g.ord
      /\ u.type \in AccessTypes /\ u.order = g.ord /\ u.scope = g.scope
      /\ Id(u).dev = d /\ Id(u).holder = a /\ Id(u).scope = g.scope
  BY OpeningFacts
<1> HIDE DEF u
<1>3. /\ r.type = "CR-KE-2" /\ r.dev = d /\ r.ok /\ r.order = order[d] /\ r.start = Id(u)
      /\ r.n2 = k.n2 /\ r.cipher = session[a].cipher /\ r.ivData = session[a].ivData
      /\ r.signer = a
  BY <1>1, <1>2, <1>g DEF CrKe2, NoRT, RowOrder
<1>4. r.cipher.text = g.text /\ r.cipher.key = k /\ r.cipher.iv = session[d].ivCmd
  BY <1>1, <1>3 DEF Encrypt
<1> HIDE DEF r, k
<1>5. DeviceSessionKey(d, r) = k
  BY <1>1, <1>2, <1>3 DEF DeviceSessionKey
<1>6. /\ DeviceVerifiesCrKe2(d) <=> g.text # NoCmd
      /\ DeviceReadsCrKe2(d) <=> g.text \in g.scope
  BY <1>1, <1>2, <1>3, <1>4, <1>5
     DEF DeviceVerifiesCrKe2, DeviceReadsCrKe2, VerifyHasExecuted, VerifyRDeviceId, VerifyROrder,
         VerifyRAuditStart, VerifyRPs, VerifyRSignature, CrKeTypes, Decrypts, Carries
<1>7. DeviceAcceptCrKe2(d) \/ DeviceRefuseCrKe2(d)
  BY <1>1, <1>g, DeviceTakes DEF ReadyTo, Make
<1>o. UNCHANGED <<order, owner, table>>
  BY <1>7 DEF DeviceAcceptCrKe2, DeviceRefuseCrKe2
<1>t. TicketsKept(d) /\ HeldTicket(a, d)' = u /\ Owned(d)' /\ order'[d] = g.ord
  BY <1>o, <1>2 DEF TicketsKept, HeldTicket, Owned, u
<1>n. UserOf(d) = NoOne
  BY <1>1 DEF UserOf
<1>8. CASE Allowed(g)
  <2>1. DeviceAcceptCrKe2(d)
    BY <1>8, <1>6, <1>7 DEF Allowed, DeviceRefuseCrKe2
  <2>2. PICK f \in FreshNonces :
          /\ session' = [session EXCEPT ![d].key = k, ![d].ivCmd = f]
          /\ SendR([GenReceipt("CR-KE-3", d, order[d], session[d].ut)
                      EXCEPT !.iv = f, !.cipher = Encrypt(r.cipher.text, k, r.ivData)], d)
    BY <2>1, <1>1, <1>5 DEF DeviceAcceptCrKe2, Carries
  <2>3. /\ state'[d] = "DEVICE_WAIT_FOR_CMD" /\ \A c \in Controllers \ {d} : state'[c] = state[c]
        /\ session'[d] = [session[d] EXCEPT !.key = k, !.ivCmd = f]
        /\ \A c \in Controllers \ {d} : session'[c] = session[c]
    BY <2>1, <2>2, <1>g DEF DeviceAcceptCrKe2, Goto, TypeOK
  <2>4. session'[d].ut = Id(u) /\ session'[d].key = k /\ session'[d].ivCmd = f
    BY <2>3, <1>1, <1>2 DEF Session
  <2>5. Carries(NoUT, Answer(g, "CR-KE-3"))'
    <3>1. Answer(g, "CR-KE-3")' =
            [GenReceipt("CR-KE-3", d, order[d], session[d].ut)
               EXCEPT !.iv = f, !.cipher = Encrypt(r.cipher.text, k, r.ivData)]
      BY <2>3, <2>4, <1>1, <1>2, <1>3, <1>4, <1>g DEF Answer
    <3> QED
      BY <3>1, <2>2, <1>g, SendChanges DEF Carries
  <2>6. Serving(a, d)'
    BY <2>3, <2>4, <1>1, <1>2, <1>t, <1>g DEF Serving, SameSession, k
  <2>7. Opening(g, 4)'
    BY <2>3, <2>5, <2>6, <1>1, <1>2, <1>t, <1>8, <1>g DEF Opening, Allowed
  <2>8. Around(g)
    BY <2>3, <1>o, <1>g, PartiesAssumption DEF Around, Controllers
  <2>9. UserOf(d)' = a
    BY <2>3, <2>4, <1>2 DEF UserOf
  <2>10. SoundAt(d)' /\ Book(d)' = Book(d) /\ session'[a].data = session[a].data
    BY <2>3, <1>o, <1>t, <1>g, SoundKept, BookKept
  <2> QED
    BY <2>7, <2>8, <2>9, <2>10, <1>o, <1>n, <1>8 DEF Opens, Noticed, Serves
<1>9. CASE ~ Allowed(g)
  <2>1. DeviceRefuseCrKe2(d)
    BY <1>9, <1>6, <1>7 DEF Allowed, DeviceAcceptCrKe2
  <2>2. /\ state'[d] = "DEVICE_WAIT_FOR_UT" /\ \A c \in Controllers \ {d} : state'[c] = state[c]
        /\ \A c \in Controllers \ {d} : session'[c] = session[c]
    BY <2>1, <1>g DEF DeviceRefuseCrKe2, Goto, TypeOK
  <2>3. Carries(NoUT, GenFailure("CR-KE-3", d, g.ord))'
    BY <2>1, <1>2, <1>g, SendChanges DEF DeviceRefuseCrKe2, Refusal, Carries
  <2>4. Opening(g, 4)'
    BY <2>2, <2>3, <1>1, <1>2, <1>t, <1>9, <1>g DEF Opening, Resting, Allowed
  <2>5. Around(g)
    BY <2>2, <1>o, <1>g, PartiesAssumption DEF Around, Controllers
  <2>6. Noticed(g)
    <3>1. UserOf(d)' = UserOf(d) /\ session'[a].data = session[a].data
      BY <2>2, <1>n, <1>g DEF UserOf
    <3> QED
      BY <3>1, <1>o, <1>t, <1>g, Unnoticed
  <2> QED
    BY <2>4, <2>5, <2>6 DEF Opens
<1> QED
  BY <1>8, <1>9

LEMMA OpeningAnswered ==
  ASSUME NEW g \in Goals, g.kind \in Entry, ReadyTo(g, "HolderRecv"), Opening(g, 4)
  PROVE  Opens(g, 5)
<1> DEFINE a == g.to
           d == g.dev
           u == HeldTicket(a, d)
           r == channel.r
<1>g. /\ a \in Agents /\ d \in Devices /\ a # d /\ d # NoId /\ a \in Controllers /\ d \in Controllers
      /\ TypeOK /\ SafeInv /\ Sound /\ SoundAt(d) /\ Undisturbed(g) /\ a # NoOne
  BY ReadyFacts
<1>1. /\ state[a] = "AGENT_WAIT_FOR_CRKE3" /\ session[a].ut = Id(u)
      /\ Allowed(g) => Serving(a, d) /\ r = Answer(g, "CR-KE-3")
      /\ ~ Allowed(g) => Resting(d) /\ r = GenFailure("CR-KE-3", d, g.ord)
  BY DEF Opening, Carries, Allowed
<1>2. /\ Owned(d) /\ order[d] = g.ord /\ order[d] > 0 /\ r \in RTicket
      /\ session[a] \in Session /\ session[d] \in Session /\ table[a][d].order = g.ord
      /\ u.type \in AccessTypes /\ u.order = g.ord /\ u.scope = g.scope
      /\ Id(u).dev = d /\ Id(u).holder = a
  BY OpeningFacts, TypeParts, <1>g
<1>3. HolderRecvCrKe3(a)
  BY <1>1, <1>g, AgentTakes DEF ReadyTo, Make
<1>4. /\ UNCHANGED <<order, owner, table>>
      /\ state'[a] = Idle /\ \A c \in Controllers \ {a} : state'[c] = state[c]
      /\ \A c \in Controllers \ {a} : session'[c] = session[c]
  BY <1>3, <1>g DEF HolderRecvCrKe3, Goto, TypeOK
<1> HIDE DEF u
<1>t. TicketsKept(d) /\ HeldTicket(a, d)' = u /\ Owned(d)' /\ order'[d] = g.ord
  BY <1>4, <1>2 DEF TicketsKept, HeldTicket, Owned, u
<1>5. Around(g)
  BY <1>4, <1>g, PartiesAssumption DEF Around, Controllers
<1>u. UserOf(d)' = UserOf(d)
  BY <1>4, <1>g DEF UserOf
<1>6. CASE Allowed(g)
  <2>1. /\ r.type = "CR-KE-3" /\ r.ok /\ r.dev = d /\ r.order = g.ord /\ r.start = session[d].ut
        /\ r.iv = session[d].ivCmd /\ r.cipher = Encrypt(g.text, session[d].key, session[a].ivData)
    BY <1>1, <1>6 DEF Answer, GenReceipt, NoRT
  <2>2. /\ session[d].ut = Id(u) /\ session[a].key = session[d].key
        /\ state[d] = "DEVICE_WAIT_FOR_CMD"
    BY <1>1, <1>6 DEF Serving, SameSession, u
  <2> HIDE DEF r
  <2>3. HasExecuted(a, NoUT, r)
    BY <2>1, <2>2, <1>1, <1>2, <1>g
       DEF HasExecuted, VerifyHasExecuted, VerifyRDeviceId, VerifyROrder, VerifyRAuditStart, VerifyRPs,
           VerifyRSignature, RowOrder, CrKeTypes
  <2>4. PICK f \in FreshNonces : session' = [session EXCEPT ![a] = HolderSession(a, r, f)]
    BY <2>3, <1>3 DEF HolderRecvCrKe3, r
  <2>5. Decrypts(r.cipher, session[a].key, session[a].ivData) /\ r.cipher.text = g.text
    BY <2>1, <2>2 DEF Decrypts, Encrypt
  <2>6. HolderSession(a, r, f) = [session[a] EXCEPT !.ivCmd = r.iv, !.data = g.text]
    BY <2>1, <2>5 DEF HolderSession
  <2>7. /\ session'[a].ut = Id(u) /\ session'[a].key = session[a].key
        /\ session'[a].ivCmd = session[d].ivCmd /\ session'[a].data = g.text
    BY <2>1, <2>4, <2>6, <1>1, <1>2, <1>g DEF TypeOK, Session
  <2>8. Serving(a, d)' /\ Agreed(a, d)'
    BY <2>2, <2>7, <1>2, <1>4, <1>t, <1>g DEF Serving, Agreed, SameSession
  <2>9. Opening(g, 5)'
    BY <2>7, <2>8, <1>2, <1>4, <1>t, <1>6 DEF Opening, Allowed
  <2>10. SoundAt(d)' /\ Book(d)' = Book(d) /\ UserOf(d) = a
    BY <2>2, <1>2, <1>4, <1>t, <1>g, SoundKept, BookKept DEF UserOf
  <2> QED
    BY <2>7, <2>9, <2>10, <1>4, <1>5, <1>u, <1>6 DEF Opens, Noticed, Serves
<1>7. CASE ~ Allowed(g)
  <2>1. ~ r.ok
    BY <1>1, <1>7 DEF GenFailure, NoRT
  <2>2. UNCHANGED session
    BY <2>1, <1>3 DEF HolderRecvCrKe3, HasExecuted, VerifyHasExecuted
  <2>3. Opening(g, 5)'
    BY <1>1, <1>2, <1>4, <1>t, <1>7, <1>g DEF Opening, Allowed, Resting
  <2>4. Noticed(g)
    BY <2>2, <1>4, <1>t, <1>u, <1>g, Unnoticed
  <2> QED
    BY <2>3, <2>4, <1>5 DEF Opens
<1> QED
  BY <1>6, <1>7


(***************************************************************************)
(* A command.                                                              *)
(***************************************************************************)
LEMMA ServingFacts ==
  ASSUME NEW g \in Goals, NEW call, ReadyTo(g, call), Serving(g.to, g.dev)
  PROVE  LET a == g.to
             d == g.dev
             u == HeldTicket(a, d)
         IN /\ Owned(d) /\ state[d] = "DEVICE_WAIT_FOR_CMD" /\ UserOf(d) = a
            /\ order[d] \in Nat /\ order[d] > 0
            /\ u \in UTicket /\ u.type \in AccessTypes /\ u.dev = d /\ u.order = order[d]
            /\ u.holder = a /\ u.order < MaxOrder
            /\ u.type = "SELFACCESS" => owner[d] = a
            /\ u.type = "ACCESS" => table[owner[d]][d].accUOthers = u /\ table[a][d].accUOthers = NoUT
            /\ table[a][d].order = order[d]
            /\ session[d].ut = Id(u) /\ session[a].ut = Id(u) /\ session[a].key = session[d].key
            /\ Id(u).dev = d /\ Id(u).holder = a
            /\ session[a] \in Session /\ session[d] \in Session
<1> DEFINE a == g.to
           d == g.dev
           u == HeldTicket(a, d)
<1>1. TypeOK /\ TicketSound(a, d) /\ a \in Agents /\ d \in Devices /\ a \in Controllers
      /\ d \in Controllers
  BY ReadyFacts DEF SoundAt
<1>2. /\ Owned(d) /\ state[d] = "DEVICE_WAIT_FOR_CMD" /\ u.type \in AccessTypes
      /\ u.order = order[d] /\ session[d].ut = Id(u) /\ session[a].ut = Id(u)
      /\ session[a].key = session[d].key
  BY DEF Serving, SameSession
<1>3. u \in UTicket
  BY <1>1, TypeParts DEF HeldTicket
<1>4. session[a] \in Session /\ session[d] \in Session /\ order[d] \in Nat
  BY <1>1, TypeParts
<1>5. Id(u).dev = d /\ Id(u).holder = a
  BY <1>1, <1>2, <1>3, IdFields DEF TicketSound
<1> QED
  BY <1>1, <1>2, <1>3, <1>4, <1>5 DEF TicketSound, Owned, AccessTypes, UserOf

(* The user sends a token: it fits the device, and the session stays.      *)
LEMMA TokenSent ==
  ASSUME NEW g \in Goals, ReadyTo(g, "Send"), Serving(g.to, g.dev), Agreed(g.to, g.dev),
         order[g.dev] = g.ord, NEW type, NEW named,
         HolderSendCmd(g.to, named, g.text, type)
  PROVE  LET a == g.to
             d == g.dev
         IN /\ UNCHANGED <<order, owner, table>>
            /\ \A c \in Controllers \ {a} : state'[c] = state[c] /\ session'[c] = session[c]
            /\ Serving(a, d)' /\ Agreed(a, d)'
            /\ channel'.u = GenToken(type, d, g.ord, Encrypt(g.text, session'[d].key, session'[d].ivCmd),
                                     session'[a].ivData)
            /\ channel'.r = NoRT
            /\ Around(g) /\ Noticed(g)
<1> DEFINE a == g.to
           d == g.dev
           u == HeldTicket(a, d)
           c1 == Encrypt(g.text, session[a].key, session[a].ivCmd)
<1>g. /\ a \in Agents /\ d \in Devices /\ a # d /\ d # NoId /\ a \in Controllers /\ d \in Controllers
      /\ TypeOK /\ SafeInv /\ Sound /\ SoundAt(d) /\ Undisturbed(g) /\ a # NoOne
  BY ReadyFacts
<1>1. /\ Owned(d) /\ state[d] = "DEVICE_WAIT_FOR_CMD"
      /\ session[d].ut = Id(u) /\ session[a].ut = Id(u) /\ session[a].key = session[d].key
      /\ Id(u).dev = d /\ table[a][d].order = order[d] /\ session[a] \in Session
      /\ u.type \in AccessTypes /\ u.order = order[d]
  BY ServingFacts
<1> HIDE DEF u
<1>2. PICK f \in FreshNonces :
        /\ session' = [session EXCEPT ![a].cmd = g.text, ![a].cipher = c1, ![a].ivData = f]
        /\ SendU(GenToken(type, session[a].ut.dev, RowOrder(a, session[a].ut.dev), c1, f), a)
        /\ Goto(a, IF type = "ACCESS_END" THEN "AGENT_WAIT_FOR_RT" ELSE "AGENT_WAIT_FOR_DATA")
  BY DEF HolderSendCmd
<1>3. UNCHANGED <<order, owner, table>>
  BY DEF HolderSendCmd
<1>4. /\ state'[a] = IF type = "ACCESS_END" THEN "AGENT_WAIT_FOR_RT" ELSE "AGENT_WAIT_FOR_DATA"
      /\ \A c \in Controllers \ {a} : state'[c] = state[c] /\ session'[c] = session[c]
      /\ session'[a] = [session[a] EXCEPT !.cmd = g.text, !.cipher = c1, !.ivData = f]
  <2> HIDE DEF c1
  <2> QED
    BY <1>2, <1>g DEF Goto, TypeOK
<1>5. /\ session'[a].ut = Id(u) /\ session'[a].key = session[a].key
      /\ session'[a].ivCmd = session[a].ivCmd /\ session'[a].ivData = f
      /\ session'[a].data = session[a].data
  <2> HIDE DEF c1
  <2> QED
    BY <1>1, <1>4 DEF Session
<1>6. HeldTicket(a, d)' = u /\ Owned(d)' /\ TicketsKept(d)
  BY <1>1, <1>3 DEF HeldTicket, u, Owned, TicketsKept
<1>7. Serving(a, d)' /\ Agreed(a, d)'
  <2>1. session[a].ivCmd = session[d].ivCmd
    BY DEF Agreed
  <2> QED
    BY <2>1, <1>1, <1>3, <1>4, <1>5, <1>6, <1>g DEF Serving, Agreed, SameSession
<1>8. /\ channel'.u = GenToken(type, d, g.ord, Encrypt(g.text, session'[d].key, session'[d].ivCmd),
                               session'[a].ivData)
      /\ channel'.r = NoRT
  <2>1. session[a].ivCmd = session[d].ivCmd
    BY DEF Agreed
  <2>2. /\ session[a].ut.dev = d /\ RowOrder(a, session[a].ut.dev) = g.ord
        /\ c1 = Encrypt(g.text, session'[d].key, session'[d].ivCmd)
    BY <2>1, <1>1, <1>4, <1>g DEF RowOrder
  <2>3. channel'.u = GenToken(type, session[a].ut.dev, RowOrder(a, session[a].ut.dev), c1, f)
        /\ channel'.r = NoRT
    BY <1>2, <1>g, SendChanges
  <2> QED
    BY <2>2, <2>3, <1>5
<1>9. Around(g)
  BY <1>3, <1>4, <1>g, PartiesAssumption DEF Around, Controllers
<1>10. Noticed(g)
  <2>1. UserOf(d)' = UserOf(d)
    BY <1>4, <1>g DEF UserOf
  <2> QED
    BY <2>1, <1>3, <1>5, <1>6, <1>g, Unnoticed
<1> QED
  BY <1>3, <1>4, <1>7, <1>8, <1>9, <1>10

LEMMA TokenFields ==
  ASSUME NEW g, NEW type
  PROVE  LET u == Token(g, type) IN
           /\ u.type = type /\ u.dev = g.dev /\ u.order = g.ord
           /\ u.cipher.text = g.text /\ u.cipher.key = session[g.dev].key
           /\ u.cipher.iv = session[g.dev].ivCmd /\ u.ivData = session[g.to].ivData
BY DEF Token, GenToken, NoUT, Encrypt

LEMMA CommandSent ==
  ASSUME NEW g \in Goals, g.kind = "Command", Ready(g, 0, "Send")
  PROVE  Advances(g, 1)
<1> DEFINE a == g.to
           d == g.dev
<1>1. Serving(a, d) /\ Agreed(a, d) /\ order[d] = g.ord /\ session[d].ut.scope = g.scope
  BY DEF Ready, Phase, Commanding
<1>2. ReadyTo(g, "Send") /\ a \in Controllers /\ d \in Controllers /\ d # a /\ TypeOK
  BY ReadyFacts DEF Ready
<1>3. PICK named \in Devices : HolderSendCmd(a, named, g.text, "CMD_UTOKEN")
  BY <1>2 DEF ReadyTo, Make, SendFor
<1>4. /\ UNCHANGED <<order, owner, table>> /\ state'[a] = "AGENT_WAIT_FOR_DATA"
      /\ \A c \in Controllers \ {a} : state'[c] = state[c] /\ session'[c] = session[c]
      /\ Serving(a, d)' /\ Agreed(a, d)'
      /\ Carries(Token(g, "CMD_UTOKEN"), NoRT)'
      /\ Around(g) /\ Noticed(g)
  <2>1. /\ channel'.u = GenToken("CMD_UTOKEN", d, g.ord,
                              Encrypt(g.text, session'[d].key, session'[d].ivCmd), session'[a].ivData)
        /\ channel'.r = NoRT
    BY <1>1, <1>2, <1>3, TokenSent
  <2>2. Carries(Token(g, "CMD_UTOKEN"), NoRT)'
    BY <2>1 DEF Carries, Token
  <2>3. order' = order /\ owner' = owner /\ table' = table
    BY <1>3 DEF HolderSendCmd
  <2>4. state'[a] = "AGENT_WAIT_FOR_DATA"
    BY <1>2, <1>3 DEF HolderSendCmd, Goto, TypeOK
  <2>5. \A c \in Controllers \ {a} : state'[c] = state[c] /\ session'[c] = session[c]
    BY <1>1, <1>2, <1>3, TokenSent
  <2>6. Serving(a, d)' /\ Agreed(a, d)' /\ Around(g) /\ Noticed(g)
    BY <1>1, <1>2, <1>3, TokenSent
  <2> QED
    BY <2>2, <2>3, <2>4, <2>5, <2>6
<1>5. Phase(g, 1)'
  BY <1>1, <1>2, <1>4 DEF Phase, Commanding, Entry
<1> QED
  BY <1>4, <1>5 DEF Advances, Noticed

LEMMA CommandExecuted ==
  ASSUME NEW g \in Goals, g.kind = "Command", Ready(g, 1, "DeviceRecv")
  PROVE  Advances(g, 2)
<1> DEFINE a == g.to
           d == g.dev
           u == HeldTicket(a, d)
           t == Token(g, "CMD_UTOKEN")
           k == session[d].key
<1>g. /\ a \in Agents /\ d \in Devices /\ a # d /\ d # NoId /\ a \in Controllers /\ d \in Controllers
      /\ TypeOK /\ SafeInv /\ Sound /\ Undisturbed(g) /\ a # NoOne /\ ReadyTo(g, "DeviceRecv")
  BY ReadyFacts DEF Ready
<1>1. /\ Serving(a, d) /\ Agreed(a, d) /\ order[d] = g.ord /\ session[d].ut.scope = g.scope
      /\ state[a] = "AGENT_WAIT_FOR_DATA" /\ Carries(t, NoRT)
  BY DEF Ready, Phase, Commanding
<1>2. /\ Owned(d) /\ state[d] = "DEVICE_WAIT_FOR_CMD" /\ order[d] > 0
      /\ session[d].ut = Id(u) /\ session[a].ut = Id(u) /\ session[a].key = k
      /\ session[d] \in Session /\ u.type \in AccessTypes /\ u.order = order[d]
  BY <1>1, <1>g, ServingFacts
<1>3. /\ t.type = "CMD_UTOKEN" /\ t.dev = d /\ t.order = g.ord /\ t.cipher.text = g.text
      /\ t.cipher.key = k /\ t.cipher.iv = session[d].ivCmd /\ t.ivData = session[a].ivData
  BY TokenFields
<1> HIDE DEF u, t
<1>4. DeviceReadsToken(d) <=> Allowed(g)
  BY <1>1, <1>2, <1>3, <1>g
     DEF DeviceReadsToken, CanExecute, VerifyCanExecute, VerifyUDeviceId, VerifyUOrder, VerifyUHolder,
         VerifyUScope, VerifyUPs, VerifyUSignature, TokenTypes, Decrypts, Carries, Allowed
<1>5. DeviceExecuteCmd(d) \/ DeviceRefuseToken(d)
  BY <1>1, <1>2, <1>3, <1>g, DeviceTakes DEF ReadyTo, Make, Carries
<1>o. /\ UNCHANGED <<order, owner, table, state>>
      /\ HeldTicket(a, d)' = u /\ Owned(d)' /\ TicketsKept(d)
  BY <1>5, <1>2 DEF DeviceExecuteCmd, DeviceRefuseToken, HeldTicket, u, Owned, TicketsKept
<1>6. CASE Allowed(g)
  <2>1. DeviceExecuteCmd(d)
    BY <1>4, <1>5, <1>6 DEF DeviceRefuseToken
  <2>2. PICK f \in FreshNonces :
          /\ session' = [session EXCEPT ![d].ivCmd = f]
          /\ SendR([GenReceipt("DATA_RTOKEN", d, order[d], session[d].ut)
                      EXCEPT !.iv = f, !.cipher = Encrypt(t.cipher.text, k, t.ivData)], d)
    BY <2>1, <1>1 DEF DeviceExecuteCmd, Carries
  <2>3. /\ session'[d] = [session[d] EXCEPT !.ivCmd = f]
        /\ \A c \in Controllers \ {d} : session'[c] = session[c]
    BY <2>2, <1>g DEF TypeOK
  <2>4. session'[d].ut = Id(u) /\ session'[d].key = k /\ session'[d].ivCmd = f
    BY <2>3, <1>2 DEF Session
  <2>5. Carries(NoUT, Answer(g, "DATA_RTOKEN"))'
    <3>1. Answer(g, "DATA_RTOKEN")' =
            [GenReceipt("DATA_RTOKEN", d, order[d], session[d].ut)
               EXCEPT !.iv = f, !.cipher = Encrypt(t.cipher.text, k, t.ivData)]
      BY <2>3, <2>4, <1>1, <1>2, <1>3, <1>g DEF Answer
    <3> QED
      BY <3>1, <2>2, <1>g, SendChanges DEF Carries
  <2>6. Serving(a, d)'
    BY <2>3, <2>4, <1>2, <1>o, <1>g DEF Serving, SameSession, k
  <2>7. Phase(g, 2)'
    BY <2>4, <2>5, <2>6, <1>1, <1>2, <1>o, <1>6 DEF Phase, Commanding, Entry, Allowed
  <2>8. Around(g)
    BY <2>3, <1>o, <1>g, PartiesAssumption DEF Around, Controllers
  <2>9. Noticed(g)
    <3>1. UserOf(d)' = UserOf(d) /\ session'[a].data = session[a].data
      BY <2>3, <2>4, <1>2, <1>o, <1>g DEF UserOf
    <3> QED
      BY <3>1, <1>o, <1>g, Unnoticed
  <2> QED
    BY <2>7, <2>8, <2>9 DEF Advances, Noticed
<1>7. CASE ~ Allowed(g)
  <2>1. DeviceRefuseToken(d)
    BY <1>4, <1>5, <1>7 DEF DeviceExecuteCmd
  <2>2. /\ UNCHANGED session /\ Carries(NoUT, GenFailure("DATA_RTOKEN", d, g.ord))'
    BY <2>1, <1>1, <1>2, <1>3, <1>g, SendChanges DEF DeviceRefuseToken, Refusal, Carries
  <2>3. Serving(a, d)' /\ Agreed(a, d)'
    BY <2>2, <1>1, <1>2, <1>o DEF Serving, Agreed, SameSession
  <2>4. Phase(g, 2)'
    BY <2>2, <2>3, <1>1, <1>o, <1>7 DEF Phase, Commanding, Entry, Allowed
  <2>5. Around(g)
    BY <2>2, <1>o DEF Around
  <2>6. Noticed(g)
    <3>1. UserOf(d)' = UserOf(d)
      BY <2>2, <1>o DEF UserOf
    <3> QED
      BY <3>1, <2>2, <1>o, <1>g, Unnoticed
  <2> QED
    BY <2>4, <2>5, <2>6 DEF Advances, Noticed
<1> QED
  BY <1>6, <1>7

LEMMA CommandAnswered ==
  ASSUME NEW g \in Goals, g.kind = "Command", Ready(g, 2, "HolderRecv")
  PROVE  Advances(g, 3)
<1> DEFINE a == g.to
           d == g.dev
           u == HeldTicket(a, d)
           r == channel.r
<1>g. /\ a \in Agents /\ d \in Devices /\ a # d /\ d # NoId /\ a \in Controllers /\ d \in Controllers
      /\ TypeOK /\ SafeInv /\ Sound /\ SoundAt(d) /\ Undisturbed(g) /\ a # NoOne
      /\ ReadyTo(g, "HolderRecv")
  BY ReadyFacts DEF Ready
<1>1. /\ Serving(a, d) /\ order[d] = g.ord /\ session[d].ut.scope = g.scope
      /\ state[a] = "AGENT_WAIT_FOR_DATA"
      /\ Allowed(g) => r = Answer(g, "DATA_RTOKEN")
      /\ ~ Allowed(g) => Agreed(a, d) /\ r = GenFailure("DATA_RTOKEN", d, g.ord)
  BY DEF Ready, Phase, Commanding, Carries
<1>2. /\ Owned(d) /\ state[d] = "DEVICE_WAIT_FOR_CMD" /\ UserOf(d) = a
      /\ session[d].ut = Id(u) /\ session[a].ut = Id(u) /\ session[a].key = session[d].key
      /\ session[a] \in Session /\ u.type \in AccessTypes /\ u.order = order[d] /\ u.dev = d
      /\ table[a][d].order = order[d] /\ u # NoUT
  BY <1>1, <1>g, ServingFacts, EmptyFields DEF AccessTypes
<1>3. HolderRecvData(a)
  BY <1>1, <1>g, AgentTakes DEF ReadyTo, Make
<1>s. table[a][d].uOwner = u
  BY DEF HeldTicket
<1> HIDE DEF u
<1>4. CASE Allowed(g)
  <2>1. /\ r.type = "DATA_RTOKEN" /\ r.ok /\ r.dev = d /\ r.order = g.ord /\ r.start = Id(u)
        /\ r.iv = session[d].ivCmd /\ r.cipher = Encrypt(g.text, session[d].key, session[a].ivData)
    BY <1>1, <1>2, <1>4 DEF Answer, GenReceipt, NoRT
  <2> HIDE DEF r
  <2>2. HasExecuted(a, u, r)
    BY <2>1, <1>1, <1>2, <1>g
       DEF HasExecuted, VerifyHasExecuted, VerifyRDeviceId, VerifyROrder, VerifyRAuditStart, VerifyRPs,
           VerifyRSignature, RowOrder, CrKeTypes
  <2>3. Decrypts(r.cipher, session[a].key, session[a].ivData) /\ r.cipher.text = g.text
    BY <2>1, <1>2 DEF Decrypts, Encrypt
  <2>4. HolderReads(a, r)
    BY <2>1, <2>3 DEF HolderReads
  <2>5. /\ \E f \in FreshNonces : session' = [session EXCEPT ![a] = HolderSession(a, r, f)]
        /\ table' = IF r.type \in ReceiptTypes THEN [table EXCEPT ![a][r.dev].order = r.order] ELSE table
        /\ Goto(a, "DEVICE_WAIT_FOR_CMD")
        /\ UNCHANGED <<order, owner>>
    BY <2>1, <2>2, <2>4, <1>2, <1>3, <1>s, <1>g DEF HolderRecvData, r
  <2>6. PICK f \in FreshNonces : session' = [session EXCEPT ![a] = HolderSession(a, r, f)]
    BY <2>5
  <2>7. HolderSession(a, r, f) = [session[a] EXCEPT !.ivCmd = r.iv, !.data = g.text]
    BY <2>1, <2>3 DEF HolderSession
  <2>8. /\ UNCHANGED <<order, owner, table>>
        /\ \A c \in Controllers \ {a} : state'[c] = state[c] /\ session'[c] = session[c]
        /\ session'[a] = HolderSession(a, r, f) /\ state'[a] = "DEVICE_WAIT_FOR_CMD"
    BY <2>1, <2>5, <2>6, <1>g DEF Goto, TypeOK, ReceiptTypes
  <2>9. /\ session'[a].ut = Id(u) /\ session'[a].key = session[a].key
        /\ session'[a].ivCmd = session[d].ivCmd /\ session'[a].data = g.text
    BY <2>1, <2>7, <2>8, <1>2 DEF Session
  <2>10. HeldTicket(a, d)' = u /\ Owned(d)' /\ TicketsKept(d)
    BY <2>8, <1>2 DEF HeldTicket, u, Owned, TicketsKept
  <2>11. Serving(a, d)' /\ Agreed(a, d)'
    BY <2>8, <2>9, <2>10, <1>2, <1>g DEF Serving, Agreed, SameSession
  <2>12. Phase(g, 3)'
    BY <2>8, <2>9, <2>11, <1>1, <1>g DEF Phase, Commanding, Entry
  <2>13. Around(g)
    BY <2>8, <1>g, PartiesAssumption DEF Around, Controllers
  <2>14. UserOf(d)' = a /\ SoundAt(d)' /\ Book(d)' = Book(d)
    BY <2>8, <2>10, <1>2, <1>g, SoundKept, BookKept DEF UserOf
  <2> QED
    BY <2>8, <2>9, <2>12, <2>13, <2>14, <1>2, <1>4 DEF Advances, Serves
<1>5. CASE ~ Allowed(g)
  <2>1. ~ r.ok /\ r.dev = d
    BY <1>1, <1>5 DEF GenFailure, NoRT
  <2>2. TouchRow(a, d) /\ UNCHANGED <<state, session, order, owner>>
    BY <2>1, <1>3, <1>g DEF HolderRecvData, HasExecuted, VerifyHasExecuted
  <2>3. OnlyRow(a, d) /\ RowsKept(d) /\ TicketsKept(d)
    BY <2>2, <1>g, TouchKeeps
  <2>4. HeldTicket(a, d)' = u /\ Owned(d)'
    BY <2>2, <2>3, <1>2, <1>g DEF HeldTicket, u, Owned, RowsKept
  <2>5. Serving(a, d)' /\ Agreed(a, d)'
    BY <2>2, <2>4, <1>1, <1>2, <1>5 DEF Serving, Agreed, SameSession
  <2>6. Phase(g, 3)'
    BY <2>2, <2>5, <1>1, <1>5 DEF Phase, Commanding, Entry, Allowed
  <2>7. Around(g)
    BY <2>2, <2>3, <1>g DEF Around, OnlyRow
  <2>8. Noticed(g)
    BY <2>2, <2>3, <1>g, Unnoticed DEF UserOf
  <2> QED
    BY <2>6, <2>7, <2>8 DEF Advances, Noticed
<1> QED
  BY <1>4, <1>5

(***************************************************************************)
(* The end of an access.                                                   *)
(***************************************************************************)
EndReceiptFields(u, r) ==
  /\ r.type = "ACCESS_END" /\ r.dev = u.dev /\ r.ok /\ r.order = u.order + 1 /\ r.start = Id(u)

LEMMA EndReceiptHas ==
  ASSUME NEW u
  PROVE  EndReceiptFields(u, EndReceipt(u))
BY DEF EndReceiptFields, EndReceipt, GenReceipt, NoRT

(* Such a receipt shows that the ticket was executed to who has the device *)
(* at the order of the ticket.                                             *)
LEMMA EndReceiptVerifies ==
  ASSUME NEW d \in Devices, NEW a \in Agents, NEW u, NEW r, EndReceiptFields(u, r),
         u.dev = d, table[a][d].order = u.order
  PROVE  HasExecuted(a, u, r)
BY DEF EndReceiptFields, HasExecuted, VerifyHasExecuted, VerifyRDeviceId, VerifyROrder,
       VerifyRAuditStart, VerifyRPs, VerifyRSignature, RowOrder, CrKeTypes

LEMMA EndSent ==
  ASSUME NEW g \in Goals, g.kind = "End", Ready(g, 0, "Send")
  PROVE  Advances(g, 1)
<1> DEFINE a == g.to
           d == g.dev
<1>1. Serving(a, d) /\ Agreed(a, d) /\ order[d] = g.ord /\ owner[d] = g.by
  BY DEF Ready, Phase, Ending
<1>2. ReadyTo(g, "Send") /\ a \in Controllers /\ d \in Controllers /\ d # a /\ TypeOK
  BY ReadyFacts DEF Ready
<1>3. PICK named \in Devices : HolderSendCmd(a, named, g.text, "ACCESS_END")
  BY <1>2 DEF ReadyTo, Make, SendFor
<1>4. Carries(Token(g, "ACCESS_END"), NoRT)'
  <2>1. /\ channel'.u = GenToken("ACCESS_END", d, g.ord,
                              Encrypt(g.text, session'[d].key, session'[d].ivCmd), session'[a].ivData)
        /\ channel'.r = NoRT
    BY <1>1, <1>2, <1>3, TokenSent
  <2> QED
    BY <2>1 DEF Carries, Token
<1>5. order' = order /\ owner' = owner /\ state'[a] = "AGENT_WAIT_FOR_RT"
  BY <1>2, <1>3 DEF HolderSendCmd, Goto, TypeOK
<1>6. Serving(a, d)' /\ Agreed(a, d)' /\ Around(g) /\ Noticed(g)
  BY <1>1, <1>2, <1>3, TokenSent
<1>7. Phase(g, 1)'
  BY <1>1, <1>4, <1>5, <1>6 DEF Phase, Ending, Entry
<1> QED
  BY <1>6, <1>7 DEF Advances, Noticed

LEMMA EndExecuted ==
  ASSUME NEW g \in Goals, g.kind = "End", Ready(g, 1, "DeviceRecv")
  PROVE  Advances(g, 2)
<1> DEFINE a == g.to
           b == g.by
           d == g.dev
           u == HeldTicket(a, d)
           t == Token(g, "ACCESS_END")
<1>g. /\ a \in Agents /\ b \in Agents /\ d \in Devices /\ a # d /\ b # d
      /\ a \in Controllers /\ d \in Controllers
      /\ TypeOK /\ SafeInv /\ SoundAt(d) /\ Undisturbed(g) /\ a # NoOne /\ b # NoOne
      /\ g.text = EndCmd /\ ReadyTo(g, "DeviceRecv")
  BY ReadyFacts DEF Ready, GoalOk
<1>1. /\ Serving(a, d) /\ Agreed(a, d) /\ order[d] = g.ord /\ owner[d] = b
      /\ state[a] = "AGENT_WAIT_FOR_RT" /\ Carries(t, NoRT)
  BY DEF Ready, Phase, Ending
<1>2. /\ Owned(d) /\ state[d] = "DEVICE_WAIT_FOR_CMD" /\ UserOf(d) = a
      /\ order[d] \in Nat /\ order[d] > 0
      /\ u.type \in AccessTypes /\ u.dev = d /\ u.order = order[d]
      /\ u.holder = a /\ u.order < MaxOrder
      /\ u.type = "SELFACCESS" => owner[d] = a
      /\ u.type = "ACCESS" => table[owner[d]][d].accUOthers = u /\ table[a][d].accUOthers = NoUT
      /\ table[a][d].order = order[d] /\ session[d].ut = Id(u)
  BY <1>1, <1>g, ServingFacts
<1>3. /\ t.type = "ACCESS_END" /\ t.dev = d /\ t.order = g.ord /\ t.cipher.text = EndCmd
      /\ t.cipher.key = session[d].key /\ t.cipher.iv = session[d].ivCmd
  BY <1>g, TokenFields
<1>w. a # b => u.type = "ACCESS" /\ table[b][d].accUOthers = u /\ table[a][d].accUOthers = NoUT
  BY <1>1, <1>2 DEF AccessTypes
<1> HIDE DEF u, t
<1>4. DeviceReadsToken(d)
  BY <1>1, <1>2, <1>3, <1>g, TextsAssumption
     DEF DeviceReadsToken, CanExecute, VerifyCanExecute, VerifyUDeviceId, VerifyUOrder, VerifyUHolder,
         VerifyUScope, VerifyUPs, VerifyUSignature, TokenTypes, Decrypts, Carries
<1>5. DeviceEndAccess(d)
  BY <1>1, <1>2, <1>3, <1>4, <1>g, DeviceTakes DEF ReadyTo, Make, Carries, DeviceRefuseToken
<1>6. /\ \E f \in FreshNonces : session' = [session EXCEPT ![d].ivCmd = f]
      /\ order' = [order EXCEPT ![d] = @ + 1]
      /\ SendR(GenReceipt("ACCESS_END", d, order'[d], session[d].ut), d)
      /\ Goto(d, "DEVICE_WAIT_FOR_UT")
      /\ UNCHANGED <<owner, table>>
  BY <1>1, <1>3, <1>5 DEF DeviceEndAccess, Carries
<1>7. /\ state'[d] = "DEVICE_WAIT_FOR_UT" /\ \A c \in Controllers \ {d} : state'[c] = state[c]
      /\ \A c \in Controllers \ {d} : session'[c] = session[c]
      /\ order'[d] = g.ord + 1 /\ \A e \in Devices \ {d} : order'[e] = order[e]
  BY <1>1, <1>6, <1>g DEF Goto, TypeOK
<1>8. HeldTicket(a, d)' = u
  BY <1>6 DEF HeldTicket, u
<1>9. Carries(NoUT, EndReceipt(HeldTicket(a, d)))'
  <2>1. channel'.u = NoUT /\ channel'.r = GenReceipt("ACCESS_END", d, g.ord + 1, Id(u))
    BY <1>2, <1>6, <1>7, <1>g, SendChanges
  <2>2. EndReceipt(HeldTicket(a, d))' = EndReceipt(u)
    BY <1>8 DEF EndReceipt
  <2> QED
    BY <2>1, <2>2, <1>1, <1>2 DEF Carries, EndReceipt
<1>10. Past(g, b)' /\ table'[b][d].order = g.ord
  BY <1>1, <1>2, <1>6, <1>7 DEF Past, Resting, Owned
<1>s. SoundAt(d)' /\ NobodyMayEnter(d)'
  BY <1>1, <1>6, <1>7, <1>g, SoundPast
<1>11. Phase(g, 2)'
  <2>1. a # b => Granted(d)' = u /\ table'[a][d].accUOthers = NoUT
    BY <1>1, <1>6, <1>w DEF Granted
  <2>2. state'[a] = "AGENT_WAIT_FOR_RT" /\ table'[a][d].order = g.ord
    BY <1>1, <1>2, <1>6, <1>7, <1>g
  <2>3. Ending(g, 2)'
    BY <2>1, <2>2, <1>1, <1>2, <1>s, <1>w, <1>8, <1>9, <1>10 DEF Ending
  <2> QED
    BY <2>3 DEF Phase, Entry
<1>12. Around(g)
  BY <1>6, <1>7, <1>g, PartiesAssumption DEF Around, Controllers
<1>13. UserOf(d) = a /\ SoundAt(d)'
  BY <1>2, <1>s
<1>14. UserOf(d)' = NoOne /\ Book(d)' = Book(d) /\ session'[a].data = session[a].data
  BY <1>1, <1>6, <1>7, <1>g DEF UserOf, Book
<1> QED
  BY <1>1, <1>2, <1>6, <1>7, <1>11, <1>12, <1>13, <1>14 DEF Advances, Serves

LEMMA EndConfirmed ==
  ASSUME NEW g \in Goals, g.kind = "End", Ready(g, 2, "HolderRecv")
  PROVE  Advances(g, 3)
<1> DEFINE a == g.to
           b == g.by
           d == g.dev
           u == HeldTicket(a, d)
           r == channel.r
           s == IF table[a][d].accUOthers = NoUT THEN r ELSE table[a][d].rOwner
           row == [table[a][d] EXCEPT !.present = TRUE, !.rOwner = s]
<1>g. /\ a \in Agents /\ b \in Agents /\ d \in Devices /\ a # d /\ b # d /\ g.ord \in Nat
      /\ a \in Controllers /\ d \in Controllers
      /\ TypeOK /\ SafeInv /\ SoundAt(d) /\ Undisturbed(g) /\ a # NoOne /\ b # NoOne
      /\ ReadyTo(g, "HolderRecv") /\ table[a][d] \in Row
  BY ReadyFacts, TypeParts DEF Ready
<1>1. /\ Past(g, b) /\ state[a] = "AGENT_WAIT_FOR_RT" /\ table[b][d].order = g.ord
      /\ u.dev = d /\ u.order = g.ord /\ u.order < MaxOrder /\ table[a][d].order = g.ord
      /\ a # b => /\ Granted(d) = u /\ table[a][d].accUOthers = NoUT
                  /\ u.type = "ACCESS" /\ u.holder = a
      /\ r = EndReceipt(u) /\ NobodyMayEnter(d)
  BY DEF Ready, Phase, Ending, Carries
<1>2. EndReceiptFields(u, r)
  BY <1>1, EndReceiptHas
<1>3. table[a][d].uOwner = u
  BY DEF HeldTicket
<1> HIDE DEF u, r, s
<1>4. StoredRow(a, r) = row
  BY <1>1, <1>2 DEF StoredRow, EndReceiptFields, s
<1>5. row \in Row /\ row.uOwner = u /\ row.accUOthers = table[a][d].accUOthers /\ row.rOwner = s
  <2>1. s \in RTicket
    BY <1>g, TypeParts DEF s, r, Row
  <2> QED
    BY <2>1, <1>3, <1>g DEF Row
<1> HIDE DEF row
<1>6. HasExecuted(a, row.uOwner, r)
  BY <1>1, <1>2, <1>5, <1>g, EndReceiptVerifies
<1>7. /\ SetsRow(a, d, [row EXCEPT !.order = g.ord + 1])
      /\ state'[a] = Idle /\ \A c \in Controllers \ {a} : state'[c] = state[c]
      /\ UNCHANGED <<order, owner, session>>
  <2>1. HolderRecvRTicket(a)
    BY <1>1, <1>g, AgentTakes DEF ReadyTo, Make
  <2>2. r.dev = d /\ r.type \in ReceiptTypes /\ r.order = g.ord + 1
    BY <1>1, <1>2 DEF EndReceiptFields, ReceiptTypes
  <2> QED
    BY <2>1, <2>2, <1>4, <1>6, <1>g, ReceiptTaken DEF r
<1>8. /\ table'[a][d].uOwner = u /\ table'[a][d].order = g.ord + 1 /\ table'[a][d].rOwner = s
      /\ table'[a][d].accUOthers = table[a][d].accUOthers
      /\ \A x \in Agents \ {a} : table'[x][d] = table[x][d]
  BY <1>5, <1>7, <1>g DEF SetsRow, Row
<1>9. Past(g, b)'
  BY <1>1, <1>7, <1>g DEF Past, Resting
<1>10. a # b => Behind(a, b, d)'
  <2>1. HAVE a # b
  <2>2. s = r /\ r = EndReceipt(u)
    BY <2>1, <1>1 DEF s
  <2>3. Granted(d)' = u
    BY <2>1, <1>1, <1>8, <1>9, <1>g DEF Granted, Past
  <2>4. NobodyMayEnter(d)'
    <3>1. \A x \in Agents : HeldTicket(x, d)' = HeldTicket(x, d)
      BY <1>3, <1>8 DEF HeldTicket
    <3> QED
      BY <3>1, <1>1, <1>7 DEF NobodyMayEnter
  <2>5. table'[b][d].order = u.order /\ table'[a][d].rOwner = EndReceipt(u)
    BY <2>1, <2>2, <1>1, <1>8, <1>g
  <2>6. EndReceipt(Granted(d))' = EndReceipt(u)
    BY <2>3 DEF EndReceipt
  <2> QED
    BY <2>1, <2>3, <2>4, <2>5, <2>6, <1>1, <1>9 DEF Behind, Past
<1>11. Phase(g, 3)'
  <2>1. CASE a = b
    BY <2>1, <1>7, <1>8, <1>9, <1>g DEF Phase, Ending, Entry, Past, Owned
  <2>2. CASE a # b
    BY <2>2, <1>7, <1>9, <1>10 DEF Phase, Ending, Entry
  <2> QED
    BY <2>1, <2>2
<1>12. Around(g)
  BY <1>7, <1>g, PartiesAssumption DEF Around, SetsRow, Controllers
<1>13. SoundAt(d)'
  <2>1. TicketSound(a, d)
    BY <1>g DEF SoundAt
  <2>2. TicketSound(a, d)'
    BY <2>1, <1>1, <1>3, <1>7, <1>8, <1>g DEF TicketSound, HeldTicket, Past
  <2> QED
    BY <2>2, <1>7, <1>8, <1>g, SoundBut
<1>14. UserOf(d)' = UserOf(d) /\ session'[a].data = session[a].data
  BY <1>1, <1>7, <1>9 DEF UserOf, Past, Resting
<1>15. CASE a = b
  <2>1. Book(d) # order[d] /\ Book(d)' = order[d]
    BY <1>1, <1>7, <1>8, <1>15, <1>g DEF Book, Past
  <2> QED
    BY <2>1, <1>7, <1>11, <1>12, <1>13, <1>14, <1>g DEF Advances, Serves, Undisturbed
<1>16. CASE a # b
  <2>1. Book(d)' = Book(d)
    BY <1>1, <1>7, <1>8, <1>16, <1>g DEF Book, Past
  <2> QED
    BY <2>1, <1>7, <1>11, <1>12, <1>13, <1>14, <1>g DEF Advances, Serves, Undisturbed
<1> QED
  BY <1>15, <1>16

(* Behind only depends on the device, the owner and what matters in a row. *)
LEMMA BehindKept ==
  ASSUME NEW d \in Devices, NEW a \in Agents, NEW b \in Agents, Behind(a, b, d), RowsKept(d),
         state'[d] = state[d], order'[d] = order[d], owner'[d] = owner[d]
  PROVE  Behind(a, b, d)' /\ Granted(d)' = Granted(d)
<1>1. /\ Resting(d) /\ owner[d] = b /\ a # b /\ NobodyMayEnter(d)
      /\ Granted(d).type = "ACCESS" /\ Granted(d).dev = d /\ Granted(d).holder = a
      /\ Granted(d).order < MaxOrder /\ order[d] = Granted(d).order + 1
      /\ table[b][d].order = Granted(d).order /\ table[a][d].rOwner = EndReceipt(Granted(d))
  BY DEF Behind
<1>2. Granted(d)' = Granted(d)
  BY <1>1 DEF Granted, RowsKept
<1>3. EndReceipt(Granted(d))' = EndReceipt(Granted(d))
  BY <1>2 DEF EndReceipt
<1>4. NobodyMayEnter(d)'
  <2>1. \A x \in Agents : HeldTicket(x, d)' = HeldTicket(x, d)
    BY DEF HeldTicket, RowsKept
  <2> QED
    BY <2>1, <1>1 DEF NobodyMayEnter
<1>5. table'[b][d].order = table[b][d].order /\ table'[a][d].rOwner = table[a][d].rOwner
  BY DEF RowsKept
<1> QED
  BY <1>1, <1>2, <1>3, <1>4, <1>5 DEF Behind, Resting

(* The holder sends the owner the receipt she has not heard of.            *)
LEMMA EndTold ==
  ASSUME NEW g \in Goals, ReadyTo(g, "Report"), Behind(g.to, g.by, g.dev)
  PROVE  /\ UNCHANGED <<state, order, owner, session>>
         /\ Behind(g.to, g.by, g.dev)' /\ Carries(NoUT, EndReceipt(Granted(g.dev)))'
         /\ Around(g) /\ Noticed(g)
<1> DEFINE a == g.to
           b == g.by
           d == g.dev
<1>g. /\ a \in Agents /\ b \in Agents /\ d \in Devices /\ a \in Controllers
      /\ TypeOK /\ SafeInv /\ Sound /\ Undisturbed(g)
  BY ReadyFacts
<1>1. table[a][d].rOwner = EndReceipt(Granted(d))
  BY DEF Behind
<1>2. /\ UNCHANGED <<state, order, owner, session>> /\ TouchRow(a, d)
      /\ channel'.u = NoUT /\ channel'.r = table[a][d].rOwner
  <2>1. HolderSendRTicketToIssuer(a, d)
    BY DEF ReadyTo, Make
  <2> QED
    BY <2>1, <1>g, SendChanges DEF HolderSendRTicketToIssuer
<1>3. OnlyRow(a, d) /\ RowsKept(d) /\ TicketsKept(d)
  BY <1>2, <1>g, TouchKeeps
<1>4. Behind(a, b, d)' /\ Granted(d)' = Granted(d)
  BY <1>2, <1>3, <1>g, BehindKept
<1>5. Carries(NoUT, EndReceipt(Granted(d)))'
  <2>1. EndReceipt(Granted(d))' = EndReceipt(Granted(d))
    BY <1>4 DEF EndReceipt
  <2> QED
    BY <2>1, <1>1, <1>2 DEF Carries
<1>6. Around(g)
  BY <1>2, <1>3, <1>g DEF Around, OnlyRow
<1>7. Noticed(g)
  BY <1>2, <1>3, <1>g, Unnoticed DEF UserOf
<1> QED
  BY <1>2, <1>4, <1>5, <1>6, <1>7

(* The owner takes it, if she is idle; else it is lost on her.             *)
LEMMA EndTaken ==
  ASSUME NEW g \in Goals, ReadyTo(g, "IssuerRecv"), Behind(g.to, g.by, g.dev),
         Carries(NoUT, EndReceipt(Granted(g.dev))), state[g.by] = Idle
  PROVE  /\ UNCHANGED <<state, order, owner, session>>
         /\ Resting(g.dev)' /\ Owned(g.dev)' /\ Around(g) /\ Noticed(g)
<1> DEFINE a == g.to
           b == g.by
           d == g.dev
           w == Granted(d)
           r == channel.r
           row == ReportedRow(b, r)
<1>g. /\ a \in Agents /\ b \in Agents /\ d \in Devices /\ d # NoId
      /\ a \in Controllers /\ b \in Controllers /\ d \in Controllers /\ a # NoOne /\ b # NoOne
      /\ TypeOK /\ SafeInv /\ SoundAt(d) /\ Undisturbed(g)
      /\ table[b][d] \in Row /\ r \in RTicket /\ table[b][d].order \in Nat
  BY ReadyFacts, TypeParts
<1>1. /\ Resting(d) /\ owner[d] = b /\ a # b /\ NobodyMayEnter(d)
      /\ w.type = "ACCESS" /\ w.dev = d /\ order[d] = w.order + 1 /\ table[b][d].order = w.order
      /\ channel.u = NoUT /\ r = EndReceipt(w)
  BY DEF Behind, Carries
<1>2. EndReceiptFields(w, r) /\ r.dev = d /\ r.type = "ACCESS_END" /\ r.order = order[d]
  BY <1>1, EndReceiptHas DEF EndReceiptFields
<1>w. table[b][d].accUOthers = w
  BY <1>1 DEF Granted
<1> HIDE DEF r, w
<1>3. /\ row.order = order[d] /\ row.uOwner = table[b][d].uOwner
      /\ row.accUOthers = NoUT
  <2> DEFINE s == IF table[b][d].accUOthers = NoUT THEN r ELSE table[b][d].rOwner
  <2>1. StoredRow(b, r) = [table[b][d] EXCEPT !.present = TRUE, !.rOwner = s]
    BY <1>2 DEF StoredRow
  <2>2. row = [StoredRow(b, r) EXCEPT !.accUOthers = NoUT, !.order = order[d]]
    BY <1>2 DEF ReportedRow
  <2> HIDE DEF row, s
  <2> QED
    BY <2>1, <2>2, <1>g DEF Row
<1>4. SetsRow(b, d, row) /\ UNCHANGED <<state, order, owner, session>>
  <2>1. IssuerRecvRTicket(b)
    BY <1>1, <1>2, <1>g, AgentTakes DEF ReadyTo, Make, ReceiptTypes, r
  <2>2. IssuedUTicket(b, r) = w /\ w # NoUT
    <3>1. w # NoUT
      BY <1>1, <1>g, EmptyNamesNothing
    <3>2. IssuedUTicket(b, r) = w
      BY <1>2, <1>w, <1>g DEF IssuedUTicket
    <3> QED
      BY <3>1, <3>2
  <2>3. HasExecuted(b, w, r)
    BY <1>1, <1>2, <1>g, EndReceiptVerifies
  <2> QED
    BY <2>1, <2>2, <2>3, <1>2, <1>g, ReportTaken DEF r
<1> HIDE DEF row
<1>5. table'[b][d] = row /\ \A x \in Agents \ {b} : table'[x][d] = table[x][d]
  BY <1>4, <1>g DEF SetsRow
<1>6. Resting(d)' /\ Owned(d)'
  BY <1>1, <1>3, <1>4, <1>5, <1>g DEF Resting, Owned
<1>7. Around(g)
  BY <1>4, <1>g DEF Around, SetsRow
<1>8. SoundAt(d)'
  <2>1. ASSUME NEW x \in Agents
        PROVE  TicketSound(x, d)'
    <3>1. TicketSound(x, d) /\ HeldTicket(x, d)' = HeldTicket(x, d)
      BY <1>3, <1>5, <1>g DEF HeldTicket, SoundAt
    <3>2. HeldTicket(x, d).type \in AccessTypes => HeldTicket(x, d).order # order[d]
      BY <1>1 DEF NobodyMayEnter
    <3> QED
      BY <3>1, <3>2, <1>4 DEF TicketSound
  <2> QED
    BY <2>1 DEF SoundAt
<1>9. UserOf(d)' = UserOf(d) /\ Book(d) # order[d] /\ Book(d)' = order[d]
  BY <1>1, <1>3, <1>4, <1>5, <1>g DEF Book, UserOf
<1>10. Serves(g)
  BY <1>4, <1>9 DEF Serves
<1>11. Noticed(g)
  BY <1>8, <1>9, <1>10, <1>g DEF Noticed, Undisturbed
<1> QED
  BY <1>4, <1>6, <1>7, <1>11

LEMMA EndMissed ==
  ASSUME NEW g \in Goals, ReadyTo(g, "IssuerRecv"), Behind(g.to, g.by, g.dev),
         Carries(NoUT, EndReceipt(Granted(g.dev))), state[g.by] # Idle
  PROVE  /\ UNCHANGED <<state, order, owner, session>> /\ ~ Free(g.by)
         /\ Behind(g.to, g.by, g.dev)' /\ Around(g) /\ Noticed(g)
<1> DEFINE a == g.to
           b == g.by
           d == g.dev
           w == Granted(d)
           r == channel.r
<1>g. /\ a \in Agents /\ b \in Agents /\ d \in Devices
      /\ TypeOK /\ SafeInv /\ Sound /\ SoundAt(d) /\ Undisturbed(g) /\ AgentRecv(b)
      /\ w \in UTicket /\ table[b][d].uOwner \in UTicket
  <2>1. AgentRecv(b)
    BY DEF ReadyTo, Make
  <2>2. owner[d] = b
    BY DEF Behind
  <2> QED
    BY <2>1, <2>2, ReadyFacts, TypeParts DEF Granted
<1>1. a # b /\ w.type = "ACCESS" /\ w.dev = d /\ w.holder = a /\ r = EndReceipt(w)
  BY DEF Behind, Carries
<1>2. ~ Free(b) /\ state[b] \in {"DEVICE_WAIT_FOR_CMD", "AGENT_WAIT_FOR_DATA"}
  BY <1>1, <1>g DEF Undisturbed, IdleAgent
<1>3. EndReceiptFields(w, r)
  BY <1>1, EndReceiptHas
<1> HIDE DEF r, w
<1>4. /\ UNCHANGED <<state, order, owner, session>>
      /\ table' = table \/ TouchRow(b, d)
  <2>1. CASE state[b] = "DEVICE_WAIT_FOR_CMD"
    <3>1. AgentRefusesAsDevice(b)
      BY <2>1, <1>g, AgentTakes
    <3> QED
      BY <3>1 DEF AgentRefusesAsDevice
  <2>2. CASE state[b] = "AGENT_WAIT_FOR_DATA"
    <3> DEFINE q == table[b][d].uOwner
    <3>1. HolderRecvData(b)
      BY <2>2, <1>g, AgentTakes
    <3>2. ~ HasExecuted(b, q, r)
      <4>1. HasExecuted(b, q, r) => Id(w) = Id(q)
        BY <1>3 DEF EndReceiptFields, HasExecuted, VerifyHasExecuted, VerifyRAuditStart, CrKeTypes
      <4>2. Id(w) = Id(q) => q.type = "ACCESS" /\ q.holder = a
        BY <1>1, <1>g, IdFields
      <4>3. q.type = "ACCESS" => q.holder = b
        BY <1>g DEF SoundAt, TicketSound, HeldTicket, AccessTypes
      <4> QED
        BY <4>1, <4>2, <4>3, <1>1
    <3>3. r.dev = d
      BY <1>1, <1>3 DEF EndReceiptFields
    <3> HIDE DEF q
    <3>4. /\ UNCHANGED <<order, owner>>
          /\ \/ TouchRow(b, d) /\ UNCHANGED <<state, session>>
             \/ q # NoUT /\ HasExecuted(b, q, r)
      BY <3>1, <3>3, <1>g DEF HolderRecvData, q, r
    <3> QED
      BY <3>2, <3>4
  <2> QED
    BY <2>1, <2>2, <1>2
<1>5. OnlyRow(b, d) /\ RowsKept(d) /\ TicketsKept(d)
  <2>1. CASE table' = table
    BY <2>1 DEF OnlyRow, RowsKept, TicketsKept
  <2>2. CASE TouchRow(b, d)
    BY <2>2, <1>g, TouchKeeps
  <2> QED
    BY <2>1, <2>2, <1>4
<1>6. Behind(a, b, d)'
  BY <1>4, <1>5, <1>g, BehindKept
<1>7. Around(g)
  BY <1>4, <1>5, <1>g DEF Around, OnlyRow
<1>8. Noticed(g)
  BY <1>4, <1>5, <1>g, Unnoticed DEF UserOf
<1> QED
  BY <1>2, <1>4, <1>6, <1>7, <1>8

LEMMA EndReported ==
  ASSUME NEW g \in Goals, g.kind = "End", g.by # g.to, Ready(g, 3, "Report")
  PROVE  Advances(g, 4)
<1>1. /\ ReadyTo(g, "Report") /\ Past(g, g.by) /\ state[g.to] = Idle
      /\ Behind(g.to, g.by, g.dev)
  BY DEF Ready, Phase, Ending
<1>2. /\ UNCHANGED <<state, order, owner, session>>
      /\ Behind(g.to, g.by, g.dev)' /\ Carries(NoUT, EndReceipt(Granted(g.dev)))'
      /\ Around(g) /\ Noticed(g)
  BY <1>1, EndTold
<1>3. Phase(g, 4)'
  BY <1>1, <1>2 DEF Phase, Ending, Entry, Past, Resting
<1> QED
  BY <1>2, <1>3 DEF Advances, Noticed

LEMMA EndRecorded ==
  ASSUME NEW g \in Goals, g.kind = "End", Ready(g, 4, "IssuerRecv")
  PROVE  Advances(g, 5)
<1>1. /\ ReadyTo(g, "IssuerRecv") /\ Past(g, g.by) /\ state[g.to] = Idle
      /\ Behind(g.to, g.by, g.dev) /\ Carries(NoUT, EndReceipt(Granted(g.dev)))
  BY DEF Ready, Phase, Ending
<1>2. /\ UNCHANGED <<state, order, owner, session>> /\ Around(g) /\ Noticed(g)
      /\ Owned(g.dev)' \/ (Behind(g.to, g.by, g.dev)' /\ ~ Free(g.by))
  BY <1>1, EndTaken, EndMissed
<1>3. Free(g.by)' <=> Free(g.by)
  BY <1>2 DEF Free, UserOf
<1>4. Phase(g, 5)'
  BY <1>1, <1>2, <1>3 DEF Phase, Ending, Entry, Past, Resting
<1> QED
  BY <1>2, <1>4 DEF Advances, Noticed

(***************************************************************************)
(* A report that is repeated.                                              *)
(***************************************************************************)
LEMMA ReportTold ==
  ASSUME NEW g \in Goals, g.kind = "Report", Ready(g, 0, "Report")
  PROVE  Advances(g, 1)
<1>1. /\ ReadyTo(g, "Report") /\ owner[g.dev] = g.by /\ order[g.dev] = g.ord
      /\ state[g.to] = Idle /\ Behind(g.to, g.by, g.dev)
  BY DEF Ready, Phase, Repeating
<1>2. /\ UNCHANGED <<state, order, owner, session>>
      /\ Behind(g.to, g.by, g.dev)' /\ Carries(NoUT, EndReceipt(Granted(g.dev)))'
      /\ Around(g) /\ Noticed(g)
  BY <1>1, EndTold
<1>3. Phase(g, 1)'
  BY <1>1, <1>2 DEF Phase, Repeating, Entry
<1> QED
  BY <1>2, <1>3 DEF Advances, Noticed

LEMMA ReportHeard ==
  ASSUME NEW g \in Goals, g.kind = "Report", Ready(g, 1, "IssuerRecv")
  PROVE  Advances(g, 2)
<1>1. /\ ReadyTo(g, "IssuerRecv") /\ owner[g.dev] = g.by /\ order[g.dev] = g.ord
      /\ state[g.to] = Idle /\ Behind(g.to, g.by, g.dev)
      /\ Carries(NoUT, EndReceipt(Granted(g.dev)))
  BY DEF Ready, Phase, Repeating
<1>2. Free(g.by)
  BY <1>1 DEF ReadyTo, Undisturbed
<1>3. /\ UNCHANGED <<state, order, owner, session>>
      /\ Resting(g.dev)' /\ Owned(g.dev)' /\ Around(g) /\ Noticed(g)
  BY <1>1, <1>2, EndTaken, EndMissed
<1>4. Phase(g, 2)'
  BY <1>1, <1>3 DEF Phase, Repeating, Entry
<1> QED
  BY <1>3, <1>4 DEF Advances, Noticed

=============================================================================
