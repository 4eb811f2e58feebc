-------------------------------- MODULE Ureka --------------------------------
(***************************************************************************)
(* UREKA devices and agents over the simulated channel. A controller       *)
(* (DeviceController) is a single-threaded object: the application calls   *)
(* an operation of an agent's flows, or has a controller receive what is   *)
(* in the channel (recv_xxx_message), and the call runs to its end. Every  *)
(* such call is an action. The application is free in which call comes     *)
(* next, so the model lets every order of calls happen.                    *)
(*                                                                         *)
(* Agents have run self_execute_one_time_initialize_agent_or_server: their *)
(* ticket order is AgentOrder and they own themselves. The rows a device   *)
(* table may get for ids that are no device's are left out: nothing reads  *)
(* them back.                                                              *)
(***************************************************************************)
EXTENDS UrekaTickets

CONSTANTS
  Issuers,     \* the agents whose application issues tickets
  Reporters,   \* the agents that show receipts to issuers
  IssueTypes,  \* the ticket types issuers issue in this instance
  Scopes,      \* the task scopes they put into access tickets
  TokenKinds,  \* the kinds of u-token holders send
  FirstCmds,   \* the command texts the application opens sessions with
  CmdInputs,   \* the command texts it sends in sessions
  MaxOrder,    \* bound: no ticket is issued at or above this order
  Fragile      \* devices that may lose their memory

ASSUME InputsAssumption ==
  /\ Issuers \subseteq Agents
  /\ Reporters \subseteq Agents
  /\ IssueTypes \subseteq StoredUTypes
  /\ Scopes \subseteq SUBSET Texts
  /\ TokenKinds \subseteq TokenTypes
  /\ FirstCmds \subseteq Texts
  /\ CmdInputs \subseteq Texts
  /\ MaxOrder \in Nat
  /\ Fragile \subseteq Devices

VARIABLES
  state,       \* shared_data->state of every controller
  order,       \* this_device.ticket_order of every device
  owner,       \* this_device.owner_pub_key of every device
  session,     \* current_session of every controller
  initTicket,  \* device_u_ticket_for_owner of the row "no_id", per agent
  table,       \* the agents' device_table
  channel      \* SIMULATED_GLOBAL_CHANNEL

vars == <<state, order, owner, session, initTicket, table, channel>>

(***************************************************************************)
(* Data.                                                                   *)
(***************************************************************************)
DeviceStates == {"DEVICE_WAIT_FOR_UT", "DEVICE_WAIT_FOR_CRKE2", "DEVICE_WAIT_FOR_CMD"}
AgentStates  == {"AGENT_WAIT_FOR_UREQ_UREJ_UT_RT", "AGENT_WAIT_FOR_RT",
                 "AGENT_WAIT_FOR_CRKE1", "AGENT_WAIT_FOR_CRKE3", "AGENT_WAIT_FOR_DATA"}
Idle == "AGENT_WAIT_FOR_UREQ_UREJ_UT_RT"
Lost == ""     \* no state was set since the object was constructed

AgentOrder == 1

Session == [ut : UTicket, n1 : Nat, key : Key, ivCmd : Nat, ivData : Nat,
            cmd : Texts, cipher : Cipher, data : Texts]
NoSession == [ut |-> NoUT, n1 |-> 0, key |-> NoKey, ivCmd |-> 0, ivData |-> 0,
              cmd |-> NoCmd, cipher |-> NoCipher, data |-> NoCmd]

(* A row is there or not; one that is not reads as a default OtherDevice,  *)
(* and operator[] makes it one. The two r-ticket slots for others are      *)
(* written but never read, so they are left out.                           *)
Row == [present : BOOLEAN, order : Nat, uOwner : UTicket, ownUOthers : UTicket,
        accUOthers : UTicket, rOwner : RTicket]
NoRow == [present |-> FALSE, order |-> 0, uOwner |-> NoUT, ownUOthers |-> NoUT,
          accUOthers |-> NoUT, rOwner |-> NoRT]

Message == [u : UTicket, r : RTicket, from : Controllers \cup {NoOne}]
NoMessage == [u |-> NoUT, r |-> NoRT, from |-> NoOne]

TypeOK ==
  /\ state \in [Controllers -> DeviceStates \cup AgentStates \cup {Lost}]
  /\ order \in [Devices -> Nat]
  /\ owner \in [Devices -> Persons]
  /\ session \in [Controllers -> Session]
  /\ initTicket \in [Agents -> UTicket]
  /\ table \in [Agents -> [Devices -> Row]]
  /\ channel \in Message

Init ==
  /\ state = [c \in Controllers |-> IF c \in Devices THEN "DEVICE_WAIT_FOR_UT" ELSE Idle]
  /\ order = [d \in Devices |-> 0]
  /\ owner = [d \in Devices |-> NoOne]
  /\ session = [c \in Controllers |-> NoSession]
  /\ initTicket = [a \in Agents |-> NoUT]
  /\ table = [a \in Agents |-> [d \in Devices |-> NoRow]]
  /\ channel = NoMessage

(***************************************************************************)
(* The channel: one string. Sending overwrites what is there, receiving    *)
(* takes it. The receiver is the other end, never the sender. What no      *)
(* receiver can parse (an empty slot, an answer without a device id) is    *)
(* the same as nothing: the receiver throws before it looks at its state.  *)
(***************************************************************************)
SendU(u, c) == channel' = [u |-> u, r |-> NoRT, from |-> c]
SendR(r, c) == channel' = IF r = NoRT THEN NoMessage ELSE [u |-> NoUT, r |-> r, from |-> c]
Consume     == channel' = NoMessage

Incoming(c, s) == channel # NoMessage /\ channel.from # c /\ state[c] = s

Goto(c, s) == state' = [state EXCEPT ![c] = s]

CipherNonces(c) == {c.key.n1, c.key.n2, c.iv}
InUse ==
  UNION {{session[c].n1, session[c].key.n1, session[c].key.n2, session[c].ivCmd,
          session[c].ivData} \cup CipherNonces(session[c].cipher) : c \in Controllers}
  \cup CipherNonces(channel.u.cipher) \cup CipherNonces(channel.r.cipher)
  \cup {channel.u.ivData, channel.r.n1, channel.r.n2, channel.r.iv, channel.r.ivData}

(* A random draw: the least nonce that is nowhere in use. One draw stands  *)
(* for the salt and the iv of a step, which are never compared.            *)
FreshNonces ==
  LET used == InUse IN {f \in Nonces \ used : 1 .. (f - 1) \subseteq used}

(***************************************************************************)
(* Device table.                                                           *)
(***************************************************************************)
RowOrder(a, d) == IF d \in Devices THEN table[a][d].order ELSE 0

(* operator[]: reading the row of d makes it exist. *)
TouchRow(a, d) ==
  table' = IF d \in Devices THEN [table EXCEPT ![a][d].present = TRUE] ELSE table

StoredUTicket(a, d) == IF d = NoId THEN initTicket[a] ELSE table[a][d].uOwner

(* A device has an id from its initialisation on. *)
KnownId(a, d) == d \in Devices => order[d] > 0 \/ table[a][d].present

(***************************************************************************)
(* FlowIssueUTicket, the calls of the application.                         *)
(***************************************************************************)
IssueInitToHerself(a) ==
  /\ "INITIALIZATION" \in IssueTypes
  /\ initTicket' = [initTicket EXCEPT ![a] = GenInitTicket(a)]
  /\ UNCHANGED <<state, order, owner, session, table, channel>>

IssueSelfAccessToHerself(a, d, scope) ==
  /\ "SELFACCESS" \in IssueTypes
  /\ table[a][d].present
  /\ table[a][d].order < MaxOrder
  /\ table' = [table EXCEPT ![a][d].uOwner =
                 GenTicket("SELFACCESS", d, table[a][d].order, a, scope, a)]
  /\ UNCHANGED <<state, order, owner, session, initTicket, channel>>

IssueOwnershipToHolder(a, d, h) ==
  /\ "OWNERSHIP" \in IssueTypes
  /\ table[a][d].present
  /\ table[a][d].order < MaxOrder
  /\ LET u == GenTicket("OWNERSHIP", d, table[a][d].order, h, {}, a) IN
       /\ table' = [table EXCEPT ![a][d].ownUOthers = u]
       /\ SendU(u, a)
  /\ UNCHANGED <<state, order, owner, session, initTicket>>

IssueAccessToHolder(a, d, h, scope) ==
  /\ "ACCESS" \in IssueTypes
  /\ table[a][d].present
  /\ table[a][d].order < MaxOrder
  /\ LET u == GenTicket("ACCESS", d, table[a][d].order, h, scope, a) IN
       /\ table' = [table EXCEPT ![a][d].accUOthers = u]
       /\ SendU(u, a)
  /\ UNCHANGED <<state, order, owner, session, initTicket>>

HolderSendRTicketToIssuer(a, d) ==
  /\ KnownId(a, d)
  /\ TouchRow(a, d)
  /\ SendR(table[a][d].rOwner, a)
  /\ UNCHANGED <<state, order, owner, session, initTicket>>

(***************************************************************************)
(* FlowApplyUTicket and FlowIssueUToken, the calls of the application.     *)
(***************************************************************************)
(* Nothing checks the state the agent is in. An empty slot makes the       *)
(* classification throw, after the row was made.                           *)
HolderApplyUTicket(a, d, cmd) ==
  /\ KnownId(a, d)
  /\ TouchRow(a, d)
  /\ LET u == StoredUTicket(a, d) IN
       \/ /\ u.type = ""
          /\ UNCHANGED <<state, session, channel>>
       \/ /\ u.type \in {"INITIALIZATION", "OWNERSHIP"}
          /\ Goto(a, "AGENT_WAIT_FOR_RT")
          /\ SendU(u, a)
          /\ UNCHANGED session
       \/ /\ u.type \in {"ACCESS", "SELFACCESS"}
          /\ session' = [session EXCEPT ![a].ut = Id(u), ![a].cmd = cmd]
          /\ Goto(a, "AGENT_WAIT_FOR_CRKE1")
          /\ SendU(u, a)
  /\ UNCHANGED <<order, owner, initTicket>>

(* Mutant: the order is taken from the row that was asked for. *)
HolderSendCmdAskedOrder(a, d, cmd, type) ==
  /\ table[a][d].present
  /\ session[a].ivCmd # 0
  /\ \E f \in FreshNonces :
       LET s == session[a]
           c == Encrypt(cmd, s.key, s.ivCmd)
       IN
         /\ session' = [session EXCEPT ![a].cmd = cmd, ![a].cipher = c, ![a].ivData = f]
         /\ Goto(a, IF type = "ACCESS_END" THEN "AGENT_WAIT_FOR_RT" ELSE "AGENT_WAIT_FOR_DATA")
         /\ SendU(GenToken(type, s.ut.dev, RowOrder(a, d), c, f), a)
  /\ UNCHANGED <<order, owner, initTicket, table>>

(* The table is asked for d, the token goes to the device of the session.  *)
(* Encrypting without an iv dereferences a null pointer: the application   *)
(* is taken not to do it.                                                  *)
HolderSendCmd(a, d, cmd, type) ==
  /\ table[a][d].present
  /\ session[a].ivCmd # 0
  /\ \E f \in FreshNonces :
       LET s == session[a]
           c == Encrypt(cmd, s.key, s.ivCmd)
       IN
         /\ session' = [session EXCEPT ![a].cmd = cmd, ![a].cipher = c, ![a].ivData = f]
         /\ Goto(a, IF type = "ACCESS_END" THEN "AGENT_WAIT_FOR_RT" ELSE "AGENT_WAIT_FOR_DATA")
         /\ SendU(GenToken(type, s.ut.dev, RowOrder(a, s.ut.dev), c, f), a)
  /\ UNCHANGED <<order, owner, initTicket, table>>

(***************************************************************************)
(* The device: self_device_recv_u_ticket.                                  *)
(***************************************************************************)
CanExecute(d, u) == VerifyCanExecute(d, order[d], owner[d], u)

(* A refusal carries no audit; without a key pair it carries no id either. *)
Refusal(type, d) == IF order[d] = 0 THEN NoRT ELSE GenFailure(type, d, order[d])

(* Mutant: a transfer does not use up the order. *)
DeviceExecuteOwnershipSameOrder(d) ==
  /\ Incoming(d, "DEVICE_WAIT_FOR_UT")
  /\ channel.u.type \in {"INITIALIZATION", "OWNERSHIP"}
  /\ CanExecute(d, channel.u)
  /\ owner' = [owner EXCEPT ![d] = channel.u.holder]
  /\ order' = [order EXCEPT ![d] = 1]
  /\ SendR(GenReceipt(channel.u.type, d, 1, Id(channel.u)), d)
  /\ UNCHANGED <<state, session, initTicket, table>>

DeviceExecuteOwnership(d) ==
  /\ Incoming(d, "DEVICE_WAIT_FOR_UT")
  /\ channel.u.type \in {"INITIALIZATION", "OWNERSHIP"}
  /\ CanExecute(d, channel.u)
  /\ owner' = [owner EXCEPT ![d] = channel.u.holder]
  /\ order' = [order EXCEPT ![d] = @ + 1]
  /\ SendR(GenReceipt(channel.u.type, d, order[d] + 1, Id(channel.u)), d)
  /\ UNCHANGED <<state, session, initTicket, table>>

(* Executing an access ticket: the ticket, a salt and an iv; the session   *)
(* key of an earlier session stays.                                        *)
OpenSession(d, u, f) ==
  session' = [session EXCEPT ![d].ut = Id(u), ![d].n1 = f, ![d].ivCmd = f]

DeviceOpenSession(d) ==
  /\ Incoming(d, "DEVICE_WAIT_FOR_UT")
  /\ channel.u.type \in {"ACCESS", "SELFACCESS"}
  /\ CanExecute(d, channel.u)
  /\ \E f \in FreshNonces :
       /\ OpenSession(d, channel.u, f)
       /\ SendR([GenReceipt("CR-KE-1", d, order[d], Id(channel.u))
                   EXCEPT !.n1 = f, !.iv = f], d)
  /\ Goto(d, "DEVICE_WAIT_FOR_CRKE2")
  /\ UNCHANGED <<order, owner, initTicket, table>>

DeviceRefuseUTicket(d) ==
  /\ Incoming(d, "DEVICE_WAIT_FOR_UT")
  /\ channel.u.type \in StoredUTypes
  /\ ~ CanExecute(d, channel.u)
  /\ SendR(Refusal(IF channel.u.type \in ReceiptTypes THEN channel.u.type ELSE "CR-KE-1", d), d)
  /\ UNCHANGED <<state, order, owner, session, initTicket, table>>

(* A token or an r-ticket: the handler throws. *)
DeviceDropMessage(d) ==
  /\ Incoming(d, "DEVICE_WAIT_FOR_UT")
  /\ channel.u.type \notin StoredUTypes
  /\ Consume
  /\ UNCHANGED <<state, order, owner, session, initTicket, table>>

(***************************************************************************)
(* self_device_recv_cr_ke_2. A device's own table is empty.                *)
(***************************************************************************)
DeviceSessionKey(d, r) == SessionKey(session[d].n1, r.n2, d, session[d].ut.holder)

DeviceVerifiesCrKe2(d) ==
  VerifyHasExecuted(NoUT, session[d].ut, 0, order[d], channel.r)

(* Decryption of the command and the task scope check. *)
DeviceReadsCrKe2(d) ==
  /\ Decrypts(channel.r.cipher, DeviceSessionKey(d, channel.r), session[d].ivCmd)
  /\ channel.r.cipher.text \in session[d].ut.scope

DeviceAcceptCrKe2(d) ==
  /\ Incoming(d, "DEVICE_WAIT_FOR_CRKE2")
  /\ DeviceVerifiesCrKe2(d)
  /\ DeviceReadsCrKe2(d)
  /\ \E f \in FreshNonces :
       LET r == channel.r
           k == DeviceSessionKey(d, r)
       IN
         /\ session' = [session EXCEPT ![d].key = k, ![d].ivCmd = f]
         /\ SendR([GenReceipt("CR-KE-3", d, order[d], session[d].ut)
                     EXCEPT !.iv = f,
                            !.cipher = Encrypt(r.cipher.text, k, r.ivData)], d)
  /\ Goto(d, "DEVICE_WAIT_FOR_CMD")
  /\ UNCHANGED <<order, owner, initTicket, table>>

(* Mutant: the device goes on waiting for a CR-KE-2 that verifies. *)
DeviceRefuseCrKe2Waits(d) ==
  /\ Incoming(d, "DEVICE_WAIT_FOR_CRKE2")
  /\ ~ (DeviceVerifiesCrKe2(d) /\ DeviceReadsCrKe2(d))
  /\ SendR(Refusal("CR-KE-3", d), d)
  /\ UNCHANGED <<state, order, owner, session, initTicket, table>>

(* A message that verifies changes the key even if it cannot be read. *)
DeviceRefuseCrKe2(d) ==
  /\ Incoming(d, "DEVICE_WAIT_FOR_CRKE2")
  /\ \/ /\ ~ DeviceVerifiesCrKe2(d)
        /\ UNCHANGED session
     \/ /\ DeviceVerifiesCrKe2(d)
        /\ ~ DeviceReadsCrKe2(d)
        /\ session' = [session EXCEPT ![d].key = DeviceSessionKey(d, channel.r)]
  /\ SendR(Refusal("CR-KE-3", d), d)
  /\ Goto(d, "DEVICE_WAIT_FOR_UT")
  /\ UNCHANGED <<order, owner, initTicket, table>>

(***************************************************************************)
(* self_device_recv_cmd.                                                   *)
(***************************************************************************)
(* Mutants: the scope is not looked at; nor is the ticket, only the cipher. *)
DeviceReadsTokenAnyScope(d) ==
  CanExecute(d, channel.u) /\ Decrypts(channel.u.cipher, session[d].key, session[d].ivCmd)
DeviceReadsTokenOnly(d) ==
  Decrypts(channel.u.cipher, session[d].key, session[d].ivCmd)

DeviceReadsToken(d) ==
  /\ CanExecute(d, channel.u)
  /\ Decrypts(channel.u.cipher, session[d].key, session[d].ivCmd)
  /\ channel.u.type = "CMD_UTOKEN" => channel.u.cipher.text \in session[d].ut.scope

DeviceExecuteCmd(d) ==
  /\ Incoming(d, "DEVICE_WAIT_FOR_CMD")
  /\ channel.u.type = "CMD_UTOKEN"
  /\ DeviceReadsToken(d)
  /\ \E f \in FreshNonces :
       /\ session' = [session EXCEPT ![d].ivCmd = f]
       /\ SendR([GenReceipt("DATA_RTOKEN", d, order[d], session[d].ut)
                   EXCEPT !.iv = f,
                          !.cipher = Encrypt(channel.u.cipher.text, session[d].key,
                                             channel.u.ivData)], d)
  /\ UNCHANGED <<state, order, owner, initTicket, table>>

(* Mutant: the receipt names the next order, the update of the device's is  *)
(* left out.                                                               *)
DeviceEndAccessReceiptAhead(d) ==
  /\ Incoming(d, "DEVICE_WAIT_FOR_CMD")
  /\ channel.u.type = "ACCESS_END"
  /\ DeviceReadsToken(d)
  /\ \E f \in FreshNonces : session' = [session EXCEPT ![d].ivCmd = f]
  /\ SendR(GenReceipt("ACCESS_END", d, order[d] + 1, session[d].ut), d)
  /\ Goto(d, "DEVICE_WAIT_FOR_UT")
  /\ UNCHANGED <<order, owner, initTicket, table>>

(* The order advances only if the text is ACCESS_END; the answer is a      *)
(* success either way.                                                     *)
DeviceEndAccess(d) ==
  /\ Incoming(d, "DEVICE_WAIT_FOR_CMD")
  /\ channel.u.type = "ACCESS_END"
  /\ DeviceReadsToken(d)
  /\ \E f \in FreshNonces : session' = [session EXCEPT ![d].ivCmd = f]
  /\ order' = [order EXCEPT ![d] = IF channel.u.cipher.text = EndCmd THEN @ + 1 ELSE @]
  /\ SendR(GenReceipt("ACCESS_END", d, order'[d], session[d].ut), d)
  /\ Goto(d, "DEVICE_WAIT_FOR_UT")
  /\ UNCHANGED <<owner, initTicket, table>>

DeviceRefuseToken(d) ==
  /\ Incoming(d, "DEVICE_WAIT_FOR_CMD")
  /\ channel.u.type \in TokenTypes
  /\ ~ DeviceReadsToken(d)
  /\ SendR(Refusal(IF channel.u.type = "CMD_UTOKEN" THEN "DATA_RTOKEN" ELSE "ACCESS_END", d), d)
  /\ UNCHANGED <<state, order, owner, session, initTicket, table>>

(* A ticket that verifies is executed, and only then the handler finds out *)
(* that it is not a token and throws: the effect stays, nothing is sent.   *)
DeviceExecuteTicketInSession(d) ==
  /\ Incoming(d, "DEVICE_WAIT_FOR_CMD")
  /\ CanExecute(d, channel.u)
  /\ \/ /\ channel.u.type \in {"INITIALIZATION", "OWNERSHIP"}
        /\ owner' = [owner EXCEPT ![d] = channel.u.holder]
        /\ order' = [order EXCEPT ![d] = @ + 1]
        /\ UNCHANGED session
     \/ /\ channel.u.type \in {"ACCESS", "SELFACCESS"}
        /\ \E f \in FreshNonces : OpenSession(d, channel.u, f)
        /\ UNCHANGED <<order, owner>>
  /\ Consume
  /\ UNCHANGED <<state, initTicket, table>>

DeviceIgnoreInSession(d) ==
  /\ Incoming(d, "DEVICE_WAIT_FOR_CMD")
  /\ channel.u.type \notin TokenTypes
  /\ ~ CanExecute(d, channel.u)
  /\ Consume
  /\ UNCHANGED <<state, order, owner, session, initTicket, table>>

(* Mutant: the state is initialised again, as in the constructor. *)
RebootDeviceToWaitForUT(d) ==
  /\ state[d] # Lost
  /\ Goto(d, "DEVICE_WAIT_FOR_UT")
  /\ \E o \in 0 .. MaxOrder + 1 : order' = [order EXCEPT ![d] = o]
  /\ owner' = [owner EXCEPT ![d] = NoOne]
  /\ session' = [session EXCEPT ![d] = NoSession]
  /\ UNCHANGED <<initTicket, table, channel>>

(* reboot_device: the storage is a stub, so a new object starts with none  *)
(* of the device's memory, an unset state and an uninitialised order.      *)
RebootDevice(d) ==
  /\ state[d] # Lost
  /\ Goto(d, Lost)
  /\ \E o \in 0 .. MaxOrder + 1 : order' = [order EXCEPT ![d] = o]
  /\ owner' = [owner EXCEPT ![d] = NoOne]
  /\ session' = [session EXCEPT ![d] = NoSession]
  /\ UNCHANGED <<initTicket, table, channel>>

(* recv_xxx_message without a state: the message is gone, then it throws. *)
LostDeviceDropsMessage(d) ==
  /\ Incoming(d, Lost)
  /\ Consume
  /\ UNCHANGED <<state, order, owner, session, initTicket, table>>

(***************************************************************************)
(* The agent, idle: self_holder_recv_u_ticket, self_issuer_recv_r_ticket.  *)
(***************************************************************************)
(* The whole row is replaced, unverified. *)
AgentRecvUTicket(a) ==
  /\ Incoming(a, Idle)
  /\ channel.u.type \in UTypes
  /\ table' = IF channel.u.type \in {"OWNERSHIP", "ACCESS"}
              THEN [table EXCEPT ![a][channel.u.dev] =
                      [NoRow EXCEPT !.present = TRUE, !.order = channel.u.order,
                                    !.uOwner = channel.u]]
              ELSE table
  /\ Consume
  /\ UNCHANGED <<state, order, owner, session, initTicket>>

(* Mutant: the two tickets swapped in OtherDevice(id, u_ticket, r_ticket). *)
StoredRowSwapped(a, r) ==
  LET row == table[a][r.dev] IN
  IF r.type = "INITIALIZATION"
  THEN [NoRow EXCEPT !.present = TRUE, !.uOwner = r, !.rOwner = initTicket[a]]
  ELSE [row EXCEPT !.present = TRUE, !.rOwner = r]

(* store_received_xxx_r_ticket: the row of r.dev with the receipt r. *)
StoredRow(a, r) ==
  LET row == table[a][r.dev] IN
  CASE r.type = "INITIALIZATION" ->
         [NoRow EXCEPT !.present = TRUE, !.uOwner = initTicket[a], !.rOwner = r]
    [] r.type = "OWNERSHIP" ->
         [row EXCEPT !.present = TRUE, !.rOwner = IF row.ownUOthers = NoUT THEN r ELSE @]
    [] OTHER ->
         [row EXCEPT !.present = TRUE, !.rOwner = IF row.accUOthers = NoUT THEN r ELSE @]

SetRow(a, d, row) ==
  table' = IF d \in Devices THEN [table EXCEPT ![a][d] = row] ELSE table

(* Mutant: the verifier's exception is swallowed. *)
HasExecutedUnchecked(a, start, r) == r.type # "" /\ start # r

HasExecuted(a, start, r) ==
  VerifyHasExecuted(start, session[a].ut, RowOrder(a, r.dev), AgentOrder, r)

(* The ticket the issuer holds the receipt against; none for INITIALIZATION. *)
IssuedUTicket(a, r) ==
  CASE r.dev \notin Devices -> NoUT
    [] r.type = "OWNERSHIP"  -> table[a][r.dev].ownUOthers
    [] r.type = "ACCESS_END" -> table[a][r.dev].accUOthers
    [] OTHER                 -> NoUT

(* The receipt is stored first. Shown an executed ownership ticket, the    *)
(* issuer erases the row.                                                  *)
IssuerRecvRTicket(a) ==
  /\ Incoming(a, Idle)
  /\ channel.r.type \in ReceiptTypes
  /\ LET r == channel.r
         row == StoredRow(a, r)
         start == IssuedUTicket(a, r)
         verified == start # NoUT /\ HasExecuted(a, start, r)
     IN
       \/ ~ verified /\ SetRow(a, r.dev, row)
       \/ /\ verified /\ r.type = "OWNERSHIP"
          /\ SetRow(a, r.dev, NoRow)
       \/ /\ verified /\ r.type = "ACCESS_END"
          /\ SetRow(a, r.dev, [row EXCEPT !.accUOthers = NoUT, !.order = r.order])
  /\ Consume
  /\ UNCHANGED <<state, order, owner, session, initTicket>>

IssuerRefuseRTicket(a) ==
  /\ Incoming(a, Idle)
  /\ channel.r.type \in RTypes \ ReceiptTypes
  /\ Consume
  /\ UNCHANGED <<state, order, owner, session, initTicket, table>>

(***************************************************************************)
(* self_holder_recv_r_ticket: stored first, then held against the ticket   *)
(* for the owner; a failure leaves the agent waiting.                      *)
(***************************************************************************)
(* Mutant: the order of a receipt is taken over before it is verified. *)
HolderRecvRTicketOrderFirst(a) ==
  /\ Incoming(a, "AGENT_WAIT_FOR_RT")
  /\ channel.r.type \in ReceiptTypes /\ channel.r.dev \in Devices
  /\ LET r == channel.r
         row == [StoredRow(a, r) EXCEPT !.order = r.order]
     IN
       /\ SetRow(a, r.dev, row)
       /\ Goto(a, IF HasExecuted(a, row.uOwner, r) THEN Idle ELSE state[a])
  /\ Consume
  /\ UNCHANGED <<order, owner, session, initTicket>>

HolderRecvRTicket(a) ==
  /\ Incoming(a, "AGENT_WAIT_FOR_RT")
  /\ LET r == channel.r
         row == StoredRow(a, r)
         known == r.type \in ReceiptTypes /\ r.dev \in Devices
     IN
       \/ ~ known /\ UNCHANGED <<state, table>>
       \/ /\ known /\ ~ HasExecuted(a, row.uOwner, r)
          /\ SetRow(a, r.dev, row)
          /\ UNCHANGED state
       \/ /\ known /\ HasExecuted(a, row.uOwner, r)
          /\ SetRow(a, r.dev, [row EXCEPT !.order = r.order])
          /\ Goto(a, Idle)
  /\ Consume
  /\ UNCHANGED <<order, owner, session, initTicket>>

(***************************************************************************)
(* FlowOpenSession at the holder. Executing an r-ticket changes the        *)
(* session even if the decryption then throws.                             *)
(***************************************************************************)
(* Mutant: the iv for the next command is not taken over from an answer. *)
HolderSessionOldIv(a, r, f) ==
  LET s == session[a]
      k1 == SessionKey(r.n1, f, s.ut.dev, a)
  IN
  CASE r.type = "CR-KE-1" ->
         [s EXCEPT !.n1 = r.n1, !.key = k1, !.ivCmd = r.iv,
                   !.cipher = Encrypt(s.cmd, k1, r.iv), !.ivData = f]
    [] OTHER ->
         [s EXCEPT !.data = IF Decrypts(r.cipher, s.key, s.ivData) THEN r.cipher.text ELSE @]

HolderSession(a, r, f) ==
  LET s == session[a]
      k1 == SessionKey(r.n1, f, s.ut.dev, a)
  IN
  CASE r.type = "CR-KE-1" ->
         [s EXCEPT !.n1 = r.n1, !.key = k1, !.ivCmd = r.iv,
                   !.cipher = Encrypt(s.cmd, k1, r.iv), !.ivData = f]
    [] r.type = "CR-KE-2" ->
         [s EXCEPT !.key = SessionKey(s.n1, r.n2, a, s.ut.holder), !.cipher = r.cipher]
    [] r.type \in {"CR-KE-3", "DATA_RTOKEN"} ->
         [s EXCEPT !.ivCmd = r.iv,
                   !.data = IF Decrypts(r.cipher, s.key, s.ivData) THEN r.cipher.text ELSE @]
    [] OTHER -> s

(* Does the execution end without throwing? An agent cannot read a CR-KE-2: *)
(* its own device key is not the one the command was encrypted for.         *)
HolderReads(a, r) ==
  /\ r.type # "CR-KE-2"
  /\ r.type \in {"CR-KE-3", "DATA_RTOKEN"} =>
       Decrypts(r.cipher, session[a].key, session[a].ivData)

CrKe2(a, s) ==
  [NoRT EXCEPT !.type = "CR-KE-2", !.dev = s.ut.dev, !.ok = TRUE,
               !.order = RowOrder(a, s.ut.dev), !.start = s.ut, !.n2 = s.key.n2,
               !.cipher = s.cipher, !.ivData = s.ivData, !.signer = a]

(* Any CR-KE message that verifies is answered with a CR-KE-2. *)
HolderRecvCrKe1(a) ==
  /\ Incoming(a, "AGENT_WAIT_FOR_CRKE1")
  /\ LET r == channel.r IN
       \/ /\ HasExecuted(a, NoUT, r) /\ HolderReads(a, r)
          /\ \E f \in FreshNonces :
               /\ session' = [session EXCEPT ![a] = HolderSession(a, r, f)]
               /\ SendR(CrKe2(a, HolderSession(a, r, f)), a)
          /\ Goto(a, "AGENT_WAIT_FOR_CRKE3")
       \/ /\ HasExecuted(a, NoUT, r) /\ ~ HolderReads(a, r)
          /\ session' = [session EXCEPT ![a] = HolderSession(a, r, 0)]
          /\ Goto(a, Idle)
          /\ Consume
       \/ /\ ~ HasExecuted(a, NoUT, r)
          /\ Goto(a, Idle)
          /\ Consume
          /\ UNCHANGED session
  /\ UNCHANGED <<order, owner, initTicket, table>>

(* Idle again, whatever came. *)
HolderRecvCrKe3(a) ==
  /\ Incoming(a, "AGENT_WAIT_FOR_CRKE3")
  /\ LET r == channel.r IN
       \/ /\ HasExecuted(a, NoUT, r)
          /\ \E f \in FreshNonces :
               session' = [session EXCEPT ![a] = HolderSession(a, r, f)]
       \/ /\ ~ HasExecuted(a, NoUT, r)
          /\ UNCHANGED session
  /\ Goto(a, Idle)
  /\ Consume
  /\ UNCHANGED <<order, owner, initTicket, table>>

(***************************************************************************)
(* self_holder_recv_data: after a success the agent is in a state of a     *)
(* device; a failure leaves it waiting.                                    *)
(***************************************************************************)
HolderRecvData(a) ==
  /\ Incoming(a, "AGENT_WAIT_FOR_DATA")
  /\ LET r == channel.r
         start == IF r.dev \in Devices THEN table[a][r.dev].uOwner ELSE NoUT
         verified == start # NoUT /\ HasExecuted(a, start, r)
     IN
       \/ /\ ~ verified
          /\ TouchRow(a, r.dev)
          /\ UNCHANGED <<state, session>>
       \/ /\ verified /\ ~ HolderReads(a, r)
          /\ session' = [session EXCEPT ![a] = HolderSession(a, r, 0)]
          /\ UNCHANGED <<state, table>>
       \/ /\ verified /\ HolderReads(a, r)
          /\ \E f \in FreshNonces :
               session' = [session EXCEPT ![a] = HolderSession(a, r, f)]
          /\ table' = IF r.type \in ReceiptTypes
                      THEN [table EXCEPT ![a][r.dev].order = r.order] ELSE table
          /\ Goto(a, "DEVICE_WAIT_FOR_CMD")
  /\ Consume
  /\ UNCHANGED <<order, owner, initTicket>>

(* An agent in that state runs self_device_recv_cmd. It is no device of any *)
(* ticket and its order is not 0, so nothing verifies.                      *)
AgentRefusesAsDevice(a) ==
  /\ Incoming(a, "DEVICE_WAIT_FOR_CMD")
  /\ CASE channel.u.type = "CMD_UTOKEN" -> SendR(GenFailure("DATA_RTOKEN", a, AgentOrder), a)
       [] channel.u.type = "ACCESS_END" -> SendR(GenFailure("ACCESS_END", a, AgentOrder), a)
       [] OTHER                         -> Consume
  /\ UNCHANGED <<state, order, owner, session, initTicket, table>>

(***************************************************************************)
(* Specification.                                                          *)
(***************************************************************************)
Issue(a) ==
  \/ IssueInitToHerself(a)
  \/ \E d \in Devices :
       \/ \E scope \in Scopes : IssueSelfAccessToHerself(a, d, scope)
       \/ \E h \in Agents \ {a} :
            \/ IssueOwnershipToHolder(a, d, h)
            \/ \E scope \in Scopes : IssueAccessToHolder(a, d, h, scope)

Call(a) ==
  \/ a \in Issuers /\ Issue(a)
  \/ a \in Reporters /\ \E d \in Devices : HolderSendRTicketToIssuer(a, d)
  \/ \E d \in DeviceIds, cmd \in FirstCmds : HolderApplyUTicket(a, d, cmd)
  \/ \E d \in Devices, cmd \in CmdInputs, type \in TokenKinds : HolderSendCmd(a, d, cmd, type)

DeviceRecv(d) ==
  \/ DeviceExecuteOwnership(d)
  \/ DeviceOpenSession(d)
  \/ DeviceRefuseUTicket(d)
  \/ DeviceDropMessage(d)
  \/ DeviceAcceptCrKe2(d)
  \/ DeviceRefuseCrKe2(d)
  \/ DeviceExecuteCmd(d)
  \/ DeviceEndAccess(d)
  \/ DeviceRefuseToken(d)
  \/ DeviceExecuteTicketInSession(d)
  \/ DeviceIgnoreInSession(d)
  \/ LostDeviceDropsMessage(d)

AgentRecv(a) ==
  \/ AgentRecvUTicket(a)
  \/ IssuerRecvRTicket(a)
  \/ IssuerRefuseRTicket(a)
  \/ HolderRecvRTicket(a)
  \/ HolderRecvCrKe1(a)
  \/ HolderRecvCrKe3(a)
  \/ HolderRecvData(a)
  \/ AgentRefusesAsDevice(a)

Next ==
  \/ \E a \in Agents : Call(a) \/ AgentRecv(a)
  \/ \E d \in Devices : DeviceRecv(d)
  \/ \E d \in Fragile : RebootDevice(d)

Spec == Init /\ [][Next]_vars

(***************************************************************************)
(* Properties.                                                             *)
(***************************************************************************)
Live(d) == state[d] # Lost

(* Nobody is ahead of a device: in whatever order messages were lost,      *)
(* overwritten, refused or re-sent, no row, stored ticket, session, receipt*)
(* or message names an order its device has not reached. A ticket refused  *)
(* as too old therefore never becomes valid later.                         *)
NotAhead(d, o) == d \in Devices /\ Live(d) => o =< order[d]

RowsNotAhead ==
  \A a \in Agents, d \in Devices :
    LET row == table[a][d] IN
      /\ NotAhead(d, row.order)
      /\ \A u \in {row.uOwner, row.ownUOthers, row.accUOthers} : NotAhead(u.dev, u.order)
      /\ NotAhead(row.rOwner.dev, row.rOwner.order)

OrderBound ==
  /\ RowsNotAhead
  /\ NotAhead(channel.u.dev, channel.u.order)
  /\ NotAhead(channel.r.dev, channel.r.order)

(* A successful initialisation or ownership receipt, in the channel or     *)
(* stored by an agent, whose order is still the device's order names the   *)
(* device's owner: whoever holds the latest receipt knows who owns it.     *)
IsLatest(r) ==
  /\ r.ok /\ r.type \in {"INITIALIZATION", "OWNERSHIP"}
  /\ r.dev \in Devices /\ Live(r.dev) /\ r.order = order[r.dev]

NamesOwner(r) == IsLatest(r) => owner[r.dev] = r.start.holder

LatestReceipt ==
  /\ NamesOwner(channel.r)
  /\ \A a \in Agents, d \in Devices : NamesOwner(table[a][d].rOwner)

(* An issuer gives up a row, or an access ticket it issued, only after the *)
(* device went past the order of that row; and if the row goes and the     *)
(* device took no further step, it is the ticket's holder who owns it.     *)
IssuerForgets(a, d) ==
  /\ table[a][d].ownUOthers # NoUT /\ table'[a][d] = NoRow =>
       /\ order[d] > table[a][d].order
       /\ order[d] = table[a][d].order + 1 => owner[d] = table[a][d].ownUOthers.holder
  /\ table[a][d].accUOthers # NoUT /\ table'[a][d].accUOthers = NoUT
        /\ channel.r.type = "ACCESS_END" => order[d] > table[a][d].order

IssuerForgetsOnlyExecuted ==
  [][\A a \in Agents, d \in Devices : Live(d) => IssuerForgets(a, d)]_vars

(* A successful answer in the channel was computed for a command inside the *)
(* scope of the ticket it is the answer to, under the key of that ticket's  *)
(* holder, at the order the ticket was issued for; and the device that sent *)
(* it is in that very session.                                              *)
DataIsAuthorised ==
  LET r == channel.r IN
  r.ok /\ r.type \in {"CR-KE-3", "DATA_RTOKEN"} /\ Live(r.dev) =>
    /\ r.cipher.text \in r.start.scope
    /\ r.cipher.key = SessionKey(r.cipher.key.n1, r.cipher.key.n2, r.dev, r.start.holder)
    /\ r.order = r.start.order
    /\ session[r.dev].key = r.cipher.key /\ session[r.dev].ut = r.start

(* Data an agent reads from an answer is the answer to its latest command, *)
(* whatever was sent, overwritten or refused before.                       *)
DataAnswersCommand ==
  [][\A a \in Agents : session'[a].data # session[a].data =>
                         session'[a].data = session[a].cmd]_vars

(* A device in a session takes a token only at the order of its ticket and *)
(* with the key and the iv it has now. Who executed a ticket in the session*)
(* moved the order or the iv on and told nobody; who lost an answer lost   *)
(* the iv that was in it. Once no token in the channel fits and nobody can *)
(* make one, nobody ever will: the device waits in that session for good.  *)
TokenFits(d) ==
  channel.u.cipher.key = session[d].key /\ channel.u.cipher.iv = session[d].ivCmd

CanMakeToken(a, d) ==
  /\ session[a].key = session[d].key
  /\ session[d].ivCmd \in {session[a].ivCmd, channel.r.iv}

OutOfReach(d) == ~ TokenFits(d) /\ \A a \in Agents : ~ CanMakeToken(a, d)

Stranded(d) ==
  /\ state[d] = "DEVICE_WAIT_FOR_CMD"
  /\ session[d].ut.order # order[d] \/ OutOfReach(d)

StrandedForever ==
  [][\A d \in Devices \ Fragile : Stranded(d) => Stranded(d)']_vars

RowTickets(a, d) == {table[a][d].uOwner, table[a][d].ownUOthers, table[a][d].accUOthers}

(* The order of a device is known to nobody once no row, no ticket and no  *)
(* receipt of a success names it. The device tells it in such a receipt    *)
(* only, once; whatever is sent again is refused, and no holder learns it  *)
(* from a refusal. So who lost the receipt is locked out for good, and so  *)
(* is everybody else.                                                      *)
TicketsHeld  == {channel.u} \cup UNION {UNION {RowTickets(a, d) : d \in Devices} : a \in Agents}
ReceiptsHeld == {channel.r} \cup UNION {{table[a][d].rOwner : d \in Devices} : a \in Agents}

OrderLost(d) ==
  /\ state[d] = "DEVICE_WAIT_FOR_UT"
  /\ \A a \in Agents : table[a][d].order < order[d]
  /\ \A u \in TicketsHeld  : u.dev = d => u.order < order[d]
  /\ \A r \in ReceiptsHeld : r.dev = d /\ r.ok => r.order < order[d]

OrderLostForever ==
  [][\A d \in Devices \ Fragile :
       OrderLost(d) => OrderLost(d)' /\ UNCHANGED <<order[d], owner[d]>>]_vars

(***************************************************************************)
(* What the source says of the program and what the program does not do:   *)
(* each of these is violated, by the run that bears its name.              *)
(***************************************************************************)
(* The device states are for devices, the agent states for agents          *)
(* (this_device.hpp:18-27).                                                *)
AgentsKeepAgentStates == \A a \in Agents : state[a] \in AgentStates

(* An agent takes a device's order over from an r-ticket that it verified  *)
(* (executor.cpp:680, "Verify RTicket (actual ticket order)").             *)
OrderFromVerifiedRTicket ==
  [][\A a \in Agents, d \in Devices :
       table'[a][d].order # table[a][d].order => channel.r = NoRT \/ channel.r.ok]_vars

(* A device in a session executes tokens only (flow_issue_u_token.cpp:68,  *)
(* "Shouldn't Reach Here"), so the order stays that of the session's ticket.*)
SessionIsCurrent ==
  \A d \in Devices :
    state[d] \in {"DEVICE_WAIT_FOR_CRKE2", "DEVICE_WAIT_FOR_CMD"} => session[d].ut.order = order[d]

(* A successful ACCESS_END receipt is of an access that ended; another text*)
(* is a failure (executor.cpp:175, "-> FAILURE: VERIFY_ACCESS_END").       *)
EndReceiptOfEndedAccess ==
  channel.r.type = "ACCESS_END" /\ channel.r.ok => channel.r.order = channel.r.start.order + 1

(* A device that was initialised still is after a reboot (TESTTEST.cpp:81, *)
(* "THEN: Still be Initialized DM's IoTD").                                *)
StillInitialised ==
  [][\A d \in Devices :
       Live(d) /\ order[d] > 0 => order'[d] >= order[d] /\ owner'[d] # NoOne]_vars

(* The devices of this protocol implement the ledger: whatever the order of*)
(* calls, an owner changes only by an offer the owner signed for exactly   *)
(* the device's order, once, and no ticket appears in another's name.      *)
OwnershipTickets ==
  {u \in {channel.u} \cup UNION {UNION {RowTickets(a, d) : d \in Devices} : a \in Agents}
     : u.type = "OWNERSHIP"}

OfferOf(u) == [dev |-> u.dev, order |-> u.order, from |-> u.signer, to |-> u.holder]

Ledger == INSTANCE DeviceLedger WITH
  live   <- {d \in Devices : Live(d)},
  offers <- {OfferOf(u) : u \in OwnershipTickets}

LedgerSpec == Ledger!Spec
=============================================================================
