------------------------------ MODULE UrekaLife ------------------------------
(***************************************************************************)
(* Ureka with the life cycle of its controllers: a DeviceController is     *)
(* constructed, an agent is initialised once, and either may be rebooted   *)
(* at any moment. The storage is a stub, so a rebooted controller starts   *)
(* from a new SharedData: it has no type, no state, no keys and no table,  *)
(* and without a type it can never be initialised again.                   *)
(*                                                                         *)
(* An agent without keys may still call what needs none: nothing checks    *)
(* that it was initialised. Calls that sign or agree on a key are taken    *)
(* not to be made without one.                                             *)
(***************************************************************************)
EXTENDS Ureka

VARIABLE life   \* how far every controller has come

lifeVars == <<vars, life>>

Stages == {"none", "constructed", "initialised", "lost"}

LifeInit ==
  /\ life = [c \in Controllers |-> "none"]
  /\ state = [c \in Controllers |-> Lost]
  /\ order = [d \in Devices |-> 0]
  /\ owner = [d \in Devices |-> NoOne]
  /\ session = [c \in Controllers |-> NoSession]
  /\ initTicket = [a \in Agents |-> NoUT]
  /\ table = [a \in Agents |-> [d \in Devices |-> NoRow]]
  /\ channel = NoMessage

Becomes(c, stage) == life' = [life EXCEPT ![c] = stage]

(* this_person.person_pub_key: empty until the agent is initialised and    *)
(* after a reboot.                                                         *)
PersonKey(a) == IF life[a] = "initialised" THEN a ELSE NoOne

(***************************************************************************)
(* Construction and initialisation.                                        *)
(***************************************************************************)
Construct(c) ==
  /\ life[c] = "none"
  /\ Becomes(c, "constructed")
  /\ Goto(c, IF c \in Devices THEN "DEVICE_WAIT_FOR_UT" ELSE Idle)
  /\ UNCHANGED <<order, owner, session, initTicket, table, channel>>

(* The constructor reads has_device_type of a ThisDevice that nobody has   *)
(* initialised. Where it happens to be true, the type is not set, and so   *)
(* the state is not either and the ticket order is what was in memory.     *)
ConstructUntyped(c) ==
  /\ life[c] = "none"
  /\ Becomes(c, "lost")
  /\ \E o \in 0 .. MaxOrder + 1 :
       order' = IF c \in Devices THEN [order EXCEPT ![c] = o] ELSE order
  /\ UNCHANGED <<state, owner, session, initTicket, table, channel>>

(* Once, and only of the right type: otherwise it throws and changes       *)
(* nothing. What the agent received before it stays.                       *)
InitialiseAgent(a) ==
  /\ life[a] = "constructed"
  /\ Becomes(a, "initialised")
  /\ UNCHANGED vars

LoseDevice(d) ==
  /\ life[d] = "constructed"
  /\ RebootDevice(d)
  /\ Becomes(d, "lost")

RebootAgent(a) ==
  /\ life[a] # "none"
  /\ Becomes(a, "lost")
  /\ Goto(a, Lost)
  /\ session' = [session EXCEPT ![a] = NoSession]
  /\ initTicket' = [initTicket EXCEPT ![a] = NoUT]
  /\ table' = [table EXCEPT ![a] = [d \in Devices |-> NoRow]]
  /\ UNCHANGED <<order, owner, channel>>

(***************************************************************************)
(* The calls of the application. It names as holder of a ticket whoever it *)
(* likes, the issuer too, by the person key it finds there, be it empty.   *)
(***************************************************************************)
HolderKeys == {PersonKey(h) : h \in {a \in Agents : life[a] # "none"}}

IssueInitWithoutKey(a) ==
  /\ "INITIALIZATION" \in IssueTypes
  /\ initTicket' = [initTicket EXCEPT ![a] = GenInitTicket(PersonKey(a))]
  /\ UNCHANGED <<state, order, owner, session, table, channel>>

LifeIssue(a) ==
  \/ IssueInitToHerself(a)
  \/ \E d \in Devices :
       \/ \E scope \in Scopes : IssueSelfAccessToHerself(a, d, scope)
       \/ \E h \in HolderKeys :
            \/ IssueOwnershipToHolder(a, d, h)
            \/ \E scope \in Scopes : IssueAccessToHolder(a, d, h, scope)

(* A device that lost its key is known by its id only to who has a row.    *)
Known(a, d) == d \in Devices => life[d] = "constructed" \/ table[a][d].present

CallWithoutKey(a) ==
  \/ a \in Issuers /\ IssueInitWithoutKey(a)
  \/ a \in Reporters /\ \E d \in Devices : Known(a, d) /\ HolderSendRTicketToIssuer(a, d)
  \/ \E d \in DeviceIds, cmd \in FirstCmds :
       /\ Known(a, d)
       /\ StoredUTicket(a, d).type \notin {"ACCESS", "SELFACCESS"}
       /\ HolderApplyUTicket(a, d, cmd)

CallWithKey(a) ==
  \/ a \in Issuers /\ LifeIssue(a)
  \/ a \in Reporters /\ \E d \in Devices : Known(a, d) /\ HolderSendRTicketToIssuer(a, d)
  \/ \E d \in DeviceIds, cmd \in FirstCmds : Known(a, d) /\ HolderApplyUTicket(a, d, cmd)
  \/ \E d \in Devices, cmd \in CmdInputs, type \in TokenKinds : HolderSendCmd(a, d, cmd, type)

UseAgent(a) ==
  /\ \/ life[a] = "initialised" /\ CallWithKey(a)
     \/ life[a] \in {"constructed", "lost"} /\ CallWithoutKey(a)
     \/ life[a] # "none" /\ AgentRecv(a)
     \/ life[a] # "none" /\ LostDeviceDropsMessage(a)
  /\ UNCHANGED life

UseDevice(d) == life[d] # "none" /\ DeviceRecv(d) /\ UNCHANGED life

LifeNext ==
  \/ \E c \in Controllers : Construct(c) \/ ConstructUntyped(c)
  \/ \E a \in Agents : InitialiseAgent(a) \/ RebootAgent(a) \/ UseAgent(a)
  \/ \E d \in Devices : UseDevice(d)
  \/ \E d \in Fragile : LoseDevice(d)

LifeSpec == LifeInit /\ [][LifeNext]_lifeVars

(***************************************************************************)
(* Properties.                                                             *)
(***************************************************************************)
(* With controllers that come and go the devices still implement the       *)
(* ledger: no device gets an owner without a key, although agents without  *)
(* keys ask for tickets and are named in them; one that came up without a  *)
(* type or was rebooted does not act at the order it finds in its memory.  *)
LifeLedger == INSTANCE DeviceLedger WITH
  live   <- {d \in Devices : life[d] # "lost"},
  offers <- {OfferOf(u) : u \in OwnershipTickets}

LifeLedgerSpec == LifeLedger!Spec

(* A device whose owner was rebooted, and for which nobody holds a ticket  *)
(* it would execute, is lost to everybody: the owner's key is gone, a new  *)
(* one is never made, and nobody else can sign. Only its own reboot ends   *)
(* that.                                                                   *)
TicketsAround == {channel.u} \cup {initTicket[a] : a \in Agents}
                   \cup UNION {UNION {RowTickets(a, d) : d \in Devices} : a \in Agents}

Orphaned(d) ==
  /\ life[d] = "constructed" /\ state[d] = "DEVICE_WAIT_FOR_UT"
  /\ owner[d] \in Agents /\ life[owner[d]] = "lost"
  /\ \A u \in TicketsAround : u.type \in StoredUTypes => ~ CanExecute(d, u)

OrphanedForever ==
  [][\A d \in Devices : Orphaned(d) => Orphaned(d)' \/ life'[d] = "lost"]_lifeVars
=============================================================================
