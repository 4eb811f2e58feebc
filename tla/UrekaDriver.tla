----------------------------- MODULE UrekaDriver -----------------------------
(***************************************************************************)
(* Ureka under an application that does one thing at a time: the sequences *)
(* of calls the flow tests are made of (TestFlow.cpp, test/operation), one *)
(* after the other, in any order that makes sense to somebody who knows    *)
(* what the earlier ones did. Each step is one call of a controller; the   *)
(* application waits for its return and goes on, so it is weakly fair.     *)
(*                                                                         *)
(* The application keeps to this: an agent in a session starts nothing     *)
(* else, a device in a session is not passed on, a device has one access   *)
(* ticket for others at a time, a holder reports the end of his access and *)
(* the device is not used before its owner has heard of it. An owner who   *)
(* is in a session of her own may miss the report: it is repeated later.   *)
(***************************************************************************)
EXTENDS Ureka, Sequences

VARIABLES
  goal,   \* the sequence of calls that is under way
  done    \* how many of its calls have returned

driverVars == <<vars, goal, done>>

Entry  == {"SelfAccess", "Access", "Reopen"}
NoGoal == [kind |-> "None"]
Goals  == [kind : {"Initialize", "Transfer", "Command", "End", "Report"} \cup Entry,
           dev : Devices, by : Agents, to : Agents, scope : SUBSET Texts, text : Texts, ord : 0 .. MaxOrder]

(* The empty text is refused whatever the scope says. *)
Allowed(g) == g.text \in g.scope \ {NoCmd}

(***************************************************************************)
(* The sequences of calls: `by' issues the ticket, `to' holds it.          *)
(***************************************************************************)
Handshake == <<"Apply", "DeviceRecv", "HolderRecv", "DeviceRecv", "HolderRecv">>
Telling      == <<"Report", "IssuerRecv">>
Reporting(g) == IF g.by = g.to THEN <<>> ELSE Telling

Calls(g) ==
  CASE g.kind = "Initialize" -> <<"Issue", "Apply", "DeviceRecv", "HolderRecv">>
    [] g.kind = "Transfer"   -> <<"Issue", "HolderRecv", "Apply", "DeviceRecv", "HolderRecv">>
                                  \o Reporting(g)
    [] g.kind = "SelfAccess" -> <<"Issue">> \o Handshake
    [] g.kind = "Access"     -> <<"Issue", "HolderRecv">> \o Handshake
    [] g.kind = "Reopen"     -> Handshake
    [] g.kind = "Command"    -> <<"Send", "DeviceRecv", "HolderRecv">>
    [] g.kind = "End"        -> <<"Send", "DeviceRecv", "HolderRecv">> \o Reporting(g)
    [] g.kind = "Report"     -> Telling

(* A new owner need not tell the old one. *)
MayStop(g) ==
  \/ done = Len(Calls(g))
  \/ g.kind = "Transfer" /\ done + Len(Reporting(g)) = Len(Calls(g))

IssueFor(g) ==
  \/ g.kind = "Initialize" /\ IssueInitToHerself(g.to)
  \/ g.kind = "Transfer"   /\ IssueOwnershipToHolder(g.by, g.dev, g.to)
  \/ g.kind = "SelfAccess" /\ IssueSelfAccessToHerself(g.to, g.dev, g.scope)
  \/ g.kind = "Access"     /\ IssueAccessToHolder(g.by, g.dev, g.to, g.scope)

ApplyFor(g) ==
  HolderApplyUTicket(g.to, IF g.kind = "Initialize" THEN NoId ELSE g.dev, g.text)

(* The device named in the call is only looked up. *)
SendFor(g) ==
  \E named \in Devices :
    HolderSendCmd(g.to, named, g.text, IF g.kind = "End" THEN "ACCESS_END" ELSE "CMD_UTOKEN")

Make(call, g) ==
  \/ call = "Issue"      /\ IssueFor(g)
  \/ call = "Apply"      /\ ApplyFor(g)
  \/ call = "Send"       /\ SendFor(g)
  \/ call = "Report"     /\ HolderSendRTicketToIssuer(g.to, g.dev)
  \/ call = "DeviceRecv" /\ DeviceRecv(g.dev)
  \/ call = "HolderRecv" /\ AgentRecv(g.to)
  \/ call = "IssuerRecv" /\ AgentRecv(g.by)

Step ==
  /\ goal # NoGoal
  /\ done < Len(Calls(goal))
  /\ Make(Calls(goal)[done + 1], goal)
  /\ done' = done + 1
  /\ UNCHANGED goal

(* The application turns to something else. *)
Conclude ==
  /\ goal # NoGoal
  /\ MayStop(goal)
  /\ goal' = NoGoal
  /\ done' = 0
  /\ UNCHANGED vars

(***************************************************************************)
(* What the application may turn to.                                       *)
(***************************************************************************)
UserOf(d) == IF state[d] = "DEVICE_WAIT_FOR_CMD" THEN session[d].ut.holder ELSE NoOne

Free(a) == \A d \in Devices : UserOf(d) # a

(* The owner has heard of all that happened to the device.                 *)
Owns(a, d) == owner[d] = a /\ UserOf(d) = NoOne /\ table[a][d].order = order[d]

Begin(kind, d, by, to, scope, text) ==
  /\ goal = NoGoal
  /\ goal' = [kind |-> kind, dev |-> d, by |-> by, to |-> to,
              scope |-> scope, text |-> text, ord |-> order[d]]
  /\ UNCHANGED <<vars, done>>

AskInitialize(d, a) ==
  /\ order[d] = 0 /\ Free(a)
  /\ Begin("Initialize", d, a, a, {}, NoCmd)

AskTransfer(d, a, b) ==
  /\ Owns(a, d) /\ order[d] < MaxOrder /\ a # b /\ Free(a) /\ Free(b)
  /\ Begin("Transfer", d, a, b, {}, NoCmd)

AskSelfAccess(d, a, text) ==
  /\ Owns(a, d) /\ order[d] < MaxOrder /\ Free(a)
  /\ Begin("SelfAccess", d, a, a, AllScope, text)

(* Another access ticket at the same order would take the place of this    *)
(* one at the owner, who could not recognise its receipt any more.         *)
AskAccess(d, a, b, scope, text) ==
  /\ Owns(a, d) /\ order[d] < MaxOrder /\ a # b /\ Free(a) /\ Free(b)
  /\ table[a][d].accUOthers = NoUT \/ table[a][d].accUOthers.order # order[d]
  /\ Begin("Access", d, a, b, scope, text)

(* After an opening that was refused the ticket is as good as before. *)
AskReopen(d, b, text) ==
  LET u == table[b][d].uOwner IN
    /\ u.type \in {"ACCESS", "SELFACCESS"} /\ u.order = order[d]
    /\ UserOf(d) = NoOne /\ Free(b)
    /\ Begin("Reopen", d, owner[d], b, u.scope, text)

AskCommand(d, text) ==
  /\ UserOf(d) # NoOne
  /\ Begin("Command", d, owner[d], UserOf(d), session[d].ut.scope, text)

(* An owner in a session of her own may be in a state in which she drops   *)
(* the report.                                                             *)
AskEnd(d) ==
  /\ UserOf(d) # NoOne
  /\ Begin("End", d, owner[d], UserOf(d), session[d].ut.scope, EndCmd)

(* The holder she let in repeats it when both have time for it.            *)
AskReport(d) ==
  /\ owner[d] # NoOne /\ UserOf(d) = NoOne
  /\ LET row == table[owner[d]][d]
         b == row.accUOthers.holder
     IN
       /\ row.order # order[d] /\ Free(owner[d]) /\ Free(b)
       /\ Begin("Report", d, owner[d], b, {}, NoCmd)

Ask ==
  \E d \in Devices :
    \/ AskEnd(d)
    \/ AskReport(d)
    \/ \E text \in CmdInputs : AskCommand(d, text)
    \/ \E a \in Agents :
         \/ AskInitialize(d, a)
         \/ \E text \in FirstCmds : AskSelfAccess(d, a, text) \/ AskReopen(d, a, text)
         \/ \E b \in Agents :
              \/ AskTransfer(d, a, b)
              \/ \E scope \in Scopes, text \in FirstCmds : AskAccess(d, a, b, scope, text)

(***************************************************************************)
(* Specification.                                                          *)
(***************************************************************************)
DriverInit == Init /\ goal = NoGoal /\ done = 0
DriverNext == Ask \/ Step \/ Conclude

(* The next call of a sequence that is under way is made: the application  *)
(* runs on one thread and no call blocks. It may well ask for nothing more.*)
DriverSpec ==
  /\ DriverInit /\ [][DriverNext]_driverVars
  /\ WF_driverVars(Step) /\ WF_driverVars(Conclude)

(***************************************************************************)
(* Properties.                                                             *)
(***************************************************************************)
(* The calls, in the order of the tests, do what the tests assert at the   *)
(* end of each sequence: the device changed hands, let the holder in or    *)
(* out, answered what the scope allows and nothing else, exactly once, and *)
(* the owner's row has the device's order again (TestFlow.cpp:43-391); if  *)
(* she missed the report, then after the next one, and until then nobody   *)
(* gets at the device.                                                     *)
Service == INSTANCE TicketService WITH
  NoText <- NoCmd,
  own    <- owner,
  ord    <- order,
  user   <- [d \in Devices |-> UserOf(d)],
  book   <- [d \in Devices |-> IF owner[d] = NoOne THEN 0 ELSE table[owner[d]][d].order],
  read   <- [a \in Agents |-> session[a].data]

ServiceSpec == Service!Spec

(* No sequence of calls gets stuck, whatever was refused in it or before   *)
(* it: no receiver finds the channel empty or is in a state in which it    *)
(* does not take what is there.                                            *)
EveryGoalAnswered == Service!Answered

(* Between two sequences the user of a device and the device are at the    *)
(* same point of the same session, also after commands that were refused:  *)
(* otherwise the next token could not be read.                             *)
SessionInStep ==
  \A d \in Devices : goal = NoGoal /\ UserOf(d) # NoOne =>
    LET a == UserOf(d) IN
      /\ session[a].ut = session[d].ut /\ session[a].ut = Id(table[a][d].uOwner)
      /\ session[a].key = session[d].key
      /\ session[a].ivCmd = session[d].ivCmd
      /\ session[d].ut.order = order[d] /\ table[a][d].order = order[d]
=============================================================================
