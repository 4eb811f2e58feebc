---------------------------- MODULE TicketService ----------------------------
(***************************************************************************)
(* What a sequential application gets from UREKA when it uses the          *)
(* operations in the order of the flow tests: it asks for one thing at a   *)
(* time (take a device over, pass it on, be let in, run a command, leave), *)
(* the device does it once or, where the task scope says so, not at all,   *)
(* the owner's records catch up, and the application hears the end of it.  *)
(* The records may wait only while the owner uses another device herself;  *)
(* then nothing else is asked of the device before a report.               *)
(***************************************************************************)
EXTENDS Naturals

CONSTANTS
  Devices,
  Agents,
  NoOne,       \* the owner of a device nobody owns, the user of one nobody uses
  NoText,      \* what somebody has read who has read nothing yet
  Goals,       \* what an application may ask for
  NoGoal,      \* it asks for nothing at the moment
  Allowed(_)   \* is the text of a goal in the task scope of its ticket?

VARIABLES
  own,   \* the owner of every device
  ord,   \* its ticket order
  user,  \* the agent it is in a session with
  book,  \* the order of the device in the records of its owner
  read,  \* the latest answer every agent has read
  goal   \* what the application has asked for

vars == <<own, ord, user, book, read, goal>>

Init ==
  /\ own  = [d \in Devices |-> NoOne]
  /\ ord  = [d \in Devices |-> 0]
  /\ user = [d \in Devices |-> NoOne]
  /\ book = [d \in Devices |-> 0]
  /\ read = [a \in Agents |-> NoText]
  /\ goal = NoGoal

Entry == {"SelfAccess", "Access", "Reopen"}

(* A goal names its device and agents, and the order it starts at. A report *)
(* is for records that were left behind.                                   *)
Ask ==
  /\ goal = NoGoal
  /\ goal' \in Goals
  /\ goal'.ord = ord[goal'.dev]
  /\ goal'.kind = "Report" <=> book[goal'.dev] # ord[goal'.dev]
  /\ UNCHANGED <<own, ord, user, book, read>>

(* Once per goal: afterwards the order is not the one the goal began with. *)
ChangeOwner ==
  /\ goal.kind \in {"Initialize", "Transfer"}
  /\ ord[goal.dev] = goal.ord /\ user[goal.dev] = NoOne
  /\ own' = [own EXCEPT ![goal.dev] = goal.to]
  /\ ord' = [ord EXCEPT ![goal.dev] = @ + 1]
  /\ UNCHANGED <<user, book, read, goal>>

LetIn ==
  /\ goal.kind \in Entry
  /\ Allowed(goal)
  /\ user[goal.dev] = NoOne
  /\ user' = [user EXCEPT ![goal.dev] = goal.to]
  /\ UNCHANGED <<own, ord, book, read, goal>>

(* Only what the scope allows is answered, and only to the user.           *)
Answer ==
  /\ goal.kind \in Entry \cup {"Command"}
  /\ Allowed(goal)
  /\ user[goal.dev] = goal.to
  /\ read' = [read EXCEPT ![goal.to] = goal.text]
  /\ UNCHANGED <<own, ord, user, book, goal>>

LetOut ==
  /\ goal.kind = "End"
  /\ ord[goal.dev] = goal.ord /\ user[goal.dev] = goal.to
  /\ user' = [user EXCEPT ![goal.dev] = NoOne]
  /\ ord' = [ord EXCEPT ![goal.dev] = @ + 1]
  /\ UNCHANGED <<own, book, read, goal>>

(* The owner enters in the records what the device did. *)
Record ==
  /\ goal # NoGoal
  /\ book[goal.dev] # ord[goal.dev]
  /\ book' = [book EXCEPT ![goal.dev] = ord[goal.dev]]
  /\ UNCHANGED <<own, ord, user, read, goal>>

Busy(a) == \E d \in Devices : user[d] = a

Achieved(g) ==
  /\ book[g.dev] = ord[g.dev] \/ (g.kind = "End" /\ g.to # g.by /\ Busy(own[g.dev]))
  /\ g.kind \in {"Initialize", "Transfer"} => ord[g.dev] = g.ord + 1 /\ own[g.dev] = g.to
  /\ g.kind \in Entry => ord[g.dev] = g.ord /\ user[g.dev] = IF Allowed(g) THEN g.to ELSE NoOne
  /\ g.kind = "Command" => ord[g.dev] = g.ord /\ user[g.dev] = g.to
  /\ g.kind \in Entry \cup {"Command"} /\ Allowed(g) => read[g.to] = g.text
  /\ g.kind = "End" => ord[g.dev] = g.ord + 1 /\ user[g.dev] = NoOne
  /\ g.kind = "Report" => ord[g.dev] = g.ord

Finish ==
  /\ goal # NoGoal
  /\ Achieved(goal)
  /\ goal' = NoGoal
  /\ UNCHANGED <<own, ord, user, book, read>>

Next == Ask \/ ChangeOwner \/ LetIn \/ Answer \/ LetOut \/ Record \/ Finish

Spec == Init /\ [][Next]_vars

(* What is asked for is done, or refused, and the application hears of it. *)
Answered == (goal # NoGoal) ~> (goal = NoGoal)
=============================================================================
