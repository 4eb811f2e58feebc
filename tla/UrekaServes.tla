---------------------------- MODULE UrekaServes -----------------------------
(***************************************************************************)
(* The application of UrekaDriver gets the service: for any number of      *)
(* agents and devices, every sequence of calls does what TicketService     *)
(* says, and the device and its user stay at the same point of the same    *)
(* session.                                                                *)
(*                                                                         *)
(* The invariant says where the sequence under way is after each of its    *)
(* calls: what is in the channel, what the receiver waits for, what both   *)
(* sides have computed (Phase). Between two sequences every device is at   *)
(* rest or in a session both sides agree on, the owner's row has its order,*)
(* or else nobody can use the device and the holder she let in has the     *)
(* receipt she missed (Settled); and who is in no session is idle. At all  *)
(* times an access ticket of a device's present order is what its owner    *)
(* signed last (TicketSound).                                              *)
(***************************************************************************)
EXTENDS UrekaPhases

DriverInv ==
  /\ SafeInv
  /\ Sound
  /\ done \in Nat
  /\ goal = NoGoal => done = 0 /\ AtRest
  /\ goal # NoGoal => GoalOk(goal) /\ Undisturbed(goal) /\ Phase(goal, done)

(***************************************************************************)
(* The sequences of calls.                                                 *)
(***************************************************************************)
LEMMA InitializeCalls ==
  ASSUME NEW g, g.kind = "Initialize"
  PROVE  /\ Len(Calls(g)) = 4
         /\ Calls(g)[1] = "Issue" /\ Calls(g)[2] = "Apply" /\ Calls(g)[3] = "DeviceRecv"
         /\ Calls(g)[4] = "HolderRecv"
BY DEF Calls

LEMMA TransferCalls ==
  ASSUME NEW g, g.kind = "Transfer", g.by # g.to
  PROVE  /\ Len(Calls(g)) = 7
         /\ Calls(g)[1] = "Issue" /\ Calls(g)[2] = "HolderRecv" /\ Calls(g)[3] = "Apply"
         /\ Calls(g)[4] = "DeviceRecv" /\ Calls(g)[5] = "HolderRecv" /\ Calls(g)[6] = "Report"
         /\ Calls(g)[7] = "IssuerRecv"
BY DEF Calls, Reporting, Telling

LEMMA SelfAccessCalls ==
  ASSUME NEW g, g.kind = "SelfAccess"
  PROVE  /\ Len(Calls(g)) = 6
         /\ Calls(g)[1] = "Issue" /\ Calls(g)[2] = "Apply" /\ Calls(g)[3] = "DeviceRecv"
         /\ Calls(g)[4] = "HolderRecv" /\ Calls(g)[5] = "DeviceRecv" /\ Calls(g)[6] = "HolderRecv"
BY DEF Calls, Handshake

LEMMA AccessCalls ==
  ASSUME NEW g, g.kind = "Access"
  PROVE  /\ Len(Calls(g)) = 7
         /\ Calls(g)[1] = "Issue" /\ Calls(g)[2] = "HolderRecv" /\ Calls(g)[3] = "Apply"
         /\ Calls(g)[4] = "DeviceRecv" /\ Calls(g)[5] = "HolderRecv" /\ Calls(g)[6] = "DeviceRecv"
         /\ Calls(g)[7] = "HolderRecv"
BY DEF Calls, Handshake

LEMMA ReopenCalls ==
  ASSUME NEW g, g.kind = "Reopen"
  PROVE  /\ Len(Calls(g)) = 5
         /\ Calls(g)[1] = "Apply" /\ Calls(g)[2] = "DeviceRecv" /\ Calls(g)[3] = "HolderRecv"
         /\ Calls(g)[4] = "DeviceRecv" /\ Calls(g)[5] = "HolderRecv"
BY DEF Calls, Handshake

LEMMA CommandCalls ==
  ASSUME NEW g, g.kind = "Command"
  PROVE  /\ Len(Calls(g)) = 3
         /\ Calls(g)[1] = "Send" /\ Calls(g)[2] = "DeviceRecv" /\ Calls(g)[3] = "HolderRecv"
BY DEF Calls

LEMMA EndCalls ==
  ASSUME NEW g, g.kind = "End"
  PROVE  /\ Len(Calls(g)) = IF g.by = g.to THEN 3 ELSE 5
         /\ Calls(g)[1] = "Send" /\ Calls(g)[2] = "DeviceRecv" /\ Calls(g)[3] = "HolderRecv"
         /\ g.by # g.to => Calls(g)[4] = "Report" /\ Calls(g)[5] = "IssuerRecv"
<1>1. CASE g.by = g.to
  BY <1>1 DEF Calls, Reporting
<1>2. CASE g.by # g.to
  BY <1>2 DEF Calls, Reporting, Telling
<1> QED
  BY <1>1, <1>2

LEMMA ReportCalls ==
  ASSUME NEW g, g.kind = "Report"
  PROVE  Len(Calls(g)) = 2 /\ Calls(g)[1] = "Report" /\ Calls(g)[2] = "IssuerRecv"
BY DEF Calls, Telling

(***************************************************************************)
(* Every call takes its sequence to the next phase.                        *)
(***************************************************************************)
(* One call of the handshake, which is the call number m of Opening.       *)
LEMMA OpeningStep ==
  ASSUME NEW g \in Goals, g.kind \in Entry, NEW m \in 0 .. 4, Opening(g, m),
         ReadyTo(g, IF m = 0 THEN "Apply" ELSE IF m \in {1, 3} THEN "DeviceRecv" ELSE "HolderRecv")
  PROVE  Opens(g, m + 1)
<1>1. g.kind # "Initialize"
  BY DEF Entry
<1>2. CASE m = 0
  BY <1>1, <1>2, OpeningApplied
<1>3. CASE m = 1
  BY <1>3, OpeningOffered
<1>4. CASE m = 2
  BY <1>4, OpeningAccepted
<1>5. CASE m = 3
  BY <1>5, OpeningDecided
<1>6. CASE m = 4
  BY <1>6, OpeningAnswered
<1> QED
  BY <1>2, <1>3, <1>4, <1>5, <1>6

LEMMA TransferStep ==
  ASSUME NEW g \in Goals, g.kind = "Transfer", g.by # g.to, NEW n \in Nat, n < Len(Calls(g)),
         Ready(g, n, Calls(g)[n + 1])
  PROVE  Advances(g, n + 1)
<1>1. n \in 0 .. 6
  BY TransferCalls
<1>2. CASE n = 0
  BY <1>2, TransferCalls, TransferIssued
<1>3. CASE n = 1
  BY <1>3, TransferCalls, TransferReceived
<1>4. CASE n = 2
  BY <1>4, TransferCalls, TransferApplied
<1>5. CASE n = 3
  BY <1>5, TransferCalls, TransferExecuted
<1>6. CASE n = 4
  BY <1>6, TransferCalls, TransferConfirmed
<1>7. CASE n = 5
  BY <1>7, TransferCalls, TransferReported
<1>8. CASE n = 6
  BY <1>8, TransferCalls, TransferRecorded
<1> QED
  BY <1>1, <1>2, <1>3, <1>4, <1>5, <1>6, <1>7, <1>8

LEMMA InitializeStep ==
  ASSUME NEW g \in Goals, g.kind = "Initialize", NEW n \in Nat, n < Len(Calls(g)),
         Ready(g, n, Calls(g)[n + 1])
  PROVE  Advances(g, n + 1)
<1>1. n \in 0 .. 3
  BY InitializeCalls
<1>2. CASE n = 0
  BY <1>2, InitializeCalls, InitIssued
<1>3. CASE n = 1
  BY <1>3, InitializeCalls, InitApplied
<1>4. CASE n = 2
  BY <1>4, InitializeCalls, InitExecuted
<1>5. CASE n = 3
  BY <1>5, InitializeCalls, InitConfirmed
<1> QED
  BY <1>1, <1>2, <1>3, <1>4, <1>5

LEMMA CommandStep ==
  ASSUME NEW g \in Goals, g.kind = "Command", NEW n \in Nat, n < Len(Calls(g)),
         Ready(g, n, Calls(g)[n + 1])
  PROVE  Advances(g, n + 1)
<1>1. n \in 0 .. 2
  BY CommandCalls
<1>2. CASE n = 0
  BY <1>2, CommandCalls, CommandSent
<1>3. CASE n = 1
  BY <1>3, CommandCalls, CommandExecuted
<1>4. CASE n = 2
  BY <1>4, CommandCalls, CommandAnswered
<1> QED
  BY <1>1, <1>2, <1>3, <1>4

LEMMA EndStep ==
  ASSUME NEW g \in Goals, g.kind = "End", NEW n \in Nat, n < Len(Calls(g)),
         Ready(g, n, Calls(g)[n + 1])
  PROVE  Advances(g, n + 1)
<1>1. n \in 0 .. 4 /\ (n \in {3, 4} => g.by # g.to)
  BY EndCalls
<1>2. CASE n = 0
  BY <1>2, EndCalls, EndSent
<1>3. CASE n = 1
  BY <1>3, EndCalls, EndExecuted
<1>4. CASE n = 2
  BY <1>4, EndCalls, EndConfirmed
<1>5. CASE n = 3
  BY <1>1, <1>5, EndCalls, EndReported
<1>6. CASE n = 4
  BY <1>1, <1>6, EndCalls, EndRecorded
<1> QED
  BY <1>1, <1>2, <1>3, <1>4, <1>5, <1>6

LEMMA ReportStep ==
  ASSUME NEW g \in Goals, g.kind = "Report", NEW n \in Nat, n < Len(Calls(g)),
         Ready(g, n, Calls(g)[n + 1])
  PROVE  Advances(g, n + 1)
<1>1. n \in 0 .. 1
  BY ReportCalls
<1>2. CASE n = 0
  BY <1>2, ReportCalls, ReportTold
<1>3. CASE n = 1
  BY <1>3, ReportCalls, ReportHeard
<1> QED
  BY <1>1, <1>2, <1>3

LEMMA ReopenStep ==
  ASSUME NEW g \in Goals, g.kind = "Reopen", NEW n \in Nat, n < Len(Calls(g)),
         Ready(g, n, Calls(g)[n + 1])
  PROVE  Advances(g, n + 1)
<1>1. n \in 0 .. 4 /\ g.kind \in Entry
  BY ReopenCalls DEF Entry
<1>2. Opening(g, n)
  BY DEF Ready, Phase, Entering, Entry
<1>3. ReadyTo(g, IF n = 0 THEN "Apply" ELSE IF n \in {1, 3} THEN "DeviceRecv" ELSE "HolderRecv")
  BY <1>1, ReopenCalls DEF Ready
<1>4. Opens(g, n + 1)
  BY <1>1, <1>2, <1>3, OpeningStep
<1>5. Phase(g, n + 1)'
  BY <1>4 DEF Opens, Phase, Entering, Entry
<1> QED
  BY <1>4, <1>5 DEF Advances, Opens, Noticed

LEMMA SelfAccessStep ==
  ASSUME NEW g \in Goals, g.kind = "SelfAccess", NEW n \in Nat, n < Len(Calls(g)),
         Ready(g, n, Calls(g)[n + 1])
  PROVE  Advances(g, n + 1)
<1>1. n \in 0 .. 5 /\ g.kind \in Entry
  BY SelfAccessCalls DEF Entry
<1>2. CASE n = 0
  BY <1>2, SelfAccessCalls, SelfAccessIssued
<1>3. CASE n \in 1 .. 5
  <2> DEFINE m == n - 1
  <2>1. m \in 0 .. 4 /\ n = m + 1
    BY <1>3
  <2>2. Opening(g, m)
    BY <1>3 DEF Ready, Phase, Entering, Entry
  <2>3. ReadyTo(g, IF m = 0 THEN "Apply" ELSE IF m \in {1, 3} THEN "DeviceRecv" ELSE "HolderRecv")
    BY <1>3, SelfAccessCalls DEF Ready
  <2> HIDE DEF m
  <2>4. Opens(g, m + 1)
    BY <1>1, <2>1, <2>2, <2>3, OpeningStep
  <2>5. Opening(g, n)'
    BY <2>1, <2>4 DEF Opens
  <2>6. Phase(g, n + 1)'
    <3>1. n + 1 \in 1 .. 6 /\ (n + 1) - 1 = n
      BY <1>3
    <3> QED
      BY <2>5, <3>1 DEF Phase, Entering, Entry
  <2> QED
    BY <2>4, <2>6 DEF Advances, Opens, Noticed
<1> QED
  BY <1>1, <1>2, <1>3

LEMMA AccessStep ==
  ASSUME NEW g \in Goals, g.kind = "Access", NEW n \in Nat, n < Len(Calls(g)),
         Ready(g, n, Calls(g)[n + 1])
  PROVE  Advances(g, n + 1)
<1>1. n \in 0 .. 6 /\ g.kind \in Entry
  BY AccessCalls DEF Entry
<1>2. CASE n = 0
  BY <1>2, AccessCalls, AccessIssued
<1>3. CASE n = 1
  BY <1>3, AccessCalls, AccessReceived
<1>4. CASE n \in 2 .. 6
  <2> DEFINE m == n - 2
  <2>1. m \in 0 .. 4 /\ n = m + 2
    BY <1>4
  <2>2. Opening(g, m)
    BY <1>4 DEF Ready, Phase, Entering, Entry
  <2>3. ReadyTo(g, IF m = 0 THEN "Apply" ELSE IF m \in {1, 3} THEN "DeviceRecv" ELSE "HolderRecv")
    BY <1>4, AccessCalls DEF Ready
  <2> HIDE DEF m
  <2>4. Opens(g, m + 1)
    BY <1>1, <2>1, <2>2, <2>3, OpeningStep
  <2>5. Opening(g, m + 1)'
    BY <2>4 DEF Opens
  <2>6. Phase(g, n + 1)'
    <3>1. n + 1 \in 2 .. 7 /\ (n + 1) - 2 = m + 1
      BY <1>4, <2>1
    <3> QED
      BY <2>5, <3>1 DEF Phase, Entering, Entry
  <2> QED
    BY <2>4, <2>6 DEF Advances, Opens, Noticed
<1> QED
  BY <1>1, <1>2, <1>3, <1>4

LEMMA CallAdvances ==
  ASSUME NEW g \in Goals, NEW n \in Nat, n < Len(Calls(g)), Ready(g, n, Calls(g)[n + 1])
  PROVE  Advances(g, n + 1)
<1>1. g.kind \in {"Initialize", "Transfer", "Command", "End", "Report",
                 "SelfAccess", "Access", "Reopen"}
  BY GoalFields
<1>2. g.kind = "Transfer" => g.by # g.to
  BY DEF Ready, ReadyTo, GoalOk
<1> QED
  BY <1>1, <1>2, InitializeStep, TransferStep, CommandStep, EndStep, ReportStep, SelfAccessStep,
     AccessStep, ReopenStep

(***************************************************************************)
(* Every call keeps the invariant of Ureka, whoever makes it.              *)
(***************************************************************************)
LEMMA MakeIsACall ==
  ASSUME NEW g \in Goals, NEW call, Make(call, g)
  PROVE  \/ AnyCall(g.to) \/ AnyCall(g.by)
         \/ AgentRecv(g.to) \/ AgentRecv(g.by) \/ DeviceRecv(g.dev)
<1>g. /\ g.dev \in Devices /\ g.by \in Persons /\ g.to \in Persons /\ g.dev \in DeviceIds
      /\ g.scope \in SUBSET Texts /\ g.text \in Texts /\ NoId \in DeviceIds
  BY GoalFields DEF Persons, DeviceIds
<1>1. IssueFor(g) => AnyIssue(g.to) \/ AnyIssue(g.by)
  <2>1. IssueInitToHerself(g.to) => SetInitTicket(g.to, g.to)
    BY DEF IssueInitToHerself, SetInitTicket
  <2> QED
    BY <1>g, <2>1 DEF IssueFor, AnyIssue
<1>2. ApplyFor(g) => AnyCall(g.to)
  BY <1>g DEF ApplyFor, AnyCall
<1>3. SendFor(g) => AnyCall(g.to)
  BY <1>g DEF SendFor, AnyCall, TokenTypes
<1> QED
  BY <1>1, <1>2, <1>3, <1>g DEF Make, AnyCall

LEMMA MakeSafe ==
  ASSUME NEW g \in Goals, NEW call, SafeInv, Make(call, g)
  PROVE  SafeInv'
<1>g. g.dev \in Devices /\ g.by \in Agents /\ g.to \in Agents /\ TypeOK
  BY GoalFields DEF SafeInv
<1>1. \A a \in Agents : AnyCall(a) => SafeInv'
  BY <1>g, CallType, CallChanges, AgentStepSafe
<1>2. \A a \in Agents : AgentRecv(a) => SafeInv'
  BY <1>g, AgentType, AgentRecvChanges, AgentStepSafe
<1>3. DeviceRecv(g.dev) => SafeInv'
  BY <1>g, DeviceType, DeviceRecvChanges, DeviceStepSafe
<1> QED
  BY <1>1, <1>2, <1>3, <1>g, MakeIsACall

(***************************************************************************)
(* A call leaves the others as they are.                                   *)
(***************************************************************************)
(* The device knows whom it serves.                                        *)
LEMMA ServesUser ==
  ASSUME TypeOK, Sound, NEW a \in Agents, NEW d \in Devices, Serving(a, d)
  PROVE  /\ UserOf(d) = a /\ a # NoOne /\ session[d].ut.dev = d /\ session[a].ut.dev = d
         /\ HeldTicket(a, d) \in UTicket /\ HeldTicket(a, d).order < MaxOrder
         /\ table[a][d].order = order[d]
<1>1. TicketSound(a, d) /\ HeldTicket(a, d) \in UTicket
  BY TypeParts DEF Sound, HeldTicket
<1> QED
  BY <1>1, IdFields, PartiesAssumption DEF Serving, SameSession, TicketSound, UserOf

LEMMA OthersSettled ==
  ASSUME TypeOK, Sound, NEW g \in Goals, Around(g), NEW e \in Devices \ {g.dev},
         Settled(e), UserOf(e) # g.to
  PROVE  Settled(e)' /\ UserOf(e)' = UserOf(e)
<1>1. /\ UNCHANGED <<state[e], session[e], order[e], owner[e]>>
      /\ \A x \in Agents : table'[x][e] = table[x][e]
      /\ \A x \in Agents \ {g.to} : session'[x] = session[x]
  BY DEF Around
<1>2. Owned(e)' <=> Owned(e)
  BY <1>1 DEF Owned
<1>3. ASSUME NEW x \in Agents, Serving(x, e) /\ Agreed(x, e)
      PROVE  Serving(x, e)' /\ Agreed(x, e)'
  <2>1. session'[x] = session[x]
    BY <1>1, <1>3, ServesUser
  <2> QED
    BY <2>1, <1>1, <1>2, <1>3 DEF Serving, Agreed, SameSession, HeldTicket
<1>4. UserOf(e)' = UserOf(e)
  BY <1>1 DEF UserOf
<1>5. ASSUME NEW x \in Agents, NEW y \in Agents, Behind(x, y, e)
      PROVE  Behind(x, y, e)'
  BY <1>1, <1>5, BehindKept DEF RowsKept
<1> QED
  BY <1>1, <1>2, <1>3, <1>4, <1>5 DEF Settled, Resting

LEMMA StaysUndisturbed ==
  ASSUME TypeOK, Sound, NEW g \in Goals, GoalOk(g), Undisturbed(g), Around(g),
         UserOf(g.dev)' \in {NoOne, g.to}
  PROVE  Undisturbed(g)'
<1>g. g.dev \in Devices /\ g.by \in Agents /\ g.to \in Agents /\ g.to # NoOne /\ NoOne \notin Agents
  BY GoalFields, PartiesAssumption
<1>1. \A e \in Devices \ {g.dev} : Settled(e)' /\ UserOf(e)' = UserOf(e) /\ UserOf(e)' # g.to
  BY OthersSettled DEF Undisturbed
<1>2. \A x \in Agents \ {g.to} : Free(x)' <=> Free(x)
  BY <1>1, <1>g DEF Free, Undisturbed
<1>3. \A x \in Agents \ {g.to} : IdleAgent(x)'
  BY <1>2 DEF IdleAgent, Undisturbed, Around
<1>4. g.kind \in {"Transfer", "Access", "Report"} => Free(g.by)'
  <2>1. Free(g.by) /\ g.by # g.to => Free(g.by)'
    BY <1>2, <1>g
  <2> QED
    BY <2>1, <1>g DEF Undisturbed, GoalOk
<1> QED
  BY <1>1, <1>3, <1>4 DEF Undisturbed

LEMMA StaysSound ==
  ASSUME Sound, NEW g \in Goals, Around(g), SoundAt(g.dev)'
  PROVE  Sound'
<1>1. ASSUME NEW x \in Agents, NEW e \in Devices \ {g.dev}
      PROVE  TicketSound(x, e)'
  <2>1. UNCHANGED <<order[e], owner[e]>> /\ \A y \in Agents : table'[y][e] = table[y][e]
    BY DEF Around
  <2>2. TicketSound(x, e)
    BY DEF Sound
  <2> QED
    BY <2>1, <2>2 DEF TicketSound, HeldTicket
<1>2. \A x \in Agents : TicketSound(x, g.dev)'
  BY DEF SoundAt
<1> QED
  BY <1>1, <1>2 DEF Sound

(***************************************************************************)
(* A call does to the service what TicketService allows.                   *)
(***************************************************************************)
Users  == [d \in Devices |-> UserOf(d)]
Books  == [d \in Devices |-> IF owner[d] = NoOne THEN 0 ELSE table[owner[d]][d].order]
Answers == [a \in Agents |-> session[a].data]

(* Only what belongs to the device and the user of the goal may change.    *)
LEMMA ServicePoints ==
  ASSUME TypeOK, TypeOK', NEW g \in Goals, Around(g)
  PROVE  LET d == g.dev IN
         /\ owner' = [owner EXCEPT ![d] = owner'[d]]
         /\ order' = [order EXCEPT ![d] = order'[d]]
         /\ Users' = [Users EXCEPT ![d] = UserOf(d)']
         /\ Books' = [Books EXCEPT ![d] = Book(d)']
         /\ Answers' = [Answers EXCEPT ![g.to] = session'[g.to].data]
<1> DEFINE d == g.dev
<1>1. \A e \in Devices \ {d} :
        /\ UNCHANGED <<state[e], session[e], order[e], owner[e]>>
        /\ \A x \in Agents : table'[x][e] = table[x][e]
  BY DEF Around
<1>2. owner' = [owner EXCEPT ![d] = owner'[d]] /\ order' = [order EXCEPT ![d] = order'[d]]
  BY <1>1 DEF TypeOK
<1>3. Users' = [Users EXCEPT ![d] = UserOf(d)']
  <2>1. \A e \in Devices \ {d} : UserOf(e)' = UserOf(e)
    BY <1>1 DEF UserOf
  <2>2. Users' = [e \in Devices |-> UserOf(e)']
    BY DEF Users
  <2> QED
    BY <2>1, <2>2 DEF Users
<1>4. Books' = [Books EXCEPT ![d] = Book(d)']
  <2>1. \A e \in Devices \ {d} : Book(e)' = Book(e)
    BY <1>1, TypeParts DEF Book, Persons
  <2>2. Books = [e \in Devices |-> Book(e)] /\ Books' = [e \in Devices |-> Book(e)']
    BY DEF Books, Book
  <2> QED
    BY <2>1, <2>2
<1>5. Answers' = [Answers EXCEPT ![g.to] = session'[g.to].data]
  BY DEF Around, Answers
<1> QED
  BY <1>2, <1>3, <1>4, <1>5

LEMMA StepServes ==
  ASSUME TypeOK, TypeOK', NEW g \in Goals, goal = g, goal # NoGoal, goal' = g,
         Around(g), Serves(g)
  PROVE  [Service!Next]_(Service!vars)
<1> DEFINE d == g.dev
           a == g.to
<1>g. /\ d \in Devices /\ a \in Agents
      /\ Users[d] = UserOf(d) /\ Books[d] = Book(d) /\ Answers[a] = session[a].data
  BY GoalFields DEF Users, Books, Book, Answers
<1>p. /\ owner' = [owner EXCEPT ![d] = owner'[d]]
      /\ order' = [order EXCEPT ![d] = order'[d]]
      /\ Users' = [Users EXCEPT ![d] = UserOf(d)']
      /\ Books' = [Books EXCEPT ![d] = Book(d)']
      /\ Answers' = [Answers EXCEPT ![a] = session'[a].data]
  BY ServicePoints
<1>o. owner'[d] = owner[d] => owner' = owner
  BY <1>p, <1>g DEF TypeOK
<1>q. order'[d] = order[d] => order' = order
  BY <1>p, <1>g DEF TypeOK
<1>u. UserOf(d)' = UserOf(d) => Users' = Users
  BY <1>p, <1>g DEF Users
<1>b. Book(d)' = Book(d) => Books' = Books
  BY <1>p, <1>g DEF Books
<1>r. session'[a].data = session[a].data => Answers' = Answers
  BY <1>p, <1>g DEF Answers
<1>1. CASE /\ owner'[d] = owner[d] /\ order'[d] = order[d] /\ UserOf(d)' = UserOf(d)
           /\ Book(d)' = Book(d) /\ session'[a].data = session[a].data
  <2>1. UNCHANGED <<owner, order, Users, Books, Answers, goal>>
    BY <1>1, <1>o, <1>q, <1>u, <1>b, <1>r
  <2> QED
    BY <2>1 DEF Service!vars, Users, Books, Answers
<1>2. CASE /\ g.kind \in {"Initialize", "Transfer"}
           /\ UserOf(d) = NoOne /\ owner'[d] = a /\ order[d] = g.ord /\ order'[d] = order[d] + 1
           /\ UserOf(d)' = UserOf(d) /\ Book(d)' = Book(d) /\ session'[a].data = session[a].data
  <2>1. Service!ChangeOwner
    BY <1>2, <1>g, <1>p, <1>u, <1>b, <1>r DEF Service!ChangeOwner, Users, Books, Answers
  <2> QED
    BY <2>1 DEF Service!Next
<1>3. CASE /\ g.kind \in Entry /\ Allowed(g)
           /\ UserOf(d) = NoOne /\ UserOf(d)' = a
           /\ owner'[d] = owner[d] /\ order'[d] = order[d]
           /\ Book(d)' = Book(d) /\ session'[a].data = session[a].data
  <2>1. Service!LetIn
    BY <1>3, <1>g, <1>p, <1>o, <1>q, <1>b, <1>r
       DEF Service!LetIn, Entry, Service!Entry, Users, Books, Answers
  <2> QED
    BY <2>1 DEF Service!Next
<1>4. CASE /\ g.kind \in Entry \cup {"Command"} /\ Allowed(g)
           /\ UserOf(d) = a /\ session'[a].data = g.text
           /\ owner'[d] = owner[d] /\ order'[d] = order[d]
           /\ UserOf(d)' = UserOf(d) /\ Book(d)' = Book(d)
  <2>1. Service!Answer
    BY <1>4, <1>g, <1>p, <1>o, <1>q, <1>u, <1>b
       DEF Service!Answer, Entry, Service!Entry, Users, Books, Answers
  <2> QED
    BY <2>1 DEF Service!Next
<1>5. CASE /\ g.kind = "End" /\ UserOf(d) = a /\ UserOf(d)' = NoOne
           /\ order[d] = g.ord /\ order'[d] = order[d] + 1
           /\ owner'[d] = owner[d] /\ Book(d)' = Book(d) /\ session'[a].data = session[a].data
  <2>1. Service!LetOut
    BY <1>5, <1>g, <1>p, <1>o, <1>b, <1>r DEF Service!LetOut, Users, Books, Answers
  <2> QED
    BY <2>1 DEF Service!Next
<1>6. CASE /\ Book(d) # order[d] /\ Book(d)' = order[d]
           /\ owner'[d] = owner[d] /\ order'[d] = order[d]
           /\ UserOf(d)' = UserOf(d) /\ session'[a].data = session[a].data
  <2>1. Service!Record
    BY <1>6, <1>g, <1>p, <1>o, <1>q, <1>u, <1>r DEF Service!Record, Users, Books, Answers
  <2> QED
    BY <2>1 DEF Service!Next
<1> QED
  BY <1>1, <1>2, <1>3, <1>4, <1>5, <1>6 DEF Serves

(***************************************************************************)
(* The application turns to something.                                     *)
(***************************************************************************)
LEMMA InSession ==
  ASSUME TypeOK, Sound, AtRest, NEW d \in Devices, UserOf(d) # NoOne
  PROVE  LET a == UserOf(d)
             u == HeldTicket(a, d)
         IN /\ a \in Agents /\ Serving(a, d) /\ Agreed(a, d) /\ Owned(d)
            /\ session[d].ut \in UTicket /\ session[d].ut.order = order[d]
            /\ u.order = order[d] /\ order[d] < MaxOrder /\ table[a][d].order = order[d]
            /\ session[d].ut.dev = d /\ session[a].ut = session[d].ut
<1>1. PICK a \in Agents : Serving(a, d) /\ Agreed(a, d)
  BY DEF AtRest, Settled, Behind, Resting, UserOf
<1>2. UserOf(d) = a /\ session[d].ut.dev = d
  BY <1>1, ServesUser
<1>3. HeldTicket(a, d) \in UTicket /\ HeldTicket(a, d).order < MaxOrder /\ table[a][d].order = order[d]
  BY <1>1, ServesUser
<1>4. session[d].ut \in UTicket /\ session[d].ut.order = order[d]
  BY <1>1, <1>3, IdType, IdFields DEF Serving, SameSession
<1> QED
  BY <1>1, <1>2, <1>3, <1>4 DEF Serving, SameSession

LEMMA BehindFacts ==
  ASSUME TypeOK, NEW d \in Devices, NEW a \in Agents, NEW b \in Agents, Behind(a, b, d)
  PROVE  /\ Resting(d) /\ UserOf(d) = NoOne /\ owner[d] = b /\ owner[d] # NoOne
         /\ order[d] > 0 /\ order[d] =< MaxOrder /\ Book(d) # order[d] /\ ~ Owned(d)
<1>1. owner[d] = b /\ Granted(d).order \in Nat
  BY TypeParts, UTicketFields DEF Behind, Granted
<1> QED
  BY <1>1, PartiesAssumption, InputsAssumption DEF Behind, Resting, UserOf, Book, Owned

(* A device nobody uses is at rest, with its owner or without one.         *)
LEMMA OwnerHas ==
  ASSUME TypeOK, Sound, AtRest, NEW d \in Devices, UserOf(d) = NoOne
  PROVE  /\ Resting(d)
         /\ owner[d] # NoOne => Owned(d) \/ \E a, b \in Agents : Behind(a, b, d)
         /\ owner[d] = NoOne <=> order[d] = 0
<1>1. \A a \in Agents : ~ Serving(a, d)
  BY ServesUser
<1>2. CASE \E a, b \in Agents : Behind(a, b, d)
  BY <1>2, BehindFacts
<1>3. CASE ~ \E a, b \in Agents : Behind(a, b, d)
  BY <1>1, <1>3, PartiesAssumption DEF AtRest, Settled, Owned
<1> QED
  BY <1>2, <1>3

LEMMA OwnsHas ==
  ASSUME TypeOK, Sound, AtRest, NEW d \in Devices, NEW a \in Agents, Owns(a, d)
  PROVE  Resting(d) /\ Owned(d) /\ owner[d] = a /\ UserOf(d) = NoOne
<1>1. owner[d] = a /\ UserOf(d) = NoOne /\ table[a][d].order = order[d]
  BY DEF Owns
<1>2. Resting(d) /\ order[d] # 0 /\ order[d] \in Nat
  BY <1>1, OwnerHas, PartiesAssumption, TypeParts
<1> QED
  BY <1>1, <1>2 DEF Owned

LEMMA BookOwned ==
  ASSUME NEW d \in Devices, Owned(d)
  PROVE  Book(d) = order[d]
BY PartiesAssumption DEF Book, Owned

Begun(g) ==
  /\ GoalOk(g) /\ Undisturbed(g) /\ Phase(g, 0)
  /\ g.ord = order[g.dev] /\ (g.kind = "Report" <=> Book(g.dev) # order[g.dev])

Goal(kind, d, by, to, scope, text) ==
  [kind |-> kind, dev |-> d, by |-> by, to |-> to, scope |-> scope, text |-> text, ord |-> order[d]]

LEMMA GoalIsOne ==
  ASSUME TypeOK, NEW d \in Devices, NEW by \in Agents, NEW to \in Agents,
         NEW scope \in SUBSET Texts, NEW text \in Texts,
         NEW kind \in {"Initialize", "Transfer", "Command", "End", "Report",
                       "SelfAccess", "Access", "Reopen"},
         order[d] =< MaxOrder
  PROVE  LET g == Goal(kind, d, by, to, scope, text) IN
           /\ g \in Goals /\ g.kind = kind /\ g.dev = d /\ g.by = by /\ g.to = to
           /\ g.scope = scope /\ g.text = text /\ g.ord = order[d]
<1>1. order[d] \in 0 .. MaxOrder
  BY TypeParts, InputsAssumption
<1> QED
  BY <1>1 DEF Goal, Goals, Entry

(* Who is free and asks for a device that is at rest disturbs nobody.      *)
LEMMA FreeUndisturbed ==
  ASSUME AtRest, NEW g \in Goals, Free(g.to), UserOf(g.dev) = NoOne,
         g.kind \in {"Transfer", "Access", "Report"} => Free(g.by)
  PROVE  Undisturbed(g) /\ state[g.to] = Idle
BY GoalFields DEF Undisturbed, AtRest, Free, IdleAgent

LEMMA InitializeBegun ==
  ASSUME SafeInv, Sound, AtRest, NEW d \in Devices, NEW a \in Agents, order[d] = 0, Free(a)
  PROVE  Begun(Goal("Initialize", d, a, a, {}, NoCmd)) /\ Goal("Initialize", d, a, a, {}, NoCmd) \in Goals
<1> DEFINE g == Goal("Initialize", d, a, a, {}, NoCmd)
<1>1. /\ TypeOK /\ 0 =< MaxOrder /\ {} \in SUBSET Texts /\ NoCmd \in Texts
  BY InputsAssumption DEF SafeInv, Texts
<1>2. /\ g \in Goals /\ g.kind = "Initialize" /\ g.dev = d /\ g.by = a /\ g.to = a /\ g.ord = 0
  BY <1>1, GoalIsOne
<1> HIDE DEF g
<1>3. Resting(d) /\ owner[d] = NoOne /\ UserOf(d) = NoOne
  <2>1. UserOf(d) = NoOne
    BY <1>1, InSession DEF Owned
  <2> QED
    BY <2>1, <1>1, OwnerHas
<1>4. Undisturbed(g) /\ state[a] = Idle
  BY <1>2, <1>3, FreeUndisturbed
<1>5. Phase(g, 0)
  BY <1>2, <1>3, <1>4 DEF Phase, Initializing, Entry
<1>6. GoalOk(g)
  BY <1>2 DEF GoalOk
<1>7. Book(d) = order[d]
  BY <1>3 DEF Book
<1> QED
  BY <1>2, <1>4, <1>5, <1>6, <1>7 DEF Begun, g

LEMMA TransferBegun ==
  ASSUME SafeInv, Sound, AtRest, NEW d \in Devices, NEW a \in Agents, NEW b \in Agents,
         Owns(a, d), order[d] < MaxOrder, a # b, Free(a), Free(b)
  PROVE  Begun(Goal("Transfer", d, a, b, {}, NoCmd)) /\ Goal("Transfer", d, a, b, {}, NoCmd) \in Goals
<1> DEFINE g == Goal("Transfer", d, a, b, {}, NoCmd)
<1>1. /\ TypeOK /\ order[d] =< MaxOrder /\ {} \in SUBSET Texts /\ NoCmd \in Texts
  BY TypeParts, InputsAssumption DEF SafeInv, Texts
<1>2. /\ g \in Goals /\ g.kind = "Transfer" /\ g.dev = d /\ g.by = a /\ g.to = b /\ g.ord = order[d]
  BY <1>1, GoalIsOne
<1> HIDE DEF g
<1>3. Resting(d) /\ Owned(d) /\ owner[d] = a /\ UserOf(d) = NoOne
  BY <1>1, OwnsHas
<1>4. Undisturbed(g) /\ state[b] = Idle
  BY <1>2, <1>3, FreeUndisturbed
<1>5. Phase(g, 0)
  BY <1>2, <1>3, <1>4 DEF Phase, Transferring, Entry, With
<1>6. GoalOk(g)
  BY <1>2 DEF GoalOk
<1>7. Book(d) = order[d]
  BY <1>3, BookOwned
<1> QED
  BY <1>2, <1>4, <1>5, <1>6, <1>7 DEF Begun, g

LEMMA SelfAccessBegun ==
  ASSUME SafeInv, Sound, AtRest, NEW d \in Devices, NEW a \in Agents, NEW text \in Texts,
         Owns(a, d), order[d] < MaxOrder, Free(a)
  PROVE  /\ Begun(Goal("SelfAccess", d, a, a, AllScope, text))
         /\ Goal("SelfAccess", d, a, a, AllScope, text) \in Goals
<1> DEFINE g == Goal("SelfAccess", d, a, a, AllScope, text)
<1>1. TypeOK /\ order[d] =< MaxOrder /\ AllScope \in SUBSET Texts
  BY TypeParts, InputsAssumption DEF SafeInv, AllScope
<1>2. /\ g \in Goals /\ g.kind = "SelfAccess" /\ g.dev = d /\ g.by = a /\ g.to = a
      /\ g.scope = AllScope /\ g.ord = order[d]
  BY <1>1, GoalIsOne
<1> HIDE DEF g
<1>3. Resting(d) /\ Owned(d) /\ owner[d] = a /\ UserOf(d) = NoOne
  BY <1>1, OwnsHas
<1>4. Undisturbed(g) /\ state[a] = Idle
  BY <1>2, <1>3, FreeUndisturbed
<1>5. Phase(g, 0)
  BY <1>2, <1>3, <1>4 DEF Phase, Entering, Entry, With
<1>6. GoalOk(g)
  BY <1>2 DEF GoalOk
<1>7. Book(d) = order[d]
  BY <1>3, BookOwned
<1> QED
  BY <1>2, <1>4, <1>5, <1>6, <1>7 DEF Begun, g

LEMMA AccessBegun ==
  ASSUME SafeInv, Sound, AtRest, NEW d \in Devices, NEW a \in Agents, NEW b \in Agents,
         NEW scope \in SUBSET Texts, NEW text \in Texts,
         Owns(a, d), order[d] < MaxOrder, a # b, Free(a), Free(b), GrantedToNobody(a, d)
  PROVE  /\ Begun(Goal("Access", d, a, b, scope, text))
         /\ Goal("Access", d, a, b, scope, text) \in Goals
<1> DEFINE g == Goal("Access", d, a, b, scope, text)
<1>1. TypeOK /\ order[d] =< MaxOrder
  BY TypeParts, InputsAssumption DEF SafeInv
<1>2. /\ g \in Goals /\ g.kind = "Access" /\ g.dev = d /\ g.by = a /\ g.to = b
      /\ g.ord = order[d]
  BY <1>1, GoalIsOne
<1> HIDE DEF g
<1>3. Resting(d) /\ Owned(d) /\ owner[d] = a /\ UserOf(d) = NoOne
  BY <1>1, OwnsHas
<1>4. Undisturbed(g) /\ state[b] = Idle
  BY <1>2, <1>3, FreeUndisturbed
<1>5. Phase(g, 0)
  BY <1>2, <1>3, <1>4 DEF Phase, Entering, Entry, With
<1>6. GoalOk(g)
  BY <1>2 DEF GoalOk
<1>7. Book(d) = order[d]
  BY <1>3, BookOwned
<1> QED
  BY <1>2, <1>4, <1>5, <1>6, <1>7 DEF Begun, g

LEMMA ReopenBegun ==
  ASSUME SafeInv, Sound, AtRest, NEW d \in Devices, NEW b \in Agents, NEW text \in Texts,
         HeldTicket(b, d).type \in AccessTypes, HeldTicket(b, d).order = order[d],
         UserOf(d) = NoOne, Free(b)
  PROVE  LET g == Goal("Reopen", d, owner[d], b, HeldTicket(b, d).scope, text) IN
           Begun(g) /\ g \in Goals
<1> DEFINE u == HeldTicket(b, d)
           g == Goal("Reopen", d, owner[d], b, u.scope, text)
<1>1. TypeOK /\ order[d] \in Nat /\ u \in UTicket
  BY TypeParts DEF SafeInv, HeldTicket
<1>2. owner[d] \in Agents /\ order[d] =< MaxOrder /\ u.scope \in SUBSET Texts
  <2>1. TicketSound(b, d)
    BY DEF Sound
  <2>2. u.scope \in SUBSET Texts
    BY <1>1, UTicketFields
  <2> QED
    BY <1>1, <2>1, <2>2, InputsAssumption DEF TicketSound
<1>3. /\ g \in Goals /\ g.kind = "Reopen" /\ g.dev = d /\ g.to = b /\ g.scope = u.scope
      /\ g.ord = order[d]
  BY <1>1, <1>2, GoalIsOne
<1> HIDE DEF g
<1>4. Resting(d) /\ Owned(d)
  <2>1. \A x, y \in Agents : ~ Behind(x, y, d)
    BY DEF Behind, NobodyMayEnter
  <2> QED
    BY <2>1, <1>1, <1>2, OwnerHas, PartiesAssumption
<1>5. Undisturbed(g) /\ state[b] = Idle
  BY <1>3, FreeUndisturbed
<1>6. Phase(g, 0)
  BY <1>3, <1>4, <1>5 DEF Phase, Entering, Opening, Entry
<1>7. GoalOk(g)
  BY <1>3 DEF GoalOk
<1>8. Book(d) = order[d]
  BY <1>4, BookOwned
<1> QED
  BY <1>3, <1>5, <1>6, <1>7, <1>8 DEF Begun, g

(* The user of a device uses no other one: she has one session.            *)
LEMMA SessionUndisturbed ==
  ASSUME TypeOK, Sound, AtRest, NEW g \in Goals, UserOf(g.dev) = g.to,
         g.kind \notin {"Transfer", "Access", "Report"}
  PROVE  Undisturbed(g)
<1>1. g.dev \in Devices /\ g.to \in Agents /\ g.to # NoOne
  BY GoalFields
<1>2. ASSUME NEW e \in Devices \ {g.dev}
      PROVE  UserOf(e) # g.to
  <2>1. session[g.to].ut.dev = g.dev
    BY <1>1, InSession
  <2>2. UserOf(e) = g.to => session[g.to].ut.dev = e
    BY <1>1, InSession
  <2> QED
    BY <2>1, <2>2
<1> QED
  BY <1>2 DEF Undisturbed, AtRest

LEMMA CommandBegun ==
  ASSUME SafeInv, Sound, AtRest, NEW d \in Devices, NEW text \in Texts, UserOf(d) # NoOne
  PROVE  LET g == Goal("Command", d, owner[d], UserOf(d), session[d].ut.scope, text) IN
           Begun(g) /\ g \in Goals
<1> DEFINE a == UserOf(d)
           g == Goal("Command", d, owner[d], a, session[d].ut.scope, text)
<1>1. TypeOK /\ order[d] \in Nat
  BY TypeParts DEF SafeInv
<1>2. /\ a \in Agents /\ Serving(a, d) /\ Agreed(a, d) /\ owner[d] \in Agents /\ order[d] =< MaxOrder
      /\ session[d].ut.scope \in SUBSET Texts
  <2>1. session[d].ut \in UTicket
    BY <1>1, InSession
  <2>2. session[d].ut.scope \in SUBSET Texts
    BY <2>1, UTicketFields
  <2> QED
    BY <1>1, <2>2, InSession, InputsAssumption DEF Owned
<1>3. /\ g \in Goals /\ g.kind = "Command" /\ g.dev = d /\ g.to = a /\ g.scope = session[d].ut.scope
      /\ g.ord = order[d]
  BY <1>1, <1>2, GoalIsOne
<1> HIDE DEF g
<1>4. Undisturbed(g)
  BY <1>1, <1>3, SessionUndisturbed
<1>5. Phase(g, 0)
  BY <1>2, <1>3 DEF Phase, Commanding, Entry
<1>6. GoalOk(g)
  BY <1>3 DEF GoalOk
<1>7. Book(d) = order[d]
  BY <1>2, BookOwned DEF Serving
<1> QED
  BY <1>3, <1>4, <1>5, <1>6, <1>7 DEF Begun, g

LEMMA EndBegun ==
  ASSUME SafeInv, Sound, AtRest, NEW d \in Devices, UserOf(d) # NoOne
  PROVE  LET g == Goal("End", d, owner[d], UserOf(d), session[d].ut.scope, EndCmd) IN
           Begun(g) /\ g \in Goals
<1> DEFINE a == UserOf(d)
           g == Goal("End", d, owner[d], a, session[d].ut.scope, EndCmd)
<1>1. TypeOK /\ order[d] \in Nat /\ EndCmd \in Texts
  BY TypeParts DEF SafeInv, Texts
<1>2. /\ a \in Agents /\ Serving(a, d) /\ Agreed(a, d) /\ owner[d] \in Agents /\ order[d] =< MaxOrder
      /\ session[d].ut.scope \in SUBSET Texts
  <2>1. session[d].ut \in UTicket
    BY <1>1, InSession
  <2>2. session[d].ut.scope \in SUBSET Texts
    BY <2>1, UTicketFields
  <2> QED
    BY <1>1, <2>2, InSession, InputsAssumption DEF Owned
<1>3. /\ g \in Goals /\ g.kind = "End" /\ g.dev = d /\ g.to = a /\ g.by = owner[d] /\ g.text = EndCmd
      /\ g.ord = order[d]
  BY <1>1, <1>2, GoalIsOne
<1> HIDE DEF g
<1>4. Undisturbed(g)
  BY <1>1, <1>3, SessionUndisturbed
<1>5. Phase(g, 0)
  BY <1>2, <1>3 DEF Phase, Ending, Entry
<1>6. GoalOk(g)
  BY <1>3 DEF GoalOk
<1>7. Book(d) = order[d]
  BY <1>2, BookOwned DEF Serving
<1> QED
  BY <1>3, <1>4, <1>5, <1>6, <1>7 DEF Begun, g

(* Who missed the end of an access let somebody in who can repeat it.      *)
LEMMA ReportBegun ==
  ASSUME SafeInv, Sound, AtRest, NEW d \in Devices, owner[d] # NoOne, UserOf(d) = NoOne,
         table[owner[d]][d].order # order[d],
         NEW b, b = table[owner[d]][d].accUOthers.holder, Free(owner[d]), Free(b)
  PROVE  LET g == Goal("Report", d, owner[d], b, {}, NoCmd) IN Begun(g) /\ g \in Goals
<1> DEFINE g == Goal("Report", d, owner[d], b, {}, NoCmd)
<1>1. TypeOK /\ {} \in SUBSET Texts /\ NoCmd \in Texts
  BY DEF SafeInv, Texts
<1>2. PICK x \in Agents, y \in Agents : Behind(x, y, d)
  BY <1>1, OwnerHas DEF Owned
<1>3. /\ x = b /\ y = owner[d] /\ b \in Agents /\ owner[d] \in Agents /\ b # owner[d]
      /\ Behind(b, owner[d], d)
  BY <1>2 DEF Behind, Granted
<1>4. order[d] =< MaxOrder /\ Book(d) # order[d]
  BY <1>1, <1>2, BehindFacts
<1>5. /\ g \in Goals /\ g.kind = "Report" /\ g.dev = d /\ g.by = owner[d] /\ g.to = b
      /\ g.ord = order[d]
  BY <1>1, <1>3, <1>4, GoalIsOne
<1> HIDE DEF g
<1>6. Undisturbed(g) /\ state[b] = Idle
  BY <1>5, FreeUndisturbed
<1>7. Phase(g, 0)
  BY <1>3, <1>5, <1>6 DEF Phase, Repeating, Entry
<1>8. GoalOk(g)
  BY <1>3, <1>5 DEF GoalOk
<1> QED
  BY <1>4, <1>5, <1>6, <1>7, <1>8 DEF Begun, g

LEMMA AskBegins ==
  ASSUME SafeInv, Sound, AtRest, Ask
  PROVE  \E g \in Goals : Begun(g) /\ goal' = g /\ goal = NoGoal /\ UNCHANGED <<vars, done>>
<1>1. PICK d \in Devices :
        \/ AskEnd(d)
        \/ AskReport(d)
        \/ \E text \in CmdInputs : AskCommand(d, text)
        \/ \E a \in Agents :
             \/ AskInitialize(d, a)
             \/ \E text \in FirstCmds : AskSelfAccess(d, a, text) \/ AskReopen(d, a, text)
             \/ \E b \in Agents :
                  \/ AskTransfer(d, a, b)
                  \/ \E scope \in Scopes, text \in FirstCmds : AskAccess(d, a, b, scope, text)
  BY DEF Ask
<1>b. \A kind, by, to, scope, text :
        Begin(kind, d, by, to, scope, text) =>
          goal' = Goal(kind, d, by, to, scope, text) /\ goal = NoGoal /\ UNCHANGED <<vars, done>>
  BY DEF Begin, Goal
<1>2. CASE AskEnd(d)
  BY <1>2, <1>b, EndBegun DEF AskEnd
<1>3. ASSUME NEW text \in CmdInputs, AskCommand(d, text)
      PROVE  \E g \in Goals : Begun(g) /\ goal' = g /\ goal = NoGoal /\ UNCHANGED <<vars, done>>
  BY <1>3, <1>b, CommandBegun, InputsAssumption DEF AskCommand
<1>4. ASSUME NEW a \in Agents, AskInitialize(d, a)
      PROVE  \E g \in Goals : Begun(g) /\ goal' = g /\ goal = NoGoal /\ UNCHANGED <<vars, done>>
  BY <1>4, <1>b, InitializeBegun DEF AskInitialize
<1>5. ASSUME NEW a \in Agents, NEW text \in FirstCmds, AskSelfAccess(d, a, text)
      PROVE  \E g \in Goals : Begun(g) /\ goal' = g /\ goal = NoGoal /\ UNCHANGED <<vars, done>>
  BY <1>5, <1>b, SelfAccessBegun, InputsAssumption DEF AskSelfAccess
<1>6. ASSUME NEW a \in Agents, NEW text \in FirstCmds, AskReopen(d, a, text)
      PROVE  \E g \in Goals : Begun(g) /\ goal' = g /\ goal = NoGoal /\ UNCHANGED <<vars, done>>
  BY <1>6, <1>b, ReopenBegun, InputsAssumption DEF AskReopen, HeldTicket, AccessTypes
<1>7. ASSUME NEW a \in Agents, NEW b \in Agents, AskTransfer(d, a, b)
      PROVE  \E g \in Goals : Begun(g) /\ goal' = g /\ goal = NoGoal /\ UNCHANGED <<vars, done>>
  BY <1>7, <1>b, TransferBegun DEF AskTransfer
<1>8. ASSUME NEW a \in Agents, NEW b \in Agents, NEW scope \in Scopes, NEW text \in FirstCmds,
             AskAccess(d, a, b, scope, text)
      PROVE  \E g \in Goals : Begun(g) /\ goal' = g /\ goal = NoGoal /\ UNCHANGED <<vars, done>>
  BY <1>8, <1>b, AccessBegun, InputsAssumption DEF AskAccess, GrantedToNobody
<1>9. CASE AskReport(d)
  BY <1>9, <1>b, ReportBegun DEF AskReport
<1> QED
  BY <1>1, <1>2, <1>3, <1>4, <1>5, <1>6, <1>7, <1>8, <1>9

(***************************************************************************)
(* The application turns to something else.                                *)
(***************************************************************************)
Reached(g) ==
  /\ \/ Book(g.dev) = order[g.dev]
     \/ g.kind = "End" /\ g.to # g.by /\ ~ Free(owner[g.dev])
  /\ g.kind \in {"Initialize", "Transfer"} => order[g.dev] = g.ord + 1 /\ owner[g.dev] = g.to
  /\ g.kind \in Entry =>
       order[g.dev] = g.ord /\ UserOf(g.dev) = IF Allowed(g) THEN g.to ELSE NoOne
  /\ g.kind = "Command" => order[g.dev] = g.ord /\ UserOf(g.dev) = g.to
  /\ g.kind \in Entry \cup {"Command"} /\ Allowed(g) => session[g.to].data = g.text
  /\ g.kind = "End" => order[g.dev] = g.ord + 1 /\ UserOf(g.dev) = NoOne
  /\ g.kind = "Report" => order[g.dev] = g.ord

(* The last phase of every sequence.                                       *)
Left(g) ==
  /\ Settled(g.dev)
  /\ IdleAgent(g.to)
  /\ Reached(g)

(* The device is at rest with its owner.                                   *)
LEMMA RestSettled ==
  ASSUME NEW g \in Goals, Resting(g.dev), Owned(g.dev)
  PROVE  Settled(g.dev) /\ UserOf(g.dev) = NoOne /\ Book(g.dev) = order[g.dev]
BY PartiesAssumption DEF Settled, UserOf, Resting, Book, Owned

(* The device is in a session of the one the sequence was for.             *)
LEMMA SessionSettled ==
  ASSUME TypeOK, Sound, NEW g \in Goals, Serving(g.to, g.dev), Agreed(g.to, g.dev),
         state[g.to] \in {Idle, "DEVICE_WAIT_FOR_CMD", "AGENT_WAIT_FOR_DATA"}
  PROVE  /\ Settled(g.dev) /\ UserOf(g.dev) = g.to /\ IdleAgent(g.to)
         /\ Book(g.dev) = order[g.dev]
<1>1. g.to \in Agents /\ g.dev \in Devices
  BY GoalFields
<1>2. Settled(g.dev) /\ UserOf(g.dev) = g.to
  BY <1>1, ServesUser DEF Settled
<1>3. Book(g.dev) = order[g.dev]
  BY <1>1, BookOwned DEF Serving
<1> QED
  BY <1>1, <1>2, <1>3 DEF IdleAgent, Free

LEMMA OpenedLeft ==
  ASSUME TypeOK, Sound, NEW g \in Goals, g.kind \in Entry, Opening(g, 5)
  PROVE  Left(g)
<1>1. /\ Owned(g.dev) /\ order[g.dev] = g.ord /\ state[g.to] = Idle
      /\ IF Allowed(g) THEN /\ Serving(g.to, g.dev) /\ Agreed(g.to, g.dev)
                            /\ session[g.to].data = g.text
                       ELSE Resting(g.dev)
  BY DEF Opening
<1>2. CASE Allowed(g)
  BY <1>1, <1>2, SessionSettled DEF Left, Reached, Entry
<1>3. CASE ~ Allowed(g)
  BY <1>1, <1>3, RestSettled DEF Left, Reached, Entry, IdleAgent
<1> QED
  BY <1>2, <1>3

LEMMA PastLeft ==
  ASSUME NEW g \in Goals, g.kind \in {"Initialize", "Transfer", "End"},
         Resting(g.dev), order[g.dev] = g.ord + 1, Owned(g.dev), state[g.to] = Idle,
         g.kind # "End" => owner[g.dev] = g.to
  PROVE  Left(g)
BY RestSettled DEF Left, Reached, Entry, IdleAgent

LEMMA StopLeft ==
  ASSUME TypeOK, Sound, NEW g \in Goals, GoalOk(g), NEW n \in Nat, Phase(g, n),
         n = Len(Calls(g)) \/ (g.kind = "Transfer" /\ n + Len(Reporting(g)) = Len(Calls(g)))
  PROVE  Left(g)
<1>1. CASE g.kind = "Initialize"
  <2>1. n = 4
    BY <1>1, InitializeCalls
  <2> QED
    BY <1>1, <2>1, PastLeft DEF Phase, Initializing, Past
<1>2. CASE g.kind = "Transfer"
  <2>1. g.by # g.to /\ Len(Reporting(g)) = 2
    BY <1>2 DEF GoalOk, Reporting, Telling
  <2>2. n \in {5, 7}
    <3>1. Len(Calls(g)) = 7
      BY <1>2, <2>1, TransferCalls
    <3> QED
      BY <2>1, <3>1
  <2> QED
    BY <1>2, <2>2, PastLeft DEF Phase, Transferring, Past
<1>3. CASE g.kind = "SelfAccess"
  <2>1. n = 6 /\ g.kind \in Entry
    BY <1>3, SelfAccessCalls DEF Entry
  <2> QED
    BY <1>3, <2>1, OpenedLeft DEF Phase, Entering
<1>4. CASE g.kind = "Access"
  <2>1. n = 7 /\ g.kind \in Entry
    BY <1>4, AccessCalls DEF Entry
  <2> QED
    BY <1>4, <2>1, OpenedLeft DEF Phase, Entering
<1>5. CASE g.kind = "Reopen"
  <2>1. n = 5 /\ g.kind \in Entry
    BY <1>5, ReopenCalls DEF Entry
  <2> QED
    BY <1>5, <2>1, OpenedLeft DEF Phase, Entering
<1>6. CASE g.kind = "Command"
  <2>1. n = 3
    BY <1>6, CommandCalls
  <2>2. /\ Serving(g.to, g.dev) /\ Agreed(g.to, g.dev) /\ order[g.dev] = g.ord
        /\ Allowed(g) => session[g.to].data = g.text
        /\ state[g.to] \in {Idle, "DEVICE_WAIT_FOR_CMD", "AGENT_WAIT_FOR_DATA"}
    BY <1>6, <2>1 DEF Phase, Commanding
  <2> QED
    BY <1>6, <2>2, SessionSettled DEF Left, Reached, Entry
<1>7. CASE g.kind = "End"
  <2>1. n = IF g.by = g.to THEN 3 ELSE 5
    BY <1>7, EndCalls
  <2>2. /\ Past(g, g.by) /\ state[g.to] = Idle
        /\ \/ Owned(g.dev)
           \/ g.to # g.by /\ Behind(g.to, g.by, g.dev) /\ ~ Free(g.by)
    BY <1>7, <2>1 DEF Phase, Ending
  <2>3. CASE Owned(g.dev)
    BY <1>7, <2>2, <2>3, PastLeft DEF Past
  <2>4. CASE g.to # g.by /\ Behind(g.to, g.by, g.dev) /\ ~ Free(g.by)
    <3>1. g.dev \in Devices /\ g.to \in Agents /\ g.by \in Agents
      BY GoalFields
    <3>2. Settled(g.dev) /\ UserOf(g.dev) = NoOne
      BY <2>4, <3>1, BehindFacts DEF Settled
    <3> QED
      BY <1>7, <2>2, <2>4, <3>2 DEF Left, Reached, Entry, IdleAgent, Past
  <2> QED
    BY <2>2, <2>3, <2>4
<1>8. CASE g.kind = "Report"
  <2>1. n = 2
    BY <1>8, ReportCalls
  <2>2. /\ order[g.dev] = g.ord /\ state[g.to] = Idle
        /\ Resting(g.dev) /\ Owned(g.dev)
    BY <1>8, <2>1 DEF Phase, Repeating
  <2> QED
    BY <1>8, <2>2, RestSettled DEF Left, Reached, Entry, IdleAgent
<1> QED
  BY <1>1, <1>2, <1>3, <1>4, <1>5, <1>6, <1>7, <1>8, GoalFields

(***************************************************************************)
(* The invariant is inductive.                                             *)
(***************************************************************************)
(* What an invariant says is the same while no variable of Ureka changes.  *)
LEMMA SafeStays ==
  ASSUME SafeInv, UNCHANGED vars
  PROVE  SafeInv'
BY DEF vars, SafeInv, RowOk, TicketOk, ReceiptOk, NotAhead, NamesOwner, IsLatest, Live, TypeOK

LEMMA SoundStays ==
  ASSUME Sound, UNCHANGED vars
  PROVE  Sound'
BY DEF vars, Sound, TicketSound, HeldTicket

LEMMA BehindStays ==
  ASSUME UNCHANGED vars
  PROVE  /\ \A d : Granted(d)' = Granted(d)
         /\ \A u : EndReceipt(u)' = EndReceipt(u)
         /\ \A d, a, b : Behind(a, b, d)' <=> Behind(a, b, d)
<1>1. \A d : Granted(d)' = Granted(d)
  BY DEF vars, Granted
<1>2. \A d : EndReceipt(Granted(d))' = EndReceipt(Granted(d))
  BY <1>1 DEF EndReceipt
<1>3. \A d : NobodyMayEnter(d)' <=> NobodyMayEnter(d)
  BY DEF vars, NobodyMayEnter, HeldTicket
<1> QED
  BY <1>1, <1>2, <1>3 DEF vars, Behind, Resting, EndReceipt

LEMMA SettledStays ==
  ASSUME UNCHANGED vars
  PROVE  /\ \A d : Settled(d)' <=> Settled(d)
         /\ \A d : UserOf(d)' = UserOf(d)
         /\ \A a : Free(a)' <=> Free(a)
         /\ \A a : IdleAgent(a)' <=> IdleAgent(a)
<1>1. \A d : UserOf(d)' = UserOf(d)
  BY DEF vars, UserOf
<1>2. \A a : Free(a)' <=> Free(a)
  BY <1>1 DEF Free
<1>3. \A d : Settled(d)' <=> Settled(d)
  BY BehindStays DEF vars, Settled, Resting, Owned, Serving, Agreed, SameSession, HeldTicket
<1> QED
  BY <1>1, <1>2, <1>3 DEF vars, IdleAgent

LEMMA PhaseStays ==
  ASSUME NEW g, NEW n, UNCHANGED vars
  PROVE  Phase(g, n)' <=> Phase(g, n)
<1>1. /\ \A d, a : Serving(a, d)' <=> Serving(a, d)
      /\ \A d, a : Agreed(a, d)' <=> Agreed(a, d)
      /\ \A d : (Owned(d)' <=> Owned(d)) /\ (Resting(d)' <=> Resting(d))
  BY DEF vars, Serving, Agreed, SameSession, HeldTicket, Owned, Resting
<1>2. \A a : (With(g, a)' <=> With(g, a)) /\ (Past(g, a)' <=> Past(g, a))
  BY <1>1 DEF vars, With, Past
<1>3. Initializing(g, n)' <=> Initializing(g, n)
  BY <1>1, <1>2 DEF vars, Initializing, Carries, InitReceipt, NobodyMayEnter, HeldTicket
<1>4. Transferring(g, n)' <=> Transferring(g, n)
  BY <1>1, <1>2 DEF vars, Transferring, Carries, Offer, TransferReceipt, HeldTicket
<1>5. \A m : Opening(g, m)' <=> Opening(g, m)
  BY <1>1 DEF vars, Opening, Carries, CrKe1, CrKe2, RowOrder, Answer, HeldTicket
<1>6. Entering(g, n)' <=> Entering(g, n)
  BY <1>1, <1>2, <1>5 DEF vars, Entering, Carries, Grant, GrantedToNobody
<1>7. Commanding(g, n)' <=> Commanding(g, n)
  BY <1>1 DEF vars, Commanding, Carries, Token, Answer
<1>b. /\ \A d, a, b : Behind(a, b, d)' <=> Behind(a, b, d)
      /\ \A d : (NobodyMayEnter(d)' <=> NobodyMayEnter(d)) /\ Granted(d)' = Granted(d)
      /\ \A a : Free(a)' <=> Free(a)
  BY BehindStays, SettledStays DEF vars, NobodyMayEnter, HeldTicket
<1>8. Ending(g, n)' <=> Ending(g, n)
  BY <1>1, <1>2, <1>b DEF vars, Ending, Carries, Token, EndReceipt, HeldTicket
<1>9. Repeating(g, n)' <=> Repeating(g, n)
  BY <1>1, <1>b DEF vars, Repeating, Carries, EndReceipt
<1> QED
  BY <1>3, <1>4, <1>6, <1>7, <1>8, <1>9 DEF Phase

LEMMA UndisturbedStays ==
  ASSUME NEW g, Undisturbed(g), UNCHANGED vars
  PROVE  Undisturbed(g)'
BY SettledStays DEF Undisturbed

LEMMA NoGoalIsNone == NoGoal \notin Goals
<1>1. NoGoal.kind = "None"
  BY DEF NoGoal
<1> QED
  BY <1>1, GoalFields

LEMMA AskStep ==
  ASSUME DriverInv, Ask
  PROVE  DriverInv' /\ Service!Ask
<1>1. goal = NoGoal /\ SafeInv /\ Sound /\ done = 0 /\ AtRest
  BY DEF DriverInv, Ask, AskEnd, AskReport, AskCommand, AskInitialize, AskSelfAccess, AskReopen, AskTransfer,
         AskAccess, Begin
<1>2. PICK g \in Goals : Begun(g) /\ goal' = g /\ UNCHANGED <<vars, done>>
  BY <1>1, AskBegins
<1>3. SafeInv' /\ Sound'
  BY <1>1, <1>2, SafeStays, SoundStays
<1>4. Undisturbed(g)' /\ Phase(g, 0)'
  BY <1>2, UndisturbedStays, PhaseStays DEF Begun
<1>5. DriverInv'
  BY <1>1, <1>2, <1>3, <1>4, NoGoalIsNone DEF DriverInv, Begun, GoalOk
<1>6. Service!Ask
  <2>1. /\ g.dev \in Devices /\ g.ord = order[g.dev]
        /\ g.kind = "Report" <=> Book(g.dev) # order[g.dev]
    BY <1>2, GoalFields DEF Begun
  <2>2. UNCHANGED <<state, order, owner, session, table>>
    BY <1>2 DEF vars
  <2> QED
    BY <1>1, <1>2, <2>1, <2>2 DEF Service!Ask, Book, UserOf
<1> QED
  BY <1>5, <1>6

LEMMA ConcludeStep ==
  ASSUME DriverInv, Conclude
  PROVE  DriverInv' /\ Service!Finish
<1>1. /\ goal # NoGoal /\ goal' = NoGoal /\ done' = 0 /\ UNCHANGED vars
      /\ goal \in Goals /\ GoalOk(goal) /\ Undisturbed(goal) /\ Phase(goal, done)
      /\ SafeInv /\ Sound /\ TypeOK /\ done \in Nat
  BY DEF Conclude, DriverInv, GoalOk, SafeInv
<1>2. Left(goal)
  BY <1>1, StopLeft DEF Conclude, MayStop
<1>3. AtRest
  BY <1>1, <1>2 DEF Left, Undisturbed, AtRest
<1>4. DriverInv'
  <2>1. AtRest'
    BY <1>1, <1>3, SettledStays DEF AtRest
  <2> QED
    BY <2>1, <1>1, SafeStays, SoundStays DEF DriverInv
<1>5. Service!Finish
  <2>1. goal.dev \in Devices /\ goal.to \in Agents
    BY <1>1, GoalFields
  <2>b. ~ Free(owner[goal.dev]) => Service!Busy(owner[goal.dev])
    BY DEF Free, Service!Busy
  <2>2. Service!Achieved(goal)
    BY <1>2, <2>1, <2>b DEF Left, Reached, Service!Achieved, Service!Entry, Entry, Book
  <2>3. UNCHANGED <<state, order, owner, session, table>>
    BY <1>1 DEF vars
  <2> QED
    BY <1>1, <2>2, <2>3 DEF Service!Finish, UserOf
<1> QED
  BY <1>4, <1>5

LEMMA CallStep ==
  ASSUME DriverInv, Step
  PROVE  DriverInv' /\ [Service!Next]_(Service!vars)
<1>1. PICK g \in Goals, n \in Nat : g = goal /\ n = done
  BY DEF Step, DriverInv, GoalOk
<1>2. /\ goal # NoGoal /\ n < Len(Calls(g)) /\ Make(Calls(g)[n + 1], g)
      /\ done' = n + 1 /\ goal' = g
      /\ GoalOk(g) /\ Undisturbed(g) /\ Phase(g, n) /\ SafeInv /\ Sound /\ TypeOK
  BY <1>1 DEF Step, DriverInv, SafeInv
<1>3. Advances(g, n + 1)
  BY <1>2, CallAdvances DEF Ready, ReadyTo
<1>4. SafeInv' /\ TypeOK'
  BY <1>2, MakeSafe DEF SafeInv
<1>5. Undisturbed(g)' /\ Sound'
  BY <1>2, <1>3, StaysUndisturbed, StaysSound DEF Advances
<1>6. Phase(g, n + 1)' /\ Around(g) /\ Serves(g)
  BY <1>3 DEF Advances
<1>7. DriverInv'
  BY <1>1, <1>2, <1>4, <1>5, <1>6 DEF DriverInv, GoalOk
<1>8. [Service!Next]_(Service!vars)
  BY <1>1, <1>2, <1>4, <1>6, StepServes
<1> QED
  BY <1>7, <1>8

(***************************************************************************)
(* The theorems.                                                           *)
(***************************************************************************)
LEMMA DriverBegins == DriverInit => DriverInv /\ Service!Init
<1> SUFFICES ASSUME DriverInit PROVE DriverInv /\ Service!Init
  OBVIOUS
<1>1. Init /\ goal = NoGoal /\ done = 0 /\ SafeInv
  BY SafeInit DEF DriverInit
<1>2. /\ \A d \in Devices : state[d] = "DEVICE_WAIT_FOR_UT" /\ order[d] = 0 /\ owner[d] = NoOne
      /\ \A a \in Agents : state[a] = Idle /\ session[a].data = NoCmd
      /\ \A a \in Agents, d \in Devices : table[a][d].uOwner = NoUT
  BY <1>1, EmptyFields, PartiesAssumption DEF Init, Controllers, NoSession
<1>3. \A d \in Devices : UserOf(d) = NoOne /\ Settled(d)
  BY <1>2 DEF UserOf, Settled, Resting
<1>4. Sound
  <2>1. NoUT.type \notin AccessTypes
    BY EmptyFields DEF AccessTypes
  <2> QED
    BY <1>2, <2>1 DEF Sound, TicketSound, HeldTicket
<1>5. DriverInv
  BY <1>1, <1>2, <1>3, <1>4 DEF DriverInv, AtRest, IdleAgent
<1>6. Service!Init
  BY <1>1, <1>2, <1>3 DEF Service!Init, Init
<1> QED
  BY <1>5, <1>6

LEMMA DriverStep ==
  ASSUME DriverInv, [DriverNext]_driverVars
  PROVE  DriverInv' /\ [Service!Next]_(Service!vars)
<1>1. CASE Ask
  BY <1>1, AskStep DEF Service!Next
<1>2. CASE Step
  BY <1>2, CallStep
<1>3. CASE Conclude
  BY <1>3, ConcludeStep DEF Service!Next
<1>4. CASE UNCHANGED driverVars
  <2>1. UNCHANGED vars /\ goal' = goal /\ done' = done
    BY <1>4 DEF driverVars
  <2>2. UNCHANGED Service!vars
    BY <2>1 DEF vars, Service!vars, UserOf
  <2>3. PICK g, n : g = goal /\ n = done
    OBVIOUS
  <2>4. /\ SafeInv' /\ Sound' /\ (AtRest => AtRest')
        /\ (Undisturbed(g) => Undisturbed(g)') /\ (Phase(g, n) => Phase(g, n)')
    BY <2>1, SafeStays, SoundStays, SettledStays, UndisturbedStays, PhaseStays
       DEF DriverInv, AtRest
  <2>5. DriverInv'
    BY <2>1, <2>3, <2>4 DEF DriverInv, GoalOk
  <2> QED
    BY <2>2, <2>5
<1> QED
  BY <1>1, <1>2, <1>3, <1>4 DEF DriverNext

(* The invariant, which a run checked on small instances first.            *)
THEOREM DriverInvariant == DriverSpec => []DriverInv
<1>1. DriverInit => DriverInv
  BY DriverBegins
<1>2. DriverInv /\ [DriverNext]_driverVars => DriverInv'
  BY DriverStep
<1> QED
  BY <1>1, <1>2, PTL DEF DriverSpec

(* SessionInStep: between two sequences of calls the user of a device and  *)
(* the device hold the same ticket, key and iv, whatever was refused       *)
(* before, so the next token can be read (executor.cpp).                   *)
THEOREM StaysInStep == DriverSpec => []SessionInStep
<1>1. DriverInv => SessionInStep
  <2> SUFFICES ASSUME DriverInv, NEW d \in Devices, goal = NoGoal, UserOf(d) # NoOne
               PROVE  LET a == UserOf(d) IN
                        /\ session[a].ut = session[d].ut /\ session[a].ut = Id(table[a][d].uOwner)
                        /\ session[a].key = session[d].key
                        /\ session[a].ivCmd = session[d].ivCmd
                        /\ session[d].ut.order = order[d] /\ table[a][d].order = order[d]
    BY DEF SessionInStep
  <2>1. TypeOK /\ Sound /\ AtRest
    BY DEF DriverInv, SafeInv
  <2> QED
    BY <2>1, InSession DEF Serving, Agreed, SameSession, HeldTicket
<1> QED
  BY <1>1, DriverInvariant, PTL

(* ServiceSpec: the sequences of calls the flow tests are made of give the *)
(* application what it asks for, once, and nothing else, for any number of *)
(* agents and devices and any order of sequences (TestFlow.cpp:43-391).    *)
THEOREM GivesService == DriverSpec => ServiceSpec
<1>1. DriverInit => Service!Init
  BY DriverBegins
<1>2. DriverInv /\ [DriverNext]_driverVars => [Service!Next]_(Service!vars)
  BY DriverStep
<1> QED
  BY <1>1, <1>2, DriverInvariant, PTL DEF DriverSpec, ServiceSpec, Service!Spec
=============================================================================
