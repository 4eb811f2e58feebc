# UREKA: specification, model checking and proofs

This directory specifies the UREKA ticket protocol of
`src/workdir/ureka-cpp/framework` (written `F/` below) in TLA+, checks small
instances with TLC and proves every safety property the runs check, the three
refinements included, for every instance with TLAPS.

## 1. The system

UREKA lets the owner of an IoT device hand out *u-tickets* (to take the device
over, or to use it) and lets the device answer with *r-tickets* (receipts). All
ordering rests on one integer per device, its *ticket order*: a ticket is issued
for one order and a device executes it only at that order.

A `DeviceController` is either an `IOT_DEVICE` or a
`USER_AGENT_OR_CLOUD_SERVER` (an *agent* here). It owns a `SharedData` object
and the stage workers and flows that read and write it. Nothing runs by itself:
the application calls an operation of a flow, or `recv_xxx_message`, and the
call runs to its end on the caller's thread.

| Component | Source | State it keeps | Operations |
|---|---|---|---|
| Tickets, generators, verifiers | `model/message_model`, `logic/stage_worker/msg_generator*`, `msg_verifier*` | none | fill in a ticket with the order the generator looks up; can a u-ticket be executed; does an r-ticket show an execution |
| Issuing (`FlowIssueUTicket`) | `pipeline_flow/flow_issue_u_ticket.cpp`, `*_msg_storer.cpp` | `device_table` of an agent | issue to herself, issue to a holder, receive a ticket, send a receipt to the issuer, receive one |
| Applying (`FlowApplyUTicket`) | `flow_apply_u_ticket.cpp`, `executor.cpp` | device: owner, order; agent: rows, state | apply, execute or refuse, receipt, receive the receipt |
| Opening a session (`FlowOpenSession`) | `flow_open_session.cpp`, `executor.cpp` | `current_session` of both sides | CR-KE-1, CR-KE-2, CR-KE-3 |
| Commands (`FlowIssueUToken`) | `flow_issue_u_token.cpp`, `executor.cpp` | `current_session`, order | command, data, end of access |
| Channel | `msg_sender.cpp`, `msg_receiver.cpp`, `environment.cpp` | one global string | write, take and dispatch by the receiver's state |
| Life cycle | `device_controller.cpp`, `executor.cpp:12-128` | all of it | construct, initialise an agent, reboot |
| Application | `pipeline_flow/TestFlow.cpp`, `F/test/operation` | what it asked for, how far it got | take a device over, pass it on, open a session, command, end it |
| Crypto, storage stub, logger, JSON, Bluetooth | `resource/`, `model/data_model/*.cpp` | none | see section 8 |

Controllers interact through the channel only; within a controller every worker
shares the one `SharedData`. The behaviours that are hard:

* the application decides the order of calls; no operation checks the state the
  agent is in, so every interleaving of issuing, applying, receiving and sending
  is legal;
* the channel holds one message: sends overwrite, whoever receives next takes it,
  there is no retry and no timeout;
* r-tickets are stored before they are verified; several handlers change state
  and then throw;
* tickets stay where they were stored after they were executed and are sent again;
* one session slot per agent, addressed by whichever ticket was applied last;
* a rebooted device has lost everything, with its messages still around.

What makes each component correct: tickets are executed once and only at the
order their owner issued them for; an owner changes only by an offer that owner
signed; receipts tell issuers and holders the truth about that; answers in a
session are computed for a text the ticket allows and reach the agent that asked.
`PROJECT.json` lists the hazards, each at its line, with the properties against them.

## 2. The modules

| Module | Content |
|---|---|
| `UrekaTickets` | messages, keys, ciphertexts; generators; every check of `UTicketVerifier` and `RTicketVerifier` as one operator, conjoined as `MsgVerifier` calls them |
| `Ureka` | devices, agents and the channel as a state machine; the properties |
| `DeviceLedger` | the abstract specification: owners, orders and ownership offers, no messages |
| `TicketService` | the abstract specification of what a sequential application gets: goals, owners, users, records, answers |
| `UrekaDriver` | `Ureka` under an application that makes the call sequences of the flow tests, with fairness |
| `UrekaLife` | `Ureka` with controllers that are constructed, initialised and rebooted |
| `UrekaTypes` | proof of the type invariant |
| `UrekaSafety` | the inductive invariant and the safety theorems |
| `UrekaLedger` | proof that `Ureka` implements `DeviceLedger` |
| `UrekaSession` | the inductive invariant of sessions and the theorems about them |
| `UrekaPhases` | what is true after each call of each sequence of `UrekaDriver`, and that a call leads from one such phase to the next |
| `UrekaServes` | the inductive invariant of the driven system; proofs that it implements `TicketService` and that sessions stay in step |
| `UrekaLifeSafety` | the inductive invariant of the life cycle; proofs that it implements `DeviceLedger` and that orphans stay orphans |
| `UrekaWire` | the JSON texts of tickets, messages, sessions and rows, and the proofs that the records of the other modules stand for them |
| `MCUreka`, `MCDriver`, `MCLife` | values for the constants, the symmetry and the views for TLC |

`UrekaTickets` <- `Ureka` <- `MCUreka` extend each other. `UrekaDriver` and
`UrekaLife` extend `Ureka` too: the first conjoins its calls with the progress
of an application, the second with the stage of every controller. `Ureka` and
`UrekaLife` instantiate `DeviceLedger`, and `UrekaDriver` instantiates
`TicketService`, with a refinement mapping. The proof modules extend `Ureka` in
a chain `UrekaTypes` <- `UrekaSafety` <- `UrekaLedger`; `UrekaSession` extends
`UrekaSafety` as well. `UrekaPhases` extends `UrekaDriver` and `UrekaSafety`, and
`UrekaServes` extends `UrekaPhases`; `UrekaLifeSafety` extends `UrekaLife` and
`UrekaLedger`. The lemmas of the chain are stated for an application that is free
in its inputs (`AnyCall`), so that they hold for the callers of `Ureka`, of
`UrekaDriver` and of `UrekaLife` alike. `UrekaWire` stands alone: it has no state.

### State

| Variable | Code |
|---|---|
| `state[c]` | `shared_data->state` |
| `order[d]`, `owner[d]` | `this_device.ticket_order`, `this_device.owner_pub_key` of a device |
| `session[c]` | `current_session`; the ticket's id, device, holder and scope are the ticket `ut` |
| `table[a][d]`, `initTicket[a]` | `device_table[d]` of an agent, and the ticket in its row `"no_id"` |
| `channel` | `SIMULATED_GLOBAL_CHANNEL` |
| `goal`, `done` (`UrekaDriver`) | the sequence of calls a test is in and the statement it is at |
| `life[c]` (`UrekaLife`) | whether the controller exists, has a type, and (agents) an order above 0 and keys |

### Actions

One action per operation and outcome; the guard is the state the receiver
dispatches on (`msg_receiver.cpp:107-138`) and the result of the verification.

| Code | Actions |
|---|---|
| `issuer_issue_u_ticket_to_herself` | `IssueInitToHerself`, `IssueSelfAccessToHerself` |
| `issuer_issue_u_ticket_to_holder` | `IssueOwnershipToHolder`, `IssueAccessToHolder` |
| `holder_send_r_ticket_to_issuer` | `HolderSendRTicketToIssuer` |
| `holder_apply_u_ticket`, `holder_send_cmd` | `HolderApplyUTicket`, `HolderSendCmd` |
| `self_device_recv_u_ticket` | `DeviceExecuteOwnership`, `DeviceOpenSession`, `DeviceRefuseUTicket`, `DeviceDropMessage` |
| `self_device_recv_cr_ke_2` | `DeviceAcceptCrKe2`, `DeviceRefuseCrKe2` |
| `self_device_recv_cmd` | `DeviceExecuteCmd`, `DeviceEndAccess`, `DeviceRefuseToken`, `DeviceExecuteTicketInSession`, `DeviceIgnoreInSession`; in an agent `AgentRefusesAsDevice` |
| `self_holder_recv_u_ticket`, `self_issuer_recv_r_ticket` | `AgentRecvUTicket`, `IssuerRecvRTicket`, `IssuerRefuseRTicket` |
| `self_holder_recv_r_ticket` | `HolderRecvRTicket` |
| `self_holder_recv_cr_ke_1`, `_3`, `self_holder_recv_data` | `HolderRecvCrKe1`, `HolderRecvCrKe3`, `HolderRecvData` |
| `reboot_device`, then receiving | `RebootDevice`, `LostDeviceDropsMessage`; in `UrekaLife` `LoseDevice`, `RebootAgent` |
| `DeviceController` constructor, `initialize_state` | `Construct`, `ConstructUntyped` |
| `self_execute_one_time_initialize_agent_or_server` | `InitialiseAgent` |
| calls of an agent without keys | `CallWithoutKey`; with any person as holder: `LifeIssue` |
| one call of a test; the end of a sequence; the start of one | `Step`; `Conclude`; the actions `Ask...` |

### Abstractions

* A public key is its owner. A `u_ticket_id`, the hash of a ticket without id and
  signature, is that content. Signatures, key agreement and authenticated
  encryption are perfect: a session key is the salts and parties it is derived
  from, a ciphertext is its key, iv and text. (The code combines the two salts by
  a bitwise *and*, so different salts could in principle give one key; the model
  takes that as not happening.)
* A task scope is the set of texts it allows.
* A salt and an iv drawn in one step are one nonce: they are never compared.
* Session fields no one reads back (the texts and ciphertexts a device leaves in
  its own session, the associated texts) and the two r-ticket slots for others,
  which are written and never read, are left out; so are rows an agent's table
  gets for ids that are no device's.
* Random draws do not repeat, and two session keys with a different salt differ,
  although the code takes the bitwise and of the two salts (`executor.cpp:388-390`).
* What a receiver cannot parse is no message: it throws before it looks at its state.
* The application uses the operations as the flow tests do: it names itself holder
  of tickets it issues to herself, knows the id of a device that has one, and does
  not send a command before a CR-KE-1 gave it an iv (the code would dereference a
  null pointer, `executor.cpp:524`).
* `UrekaLife` has agents without keys issue the tickets that are not signed,
  receive, report and apply; what signs or agrees on a key without one (the key
  file is empty, the library call fails) is taken not to be called.
* The driver of `UrekaDriver` is more orderly than `Ureka`'s free callers: an agent
  in a session starts nothing else, a device in a session is not passed on, and a
  device has one access ticket for others at a time. Each condition is there
  because the service fails without it; the free callers of the other runs show
  how. An access may end at any time, though: an owner who is in a session of her own
  is in a state in which she may drop the report. Nobody gets at the device then until
  its holder repeats the report (`AskReport`), which he can because his receipt
  stays in his row.

## 3. Bounds

| Bound | Meaning | Why enough |
|---|---|---|
| `MaxOrder` (2 or 3) | no ticket is issued at or above this order | one initialisation, then one or two executed tickets: every ticket can become stale, be re-sent at its order and after it, and be overtaken |
| `MaxNonce` = 36 (`Driver`: 40) | nonces in use at the same time | a draw never fails: a failed one would end a sequence of calls and break `EveryGoalAnswered`, or stop the other runs short of the states their mutants need |
| 2 agents, 1 device; `Driver`: 2 agents, 2 devices | roles | issuer, holder and a second holder of the same ticket; two addressees for one session slot |
| `Commands` = {hello} | texts | one text a scope can name, the empty text and `ACCESS_END` |

A draw takes the least nonce not in use. Nonces are compared for equality only,
so states that differ by a renaming of nonces behave alike, and TLC uses the
`VIEW` of `MCUreka`: the state without nonces plus, for each place of a nonce,
the first place that holds the same. Two states have the same view exactly if a
renaming maps one to the other; no property compares a nonce with a constant
other than 0, which the view keeps. `Transfer` has no sessions and needs no view;
its two agents have the same part, so it uses `SYMMETRY` instead (all its
properties are safety properties). `Life` has no sessions either; its view leaves
out what nobody reads, the order of a lost device and the stored receipts of
agents that do not report, and its agents are symmetric. `Driver` uses the view of
`MCUreka` with `goal` and `done` also for its liveness property: renaming nonces is
a bisimulation of the whole state graph, the property and the fairness speak of
`goal` and of whether `Step` is enabled only, and both are the same in all states of a class.

Deadlock is checked in every run but `Driver`, whose application comes to an end
when the devices are at the last order: it may then have nothing left to ask for.

## 4. Properties and runs

| Property | Kind | What it says |
|---|---|---|
| `TypeOK` | invariant | the type of every variable |
| `OrderBound` | invariant | no row, stored ticket, receipt or message names an order the device has not reached |
| `LatestReceipt` | invariant | a successful receipt at the device's present order names its owner |
| `IssuerForgetsOnlyExecuted` | action | an issuer gives up a row, or an access ticket, only after the device went past its order, and to the ticket's holder if no further step was taken |
| `DataIsAuthorised` | invariant | a successful answer is for a text inside the scope, under the key of the ticket's holder, at the ticket's order, from a device in that session |
| `DataAnswersCommand` | action | the data an agent reads answers its latest command |
| `OrderLostForever` | action | once no row, ticket or successful receipt names the order of a device at rest, its order and owner stay as they are for good |
| `StrandedForever` | action | a device that executed a ticket in a session stays in a session nobody can use or end |
| `LedgerSpec` | refinement | the devices implement `DeviceLedger` |
| `ServiceSpec` | refinement | a sequential application gets `TicketService`: each goal done exactly once or refused by the scope, the answer only to the user, the owner's records up to date at the end, or after a repeated report if she missed the first |
| `EveryGoalAnswered` | liveness | a sequence of calls that was begun comes to its end, whatever was refused in it |
| `SessionInStep` | invariant | between two sequences the user and the device are at the same point of the same session |
| `LifeLedgerSpec` | refinement | with controllers that come and go the devices that live implement `DeviceLedger` |
| `OrphanedForever` | action | a device whose owner was rebooted and for which no good ticket is around is never executed, owned or used again |

| Run | Instance | Shows |
|---|---|---|
| `Transfer` | two agents hand a device there and back: both issue ownership tickets, up to two transfers, and report | `TypeOK`, `LatestReceipt`, `LedgerSpec`, `IssuerForgetsOnlyExecuted`, `OrderLostForever` |
| `Session` | one owner, every text in every place, two scopes, three orders | `OrderBound`, `DataIsAuthorised` |
| `Delegate` | a holder with a scope narrower than what he sends, who reports the end | `DataIsAuthorised`, `IssuerForgetsOnlyExecuted` |
| `SharedTicket` | two agents with copies of one ticket, different texts, and a device that may lose its memory | `DataAnswersCommand` |
| `TransferInSession` | ownership and access tickets against a device in a session | `StrandedForever`, `LedgerSpec` |
| `Driver` | two agents and two devices, every sequence of calls of the tests in every order that makes sense, with reports that are missed and repeated | `ServiceSpec`, `EveryGoalAnswered`, `SessionInStep` |
| `Life` | two agents and a device, constructed, initialised and rebooted at any moment, transfers between them | `LifeLedgerSpec`, `OrphanedForever` |

`Driver` is the run that shows the program works: what `TestFlow.cpp` asserts
after one run of each sequence holds after every composition of them, with
refused commands, refused openings and second devices in between. `TypeOK` is
checked in `Transfer` and proved for all instances.

`StrandedForever` deserves a word: it states what the code does after the
behaviour that `TicketInSession` shows. In `DEVICE_WAIT_FOR_CMD` the device leaves
only by an end token it accepts; after an ownership change no token has both the
new order and the session's key, after a second access ticket nobody has the new
iv. The property says there is no way out short of a reboot.

`OrderLostForever` is the same for a device at rest. The receipt of an execution is
sent once; when it is overwritten before its holder takes it, or taken by somebody
who cannot verify it (no row, or a stored ticket that was replaced meanwhile), the
order the device has reached may be written down nowhere. A ticket is issued for the
order of a row, so none can be issued for the device any more, and a refusal does
not tell its order. `TicketsHeld` and `ReceiptsHeld` list the places from which an
order can come back: a stale copy of a receipt, if there is one, heals the loss.

Five runs show where the program does not do what the source says of it:

| Run | Property | Source |
|---|---|---|
| `AgentInDeviceState` | `AgentsKeepAgentStates` | after data arrived an agent is in `STATE_DEVICE_WAIT_FOR_CMD` (`flow_issue_u_token.cpp:150`) |
| `UnverifiedOrder` | `OrderFromVerifiedRTicket` | a refused second initialisation resets the row's order to 0 (`flow_apply_u_ticket.cpp:148`, `received_msg_storer.cpp:40-46`) |
| `TicketInSession` | `SessionIsCurrent` | an ownership ticket is executed in a session (`flow_issue_u_token.cpp:55`) |
| `EndText` | `EndReceiptOfEndedAccess` | the failure of an end with another text is overwritten with a success (`flow_issue_u_token.cpp:58`) |
| `RebootMemory` | `StillInitialised` | reboot forgets everything (`device_controller.cpp:24`, against `TESTTEST.cpp:81`) |

Every property of a passing run has a mutant in `PROJECT.json`: a definition of
the model with a plausible mistake, under which TLC finds the property violated.

## 5. Fairness

`Ureka` and `UrekaLife` assume none: the system schedules nothing. There is no
thread, timer or retry (`msg_receiver.cpp:26-32` and the loop at line 53 are
commented out), and the application may simply stop calling, or overwrite a
message before it is received. What can be said there about getting stuck is said
as safety (`StrandedForever`, `OrderLostForever`, `OrphanedForever`).

`UrekaDriver` assumes `WF(Step)` and `WF(Conclude)`: an application is a sequence
of calls on one thread (`TestFlow.cpp`), no call blocks or loops, so the next
call of a sequence is made once the one before has returned. Nothing makes it
begin another sequence, `Ask` is not fair, and `Conclude` is a statement of the
application too. Weak fairness is enough because no other step is possible while
a sequence is under way. `EveryGoalAnswered` is then not a matter of course: a call
is enabled only if the receiver is in a state in which it takes what the channel
holds, and a refusal on either side must leave both able to go on.

## 6. What is proved

All theorems hold for every value of the constants that satisfies the named
assumptions (`PartiesAssumption`, `TextsAssumption`, `NonceAssumption`,
`InputsAssumption`): any sets of devices and agents, any scopes, any bound, any
set of devices that may reboot.

| Theorem | Statement |
|---|---|
| `UrekaTypes!TypeCorrect` | `Spec => []TypeOK` |
| `UrekaSafety!Safe` | `Spec => []SafeInv` |
| `UrekaSafety!NothingAhead` | `Spec => []OrderBound` |
| `UrekaSafety!LatestNamesOwner` | `Spec => []LatestReceipt` |
| `UrekaSafety!ForgetsOnlyExecuted` | `Spec => IssuerForgetsOnlyExecuted` |
| `UrekaSafety!OrderStaysLost` | `Spec => OrderLostForever` |
| `UrekaLedger!ImplementsLedger` | `Spec => LedgerSpec` |
| `UrekaSession!SessionSafe` | `Spec => []SessionInv` |
| `UrekaSession!Authorised` | `Spec => []DataIsAuthorised` |
| `UrekaSession!AnswersLatest` | `Spec => DataAnswersCommand` |
| `UrekaSession!StaysStranded` | `Spec => StrandedForever` |
| `UrekaServes!DriverInvariant` | `DriverSpec => []DriverInv` |
| `UrekaServes!StaysInStep` | `DriverSpec => []SessionInStep` |
| `UrekaServes!GivesService` | `DriverSpec => ServiceSpec` |
| `UrekaLifeSafety!LifeInvariant` | `LifeSpec => []LifeInv` |
| `UrekaLifeSafety!ImplementsLifeLedger` | `LifeSpec => LifeLedgerSpec` |
| `UrekaLifeSafety!OrphansStayOrphans` | `LifeSpec => OrphanedForever` |
| `UrekaWire!UTicketSurvives`, `RTicketSurvives`, `MessageSurvives` | what is written is what is read |
| `UrekaWire!IdIsContent` | two u-tickets with the same id text differ in id and signature only |
| `UrekaWire!SessionLosesTag`, `RowsCannotBeRead` | what the two conversions of the storage lose |

Neither `OrderBound` nor `LatestReceipt` is inductive. `LatestReceipt` needs
`OrderBound`: when a device reaches a new order no receipt may name it yet.
`OrderBound` needs to know that the initialisation ticket an agent keeps, which is
copied into a row, names no device; and neither makes sense without the types. So
the inductive invariant is

    SafeInv == TypeOK
            /\ the tickets and receipts of the channel and of every row are not
               ahead of their devices, and the receipts name their owners
            /\ no row is ahead of its device
            /\ an agent's initialisation ticket names no device and is no offer

The induction step follows the tickets. An agent only copies tickets and
receipts, makes tickets at the order of a row, or answers with a message that is
no ownership receipt (`AgentChanges`, one lemma per action); a device step adds
at most one receipt, of its own new order, and takes the order up by at most one
(`DeviceChanges`). So whatever names an order names one the device had, and when
a device moves on all that exists is old except what it says itself. `SafeInv`
was checked with TLC on the `TransferInSession` instance before it was proved.

`OrderLostForever` follows from the same case analysis. Agents name no order but 0 that
is not in a row, a ticket or a receipt they hold (`AgentKeepsLost`), an initialisation ticket
names no device (`EmptyNamesNothing`), and a device whose order is in no ticket refuses
whatever it gets (`DeviceKeepsLost`), with a text that does not tell its
order (`RefusalKeepsLost`).

The refinement maps `live` to the devices that have a state, `owner` and `order`
to themselves and `offers` to the ownership tickets in rows and channel. Every
step is a ledger step or a stutter: issuing is `Offer` (or `Forget`, when the new
ticket overwrites one), executing an initialisation or an ownership ticket is
`Initialise` or `Transfer` with the ticket in the channel as the offer, an end of
access is `EndAccess`, a reboot is `Lose`, and all other steps only drop offers.

The properties of sessions need to know what the other side, and everything still
on its way, may know. `SessionInv` adds to `SafeInv`:

* `Shapes`: what agents store are tickets and receipts, which have no iv and no
  ciphertext. Answers and tokens exist in the channel and in sessions only, so
  nothing that could be taken for an answer comes back once it is gone.
* `SessionSound(d)`: while `d` is in a session, nothing that names `d` has an
  order beyond that of the session's ticket, which is not beyond the device's; and
  the device's key is one of that ticket's holder, or `d` is `OutOfReach`. The
  first part makes a ticket or a token that is executed in a session (its order
  is the device's) show that the session is not out of date, which is why the
  order of an answer is that of its ticket although the order may move on within a
  session. The second covers the ticket that is replaced under a live session: the
  key is then of the holder of the old one, but the iv has just been drawn and was
  sent to nobody, so no command is ever executed under that key.
* `AnswersInChannel(a)`: what bears the iv that `a` drew last for an answer has
  the text of `a`'s last command.

An agent keeps a device out of reach (`AgentKeepsOutOfReach`): a key it computes
has a salt it has just drawn, or, answering a CR-KE-2, its own name for the
device's; and the ivs it takes over come from the channel. `SessionStep` says this
of every step of an agent, `DeviceOnly` what a device leaves alone. `StrandedForever`
follows from the same facts: in a session that is out of date no ticket or token is
executed, and in one nobody can reach no token fits.

**The driven system.** `ServiceSpec` says what a sequence of calls achieves, and no
statement about single calls implies it: half-way through a sequence the owner's
row may be behind the device, the two sides of a session have different ivs, and
a device may be waiting for a message. So the invariant says how far the sequence
has come:

    DriverInv == SafeInv /\ Sound
              /\ goal = NoGoal => AtRest
              /\ goal # NoGoal => GoalOk(goal) /\ Undisturbed(goal) /\ Phase(goal, done)

* `Phase(g, n)`: after `n` calls of `g`, which message is in the channel, in what
  state the device and the agents of `g` are, what their rows and sessions hold.
  It is given for each of the eight kinds of goals; the five calls that open a
  session are the same phases (`Opening`) for a first, a granted and a second opening.
* `AtRest`: every device is new, or at rest with the owner's row at its order, or
  `Behind` (the owner's row and ticket are one order behind, the holder named in the
  ticket has the receipt of the end, and nobody may enter), or
  in a session on whose ticket, key and iv both sides agree; who is in no session
  is idle. `Undisturbed(g)` is the same for everybody `g` is not about, and says
  that the issuer of a transfer or an access, and who a report is for, is in no session.
  At the end of an access the issuer need not be: the last phase allows both outcomes.
* `Sound`: a ticket that grants access at the device's present order is the one its
  owner signed last, so a second opening finds what the first found, and the
  owner recognises the receipt. This is where the conditions of `AskAccess` and
  `AskReopen` are needed.

`DriverInv` was checked with TLC before it was proved (two devices with two agents,
and one device with three agents, up to order 3). The proof has a lemma for
each call in each phase: it shows that the call made is the only one of its
handlers that applies, that the sequence reaches its next phase (`Phase(g, n)'`), that nothing but
`g.dev`, `g.to` and their rows changed (`Around`), and that the service sees at most one
change, which `TicketService` allows (`Serves`). From `Around` follows that the
others stay `Settled`; the last phase of each kind is `AtRest`, which is
what the application needs to begin the next. The refinement maps `goal` to itself
and reads owners, orders, users, the owner's record and the last data read off the
state: beginning and ending a sequence are `TicketService`'s own steps, and every
call is one of its effects or a stutter. The theorem is about the safety part of
`TicketService`; `Answered` stays with TLC (section 7).

**The life cycle.** `SafeInv` says nothing of a device without a state. That is right for
one that lost its memory, and not enough for one that was not constructed yet: its
order counts as soon as it is. So `LifeInv` adds that nobody has heard of such a
device (`Unheard`: what names it names order 0 and is no receipt of ownership), that a
device has a state exactly if it is constructed and not lost, and that one with an
owner was initialised. The steps of agents and devices are those of `Ureka` and
their lemmas are used as they are; a construction makes the order count and finds
it 0, the constructor that skips the type and a reboot are the ledger's `Lose`,
and the reboot of an agent only drops offers. `LifeInv` was checked with TLC, with
agents that report, before it was proved.

`OrphanedForever` needs to know who can make a ticket for the orphan. Its order is
above 0, so no initialisation is for it. Any other ticket is signed by who makes it,
or is for herself (`MadeBy`), and the verifier asks for the owner in both cases; the owner has no keys, and
without keys an agent copies tickets and makes initialisations, whatever she calls
or receives (`MadeWithoutKey`).

`UrekaWire` is about conversions, not about `Spec`. A field that is empty is left
out of the text and gets the value of a new object when it is read: empty again,
except the protocol version, which a new object has, and the order, which is never
left out because a new object's is not initialised. So a ticket survives exactly
when it names a version, as those of the generators do, and the hash of the text
without id and signature stands for the rest of the ticket. That is why `Ureka` may
send records and `UrekaTickets` may define `Id(u)` as the content.

## 7. Only model-checked

`EveryGoalAnswered`, on the instance of `Driver`: it is a liveness property under
weak fairness, which needs `ENABLED`, out of the prover's reach. What makes it true is
in `DriverInv`, though: after every call but the last, `Phase` names the message in the
channel and a receiver in a state that takes it. The findings of the five violation runs are
counterexamples of TLC.

## 8. Not modelled

* Issuing, through the operations for herself, tickets of the other types; no
  test or document does it.
* Malformed messages and messages no controller wrote.
* What an agent without keys signs, see section 2.
* The JSON syntax, and `this_device.cpp` and `this_person.cpp`, which write and read
  every field. The conversions that lose fields (`other_device.cpp`,
  `current_session.cpp`, see `UrekaWire`) have no caller in the program, since
  storage is a stub.
* The arithmetic of `ecc.cpp` and `ecdh.cpp`, the storage stub, the logger and
  Bluetooth, which is commented out.
* `src/installed` (mbedtls, nlohmann json, googletest, twice, for two platforms):
  third-party headers and libraries, more than 95 % of the lines of the
  repository. The program's own code is about 5000 lines with its tests, and
  the part of it that changes state is modelled whole; the share of *all* lines that
  the modules map is small for that reason.
* The unit tests of single stages. Where the tests disagree among themselves
  (after a transfer was reported, `TestFlow.cpp:125` expects the old owner to have
  a row for the device, `test_02.cpp:84` expects her not to, and `executor.cpp:213`
  erases it) the model follows the code.

## 9. Plan

Done: the modules of section 2, the runs of section 4, the theorems of section 6;
every safety property of a passing run is a theorem. Left:

1. **Enabledness in the driver.** That the next call of a sequence can be made, as a
   statement about states: a successor exists whenever `Phase` holds and a
   nonce is free. With it, `EveryGoalAnswered` would rest on `WF` alone.
2. **What `SafeInv` gives a single ticket:** that a device executes an ownership
   offer at most once, as a theorem about `DeviceLedger` that `ImplementsLedger` carries over.
3. **A third agent** in `Driver`, once its state space allows it.
