# Verification of the unified framework for vehicular handover

This directory holds TLA+ models of the handover control loop of this repository,
the TLC configurations that check them, and theorems about them with TLAPS
proofs. Paths are relative to the repository; `lte/` stands for
`O-RAN-V2X-simulation/src/lte/model/` and `mmwave/` for
`O-RAN-V2X-simulation/src/mmwave/model/`. `PROJECT.json` maps every definition
that models code to the lines it models, and lists runs, mutants, hazards,
findings and theorems.

## 1. The system

Connected vehicles (UEs) hold dual connectivity: an LTE anchor and one of several
mmWave road-side units (RSUs). A near-RT RIC xApp decides which RSU serves which
vehicle. The loop is

    RSU --KPM--> RIC --RMR--> connector --TCP--> agent     (reports)
    RSU <--X2--- LTE anchor <--E2 control-- connector <--TCP-- agent   (commands)

### Components

| component | state it keeps | operations | interacts by |
|---|---|---|---|
| LTE anchor RRC, secondary-cell coordination (`lte/lte-enb-rrc.cc`) | per UE `m_mmWaveCellSetupCompleted`, `m_lastMmWaveCell`, `m_imsiUsingLte`, the UeManager's `m_mmWaveCellId`/`m_mmWaveRnti`; `m_allowHandoverTo` | execute a control, periodic association update, completion, failure notice | X2-C to RSUs, RRC connection switch to the UE |
| mmWave RSU RRC, `UeManager` (same file) | `m_ueMap` with the state of each manager, `m_imsiRntiMap`, RNTI counter, timers | prepare, admit, reject, lead out, join, release, timeouts, connection switch | X2-C, RRC to the UE, TEID map of X2-U |
| X2 (`lte/epc-x2.cc`) | sockets per neighbour, TEIDs to forward | encode, dispatch by procedure code | UDP over a dedicated link per pair |
| UE mmWave RRC and PDCP (`lte/lte-ue-rrc.cc`, `lte/mc-ue-pdcp.cc`) | RRC state, serving cell, RNTI, uplink direction | handover command, random access, connection switch | RRC |
| automatic handover modes (`lte/lte-enb-rrc.cc` 4163-4796, 6343-6470) | scheduled handover events, time-to-trigger | threshold, fixed/dynamic TTT, greedy, eviction | the same X2 procedures |
| LTE E2 control handler (`lte/lte-enb-net-device.cc`) | map of controlled UEs | parse two identifiers, schedule the control | e2sim thread to simulator thread |
| E2 KPM reporting (`mmwave/mmwave-enb-net-device.cc`) | measurement maps | build and send CuUp, CuCp and Du reports periodically | E2 |
| xApp connector (`xapp-sm-connector/src`) | sockets to agents, subscription map, RMR context | subscribe, forward reports, read commands | RMR threads, TCP |
| xApp agent (`sample-xapp`) | four queues, table of received reports, input row per RSU, `cellId_imsi` | receive, decode, collect, decide, arrange, send, flush | threads, TCP |
| learning (`CQL_DDQN.py`, `ICQL.py`, `RLmodel_latest.py`) | networks | training, inference | called by the agent |
| traces and scenario (`sumo`, `scratch/MultiVehicleURLLC.cc`) | configuration | choose mode and timers | start-up |

The rest of `O-RAN-V2X-simulation` is vendored ns-3 or generated ASN.1 code. Of
ns-3 the models use two facts: events that are due are executed, one at a time
(interleaving and fairness), and a packet on a point-to-point link is neither
lost, duplicated nor overtaken on its link.

### What is hard here, and what must hold

* A handover is a chain of messages over four nodes, without a transaction
  identifier: one Boolean of the anchor keeps two of them apart. *Handovers of a UE
  are serial; the flag is not left behind; anchor, RSU and UE agree on cell and
  RNTI whenever a handover may start.*
* The association update runs at any point of that chain. *An outage in the middle
  reaches no fatal assertion, loses no handover and strands no uplink.*
* Each step can fail, and the failure is handled where it occurs, often without
  telling anybody. *A failure leaves no manager that nobody will release and no
  wrong serving manager behind a cleared flag.*
* RSUs are exclusive by convention: a start bars the target, only completion and
  outage lift bars. *A barred RSU serves a UE or is about to.*
* The agent's threads and the flush of its main loop share four queues and a table
  without a common lock. *Decisions are made from complete inputs, mostly younger
  than the last command; the arrangement loses nothing but circles; the flush
  starves nothing.*
* Some modes schedule a handover for later. *What was decided is still right when
  it is due, or is dropped: the UE is still on that cell, the target still open; no
  measurement puts it off for ever; turning a cell off moves nobody else.*
* The command stream is not framed and the connector's threads share maps and a
  buffer without locks. *The anchor executes commands the agent issued, in their
  order and once, unless `recv` has cut one; a subscription is answered by its own gNB; the loop over the gNBs
  ends; the connector does not outlive the agent.*

`PROJECT.json` lists the hazards one by one, at the line where each bites, with the
properties that watch it.

## 2. The modules

| module | content |
|---|---|
| `HandoverService` | abstract: what the anchor promises about one UE |
| `SecondaryHandover` | anchor, X2, RSUs and UEs of a commanded handover |
| `SecondaryHandoverProperties` | its properties; the refinement of `HandoverService` |
| `MCSecondaryHandover` | symmetry for TLC |
| `SecondaryHandoverProofs` | type correctness; the uplink leaves mmWave in an outage |
| `HandoverSerialInvariant`, `HandoverSerialProofs` | the inductive invariant of "handovers are serial", and its proof; the anchor follows the UE |
| `HandoverServing`, `HandoverServingProofs` | the inductive invariant of which managers a UE has at each stage of its handover, its proof, and what follows: failures are survived, nothing is lost, forgotten or left behind, the refinement of `HandoverService` |
| `HandoverLate`, `HandoverLateProofs` | the inductive invariant of what is left of that when the timers of the managers may run out, its proof, and what follows: late messages meet no stranger |
| `XappAgent` | main loop and threads of the agent, RSUs and connector as environment |
| `XappAgentProperties` | its properties |
| `MCXappAgent` | the vehicles of its two instances for TLC |
| `XappAgentProofs` | complete snapshots and the bound of the flush; only circles dropped, type correctness |
| `AutomaticHandover` | the anchor's own decisions in all eight modes, time to trigger, initial access, eviction |
| `AutomaticHandoverProperties` | its properties; the refinement of `HandoverService` |
| `MCAutomaticHandover` | symmetry for TLC |
| `AutomaticHandoverProofs` | every property of its passing run, for any measurements |
| `RmrSender` | the connector's shared send buffer |
| `Subscriptions` | its loop over the gNBs and the responses; extends `RmrSender` |
| `CommandPath` | reports to the agent, commands to the anchor; extends `Subscriptions` |
| `Connector` | their composition and its fairness |
| `CommandService` | abstract: what the command path promises |
| `ConnectorProperties`, `MCConnector` | properties; the refinement of `CommandService` |
| `ConnectorProofs` | every safety property of the connector |

Mutants: an operator that precedes a definition and has its name with a suffix
(`RegisteredOnce` before `Registered`) is that definition with a plausible bug. No
action uses it (a comment says "Mutant of"); `PROJECT.json` says which property
notices it.

### `SecondaryHandover`

Scope: `NO_AUTOMATIC_HANDOVER`, the mode of the reference scenario
(`handoverMode` `NoAuto`), with ideal RRC, after initial access. State corresponds
to the members named in the comments of `VARIABLES`.

* One action per handler. `PerformHandoverToTargetCell(u, c)` is a control,
  `TriggerUeAssociationUpdate(u)` the part of the periodic pass that concerns one
  UE (a pass is a sequence of these), `Recv...` the X2 and RRC receptions,
  `...Timeout` and `RemoveUe` the scheduled events.
* X2 is one FIFO per directed link, with any delay and no order between links.
* The source sends SN STATUS TRANSFER when the acknowledgement comes
  (`lte-enb-rrc.cc:936`). What the target does with it is nothing, but before that it
  looks up the UE manager, which must exist (5690, 3607). A status that comes after
  the UE has gone on to a third cell and the manager has been released therefore
  stops the simulator (`StatusWithoutManager`). All X2 links have one constant delay,
  `X2LinkDelay` (`mmwave-point-to-point-epc-helper.cc:222-226`, 399), and between the
  status and that release lie six X2 messages, one after another, and two random
  accesses. `LateStatus = FALSE` says that a status is not slower than all of these
  together. It is the only thing assumed of delays, and only the runs
  `SecondaryHandover` and `HandoverLiveness` assume it, whose `NoLostHandover`,
  `HandoversComplete` and refinement are about a simulator that goes on.
* RRC to and from the UE is a queue each way: with ideal RRC a message is an event
  scheduled for later.
* A failing `NS_ASSERT`, `NS_FATAL_ERROR` or dereference of `end()` ends the
  simulator: `aborted` names the reason and nothing is enabled any more. This is
  why the runs set `CHECK_DEADLOCK FALSE`; the other reason is that commands and
  outages are bounded, so the system comes to rest.
* RNTIs are never reused (`m_lastAllocatedRnti` counts up; its wrap-around after
  65535 is out of reach).
* `Faults` switches the failures of the environment: `reject` (admission),
  `noPreamble` (no random-access preamble), `raFailure`, `timeout` (joining and
  leaving timers). `StaleCommands` lets a control name the UE's current cell.

### `XappAgent`

* `Main` is `main()` of `run_xapp.py`: it waits for a report, queues it, looks at
  the command queue once, and after a command clears three queues and the table,
  one step each (`Flush`).
* `KpmDecodeThread`, `KpmUpdateThread` and `RLThread` are the threads of
  `xapp_threading.py`. A step is one access to something shared. What a thread
  holds between two steps (`decoding`, `updating`, `copied`, `deciding`,
  `proposed`, `moves`) is state: that is what the flush cannot reach.
* Measurements are left out. A report is a cell, a type and the set of vehicles it
  counts; a decision is any one-to-one map from the occupied RSUs to RSUs, which is
  what `linear_sum_assignment` returns.
* The environment sends any report in any order, and RSU `c` may name any set of
  vehicles in `Vehicles[c]`: commands take effect whenever they do, and during a
  handover two RSUs hold a manager for the UE.
* `old`, `stale` and `recorded` are history variables: they mark reports received
  before the last command, and what the table has seen since the last snapshot. No
  action's guard reads them.
* `ReportsNameUe` chooses the report format. The agent reads the vehicle from the
  field `imsi`, which the simulator at this commit does not send (section 6). With
  `FALSE` nothing beyond the first report of a vehicle can be said, so the runs use
  `TRUE`: they check the agent with the reports it is written for. The theorems
  hold for both.
* The queues of the code are unbounded. `MaxInFlight`, `MaxSnapshots` and
  `MaxQueued` bound them in the guards of the RSUs and of `GetRLInput`;
  `MaxReports` bounds a whole run (0: no bound). While a command waits for a report
  the bound on snapshots is three times as high, because main() looks at the queue
  only when a report comes: without the slack the bound itself would stop the
  commands.
* `CHECK_DEADLOCK FALSE`: the connector may close the socket, main() leaves, and
  the other threads wait for ever, as in the code; and reports are bounded.

### `AutomaticHandover`

Scope: what the anchor decides by itself. `SecondaryHandover` shows in detail what
happens between the start of a handover and its completion, for the mode in which
only the RIC starts one; here that stretch is the single step `Arrive`, any time
later, and all eight values of `SecondaryCellHandoverMode` are covered. Both modules
implement `HandoverService`, which is what ties them together.

* `Update(u, sinr)` is the part of `TriggerUeAssociationUpdate` that concerns one
  UE, on any measurements: outage, return from LTE, and the branch of each mode.
  A measurement is a level in dB above a floor and 0 is "no report". The ratio
  without a current cell is infinite, so `Difference` is then past every limit.
* `event` is `m_imsiHandoverEventsMap` together with the event it points to. Time
  counts in ticks; `Tick` is refused while an event is due, as ns-3 executes events
  in the order of time. `ComputeTtt` interpolates with unsigned integers and rounds
  as the code does; the attributes `MinDynTtt` to `Rounding` are constants.
* `allowHandoverTo` is one map for two purposes, as in the code: cells that energy
  saving turned off, and in the seamless modes cells that are taken.
* `RecvRrcConnectionRequest` and `ConnectedNormally` are initial access as far as
  the anchor decides in it: the first mmWave cell is the best one of an earlier
  update. `best` is forgotten where no later step reads it before the next update.
* `Control` is the RIC's command in any mode. In a time-to-trigger mode it may meet
  a pending event, whose assertion then fails (`aborted`).
* Energy saving: `TurnOff` bars a cell and evicts, `TurnOn` opens it and does not,
  and `ReadControlFile` sets the status of any cells, line by line, and evicts
  once, after the last line, whether the lines turn cells off or on. In the seamless
  modes every serving cell is barred, so one cell turned off evicts every UE
  (section 6). The other mode of the file, in which all lines are scheduled at start
  (`m_scheduleControlMessages`), is not modelled.
* `EvictionDelay`: UEs are evicted in the order of a map; each time the preambles
  available are used up once more, the rest come one offset (25 ms) later
  (`lte-enb-rrc.cc:6347-6353`, 6439-6450; the first round is twice as long). The order
  is left open, and the number of UEs handled so far is an `uint8_t`.
  `numberOfRaPreambles = 64` makes the code divide by zero; `AvailablePreambles` is
  at least 1.
* A pending target that is not in a later report is always replaced, since the
  difference to it is infinite (`Replaces`, 4317-4320). The code truncates the time
  that has passed to milliseconds (4299); here time is whole ticks.
* GREEDY compares the latency of the PDCP with a limit: a free choice.
* `CHECK_DEADLOCK FALSE`: a failed assertion ends the simulator.

### `RmrSender`, `Subscriptions`, `CommandPath`, `Connector`

Three threads of `xapp-sm-connector`: the main thread subscribes, gNB after gNB; the
receiver (one, `THREADS=1`) handles responses and indications; one thread per agent
takes commands. `Connector` composes what they do.

* `RmrSender` has one action per stage of `xapp_rmr_send` at `_xapp_send_buff`,
  a member two threads use without a lock: header, payload, the call of the library,
  the test of what it returned. The test for `NULL`, the allocation and the header's
  writes are one step, so a buffer set to `NULL` between these is not seen. A null
  buffer that is filled ends the process. `overlapped` is a history variable: two
  calls have been under way at once. The interleaving of these steps, with the outcome that both threads pass the
  same pointer to the library, stands for the data race.
* `Subscriptions`: `AddRequest`, `RequestSent`, `RequestNotSent` and `WakeUp` are
  `manage_subscription_request`; `TakeResponse`, `IsRequestEntry` and
  `SetRequestStatus` are `manage_subscription_response`, which takes no lock. The
  table is keyed by the address of the gNB's name and searched by the name. The main
  thread's entry is `entry`; the entries the receiver adds, one per response, stay
  for good (`answered`). What the receiver does while the other thread changes the
  table is undefined: `TableRace` ends the run. `find_transaction` takes the map by
  value and returns an iterator into the destroyed copy (`subs_mgmt.cc:99-105`,
  153-164); the model takes that look-up for what it is meant to be.
* `CommandPath`: the text of a command is five pieces, two of the IMSI, the comma and
  two of the cell. One `recv` returns any part of what is in the stream
  (`RecvFromAgent`): at most 256 bytes, or less where TCP ends a segment
  (`xapp.cc:241`, 252), so it may end inside a number, at the comma or between two
  commands. `split_data` cuts at the first comma, and the LTE E2 handler takes
  decimal numbers only: a text is accepted when it has the comma of one command and
  something on both sides (`OneCommand`). Two commands together are lost; a command
  that is cut may be accepted as another one (`12,10` as `2,10` or `12,1`), which
  `Command` numbers 0. `cuts` counts how often that has happened. A write to a socket
  the agent has closed is answered by a reset, and the next one raises SIGPIPE.
* `CHECK_DEADLOCK FALSE`: the process may end (`stopped`), and commands are bounded.
* External, modelled from their use: the RMR library (it takes a message, in order
  per receiver, or asks for a retry) and the RIC with the E2 terminations (it
  accepts a subscription at any time, or never).
* Assumed: the connection to the agent succeeds at start; the agent decides on
  complete snapshots (`SnapshotsAreComplete`), so it issues a command only when all
  RSUs have reported, the anchor not among them; the first gNB of the list is the LTE anchor, as
  `send_ric_control_ts_request` takes it to be; the `me_id` pointer that
  `rmr_get_meid` gets uninitialised is null.

## 3. Plan

Modelled: `SecondaryHandover` with `HandoverService`, `XappAgent`,
`AutomaticHandover`, and the connector with `CommandService`. A closed loop of agent
and anchor was considered and dropped: nothing in the repository promises that an
RSU is empty when a UE enters it, and every order of commands is covered at the
anchor (hazard at `xapp_threading.py:195`).

Every safety property that a passing run checks is a theorem, for all values of the
constants. What is left to TLC is what needs fairness (section 5).

## 4. The runs

| run | instance | properties | shows |
|---|---|---|---|
| `SecondaryHandover` | 2 UEs, 3 cells, 2 commands, 1 outage, no faults, no late status | `TypeOK`, `NoFatalError`, `HandoversAreSerial`, `NoLostHandover`, `AnchorKnowsServingManager`, `NoOrphanedManager`, `ForwardsWhileLeaving`, `BarredCellsAreClaimed`, `UplinkLeavesMmWaveInOutage`, `AnchorFollowsUe` | handovers and outages in every order (73362 states) |
| `HandoverFaults` | 2 commands, 1 outage, rejection, missing preamble, failed access, stale controls, late status | `AnchorKnowsServingManager`, `NoOrphanedManager`, `FailuresAreSurvived` | a failure blocks the UE but corrupts nothing, and which three coincidences stop the simulator (136480 states) |
| `HandoverTimeouts` | 3 commands, rejection, missing preamble, failed access, both timers, stale controls, late status | `HandoversAreSerial`, `LateMessagesMeetNoStranger`, `AnchorFollowsUe` | timers racing late answers, with every other failure (1154488 states) |
| `HandoverLiveness` | 1 UE, 3 cells, 3 commands, 1 outage, no late status, fair | `HandoversComplete`, `ImplementsHandoverService` | every start completes; the refinement (91431 states) |
| `AutomaticHandover` | 2 UEs, 3 cells, 8 modes, 1 control or 1 change of energy saving, 1 preamble per round | `TypeOK`, `ScheduledHandoversAreLive`, `BarredCellsAreClaimed`, `HandoversToAllowedCells`, `UpdatesNeverPostpone`, `EvictionSparesOthers`, `ImplementsHandoverService` | every mode on any measurements (168431 states) |
| `XappAgent` | 2 vehicles, 3 RSUs, 6 reports | `TypeOK`, `FlushLeavesFewOldReports`, `SnapshotsAreComplete`, `OnlyCirclesAreDropped` | the threads against the flush (2362118 states) |
| `XappAgentLiveness` | 1 vehicle, now and then a second one, 2 RSUs, reports for ever, fair | `DecisionsGoOn`, `CommandsAreSent` | nothing starves (246722 states) |
| `Connector` | 2 gNBs, 1 command, 2 attempts per message, fair | `TypeOK`, `AnsweredMeansAccepted`, `EveryGnbIsAsked`, `RequestsEnd`, `ConnectorStopsAfterAgent` | subscriptions and a command on one send buffer (124839 states) |
| `CutCommands` | 2 gNBs, 2 commands, 1 cut, 1 attempt | `CommandsInOrder` | commands in one `recv`, in several, and in parts (3354429 states) |

and three that end in a counterexample: `HandoverForwarding`, `TttRecovery` and
`DisabledCells` (section 6).

### Why these bounds are enough

* Three cells are the smallest number with a source, a target and a free cell, and
  with a cell that is neither the old nor the new one. Two UEs let one UE's bar,
  forwarding entry or RNTI meet the other's.
* Two commands and one outage are up to three handovers, since the anchor hands a UE
  over by itself when it brings it back from LTE: a UE can go away, come back and leave
  again, which is what stale map entries need, or the other UE acts between. The runs
  without that have three commands. One outage can fall at
  any point of any handover. Two commands also suffice for an SN STATUS TRANSFER to be
  overtaken by the release of the manager it names, where `LateStatus` lets it. With
  four RNTIs per cell no request is ever refused for
  want of one in these runs.
* The handover actions of each UE and cell are treated alike, so UEs and cells are
  symmetric; symmetry is not used with liveness.
* In the agent, three RSUs with vehicles in 2 and 3 give a chain of moves (2 to 3,
  3 to 4) and a circle (2 to 3, 3 to 2); both vehicles in 3 give the skipped report,
  and none in 2 and 3 the snapshot without a decision. One report type suffices: the
  table is a set of marks and all types mark it alike; only CuCp reports do more.
  Six reports are two full rounds of the three RSUs, one before and one after the
  flush. One report in the socket and the queues, besides those in the hands of the
  two threads, lets each thread hold one while main() clears.
* In `AutomaticHandover` four levels give a cell without a report, two cells that
  are close, and one that is stronger by more than the threshold, below, at and
  above the limits of the dynamic time to trigger, which takes all its values 0 to
  2. Two ticks let an update fall before, between and after. No bound cuts a
  history but the number of controls and of changes of energy saving: one of either
  can fall anywhere, and a second would meet the state a first can leave. One
  preamble per round makes the round as short as it can be; the two UEs are within the
  first. With a third UE and without the hypothesis `FewUes` TLC finds the failing
  assertion of section 6.
* In `Connector` a second gNB lets a late response meet the loop at another gNB, and
  one of the two is not the anchor. Two attempts give a retry and a final failure.
  In `CutCommands` two commands give an order, and two that are merged; one cut can
  fall at each of the four places inside either, and takes with it what is left of the
  command, alone or together with the next. Retries of two commands that are also
  cut are left to the proof.
* The liveness instance of the agent needs reports without end, so no counter; with
  one vehicle and two RSUs a decision, a command and a flush already follow each other
  in every order, and the report with two vehicles is skipped at any point of it.

### Fairness

* `SecondaryHandover`: weak fairness of message receptions and of random access.
  ns-3 executes every event that is due; a message in a queue is an event that is
  due. Commands, outages and faults are not fair: they need not happen. There are
  no faults in the liveness run, since a handover that fails is never completed
  (section 5), and no late status, which stops the simulator.
* `XappAgent`: weak fairness of each thread (Python threads run; `Queue.get` returns
  when there is an item, and `Queue.put` does not block) and strong fairness of each
  report of each RSU, which reschedules itself with the indication period. Strong,
  because the bounds on the queues disable an RSU now and then, which nothing in the
  code does. The socket does not close in that run. An RSU is assumed to send again
  and again a report with at most one vehicle; between two of these it may send any
  number of others (`RsuWithOneUe`). A second vehicle for ever would stop all
  decisions (hazards).
* `Connector`: weak fairness of the subscribing and the receiving thread, of each
  call of `xapp_rmr_send`, and of the indications of each gNB that has accepted a
  subscription (it reports periodically). Nothing is assumed of the RIC, of the
  library's outcome, or of the agent: it may never answer, refuse every message, or
  never close.

## 5. What is proved

All theorems hold for any sets of UEs, cells and vehicles and any bounds that
satisfy the named assumptions of the modules: the anchor is no cell and `NoCell` no
node, bounds are natural numbers, the least time to trigger and the least difference
do not exceed the greatest, the outage threshold and the rounding are not 0, the
numbers of gNBs and of attempts are not 0, the preambles available are between 1 and
60, the set of UEs of `AutomaticHandover` is finite, the markers `NoUe`, `NoVehicle` and
`NoMessage` are no records, vehicles or buffers, RSU identifiers form a finite set of
natural numbers. What else a theorem assumes it states as a hypothesis, given below.

* `TypeCorrect`: `Spec => []TypeOK` of `SecondaryHandover`. It says that every
  handler sends only messages its receiver has a branch and a sort for, with all
  faults allowed. The invariant is `TypeOK` itself: per-link message sets make it
  inductive.
* `HandoversSerial`: `Spec => []HandoversAreSerial`, with any faults, timeouts and
  stale controls. `HandoversAreSerial` is not inductive: a handler passes a handover
  on to whoever an RNTI names, and a second copy could come from a postponed request
  or a removed manager. `SerialInv` adds
  - `OneToken`: the handover of a UE is in at most one place among messages,
    command, UE and answer, and nowhere when the flag says it is complete;
  - `RntisBelong`: an RNTI in a map, a message or a UE was given by that cell to
    that UE and to no other;
  - `NothingPostponed`: no manager queues a request, and random access runs only in
    a UE on handover;
  - `JoiningIsAhead`: a cell waits for a UE in at most one manager, and only while
    the report of that handover is still to come.

  The proof has one lemma per kind of token step (a token is made, moves from one
  place to the next, or is lost) and one step per action.
* `UplinkLeaves`: `Spec => []UplinkLeavesMmWaveInOutage`, with any faults. The
  invariant `ToldToLeave` looks into the queue of switches: its last one is the
  anchor's view of the UE, and where it is empty the UE has obeyed.
* `AnchorFollows`: `Spec => AnchorFollowsUe`, with any faults. `AnswersAreCurrent`
  adds to `SerialInv` that an answer of the UE, and the report a cell makes of it, come
  from the cell the UE is in: no command can take the UE further before the anchor has
  taken that report.
* Eight theorems of `HandoverServingProofs` from one invariant, `ServingInv`, which
  TLC checks too while it is proved inductive for all instances. The anchor knows a
  UE by a cell and an RNTI only, the target knows the source by an RNTI in a message,
  and no message has a transaction identifier; so what a handler finds under an RNTI
  depends on where the handover is. `ServingInv` is `SerialInv` and
  - `StagesFit`: for each place where the one token of a handover can be, which
    managers the UE has, in which state, and that the RNTIs in the message, the map of
    the cell and the anchor are theirs. Until the acknowledgement there is one
    manager; from there to the report two, of which the second knows the first;
  - `ReleasesFit`: a manager that leaves is the anchor's until its release is sent,
    then the release is on its way and the manager is nobody else's;
  - `OrderFits`: a manager is released once, after every switch sent to it and before
    its UE is commanded to leave that cell again. This is where the FIFO order of X2
    is needed: a link that overtakes would break `NoFatalError`;
  - `TeidsFit`: a cell forwards for exactly the managers that leave.

  Each step is shown to keep `ServingInv` and to make `Progress`: it leaves every UE's
  handover where it leads, or it starts, completes or fails the handover of one UE.
  What is proved from it, and under which hypotheses:

  | theorem | property | assumed of the environment |
  |---|---|---|
  | `FailuresSurvived` | `FailuresAreSurvived` | no timeouts |
  | `ForwardingEnds` | `ForwardsWhileLeaving` | no timeouts |
  | `AnchorKnows` | `AnchorKnowsServingManager` | no timeouts |
  | `NoManagerOrphaned` | `NoOrphanedManager` | no timeouts |
  | `NothingLost` | `NoLostHandover` | no failures |
  | `BarsAreClaimed` | `BarredCellsAreClaimed` | no failures |
  | `NothingAborts` | `NoFatalError` | no failures, no stale controls |
  | `ServiceImplemented` | `service!Safety` | no failures, no stale controls |

  `LateStatus` may be either in all of them. `FailuresAreSurvived` and `NoFatalError`
  name a late SN STATUS TRANSFER as a reason to stop, which is there only where
  `LateStatus` is `TRUE`; the theorems prove both halves, of which the second needs
  `StatusesFit`: as long as no release overtakes its status, a status on its way names
  a manager that exists.

  The hypotheses are those of the properties, which do not hold without them. A
  timer that runs out removes a manager that others still refer to. A failed handover
  is lost by design, and its target stays barred. A stale control stops the simulator.
  *No timeouts* still allows rejection, missing preambles, failed random access,
  stale controls and outages in any number and order. `ServiceImplemented` is
  the refinement without its fairness: the initial states are states of
  `HandoverService`, and every step is a step of it or a stutter.
* `LateMessagesSurvived`: `Spec => []LateMessagesMeetNoStranger`, with any faults,
  timeouts included. With timers a manager that `ServingInv` says exists may be gone,
  and its TEID may stay in the forwarding table, so `ServingInv` does not hold.
  `LateInv` is what is left of it. It is `SerialInv`, the property, and
  - `HandoversFit`: for each place where the token of a handover can be, the managers
    of the UE, *if* their cells still know them, are in the state the next handler
    asserts. The one manager that must be there is the one the anchor knows before
    the command leaves; it is never due for removal;
  - `RemovalsFit`: a manager due for removal after its timeout is still there, and the
    failure notice of the timeout is in the X2 queue to the anchor ahead of any report
    of that manager. The anchor stops at the notice (`ProcedureCode NOT SUPPORTED`), so
    it never takes such a manager for its own;
  - `LateReleasesFit`, `LateTeidsFit`: a release names a manager that leaves or is gone;
    a cell forwards for one leaving manager per UE, which may be gone, and then the cell
    is told to release it before it is told to send the UE away again, or the UE is
    still on its way from there. This is what keeps `TEID already in the map` away;
  - `FailuresFit`, `SwitchesFit`: a rejection names the manager that waits for it, and a
    manager has one at most; a switch message means an outage.

  `Ahead(s, A, B)`, "a message of A is in queue s before every one of B", states both
  orders. Lemmas say that a step keeps it unless it takes that first message; that a
  UE whose managers a step at most ends keeps its part of the invariant (`Spared`);
  and what the other UE, whose handover moves, has to show. TLC found that the rejection
  had to be allowed to meet a switch to LTE, as in `FailuresAreSurvived`, once faults,
  timers and outages come together.
* `SnapshotsComplete`: `Spec => SnapshotsAreComplete` of the agent. `SnapshotInv`:
  every mark in the table was recorded since the last snapshot (main() only takes
  marks away; `KpmUpdateThread` takes both away in one step), and a snapshot the
  thread holds was copied from a full table.
* `CirclesOnly`: `Spec => OnlyCirclesAreDropped`. `ArrangementInv`: the moves listed
  and those still proposed go to different cells, two by two. When no target is
  free, the moves are a one-to-one map of a finite set into itself, hence onto:
  they permute their sources.
* `AgentTypeCorrect`: `Spec => []TypeOK` of the agent. That a command names an RSU
  rests on a non-empty set of cells having a first one, which follows from strict
  inclusion being well-founded on finite sets.
* `FlushEffective`: `Spec => []FlushLeavesFewOldReports` of the agent. `FlushInv` says
  for each step of the flush what is clean by then: first `UnDecode`; then at most two
  old reports are left between there and the table; then at most one snapshot of old
  marks is queued or held. The step after that is the hard one: between the clearing of
  `RLInput` and of the table a snapshot may still be made of old marks. It is then the
  only one, because making it resets the table.
* `ConnectorTyped`, `AnswersAreTrue`, `NobodyIsSkipped`, `CommandsStayInOrder`: all
  safety properties of the runs `Connector` and `CutCommands`, for any numbers of gNBs,
  commands, attempts and cuts. `Typed` adds to `TypeOK` that a call of `xapp_rmr_send`
  that goes on has an attempt left. `EachAskedOnce`: the table holds answers only of
  gNBs the loop has passed or is at, and only of gNBs that have responded. `OrderInv`:
  until two calls overlap, the commands executed, scheduled, on the wire to the anchor
  and in the call, in this order, are increasing and all from the text that `recv` has
  returned; texts that are no command of the agent, which `Command` numbers 0, may
  stand between them. `Uncut`: while no `recv` has cut a command there are none of
  those. The theorem is what both give: commands that come whole are executed in their
  order and once, whatever is cut, and nothing else is executed before the first cut.
* `AutomaticTypeCorrect`, `EventsAreLive`, `BarsAreClaimed`, `StartsGoToAllowedCells`,
  `NothingPostponed`, `OthersSpared` and `ServiceImplemented`: all properties of the
  run `AutomaticHandover`, for any measurements and attributes. `EventsAreLive` is for
  as many UEs as twice the preambles (`FewUes`): an eviction of more delays the later
  ones, and then the property does not hold (section 6). `NothingPostponed` is for any
  number of UEs, but for the step of such an eviction. They follow from one
  inductive invariant, `Inv`: the parts of one UE's state fit together (a UE that is
  not connected has no event, a UE on its way has not completed, `setup` means a
  cell serves it), an event fits its UE (its source is the cell that serves it, and
  while it waits no handover is under way), a barred cell is claimed, and in the modes
  without bars a closed cell is one that energy saving has turned off. All steps but
  the tick and the eviction move one UE, so a lemma says what a move of one UE has
  to keep, and each action is shown to be such a move. The bound of `TypeOK`
  on the time to trigger is nonlinear arithmetic (interpolation and rounding) and
  has lemmas of its own.

Only model-checked: everything under fairness: `HandoversComplete`, the fairness half of `ImplementsHandoverService` in
`SecondaryHandover`, `DecisionsGoOn`, `CommandsAreSent`, `RequestsEnd` and
`ConnectorStopsAfterAgent` (liveness and `ENABLED` are beyond the prover).

What the invariants do not say: after a failed handover (rejection, no preamble,
failed access) the anchor's flag stays false and no further command for that UE is
ever executed. `NoLostHandover` and `HandoversComplete` therefore are stated, and
hold, without faults only.

## 6. Disagreements found

Each is a run that ends in a counterexample; `PROJECT.json` quotes the text.

1. `HandoverForwarding`: an outage between request and acknowledgement redirects
   the buffers to the LTE cell instead of the target (`lte-enb-rrc.cc:2304`).
2. `TttRecovery`: when the serving cell is the best again, the scheduled handover is
   to be cancelled; no call reaches that branch (`lte-enb-rrc.cc:4940`).
3. `DisabledCells`: the completion of the very handover that evicts a UE from a cell
   opens the cell that was turned off (`lte-enb-rrc.cc:2148`).

Behaviour that the models show, or include, without a run of its own:

* The report an RSU sends has no field `imsi` (the line is commented out,
  `mmwave/mmwave-enb-net-device.cc:1399`; the vehicle is in `ue.<imsi>`), and the
  connector passes the report on unchanged. `int(report.get("imsi"))` then raises
  (`xapp_threading.py:112`): the first CuCp report with a vehicle ends
  `KpmUpdateThread`, and the agent never decides. `ReportsNameUe = FALSE` is this
  report format.
* When more UEs are evicted at once than twice the preambles, the later ones are handed
  over 25 ms or more later (`lte-enb-rrc.cc:6439-6450`). Nothing keeps an update from
  starting another handover of such a UE, and when that completes first,
  `PerformHandover` fails its assertion that the secondary cell has not changed
  (4463). TLC finds this with three UEs, two cells, one preamble, mode `THRESHOLD`
  and `ScheduledHandoversAreLive` without `FewUes`.
* An SN STATUS TRANSFER that is slower than the rest of its handover and the whole
  next one stops the simulator (`lte-enb-rrc.cc:5690`, section 2).
* A part of a command may be executed as another command (`xapp.cc:241`, 252). It can
  name a vehicle or a cell nobody meant; the anchor ignores an IMSI it does not know.
* After a handover that ends an outage (`HandoverFromLte`) the UE's LTE RRC rebuilds
  its RLCs (`DoNotifySecondaryCellHandover`, `lte-ue-rrc.cc:1992-2113`), but nothing
  tells its PDCP to switch the uplink back; it stays on LTE until a later outage and
  return. `UplinkLeavesMmWaveInOutage` therefore says one direction only.
* A control opens its target one statement before it tests whether it is open
  (`lte-enb-rrc.cc:4583`), so a taken RSU is never refused to the RIC.
* A control that names the UE's current cell passes the anchor and stops the
  simulator at X2 (`lte-enb-rrc.cc:4592`); so does the failure notice of the joining
  timeout, a procedure the coordinator's X2 does not support (`epc-x2.cc:592`), and a
  rejection that comes after the UE has been switched to LTE (`lte-enb-rrc.cc:1401`).
  `FailuresAreSurvived` and `LateMessagesMeetNoStranger` say that, but for a late
  SN STATUS TRANSFER, nothing else does.
* In a time-to-trigger mode a control while an event is pending makes
  `PerformHandover` fail its assertion (`lte-enb-rrc.cc:4462`). Under the seamless
  modes turning one cell off evicts the UEs of all cells (`lte-enb-rrc.cc:6392`).
* Two commands that one `recv` returns are both lost (`xapp.cc:252`); two overlapping calls of `xapp_rmr_send` can send a command
  twice, to another gNB, or end the process (`xapp_rmr.cc:96`).

## 7. Not modelled

* The larger part of the repository is vendored ns-3 (and its mmWave and LTE
  models of channel, PHY, MAC and scheduling) and generated ASN.1 code: nine tenths
  of the lines, none of it the framework's own control logic. The event
  scheduler appears as interleaving and fairness.
* RRC connection establishment on LTE, re-establishment (not implemented), inter-RAT
  handover, bearers and measurement reconfiguration: they do not interact with a
  secondary-cell handover after start-up. In the RSU and the UE initial access is
  left out; the anchor's side of it is in `AutomaticHandover`.
* Packets of the data plane, measurement values, KPM encoding, ASN.1 and log
  files: no property depends on them. Learning is numerical; its output is an
  arbitrary decision.
* A control for a cell or a UE that does not exist: the anchor ignores an unknown
  IMSI, and the agent proposes only RSUs of the scenario (`AgentTypeCorrect`). A
  command that `recv` has cut may name such a cell; what the anchor does with it is
  not modelled.
* The control files of the E2 handler other than handover and energy saving (they
  set one attribute), the mode in which a file is scheduled as a whole at start, and
  the QoS branch, which ends the simulator.
* In the send path of the connector, a buffer set to `NULL` by the other thread between
  the test and the header's writes.
* In the connector: several agents and the map from gNBs to agents, the control port
  with its terminate request, A1 policies and health checks (constant replies), and
  what happens after the process has ended.
