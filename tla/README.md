# A TLA+ model of RUF

RUF is a receiver-driven transport for data-centre networks.  The repository
holds two programs: a **prototype** on DPDK (`src/prototype/src`, C) and a
packet-level **simulator** (`src/simulator`, C++) that compares RUF ("ranking")
with pHost, PIM, Fastpass, pFabric, DCTCP and others.  This directory models
their protocol logic in TLA+, checks it with TLC on small instances, and proves
most of its safety with TLAPS.

    tlc -workers 2 -config MCRtpReceiver.cfg MCRtpReceiver.tla
    tlapm RtpShortFlow_proofs.tla

`PROJECT.json` lists the components, the runs, a faulty variant per property
(`Mut...` operators, each a plausible bug that the property catches), the source
lines behind each definition, the findings, the hazards and the theorems.

## 1. Inventory

### Prototype (`src/prototype/src`)

| part | state | operations | modelled in |
|---|---|---|---|
| sender (`rtp_host.c` 29-154, 374-470, 679-738) | `tx_flow_table`, `finished_flow`, `short_flow_token_q`, `long_flow_token_q` | `rtp_new_flow_comes`, `rtp_receive_token`, `rtp_receive_ack` | RtpShortFlow; for long flows folded into `inFlight` of RtpReceiver |
| pacer (`rtp_pacer.c`) | token queues, `temp_pkt_buffer`, byte budget | one data packet per token, one token at a time | RtpShortFlow, without the byte budget |
| receiver, short flows (`rtp_host.c` 156-206, 239-346; `rtp_flow.c` 205-268) | `rx_flow_table`, bitmap, two timers | RTS, data, redundancy control, finish timer | RtpShortFlow |
| receiver, long flows (`rtp_host.c` 208-372, 512-677; `rtp_flow.c`) | `gosrc_info`, flows with token counters, `idle_timeout`, `send_token_evt_timer`, `send_listsrc_timer` | RTS, GOSRC, data, batches of tokens, idle timer, listsrc | RtpReceiver |
| controller (`rtp_host.c` 741-830, `pq.c`) | sorted request list, `sender_state`, `receiver_state` | `rtp_receive_listsrc`, `handle_requests` | RtpController, RtpSystem |
| main loops (`main.c`) | which lcore polls what | | how actions are split, below |
| flow generation, wrappers, headers (`flow.c`, `ds.c`, `config.c`, `header.c`) | | | not modelled (`ip_to_id` is) |

How the parts interact.  A sender announces a flow by an RTS.  A *short* flow
(at most `small_flow_thre` packets) is sent at once by tokens its sender gives
itself; its receiver only repairs losses.  A *long* flow waits for tokens.  The
receiver sends the list of its sources (listsrc) to the controller, which
answers with a grant for one source (GOSRC) and holds source and receiver busy
until an NRTS, carried by a later listsrc, gives the grant back.  Lcores share
state: lcore 1 runs the receiver's handlers and timers, lcore 5 builds listsrc
packets on a timer that lcore 1 resets while it may be running, lcore 3 paces
tokens.  Nothing sent is acknowledged but a complete flow.

What makes each part correct.  Short flows: an ACK means complete delivery, a
flow is counted once, timers do not outlive their flow, every flow ends.
Receiver: no `rte_exit`, one grant at a time, tokens only under the grant, no
hole is passed over, it never falls silent.  Controller: a sender and a receiver
are in one pair at a time, the smallest feasible request first.

### Simulator (`src/simulator`)

| part | state and operations | modelled in |
|---|---|---|
| Flow, PFabricFlow (`coresim/flow.cpp`, `ext/pfabricflow.cpp`) | window, cumulative ACKs with a SACK count, timer | TcpFlow |
| RUF receiver (`ext/rankinghost.cpp`, `ext/rankingflow.cpp`) | `gosrc_info`, one token event for short and long flows, wake-up event, `hold_on` | RankingHost |
| RUF arbiter (`ext/rankinghost.cpp` 716-800) | `src_state`, `dst_state`, `pending_q` | in RankingHost as one receiver sees it |
| RUF sender (`ext/rankinghost.cpp` 174-252, `rankingflow.cpp`) | tokens with expiry, `host_proc_event` | HostPort; folded into `inFlight` of RankingHost |
| events and queues (`coresim/event.cpp`, `queue.cpp`, `ext/pfabricqueue.cpp`) | `packets`, `packet_transmitting`, `queue_proc_event`; enqueue, dequeue, drop, preempt | HostPort; loss and delay elsewhere |
| pHost (`ext/capability*.cpp`) | capabilities with expiry, gap window, `capability_goal`, `capa_proc_evt`, `hold_on` | PHost |
| PIM matching (`ext/pimhost.cpp`, `PimEpoch`) | `match_sender`, `match_receiver`, queues of requests and grants; request, grant, accept per iteration | PimMatching |
| PIM transfer (`ext/pimhost.cpp`, `send`; `ext/pimflow.cpp`) | ACKs per packet, gap window, `host_proc_event` | PimFlow |
| Fastpass (`ext/fastpass*.cpp`) | schedule of an epoch | planned, last |
| TCPFlow (handshake), DCTCP (ECN) | variants of Flow | not modelled |
| Fountain, Magic, Ideal | baselines with global knowledge | not modelled |
| topology, packets, factory, parameters, statistics, workloads, scripts | wiring, parsing, printing | not modelled |

The simulator has one thread and one event queue, so an event is one atomic
action; what is hard there is the order of events: packets are sprayed over
several paths and dropped by full queues, and several handlers cancel and set
again the same event.

What makes each part correct.  The port: a packet is in one place, whatever is
preempted or dropped.  A host: its one processing event is never lost while it
has something to send, and it puts one data packet at a time into its queue.  A
receiver (RUF, pHost): its one token event is never lost while a flow is
incomplete, and no packet is passed over.  The RUF arbiter: one grant for a
receiver.  PIM: the two ends of a match agree, and an undisturbed epoch ends with
a maximal matching.  All of them: an ACK, or the end of a flow, means that all of
it was received.

## 2. Modules

| module | what it is |
|---|---|
| `RtpShortFlow` | short flows end to end: sender, pacer, network, receiver |
| `RtpShortFlow_proofs` | TLAPS proofs about it |
| `GrantLease` | abstract specification: the controller and a receiver keep one grant at a time; RtpReceiver and RtpSystem implement it, RankingHost does but for one step |
| `RtpReceiver` | receiver of long flows with lcores 1 and 5, the network and what the controller shows; implements `GrantLease` by the mapping `lease <- Lease` |
| `RtpReceiver_proofs` | TLAPS proofs about it |
| `RtpController` | the controller; its operations are composed by |
| `RtpSystem` | the controller with several receivers, each one as `GrantLease` shows it |
| `RtpSystem_proofs` | TLAPS proofs about it |
| `TcpFlow` | the simulator's Flow, both ends and the network |
| `TcpFlow_proofs` | TLAPS proofs about it |
| `RankingHost` | the simulator's RUF receiver with its two kinds of flows |
| `RankingHost_proofs` | TLAPS proofs about it |
| `HostPort` | the simulator's RUF sender and the output queue it shares with control packets |
| `HostPort_proofs` | TLAPS proofs about it |
| `PHost` | the simulator's pHost, both ends and the network |
| `PHost_proofs` | TLAPS proofs about it |
| `PimHosts` | PIM: the hosts and flows that the next two share |
| `PimMatching` | PIM: the epochs of all hosts |
| `PimFlow` | PIM: the flows of senders whose matches come and go |
| `Pim_proofs` | TLAPS proofs about both, and about the receiver a sender has in either |
| `MC...` | instances for TLC |

Correspondence with the code.  Variables have the names of the fields, in camel
case; actions those of the handlers.  A variable that stands for a network holds
the packets in flight; as it is a set, packets are reordered, and `Lose...` and
`Drop` actions remove them.  History variables: `delivered` (RtpShortFlow),
`asked` (RtpReceiver, PHost), `sent` (PimFlow), `sent`, `left` and `dropped` (HostPort),
`lost` and `calm` (PimMatching), `ackDropped` (TcpFlow; the code counts `ack_pkt_drop`).
`exit` and `failed` record a call of `rte_exit` and a failed `assert`.

Where atomic steps are split.  RtpReceiver: a handler of lcore 1 is one step,
except `send_token_evt_handler`, which is split at each round of its loop
(`EvtStart`, `EvtToken`, `EvtEnd`); `send_listsrc` of lcore 5 is split where it
has read `nrts_src_addr` and not yet stopped its timer (`SendListsrcStart`,
`SendListsrcEnd`).  RtpController: `handle_requests` is a step per request, since
its GOSRC packets leave one by one.  The simulator's events are not split.  In
PimMatching the events of one kind of all hosts are one step: the hosts start
their epochs together and compute the same times, and a packet takes longer than an
instant.  In HostPort a queue event of the present instant (`qpe = "now"`) comes
before host events, as the simulator breaks ties by time and type.

Abstractions.  Time: an armed timer may fire at any step, so that every race of
a timer with a late packet is included.  A token and the data packet it buys are
one entry of `inFlight` in RtpReceiver and RankingHost: what lies between (token
queue, pacer, token expiry, sender, both directions of the network) delivers it
in any order or never.  In PHost a
capability and the packet it buys are one item too, but the way it goes is kept:
network, sender, network.  Token and packet numbers that the code uses for a
window only are kept relative to the counter, as ages.  Comparators that order
flows are left open wherever no property is about the order; in RankingHost's sender
(HostPort) they have to be, as `receive_token` changes the sort key of a flow inside the heap.  Ring capacities are not modelled, but for
`temp_pkt_buffer`; byte budgets, rates and priorities are timing.

## 3. Runs

Distinct states are those of the instance in the `.cfg`.

| run | instance | states | shows |
|---|---|---|---|
| short_flow | a flow of 1 packet that may lose tokens and data, one of 2 that may lose anything, `temp_pkt_buffer` of 1 | 269 991 | `AckedIsDelivered`, `CountedOnce`, `TimersMatchRecord`, `EveryFlowCompletes` |
| receiver | flows of 2 and 1 packets of two sources, or a flow of 3 on its own; control packets lossy | 1 233 476 | `NoExit`, `TokensUnderGrant`, `TokenSeqsIssuedOnce`, `FullRoundBeforeRdCtrl`, `NeverSilent`, and that `GrantLease` is implemented (`OneGrantAtATime`) |
| system | two receivers, two senders, flows of three sizes, a queue of 3 | 406 285 | `ReceiverExclusive`, `SenderExclusive`, `SmallestFirst`, and that `GrantLease` is implemented for each receiver (`EachHasOneGrant`) |
| tcp_flow | one flow of 3, window up to 3 | 4 449 | `AckedIsReceived`, `RecvTillIsFirstHole`, `TimerUntilFinished`, `FlowFinishes` |
| ranking | any two of three long flows of 2 packets from two sources and a short flow of 1 | 757 715 | `NoAssertFails`, `OneGrant`, `NeverSilent`, `ShortFlowsServed`, and that a grant goes as in `GrantLease` unless the end of a flow forgets it (`ReturnedOrForgotten`) |
| phost | a long flow of 2 packets and a short one of 1 between two hosts, everything lossy | 1 514 669 | `AckedIsReceived`, `ReceiverAwake`, `SenderAwake`, `FullRoundBeforeRdCtrl` |
| pim_matching | two senders, two receivers, flows for three of the four pairs, two iterations an epoch | 1 451 123 | `MatchAgreed`, `ClaimIsSettled`, `TakenBackWasAccepted`, `CalmEpochMatches` |
| pim_flow | a large flow of 2 packets and a short one of 1, data and ACKs lossy | 374 892 | `AckedIsReceived`, `NeverSilent`, `FullRoundBeforeRest` |
| host_port | a short and a long flow to send, a flow to receive, three queue types with and without preemption, room for one data and one control packet | 363 855 | `OneDataPacket`, `EachPacketOnce`, `TokensSpent` |

The runs of RtpReceiver, TcpFlow and HostPort also check `TypeOK`; that of every
module is part of its proved invariant.  The other three runs end with a
violation; they are the findings of section 5.

Why the bounds are enough.  Two packets give a first and a last one, a hole and
its repair, a packet that arrives late and twice; three give a hole in the middle
and a round that wraps.  Two flows give the contention for the buffer, for the
grant and for the token event; the third long flow of `ranking` makes both pairs
of one source and pairs of two sources appear (`MaxFlows` bounds how many start).
Two receivers and two senders give every conflict of a matching: two
requests for one receiver, two grants for one sender, and an accept that is taken
back; as many iterations as receivers are enough for a maximal matching.  Three
requests are needed to tell a sorted insertion from an unsorted one.  A queue with
room for a data and a control packet is full when the third packet comes, so that each way of
dropping occurs, and a preempted packet may find no room.  `Together` of
`RtpReceiver` says which flows may live at the same time: two flows contend for the
grant, three packets on their own make rounds that wrap.  `MaxTokenCount` lets
the flow of three in `receiver` go round once more for what was lost; `MaxRound = 2` lets a late packet of an
earlier grant meet a later one; `MaxInFlight` and `MaxLists` limit how many packets
are in the air when another is sent.  Each bound is a guard of the action that would
exceed it; in PHost and PimFlow a packet beyond `MaxItems` is dropped, which the
network may do anyhow.  `MaxMsgs` lets one packet of an epoch reach the next.
`RingCountZero`, `Lossy` and `LosesControl` select the cases that the
code or the network may produce.  `MCRankingHost` uses the symmetry of two flows
that have the same source and size.  Deadlock is checked for the system runs; in
the others a state with all flows over, or all tokens of the bound used, is an
end.

Fairness.  `RtpShortFlow!Fairness` is weak for handlers and timers, since poll
loops run every handler with work and `rte_timer_manage` every expired timer; it
is strong for the arrival of a data packet or token, because the network may
drop one copy but not all of the copies that are sent again.  No fairness is
put on `NewFlow`: nothing makes flows arrive.  It covers the flows of
`Announced`, whose RTS and ACK are not lost, as nothing in the code sends those
again (a hazard without property); the other flow of the run loses them and must not
keep the first from completing.  `HostPort!Spec` is weakly fair to the queue's and the
host's events: `run_scenario` processes every event of the heap, and these are in it
whenever `qpe` and `hostEvt` say so.
`TcpFlow!Fairness` is weak for the timer and strong for each packet and each
cumulative ACK number, for the same reasons; it makes no assumption about drops.
The other specifications are checked for safety only.

## 4. What is proved

`RtpShortFlow_proofs` proves for **every** set of flows, sizes, buffer capacity
and sets of lossy kinds of each flow: `TypeCorrect`, `AckedDelivered`, `FinishedCountedOnce` and
`TimersSafe`, all from `IInvInvariant`.  The assumptions are those named in the
module: flows are finitely many, sizes are between 1 and `SmallFlowThre`, the
buffer holds a packet.

The argument.  None of the properties is inductive.  `received_count` is what the
code compares with the size, so `AckedIsDelivered` needs that it is the number of
bits set (`RecordIsDelivered`), whatever packets arrive twice.  A record is freed
by the finish timer while data is still in flight, so it also needs that a flow
lives once (`OneLife`): nothing of a flow is in flight before it is announced, an
RTS in flight means no record and nothing delivered, and an ACK means the record
is not open.  `IInv` is the conjunction; the proof has one lemma per action (`NewFlowStep`,
`ReceiveRtsStep`, ...), one for the step that adds packets to a record
(`AcceptStep`), shared by three actions, and one for all actions that touch only
tokens (`QuietStep`).  `RecordCounts` and `PacketsFinite` are the facts about
cardinalities behind them.

`TcpFlow_proofs` proves for **every** `Size`, `InitialCwnd` and `MaxCwnd`
(`SizeAssumption`, `CwndAssumption`): `TypeCorrect`, `AckedReceived`, `FirstHole`
and `TimerSet`, again from one `IInvInvariant`.

The argument.  The loop of `receive` that moves `recv_till` stops at
`max_seq_no_recv`, so it leaves `recv_till` at a hole only if no packet is
received above that bound and the first hole is at most one packet above it
(`HoleAboveHighest`); `AdvanceFindsHole` then follows from the least-number
principle.  `AckedReceived` follows because an ACK carries a `recv_till` that never
moves back over a packet missing, and a flow finishes when the number of
packets received is its size, which by `PacketSets` is when none is missing.
`TimerSet` needs that a timer not set means nothing was ever sent
(`TimerWhenSent`), or else a late ACK could find the flow without one.
`SendPendingDataStep` and `GrowCwndStep` are shared by the actions that call these
two functions.

`Pim_proofs` proves for **every** set of flows and hosts, every `IterLimit`
and any loss (`HostsAssumption`, `LimitAssumption`, `NullAssumption`): `MatchesAgree`,
`ClaimsSettled` and `GrantsRAssertion`, from the `IInvInvariant` of PimMatching;
`EnoughIterationsMatch`, from `CalmInvariant`; `AckedWereReceived`,
`SendersStayAwake` and `RestAfterFullRound`, from the `FlowInvariant` of PimFlow; and
`ReceiversChangeAsInPimFlow`, between the two modules.

The argument, agreement.  That a receiver's sender still counts on it could fail in two ways: an
accept arrives after its sender has turned to another receiver, or a GrantsR undoes a match
other than the one it answers.  Both are excluded by `OneSettlement`: of one sender at
most one accept or GrantsR of this epoch is on its way, the sender counts on its other
end, and that end does not have the sender.  A new accept keeps this because a
sender accepts only while it has no receiver (`OwnGrants` says that the grants it
chooses from are its own), a GrantsR because it takes the place of the accept it
answers.  `SenderIterStep`, `ReceiveAcceptStep`, `ReceiveGrantsRStep`, `DropStep` and
`NewEpochStep` are the actions that touch this, `QuietStep` stands for all others.

The argument, maximality.  The theorem assumes what it needs of `IterLimit`: at least the
number of receivers, or of senders.  `CalmIInv` says what an undisturbed epoch has
done so far.  `PacketsInTime`: no packet outlives the half of an iteration it was sent in,
accepts excepted.  `AllAsked`: when receivers choose, each of them that some flow could still be matched
with was asked.  `OneGrantEach`: when senders choose, every grant is of such a
flow, from different receivers, and there is at least one if there is such a flow.
`OneClaim`: no receiver is claimed twice.  So each iteration adds a claim
(`MatchPerIteration`), claims are of different receivers by different senders, and after
`IterLimit` iterations a flow that could still be matched would make them more than there
are.  No induction is left: the count of iterations is in the state.

The argument, flows.  A flow rests when `get_next_data_seq_num` has gone round; that each packet not
acknowledged was sent by then is `RoundConsistent`, as in RtpReceiver but from the sender's
side: packets leave the round by an ACK, too.  `AckedWereReceived` needs that an ACK on its way is
true (`AcksTrue`).  `SendersStayAwake` is part of the invariant as it is: every handler
that finds the event unset and a flow to send sets it.

PimFlow lets matches come and go freely: a sender without receiver gets one,
a sender with one loses it.  `MatchOrUnmatch` says that the epochs of PimMatching
do nothing else, in particular that no sender goes from one receiver to another in a
step, so the freedom is an abstraction of the real matchings.

`RtpReceiver_proofs` proves for **every** set of flows, sizes, sources (none of them
0, which stands for no source), batch size, numbers of tokens in a grant and gap of the NRTS: `TypeCorrect`,
`ChecksNeverFail`, `TokensOnlyUnderGrant`, `SeqsIssuedOnce`, `FullRound`,
`SilenceIsMisread`, and `ImplementsGrantLease`, the refinement of the abstract
specification.

The argument.  `IInv` has three parts that different actions disturb.  Flows: no
packet is missing below `received_until`, and a round of tokens either has asked for
all that is missing up to the last token, or the next token wraps around
(`RoundConsistent`); redundancy control starts when both are so, which is
`FullRoundBeforeRdCtrl`.  The grant on lcore 1: between two batches the timer is armed and tokens
remain, the idle timer does not run under a grant in use, and after the NRTS it does (`GrantAtWork`);
these are the conditions of the `rte_exit` calls, so `NoExit` follows, and so does
that something always wakes the receiver.  The claims on the grant: a GOSRC on
its way, a grant held, an NRTS that waits for lcore 5 and an NRTS on its way exclude
one another, and the controller is busy while there is one (`ExclusiveClaims`);
this is what makes `Lease` never `"broken"`.  For the refinement, a step that keeps
the claims is a stutter, and each of the others is one step of `GrantLease`
(`GrantArrives`, `SendListsrcEndClaims`, `CtlReceiveClaims`, `CtlHandleClaims`,
`LoseControlClaims`).  That `send_listsrc` is split on lcore 5 while lcore 1 goes on is
part of what is proved.

`RtpSystem_proofs` proves for **every** finite set of hosts, roles among them,
requests and sizes: `ReceiversExclusive`, `SendersExclusive` (but for host 0, see
section 5), the action property `SmallestServedFirst`, and `ImplementsGrantLease`.

The argument.  A host that is down as free could have a grant on its way or an NRTS
that will free it again; `ReceiverBusy` and `SenderBusy` say that it has
neither, that of the three places of a grant (packet, lease, NRTS) it is in one, and
that it is there once.  They are stated with quantifiers in place of the cardinalities
of the properties; a cardinality lemma connects the two.  The grant moves from one place
to the next in `LeaseReplacesGrant`, `ReturnReplacesLease` and `ReturnReplacesGrant`
(a grant refused), and begins in `GrantIsExclusive`.
`SmallestServedFirst` needs the queue to be ordered: `PushKeepsOrder` shows it of one
insertion, `PushAllKeepsOrder` of the loop over the requests of a packet, by the
least-number principle.
`ImplementsGrantLease` maps the grant of each receiver (`LeaseOf`) to GrantLease: a lemma
per action says that the receiver it names makes the step of GrantLease and that all
others stutter; `OnePlace`, from `ReceiverBusy`, is why the mapping never skips a
state.

`RankingHost_proofs` proves for **every** set of flows, sizes, sources and token
windows: `AssertionsHold`, `GrantExclusive`, `SilenceMeansForgotten`,
`ShortFlowsKeepTheirEvent` and `AlmostImplementsGrantLease`.

The argument.  One token event serves short flows and the grant; handlers cancel and set it
again.  `GrantInUse` says that a grant in use has a flow of its source that wants
tokens, that the event is set, and that the list of sources is not being
repeated; `ListRepeated` that it is repeated before the first grant and after a
return.  `TokensCounted` bounds the tokens in flight by those counted, without
which a late packet could make the assertions about the token gap fail.  A grant that ends
with its flow before it was given back leaves neither a grant nor a repeated list: this is
the case `GrantForgotten`, finding 3, and the proof shows it is the only one.
`AlmostImplementsGrantLease` says the same of the grant: every step is one of
GrantLease, or `Forget`, the end of a long flow under a grant in use
(`FinishLongLease`).  The last token of a grant, which resets it too, is no such
case: it always gives the grant back (`EndOfGrantLease`).

`HostPort_proofs` proves for **every** set of flows, sizes, each of the queue types with
and without preemption, and each limit that has room for a data packet: `TypeCorrect`,
`OneDataAtATime` and `PacketsInOnePlace`.  `TokenAssumption` leaves out
`token_initial = 1`, for which the loop that computes a priority does not end.

The argument.  A host sends data only when the queue is idle, so that its queue holds
no data packet then; preemption puts one back and dropping takes one out, hence the
invariant is about the queue and the wire together (`OneData`), about when the queue's
event is set (`EventInStep`), and about the four places of a packet (`OnePlace`).
That a packet put in is a new one needs that tokens are used in
order (`TokensInOrder`, `NumbersUsed`).  The lemmas `DroptailOK`, `PfabricOK`,
`DequeIndexOK` say what each type of queue keeps or drops; `BytesOfAppended`
and `BytesOfRemoved` count its bytes; the actions of the host use only `PutStep`
and `QueueProcessingStep`.

`PHost_proofs` proves for **every** finite set of flows between any hosts, sizes,
windows and lossy kinds: `TypeCorrect`, `AckMeansReceived`, `ReceiverStaysAwake`,
`SenderStaysAwake` and `FullRound`.

The argument.  A flow is finished when `received_count` reaches its size, so it has to
be the number of packets received (`CountIsReceived`).  Redundancy control starts when
`capability_goal` is used up; that all that is missing has been asked for by then needs
that the goal covers what was not asked for (`GoalCoversUnasked`), and that the next
capability is for such a packet as long as there is one (`UnaskedComeFirst`: from the
last packet asked for on and around, they come before the others).  These are facts
about the record of one flow, with a lemma for each operator that changes a record.
`FinishedIsClosed` says that nothing is left in the network that could open a flow again
whose end the sender knows.

The bounds of the models (`Max...`) are constants too, so what is proved holds for each
value of them, and every finite run of the program stays below some.

Only model-checked:

- liveness (`EveryFlowCompletes`, `FlowFinishes`, `TokensSpent`), which needs ENABLED;
- the violations of section 5, which are counterexamples.

## 5. Findings

1. `short_flow_thre`: `rd_ctrl_timeout_handler` tests `size_in_pkt <
   small_flow_thre` (`rtp_flow.c:235`), every other place `<=`.  A flow of exactly the
   threshold that loses a packet is repaired by neither scheme.
2. `system_nrts`: `send_token_evt_handler` clears `gosrc_info` before it reads the
   source address for the NRTS (`rtp_host.c:580`).  The NRTS frees host 0, and the
   granted source is never freed.  This is why `SenderExclusive` leaves out host 0.
3. `ranking_finish`: `flow_finish_at_receiver` resets the grant of the current
   round although it was not given back (`rankinghost.cpp:344-346`); the arbiter keeps
   the pair busy.  `NeverSilent` of RankingHost names this case, `GrantForgotten`.

Worth knowing, and part of the models:

- a lost GOSRC or NRTS leaves its pair busy for good in both programs (`lost` in
  `GrantLease`), as neither has a timeout for grants;
- after dropped ACKs of received data, `Flow::handle_timeout` sends nothing for
  ever, since `send_pending_data` looks into the receiver's record (`flow.cpp:67,
  75`): `FlowFinishes` has the exception `ackDropped`, and fails without it;
- an RTS of RUF or pHost is sent once, as is the ACK of a complete flow in RUF: a
  long flow that loses it does not complete, so no liveness is stated for it;
- `RankingHost::receive_token` changes what orders a flow while the flow is in the heap
  `active_sending_flows`, so the heap may hand out another flow than the comparator
  says; no property of HostPort depends on it;
- in PIM a sender may believe in a receiver that has another sender until a GrantsR
  tells it, and for the rest of the epoch if that is lost (`ClaimIsSettled`).

## 6. Plan

Done: RtpShortFlow, RtpReceiver with GrantLease, RtpController and RtpSystem, TcpFlow,
RankingHost, HostPort, PHost, PimMatching and PimFlow; every safety property that a
run checks is a theorem.  In this order, next:

1. **RankingHost composed**: the arbiter with several hosts (`src_state`,
   `dst_state`, the ranking of `pending_q`), as RtpSystem does for the prototype.
2. **Fastpass**: the arbiter's schedule of an epoch; a host sends only in its slots.

The number of runs is kept small: instances that ask the same question are merged as
modules are added.

## 7. Not modelled

- Timing and rates: pacing, `update_time_byte`, link speeds; priorities of packets
  but for the port of HostPort.
- The concurrent use of `rx_flow_table` by several lcores without the flag that would
  allow it (undefined inside the library), and the reuse of a freed flow's memory
  (`gosrc_info.current_flow` keeps pointing at it; the model keeps the old contents).
- Ring capacities, but for `temp_pkt_buffer`.
- Cut-through together with preemption: the next hop gets a packet before its
  transmission ends, and preemption would send it again.  No configuration in the
  repository turns on both.  The ECN marking of the DCTCP queue.
- The simulator's arbiter with several receivers; RankingHost has what it shows one.
- Fastpass: its RTS and schedule packets are never repeated, `arbiter_proc_evt` is
  read before it is set, and the test of `start_time` is reversed; a model has to
  leave all of that open.
- TCP's handshake, Fountain, Magic and Ideal flows, workloads, parameters,
  statistics and scripts: parsing, printing, or no protocol between hosts.
