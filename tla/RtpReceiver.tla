----------------------------- MODULE RtpReceiver -----------------------------
(***************************************************************************)
(* One receiver of the RUF prototype and its long flows, the flows of more *)
(* than small_flow_thre packets (src/prototype/src/rtp_host.c, rtp_flow.c).*)
(*                                                                         *)
(* The receiver tells the controller which sources it has flows from       *)
(* (listsrc); the controller grants it one source (GOSRC); under the grant *)
(* send_token_evt_handler sends tokens for the flows of that source in     *)
(* batches and gives the grant back by a listsrc that carries an NRTS,     *)
(* early, so that the next grant arrives as the last tokens are sent.      *)
(*                                                                         *)
(* lcore 1 runs the packet handlers and the timers idle_timeout,           *)
(* send_token_evt_timer, rd_ctrl_timeout and finish_timeout.  Building a   *)
(* listsrc is handed to lcore 5 through send_listsrc_timer, which lcore 1  *)
(* resets while lcore 5 may be running it.  send_token_evt_handler is      *)
(* split at its loop (job), so that lcore 5, the network and the           *)
(* controller act in its middle; no other handler of lcore 1 does.         *)
(*                                                                         *)
(* Abstractions: a token, from long_flow_token_q to the data packet it     *)
(* buys, is one entry of inFlight (pacers, the sender and the network in   *)
(* between deliver it in any order or never); received_count is the number *)
(* of bits set; which of the flows of a source rtp_flow_compare prefers is *)
(* left open; what the controller does with other receivers shows only as  *)
(* requests it discards; an armed timer may fire at any time.              *)
(* Operators named Mut... are faulty variants of the operator after them.  *)
(***************************************************************************)
EXTENDS Integers, FiniteSets, FiniteSetsExt

CONSTANTS
  Flows,           \* ids of the long flows of this receiver
  Size,            \* their sizes in packets (size_in_pkt)
  Src,             \* the address of their sender (src_addr), 0 is no address
  BatchTokens,     \* params.batch_tokens
  GrantTokens,     \* values of max_tokens the controller chooses from
  NrtsGap,         \* control_epoch * BDP plus the control RTT, in packets
  RingCountZero,   \* may rte_ring_count of the hash table rx_flow_table be 0?
  LosesControl,    \* may the network lose listsrc and GOSRC packets?
  Together,        \* bound: the sets of flows that may share a behaviour
  MaxTokenCount,   \* bound: tokens of each flow
  NoFlow           \* NULL

ASSUME SizeAssumption == Size \in [Flows -> Nat \ {0}]
ASSUME SrcAssumption == Src \in [Flows -> Nat \ {0}]
ASSUME BatchAssumption == BatchTokens \in Nat \ {0}
ASSUME GrantAssumption == GrantTokens \subseteq Nat \ {0}
ASSUME GapAssumption == NrtsGap \in Nat
ASSUME BoundAssumption == /\ Together \subseteq SUBSET Flows
                          /\ MaxTokenCount \in [Flows -> Nat]
ASSUME RingAssumption == RingCountZero \subseteq BOOLEAN /\ RingCountZero # {}
ASSUME ControlAssumption == LosesControl \in BOOLEAN
ASSUME NoFlowAssumption == NoFlow \notin Flows

VARIABLES
  rx,         \* rx_flow_table: the state of every flow; asked is a history of
              \* the packets tokens were sent for since redundancy control
  gosrc,      \* gosrc_info
  idle,       \* idle_timeout: none, armed, stopped with params allocated, or
              \* misread: not armed as rte_ring_count said 0
  evt,        \* is send_token_evt_timer armed?
  job,        \* send_token_evt_handler in its loop
  exit,       \* has rte_exit been called?
  lst,        \* send_listsrc_timer and the nrts_src_addr of its argument
  inFlight,   \* tokens and the data packets they buy
  listsrc,    \* listsrc packets on their way to the controller
  grants,     \* GOSRC packets on their way to the receiver
  ctl         \* the controller's view of this receiver

lcore1Vars == <<rx, gosrc, idle, evt, job, exit>>
netVars == <<inFlight, listsrc, grants, ctl>>
vars == <<lcore1Vars, lst, netVars>>

Packets(f) == 0..Size[f] - 1
Srcs == {Src[f] : f \in Flows}
NoNrts == -1

(* A flow before its RTS, and after finish_timeout_handler freed it. *)
NewFlow == [st |-> "new", got |-> {}, until |-> 0, last |-> -1, tokens |-> 0,
            largest |-> -1, rdCtrl |-> FALSE, asked |-> {}]
GoneFlow == [NewFlow EXCEPT !.st = "gone"]

FlowState == [st : {"new", "open", "finished", "gone"}, got : SUBSET Nat,
              until : Nat, last : Int, tokens : Nat, largest : Int,
              rdCtrl : BOOLEAN, asked : SUBSET Nat]

NoJob == [on |-> FALSE, flow |-> NoFlow, left |-> 0, rdSet |-> FALSE]

(* "No source" as -1, as init_gosrc does for the tokens. *)
MutResetGosrc(g) == [g EXCEPT !.has = FALSE, !.src = -1, !.remain = -1, !.cur = NoFlow]

(* reset_gosrc: send_nrts and the round stay. *)
ResetGosrc(g) == [g EXCEPT !.has = FALSE, !.src = 0, !.remain = -1, !.cur = NoFlow]

TypeOK ==
  /\ rx \in [Flows -> FlowState]
  /\ gosrc \in [has : BOOLEAN, sendNrts : BOOLEAN, src : Nat, remain : Int,
                cur : Flows \cup {NoFlow}]
  /\ idle \in {"none", "armed", "stopped", "misread"}
  /\ evt \in BOOLEAN
  /\ job \in [on : BOOLEAN, flow : Flows \cup {NoFlow}, left : Nat, rdSet : BOOLEAN]
  /\ exit \in BOOLEAN
  /\ lst \in [st : {"stop", "pending", "running"}, nrts : Nat \cup {NoNrts}]
  /\ inFlight \subseteq [flow : Flows, seq : Nat, tok : Nat]
  /\ listsrc \subseteq [nrts : Nat \cup {NoNrts}, srcs : SUBSET Srcs]
  /\ grants \subseteq [src : Srcs, tokens : GrantTokens]
  /\ ctl \in [busy : BOOLEAN, asked : SUBSET Srcs]

-----------------------------------------------------------------------------
(* One flow (rtp_flow.c) *)

Open(f) == rx[f].st = "open"

(* rtp_remaining_pkts *)
RemainingPkts(f) == Size[f] - Cardinality(rx[f].got)

(* rtp_token_gap: tokens sent and not known to be used. *)
TokenGap(f) == rx[f].tokens - rx[f].largest - 1

(* rtp_get_next_token_seq_num: the next packet not received, from the one
   after the last token's to the end and then from received_until, in at most
   size_in_pkt steps. *)
MutNextFrom(f, r) == (r.last + 2) % Size[f]
NextFrom(f, r) == (r.last + 1) % Size[f]
Ahead(f, r) == {i \in NextFrom(f, r)..Size[f] - 1 : i \notin r.got}
Wrapped(f, r) == {i \in r.until..Size[f] - 1 :
                    i \notin r.got /\ Size[f] - NextFrom(f, r) + i - r.until < Size[f]}
HasNextToken(f, r) == Ahead(f, r) # {} \/ Wrapped(f, r) # {}
NextTokenSeq(f, r) == IF Ahead(f, r) # {} THEN Min(Ahead(f, r)) ELSE Min(Wrapped(f, r))

(* token_count stays as it is. *)
MutWithToken(r, i) == [r EXCEPT !.last = i, !.asked = @ \cup {i}]

(* rtp_get_token_pkt *)
WithToken(r, i) == [r EXCEPT !.last = i, !.tokens = @ + 1, !.asked = @ \cup {i}]

(* The loop that advances received_until over the bits that are set. *)
Advance(f, from, got) == Min({i \in from..Size[f] : i \notin got})

(* rtp_receive_data of an open flow: record the packet, and finish the flow
   with its last one. *)
Received(f, r, d) ==
  LET got == r.got \cup {d.seq}
      new == [r EXCEPT !.got = got, !.until = Advance(f, @, got),
                       !.largest = IF d.tok > @ THEN d.tok ELSE @]
  IN  IF Cardinality(got) >= Size[f]
      THEN [new EXCEPT !.st = "finished", !.rdCtrl = FALSE]
      ELSE new

(* Any source's flow will do. *)
MutUnfinished(src, state) ==
  {f \in Flows : state[f].st = "open" /\ ~state[f].rdCtrl}

(* get_src_smallest_unfinished_flow *)
Unfinished(src, state) ==
  {f \in Flows : state[f].st = "open" /\ ~state[f].rdCtrl /\ Src[f] = src}
Picks(src, state) ==
  IF Unfinished(src, state) = {} THEN {NoFlow} ELSE Unfinished(src, state)

-----------------------------------------------------------------------------
(* Giving the grant back, and timers shared by the handlers *)

(* send_nrts is forgotten. *)
MutGivenBack(g) == g

GivenBack(g) == [g EXCEPT !.sendNrts = TRUE]

(* rte_timer_reset_sync waits for lcore 5 to leave send_listsrc; a pending
   request is replaced. *)
InvokeNrts(src) ==
  /\ lst.st # "running"
  /\ lst' = [st |-> "pending", nrts |-> src]

(* rte_timer_reset fails while lcore 5 runs send_listsrc, and the request is
   dropped; a pending request is replaced, an NRTS too. *)
InvokeListsrc ==
  lst' = IF lst.st = "running" THEN lst ELSE [st |-> "pending", nrts |-> NoNrts]

HasIdleParams == idle \in {"armed", "stopped"}

(* reset_idle_timeout: no timer if rte_ring_count says 0 -- of a hash. *)
ResetIdleTimeout ==
  \E zero \in RingCountZero :
    idle' = IF ~zero THEN "armed" ELSE IF HasIdleParams THEN idle ELSE "misread"

(* The idle timer is not armed. *)
MutGiveBack(src) == InvokeNrts(src) /\ UNCHANGED idle

(* The NRTS, and the timer that asks again for a grant. *)
GiveBack(src) == InvokeNrts(src) /\ ResetIdleTimeout

-----------------------------------------------------------------------------
(* lcore 1: packet handlers *)

(* rtp_receive_rts: announce the sources at once unless a grant is held. *)
ReceiveRts(f) ==
  /\ ~job.on
  /\ rx[f].st = "new"
  /\ \E s \in Together : {f} \cup {g \in Flows : rx[g].st # "new"} \subseteq s
  /\ rx' = [rx EXCEPT ![f].st = "open"]
  /\ \/ gosrc.has /\ UNCHANGED <<lst, idle>>
     \/ ~gosrc.has /\ InvokeListsrc /\ ResetIdleTimeout
  /\ UNCHANGED <<gosrc, evt, job, exit, netVars>>

(* rtp_receive_gosrc with no flow left from that source: the grant goes back. *)
RefuseGrant(g) ==
  /\ Unfinished(g.src, rx) = {}
  /\ GiveBack(g.src)
  /\ gosrc' = ResetGosrc(gosrc)
  /\ evt' = FALSE

(* The idle timer keeps running under the grant. *)
MutTakeGrant(g) ==
  /\ \E f \in Unfinished(g.src, rx) :
       gosrc' = [has |-> TRUE, sendNrts |-> FALSE, src |-> g.src,
                 remain |-> g.tokens, cur |-> f]
  /\ evt' = TRUE
  /\ UNCHANGED <<idle, lst>>

(* rtp_receive_gosrc with a flow to serve: a new grant replaces what is left
   of the one before, and the idle timer stops. *)
TakeGrant(g) ==
  /\ \E f \in Unfinished(g.src, rx) :
       gosrc' = [has |-> TRUE, sendNrts |-> FALSE, src |-> g.src,
                 remain |-> g.tokens, cur |-> f]
  /\ idle' = "none"
  /\ evt' = TRUE
  /\ UNCHANGED lst

ReceiveGosrc(g) ==
  /\ ~job.on
  /\ g \in grants
  /\ grants' = grants \ {g}
  /\ RefuseGrant(g) \/ TakeGrant(g)
  /\ UNCHANGED <<rx, job, exit, inFlight, listsrc, ctl>>

(* rtp_receive_data: data of a flow that is complete or gone is dropped. *)
ReceiveData(d) ==
  /\ ~job.on
  /\ d \in inFlight
  /\ inFlight' = inFlight \ {d}
  /\ rx' = IF Open(d.flow)
           THEN [rx EXCEPT ![d.flow] = Received(d.flow, @, d)]
           ELSE rx
  /\ UNCHANGED <<gosrc, idle, evt, job, exit, lst, listsrc, grants, ctl>>

-----------------------------------------------------------------------------
(* lcore 1: timers *)

(* rd_ctrl_timeout_handler: a long flow may be given tokens again. *)
RdCtrlTimeout(f) ==
  /\ ~job.on
  /\ rx[f].rdCtrl
  /\ rx' = [rx EXCEPT ![f].rdCtrl = FALSE, ![f].asked = {}]
  /\ UNCHANGED <<gosrc, idle, evt, job, exit, lst, netVars>>

(* finish_timeout_handler: the flow is freed; gosrc.cur may still point at it
   and still reads finished_at_receiver there, as buffers are reused in FIFO
   order out of a large pool. *)
FinishTimeout(f) ==
  /\ ~job.on
  /\ rx[f].st = "finished"
  /\ rx' = [rx EXCEPT ![f] = GoneFlow]
  /\ UNCHANGED <<gosrc, idle, evt, job, exit, lst, netVars>>

(* idle_timeout_handler *)
IdleTimeout ==
  /\ ~job.on
  /\ idle = "armed"
  /\ exit' = (exit \/ (gosrc.has /\ ~gosrc.sendNrts))
  /\ InvokeListsrc
  /\ \E zero \in RingCountZero : idle' = IF zero THEN "stopped" ELSE "armed"
  /\ UNCHANGED <<rx, gosrc, evt, job, netVars>>

(* The flow send_token_evt_handler starts with: current_flow if it still
   wants tokens. *)
Usable(f) == f # NoFlow /\ Open(f) /\ ~rx[f].rdCtrl
StartFlows == IF Usable(gosrc.cur) THEN {gosrc.cur} ELSE Picks(gosrc.src, rx)

(* send_token_evt_handler without a flow to serve: the grant goes back, with
   the source address that reset_gosrc has just cleared... *)
EvtNoFlow ==
  /\ ~gosrc.sendNrts
  /\ gosrc' = ResetGosrc(GivenBack(gosrc))
  /\ GiveBack(gosrc'.src)
  /\ exit' = (exit \/ ~gosrc.has \/ HasIdleParams)

(* ...or has gone back already, and the rest of its tokens is dropped. *)
EvtNothingLeft ==
  /\ gosrc.sendNrts
  /\ exit' = (exit \/ ~gosrc.has)
  /\ UNCHANGED <<gosrc, lst, idle>>

(* send_token_evt_handler, up to its loop. *)
EvtStart ==
  /\ ~job.on
  /\ evt
  /\ evt' = FALSE
  /\ \A f \in Flows : rx[f].tokens + BatchTokens <= MaxTokenCount[f]
  /\ \E f \in StartFlows :
       \/ /\ f = NoFlow
          /\ EvtNoFlow \/ EvtNothingLeft
          /\ UNCHANGED job
       \/ /\ f # NoFlow
          /\ job' = [on |-> TRUE, flow |-> f, rdSet |-> FALSE,
                     left |-> Min({BatchTokens, gosrc.remain})]
          /\ exit' = (exit \/ ~gosrc.has)
          /\ UNCHANGED <<gosrc, lst, idle>>
  /\ UNCHANGED <<rx, netVars>>

(* A round of its loop: one token; after the last missing packet of a flow
   its redundancy control timer is armed and another flow chosen. *)
EvtToken ==
  LET f == job.flow
      i == NextTokenSeq(f, rx[f])
      sent == WithToken(rx[f], i)
      wraps == i >= NextTokenSeq(f, sent)
  IN  /\ job.on
      /\ job.left > 0
      /\ f # NoFlow
      /\ exit' = (exit \/ ~HasNextToken(f, rx[f]) \/ (wraps /\ rx[f].rdCtrl))
      /\ inFlight' = inFlight \cup {[flow |-> f, seq |-> i, tok |-> rx[f].tokens]}
      /\ rx' = [rx EXCEPT ![f] = [sent EXCEPT !.rdCtrl = wraps \/ @]]
      /\ \/ /\ wraps
            /\ \E g \in Picks(gosrc.src, rx') :
                 /\ job' = [on |-> TRUE, flow |-> g, left |-> job.left - 1, rdSet |-> TRUE]
                 /\ gosrc' = [gosrc EXCEPT !.remain = @ - 1, !.cur = g]
         \/ /\ ~wraps
            /\ job' = [job EXCEPT !.left = @ - 1]
            /\ gosrc' = [gosrc EXCEPT !.remain = @ - 1]
      /\ UNCHANGED <<idle, evt, lst, listsrc, grants, ctl>>

(* The end of the grant is near: a flow has all its tokens, or what is left
   of the grant or of the flow lasts no longer than a control round trip. *)
Gap ==
  LET need == RemainingPkts(job.flow) - TokenGap(job.flow)
  IN  IF job.flow # NoFlow /\ gosrc.remain > need THEN need ELSE gosrc.remain
NrtsDue == ~gosrc.sendNrts /\ (job.rdSet \/ Gap <= NrtsGap)

(* send_token_evt_handler, after its loop: give the grant back if that is
   due, and come again unless its tokens are used up. *)
EvtEnd ==
  LET g == IF NrtsDue THEN GivenBack(gosrc) ELSE gosrc
  IN  /\ job.on
      /\ job.left = 0 \/ job.flow = NoFlow
      /\ job' = NoJob
      /\ \/ NrtsDue /\ GiveBack(gosrc.src)
         \/ ~NrtsDue /\ UNCHANGED <<lst, idle>>
      /\ exit' = (exit \/ (NrtsDue /\ HasIdleParams)
                       \/ (~gosrc.sendNrts /\ job.flow = NoFlow /\ ~job.rdSet)
                       \/ (~gosrc.sendNrts /\ job.flow # NoFlow /\ TokenGap(job.flow) < -1)
                       \/ (g.remain = 0 /\ ~g.sendNrts))
      /\ gosrc' = IF g.remain = 0 THEN ResetGosrc(g) ELSE g
      /\ evt' = (g.remain # 0)
      /\ UNCHANGED <<rx, netVars>>

-----------------------------------------------------------------------------
(* lcore 5 *)

SendListsrcStart ==
  /\ lst.st = "pending"
  /\ lst' = [lst EXCEPT !.st = "running"]
  /\ UNCHANGED <<lcore1Vars, netVars>>

(* send_listsrc: the sources of the flows that want tokens; nothing is sent
   if there is none and no NRTS either. *)
SendListsrcEnd ==
  LET srcs == {Src[f] : f \in {g \in Flows : Open(g) /\ ~rx[g].rdCtrl}}
  IN  /\ lst.st = "running"
      /\ listsrc' = IF srcs = {} /\ lst.nrts = NoNrts THEN listsrc
                    ELSE listsrc \cup {[nrts |-> lst.nrts, srcs |-> srcs]}
      /\ lst' = [st |-> "stop", nrts |-> NoNrts]
      /\ UNCHANGED <<lcore1Vars, inFlight, grants, ctl>>

-----------------------------------------------------------------------------
(* The rest of the system *)

(* The controller takes a listsrc (rtp_receive_listsrc). *)
CtlReceive(m) ==
  /\ m \in listsrc
  /\ listsrc' = listsrc \ {m}
  /\ ctl' = [busy |-> ctl.busy /\ m.nrts = NoNrts, asked |-> ctl.asked \cup m.srcs]
  /\ UNCHANGED <<lcore1Vars, lst, inFlight, grants>>

(* The controller answers all requests (handle_requests): at most one grant
   for this receiver, and none while it is busy. *)
CtlHandle ==
  /\ ctl.asked # {}
  /\ \/ ctl' = [ctl EXCEPT !.asked = {}] /\ UNCHANGED grants
     \/ /\ ~ctl.busy
        /\ \E s \in ctl.asked, n \in GrantTokens :
             grants' = grants \cup {[src |-> s, tokens |-> n]}
        /\ ctl' = [busy |-> TRUE, asked |-> {}]
  /\ UNCHANGED <<lcore1Vars, lst, inFlight, listsrc>>

LoseData(d) ==
  /\ inFlight' = inFlight \ {d}
  /\ UNCHANGED <<lcore1Vars, lst, listsrc, grants, ctl>>

LoseControl ==
  /\ LosesControl
  /\ \/ \E m \in listsrc : listsrc' = listsrc \ {m} /\ UNCHANGED grants
     \/ \E g \in grants : grants' = grants \ {g} /\ UNCHANGED listsrc
  /\ UNCHANGED <<lcore1Vars, lst, inFlight, ctl>>

Init ==
  /\ rx = [f \in Flows |-> NewFlow]
  /\ gosrc = [has |-> FALSE, sendNrts |-> FALSE, src |-> 0, remain |-> -1, cur |-> NoFlow]
  /\ idle = "none"
  /\ evt = FALSE
  /\ job = NoJob
  /\ exit = FALSE
  /\ lst = [st |-> "stop", nrts |-> NoNrts]
  /\ inFlight = {}
  /\ listsrc = {}
  /\ grants = {}
  /\ ctl = [busy |-> FALSE, asked |-> {}]

Next ==
  \/ \E f \in Flows : ReceiveRts(f) \/ RdCtrlTimeout(f) \/ FinishTimeout(f)
  \/ \E g \in grants : ReceiveGosrc(g)
  \/ \E d \in inFlight : ReceiveData(d) \/ LoseData(d)
  \/ IdleTimeout
  \/ EvtStart
  \/ EvtToken
  \/ EvtEnd
  \/ SendListsrcStart
  \/ SendListsrcEnd
  \/ \E m \in listsrc : CtlReceive(m)
  \/ CtlHandle
  \/ LoseControl

Spec == Init /\ [][Next]_vars

-----------------------------------------------------------------------------
(* Properties *)

(* No consistency check of the handlers ever ends the program: the idle
   timer does not run under a grant that is in use, tokens are sent only
   under a grant, a grant is given back before its last token is used, and a
   flow that is given a token misses a packet (rtp_host.c: 553, 569, 583,
   623, 640, 659, 667; rtp_flow.c: 86, 118). *)
NoExit == ~exit

(* Token accounting survives reordering, loss and redundant tokens: seq_num
   tells the tokens of a flow apart, and the receiver never believes a token
   used that it has not sent, so that rtp_token_gap is never negative. *)
TokenSeqsIssuedOnce ==
  /\ \A f \in Flows : rx[f].largest < rx[f].tokens
  /\ \A d \in inFlight : Open(d.flow) =>
       /\ d.tok < rx[d.flow].tokens
       /\ \A e \in inFlight : (e.flow = d.flow /\ e.tok = d.tok) => e = d

(* A flow goes under redundancy control (and is skipped by the scheduler)
   only after a token was sent for each of its missing packets since the
   last time. *)
FullRoundBeforeRdCtrl ==
  \A f \in Flows : rx[f].rdCtrl => Packets(f) \ rx[f].got \subseteq rx[f].asked

(* Under a grant for one source only flows of that source get tokens, and
   a batch never exceeds what is left of the grant. *)
TokensUnderGrant ==
  job.on => /\ gosrc.has
            /\ job.left <= gosrc.remain
            /\ job.flow # NoFlow => Src[job.flow] = gosrc.src

(* A receiver with an incomplete long flow falls silent only if
   rte_ring_count, which is asked for the entries of a hash, says 0: else the
   idle timer will announce its sources or its grant is at work, whichever
   control packets and requests are lost. *)
NeverSilent ==
  (\E f \in Flows : Open(f)) => idle \in {"armed", "stopped", "misread"} \/ evt \/ job.on

(* The claims on the receiver's grant: a GOSRC on its way, a grant held, an
   NRTS waiting for lcore 5, an NRTS on its way.  The grant is lost when the
   controller waits for an NRTS that will not come. *)
GrantHeld == gosrc.has /\ ~gosrc.sendNrts
NrtsSent == {m \in listsrc : m.nrts # NoNrts}
Claims == Cardinality(grants) + (IF GrantHeld THEN 1 ELSE 0)
          + (IF lst.nrts # NoNrts THEN 1 ELSE 0)
          + Cardinality(NrtsSent)
Lease == IF Claims > 1 THEN "broken"
         ELSE IF grants # {} THEN "granted"
         ELSE IF GrantHeld THEN "held"
         ELSE IF Claims = 1 THEN "returning"
         ELSE IF ctl.busy THEN "lost" ELSE "free"

GrantLeaseSpec == INSTANCE GrantLease WITH lease <- Lease

(* The receiver, lcore 5, the network and the controller together keep one
   grant per receiver: GrantLease is implemented. *)
OneGrantAtATime == GrantLeaseSpec!Spec

-----------------------------------------------------------------------------
(* The inductive invariant *)

Missing(f, r) == Packets(f) \ r.got

(* A flow that is not complete misses a packet, and none before
   received_until. *)
FlowConsistent(f, r) ==
  /\ r.got \subseteq Packets(f)
  /\ r.until \in 0..Size[f]
  /\ \A p \in Missing(f, r) : p >= r.until
  /\ r.last \in -1..Size[f] - 1
  /\ r.st \in {"new", "open"} => Missing(f, r) # {}

(* A round of tokens has asked for what is missing up to the last token's
   packet, or the next token wraps around and begins a round. *)
Asked(f, r) == \A p \in Missing(f, r) : p <= r.last => p \in r.asked
Wrapping(f, r) == \A p \in Missing(f, r) : p <= r.last
RoundConsistent(f, r) ==
  /\ Asked(f, r) \/ Wrapping(f, r)
  /\ r.rdCtrl => (Asked(f, r) /\ Wrapping(f, r))

FlowsConsistent ==
  \A f \in Flows : FlowConsistent(f, rx[f]) /\ RoundConsistent(f, rx[f])

(* Tokens are sent for packets of flows whose RTS has arrived. *)
InFlightStarted ==
  \A d \in inFlight : rx[d.flow].st # "new" /\ d.seq \in Packets(d.flow)

(* Between two batches send_token_evt_timer is armed and the grant not used
   up; until the NRTS the idle timer does not run, and after it it does. *)
GrantAtWork ==
  /\ evt => gosrc.has /\ gosrc.remain > 0 /\ ~job.on
  /\ GrantHeld => (evt \/ job.on) /\ idle = "none"
  /\ gosrc.sendNrts => idle # "none"
  /\ gosrc.cur # NoFlow => Src[gosrc.cur] = gosrc.src

(* The flow in send_token_evt_handler wants tokens; only after a redundancy
   control timer was set is there none. *)
JobConsistent ==
  job.on => /\ job.flow # NoFlow => Open(job.flow) /\ ~rx[job.flow].rdCtrl
            /\ job.flow = NoFlow => job.rdSet

(* No two claims on the grant at a time, and none that the controller does
   not wait for. *)
ExclusiveClaims ==
  /\ \A g, h \in grants : g = h
  /\ \A m, n \in NrtsSent : m = n
  /\ grants # {} => ~GrantHeld /\ lst.nrts = NoNrts /\ NrtsSent = {}
  /\ GrantHeld => lst.nrts = NoNrts /\ NrtsSent = {}
  /\ lst.nrts # NoNrts => NrtsSent = {}
  /\ grants # {} \/ GrantHeld \/ lst.nrts # NoNrts \/ NrtsSent # {} => ctl.busy

IInv == /\ TypeOK
        /\ FlowsConsistent
        /\ InFlightStarted
        /\ TokenSeqsIssuedOnce
        /\ GrantAtWork
        /\ JobConsistent
        /\ TokensUnderGrant
        /\ NeverSilent
        /\ ExclusiveClaims
        /\ NoExit

=============================================================================
