----------------------------- MODULE RankingHost -----------------------------
(***************************************************************************)
(* A receiver of the simulator's RUF (src/simulator/ext/rankinghost.cpp,   *)
(* rankingflow.cpp), the design the prototype follows.                     *)
(*                                                                         *)
(* A long flow is served under a grant (GOSRC) of the arbiter, which the   *)
(* receiver asks for by the list of its sources (listSrcs) and gives back  *)
(* by a listSrcs with an NRTS, early.  A short flow is sent at once.  One  *)
(* event, token_send_evt, sends one token at a time for both: for the flow *)
(* of the granted source and for short flows that lost packets.  wakeup_-  *)
(* evt repeats the list.                                                   *)
(*                                                                         *)
(* Events are atomic: the simulator has one thread.  Abstractions: time is *)
(* left out, so that a timeout may be over at any step; a token, from its  *)
(* sending to the data packet it buys, is one entry of inFlight, which is  *)
(* reordered and lost (tokens also expire at the sender); comparators of   *)
(* flows are left open; the rest of the arbiter's work shows as requests   *)
(* it discards.  A flow is over when its receiver has it all: the ACK and  *)
(* its repetitions change nothing at the receiver.                         *)
(* Operators named Mut... are faulty variants of the operator after them.  *)
(***************************************************************************)
EXTENDS Integers, FiniteSets, FiniteSetsExt

CONSTANTS
  Flows,          \* ids of the flows to this receiver
  Size,           \* size_in_pkt
  Src,            \* their source
  TokenInitial,   \* params.token_initial: flows up to this size are short
  TokenWindow,    \* params.token_window
  MaxTokens,      \* params.ranking_max_tokens
  NrtsGap,        \* control RTT plus controller epoch, in packets
  MaxTokenCount,  \* bound: tokens per flow
  MaxRound,       \* bound: grants
  MaxFlows,       \* bound: flows that start
  MaxInFlight,    \* bound: send_token waits while so many tokens and packets are on their way
  MaxLists,       \* bound: wakeup waits while so many listSrcs are on their way
  NoSrc, NoFlow   \* NULL

ASSUME SizeAssumption == Size \in [Flows -> Nat \ {0}]
ASSUME TokensAssumption == TokenInitial \in Nat /\ TokenWindow \in Nat /\ MaxTokens \in Nat \ {0}
ASSUME GapAssumption == NrtsGap \in Nat
ASSUME BoundAssumption == MaxTokenCount \in Nat /\ MaxRound \in Nat 
                          /\ {MaxFlows, MaxLists, MaxInFlight} \subseteq Nat \ {0}
ASSUME NullAssumption == NoFlow \notin Flows /\ \A f \in Flows : Src[f] # NoSrc

Short == {f \in Flows : Size[f] <= TokenInitial}
Long == Flows \ Short
Srcs == {Src[f] : f \in Flows}

VARIABLES
  rx,        \* the receiver's part of every flow
  gosrc,     \* gosrc_info
  hold,      \* hold_on
  wakeup,    \* is wakeup_evt set?
  tok,       \* token_send_evt: none, normal, or set for a timeout
  failed,    \* has an assertion failed?
  inFlight,  \* tokens and the data packets they buy
  listsrc,   \* listSrcs packets
  grants,    \* GOSRC packets, by their source
  ctl        \* the arbiter's view of this receiver

hostVars == <<gosrc, hold, wakeup, tok, failed>>
arbiterVars == <<grants, ctl>>
vars == <<rx, hostVars, inFlight, listsrc, arbiterVars>>

Packets(f) == 0..Size[f] - 1

(* A flow before its start. *)
NewFlow == [st |-> "idle", got |-> {}, until |-> 0, last |-> -1, tokens |-> 0,
            largest |-> -1, rd |-> "off"]

(* redundancy_ctrl_timeout (rd) is off, awaited or met. *)
FlowState == [st : {"idle", "sent", "open", "done"}, got : SUBSET Nat, until : Nat,
              last : Int, tokens : Nat, largest : Int, rd : {"off", "wait", "met"}]

(* gosrc_info.reset *)
Reset(g) == [g EXCEPT !.src = NoSrc, !.remain = -1]

TypeOK ==
  /\ rx \in [Flows -> FlowState]
  /\ gosrc \in [src : Srcs \cup {NoSrc}, remain : -1..MaxTokens, round : 0..MaxRound,
                sendNrts : BOOLEAN]
  /\ hold \in Nat
  /\ wakeup \in BOOLEAN
  /\ tok \in {"none", "normal", "timeout"}
  /\ failed \in BOOLEAN
  /\ inFlight \subseteq [flow : Flows, seq : Nat, tok : Nat, round : -1..MaxRound]
  /\ listsrc \subseteq [nrts : Srcs \cup {NoSrc}, srcs : SUBSET Srcs]
  /\ grants \subseteq Srcs
  /\ ctl \in [busy : BOOLEAN, asked : SUBSET Srcs]

-----------------------------------------------------------------------------
(* One flow (rankingflow.cpp) *)

Open(f) == rx[f].st = "open"

RemainingPkts(f, r) == Size[f] - Cardinality(r.got)
TokenGap(r) == r.tokens - r.largest - 1

(* get_next_token_seq_num *)
NextFrom(f, r) == (r.last + 1) % Size[f]
Ahead(f, r) == {i \in NextFrom(f, r)..Size[f] - 1 : i \notin r.got}
Wrapped(f, r) == {i \in r.until..Size[f] - 1 :
                    i \notin r.got /\ Size[f] - NextFrom(f, r) + i - r.until < Size[f]}
HasNextToken(f, r) == Ahead(f, r) # {} \/ Wrapped(f, r) # {}
NextTokenSeq(f, r) == IF Ahead(f, r) # {} THEN Min(Ahead(f, r)) ELSE Min(Wrapped(f, r))

(* receive_short_flow: all packets count as asked for. *)
OpenShort(f, r) ==
  [r EXCEPT !.st = "open", !.tokens = Size[f], !.last = Size[f] - 1, !.rd = "wait"]

(* received_until *)
Until(f, got, until) == Min({i \in until..Size[f] : i \notin got})

(* receive: the record of a data packet; goal is the size. *)
Received(f, r, d) ==
  LET got == r.got \cup {d.seq}
  IN  [r EXCEPT !.got = got,
                !.until = Until(f, got, @),
                !.largest = IF d.tok > @ THEN d.tok ELSE @,
                !.st = IF Cardinality(got) >= Size[f] THEN "done" ELSE @]

(* send_token_pkt after relax_token_gap if the window is full, and the
   redundancy control timeout after the last missing packet. *)
WithToken(f, r) ==
  LET relaxed == [r EXCEPT !.rd = "off", !.tokens = @ + 1,
                           !.last = NextTokenSeq(f, r),
                           !.largest = IF TokenGap(r) > TokenWindow
                                       THEN r.tokens - TokenWindow ELSE @]
  IN  [relaxed EXCEPT !.rd = IF NextTokenSeq(f, r) >= NextTokenSeq(f, relaxed)
                             THEN "wait" ELSE "off"]

(* get_top_unfinish_flow: any of them, the comparator is left open. *)
Unfinished(src, state) ==
  {f \in Long : state[f].st = "open" /\ state[f].rd # "wait" /\ Src[f] = src}
Picks(src, state) == IF Unfinished(src, state) = {} THEN {NoFlow} ELSE Unfinished(src, state)

-----------------------------------------------------------------------------
(* send_listSrcs: the sources of flows that want tokens; whether that of the
   NRTS is among them depends on the tokens left of its grant.  Nothing is
   sent if there is none and no NRTS either. *)
SourceLists(nrts, state, g) ==
  LET wanted == {s \in Srcs : Unfinished(s, state) # {}}
  IN  {s \in SUBSET wanted : wanted \ {nrts} \subseteq s /\ (nrts \in s => g.src = nrts)}

SendListSrcs(nrts, state, g) ==
  \E s \in SourceLists(nrts, state, g) :
    listsrc' = IF s = {} /\ nrts = NoSrc THEN listsrc
               ELSE listsrc \cup {[nrts |-> nrts, srcs |-> s]}

(* send_nrts is forgotten. *)
MutGivenBack(g) == g
GivenBack(g) == [g EXCEPT !.sendNrts = TRUE]

(* send_listSrcs, and the event that repeats it. *)
SendAndRepeat(nrts, state, g) == SendListSrcs(nrts, state, g) /\ wakeup' = TRUE

-----------------------------------------------------------------------------
(* Events of flows and packets *)

(* start_ranking_flow: the RTS, and all packets of a short flow. *)
StartFlow(f) ==
  /\ rx[f].st = "idle"
  /\ Cardinality({g \in Flows : rx[g].st # "idle"}) < MaxFlows
  /\ rx' = [rx EXCEPT ![f].st = "sent"]
  /\ inFlight' = IF f \in Short
                 THEN inFlight \cup {[flow |-> f, seq |-> i, tok |-> i, round |-> -1] :
                                       i \in Packets(f)}
                 ELSE inFlight
  /\ UNCHANGED <<hostVars, listsrc, arbiterVars>>

(* receive_rts of a long flow: under a grant for its source tokens go on, if
   it is the best flow; without a grant its source is announced. *)
ReceiveLongRts(f) ==
  /\ f \in Long
  /\ rx[f].st = "sent"
  /\ rx' = [rx EXCEPT ![f].st = "open"]
  /\ \/ gosrc.src = Src[f] /\ tok' \in {tok, "normal"} /\ UNCHANGED <<wakeup, listsrc>>
     \/ gosrc.src = NoSrc /\ SendAndRepeat(NoSrc, rx', gosrc) /\ UNCHANGED tok
     \/ gosrc.src \notin {NoSrc, Src[f]} /\ UNCHANGED <<tok, wakeup, listsrc>>
  /\ UNCHANGED <<gosrc, hold, failed, inFlight, arbiterVars>>

(* receive_rts of a short flow *)
ReceiveShortRts(f) ==
  /\ f \in Short
  /\ rx[f].st = "sent"
  /\ rx' = [rx EXCEPT ![f] = OpenShort(f, @)]
  /\ hold' = Size[f]
  /\ tok' = "normal"
  /\ UNCHANGED <<gosrc, wakeup, failed, inFlight, listsrc, arbiterVars>>

(* flow_finish_at_receiver of a long flow whose last packet is of round r:
   the grant of that round ends, given back or not; one of a later round is
   given back if no flow of its source is left. *)
FinishLong(f, r) ==
  \/ /\ gosrc.round = r
     /\ gosrc' = Reset(gosrc)
     /\ UNCHANGED <<wakeup, listsrc, failed>>
  \/ /\ gosrc.round # r
     /\ gosrc.src = Src[f]
     /\ Unfinished(Src[f], rx') = {}
     /\ \/ /\ ~gosrc.sendNrts
           /\ SendAndRepeat(Src[f], rx', gosrc)
           /\ failed' = (failed \/ wakeup)
        \/ gosrc.sendNrts /\ UNCHANGED <<wakeup, listsrc, failed>>
     /\ gosrc' = Reset(GivenBack(gosrc))
  \/ /\ gosrc.round # r
     /\ ~(gosrc.src = Src[f] /\ Unfinished(Src[f], rx') = {})
     /\ UNCHANGED <<gosrc, wakeup, listsrc, failed>>

(* receive of a data packet of a flow that is not complete: the first packet
   of a short flow opens it; one that lowers the gap of the best flow of the
   grant lets tokens go on. *)
ReceiveNewData(d) ==
  LET f == d.flow
      first == rx[f].st = "sent"
      r == Received(f, IF first THEN OpenShort(f, rx[f]) ELSE rx[f], d)
      goOn == /\ f \in Long
              /\ TokenGap(r) <= TokenWindow
              /\ gosrc.src = Src[f]
              /\ gosrc.remain > 0
              /\ f \in Unfinished(Src[f], rx')
  IN  /\ rx' = [rx EXCEPT ![f] = r]
      /\ hold' = IF first THEN Size[f] ELSE hold
      /\ \/ /\ r.st = "done" /\ f \in Long
            /\ FinishLong(f, d.round)
            /\ UNCHANGED tok
         \/ /\ r.st # "done" \/ f \in Short
            /\ tok' \in IF first THEN {"normal"}
                        ELSE IF r.st # "done" /\ goOn THEN {tok, "normal"} ELSE {tok}
            /\ failed' = (failed \/ TokenGap(r) < -1)
            /\ UNCHANGED <<gosrc, wakeup, listsrc>>

ReceiveData(d) ==
  /\ d \in inFlight
  /\ inFlight' = inFlight \ {d}
  /\ \/ rx[d.flow].st \in {"sent", "open"} /\ ReceiveNewData(d)
     \/ rx[d.flow].st = "done" /\ UNCHANGED <<rx, hostVars, listsrc>>
  /\ UNCHANGED arbiterVars

(* receive_gosrc without a flow to serve: the grant goes back. *)
RefuseGrant(s) ==
  /\ Unfinished(s, rx) = {}
  /\ SendAndRepeat(s, rx, gosrc)
  /\ gosrc' = Reset(GivenBack(gosrc))
  /\ UNCHANGED tok

(* The wakeup event is not cancelled. *)
MutTakeGrant(s) ==
  /\ Unfinished(s, rx) # {}
  /\ gosrc' = [src |-> s, remain |-> MaxTokens, round |-> gosrc.round + 1, sendNrts |-> FALSE]
  /\ tok' = "normal"
  /\ UNCHANGED <<wakeup, listsrc>>

(* receive_gosrc with a flow to serve *)
TakeGrant(s) ==
  /\ Unfinished(s, rx) # {}
  /\ gosrc' = [src |-> s, remain |-> MaxTokens, round |-> gosrc.round + 1, sendNrts |-> FALSE]
  /\ wakeup' = FALSE
  /\ tok' = "normal"
  /\ UNCHANGED listsrc

ReceiveGosrc(s) ==
  /\ s \in grants
  /\ gosrc.round < MaxRound
  /\ grants' = grants \ {s}
  /\ RefuseGrant(s) \/ TakeGrant(s)
  /\ UNCHANGED <<rx, hold, failed, inFlight, ctl>>

-----------------------------------------------------------------------------
(* Timed events *)

(* redundancy_ctrl_timeout is over. *)
RedundancyTimeout(f) ==
  /\ Open(f)
  /\ rx[f].rd = "wait"
  /\ rx' = [rx EXCEPT ![f].rd = "met"]
  /\ UNCHANGED <<hostVars, inFlight, listsrc, arbiterVars>>

(* wakeup does not repeat itself. *)
MutWakeup ==
  /\ wakeup
  /\ Cardinality(listsrc) < MaxLists
  /\ SendListSrcs(NoSrc, rx, gosrc)
  /\ wakeup' = FALSE
  /\ UNCHANGED <<rx, gosrc, hold, tok, failed, inFlight, arbiterVars>>

(* wakeup: src_to_flows, from which send_listSrcs has dropped the flows that
   are over, is empty if there is no other. *)
Wakeup ==
  /\ wakeup
  /\ Cardinality(listsrc) < MaxLists
  /\ SendListSrcs(NoSrc, rx, gosrc)
  /\ wakeup' = (\E f \in Long : Open(f))
  /\ UNCHANGED <<rx, gosrc, hold, tok, failed, inFlight, arbiterVars>>

(* send_token while the packets of a new short flow arrive. *)
Hold ==
  /\ tok # "none"
  /\ hold > 0
  /\ hold' = hold - 1
  /\ tok' = "normal"
  /\ UNCHANGED <<rx, gosrc, wakeup, failed, inFlight, listsrc, arbiterVars>>

(* The loop of send_token: it passes over flows that wait for redundancy
   control or for their window, and ends with the first that does not; a flow
   whose window is full may have waited long enough. *)
Candidates(best) == {f \in Short : Open(f)} \cup ({best} \ {NoFlow})
Waits(f) == rx[f].rd = "wait" \/ TokenGap(rx[f]) > TokenWindow
Passed(r) == IF r.rd = "met" THEN [r EXCEPT !.rd = "off"] ELSE r
Charged(f) ==
  IF f \notin Long THEN gosrc
  ELSE IF gosrc.remain = 1 THEN Reset(gosrc)
  ELSE [gosrc EXCEPT !.remain = @ - 1]

(* The grant is given back early if the flow it is for, best, was tried and what
   is left of the two lasts no longer than a control round trip, or the flow has
   all its tokens. *)
NrtsDue(tried, best, state, g) ==
  /\ best \in tried
  /\ ~g.sendNrts
  /\ \/ state[best].rd = "wait"
     \/ g.remain <= NrtsGap
     \/ RemainingPkts(best, state[best]) - TokenGap(state[best]) <= NrtsGap

EndOfGrant(tried, best, state, g) ==
  IF NrtsDue(tried, best, state, g)
  THEN SendAndRepeat(Src[best], state, g) /\ gosrc' = GivenBack(g)
  ELSE gosrc' = g /\ UNCHANGED <<wakeup, listsrc>>

(* send_token for flow f after others were passed over. *)
SendTokenOf(f, best, passed) ==
  /\ f \notin passed
  /\ rx[f].rd # "wait"
  /\ rx[f].tokens < MaxTokenCount
  /\ Cardinality(inFlight) < MaxInFlight
  /\ rx' = [g \in Flows |-> IF g = f THEN WithToken(f, rx[f])
                           ELSE IF g \in passed THEN Passed(rx[g])
                           ELSE rx[g]]
  /\ inFlight' = inFlight \cup {[flow |-> f, seq |-> rx'[f].last, tok |-> rx[f].tokens,
                                 round |-> IF f \in Long THEN gosrc.round ELSE -1]}
  /\ EndOfGrant(passed \cup {f}, best, rx', Charged(f))
  /\ tok' = "normal"
  /\ failed' = \/ failed
               \/ f = best /\ gosrc.remain <= 0
               \/ ~HasNextToken(f, rx[f])
               \/ TokenGap(rx[f]) < -1
               \/ NrtsDue(passed \cup {f}, best, rx', Charged(f)) /\ wakeup

(* Only the flow of the grant makes send_token come again. *)
MutSendNoToken(best) ==
  /\ \A f \in Candidates(best) : Waits(f)
  /\ rx' = [f \in Flows |-> IF f \in Candidates(best) THEN Passed(rx[f]) ELSE rx[f]]
  /\ EndOfGrant(Candidates(best), best, rx', gosrc)
  /\ tok' = IF best = NoFlow THEN "none" ELSE "timeout"
  /\ failed' = (failed \/ (NrtsDue(Candidates(best), best, rx', gosrc) /\ wakeup))
  /\ UNCHANGED inFlight

(* send_token finds no flow to send a token for; it comes again when a flow
   has waited long enough. *)
SendNoToken(best) ==
  /\ \A f \in Candidates(best) : Waits(f)
  /\ rx' = [f \in Flows |-> IF f \in Candidates(best) THEN Passed(rx[f]) ELSE rx[f]]
  /\ EndOfGrant(Candidates(best), best, rx', gosrc)
  /\ tok' = IF Candidates(best) = {} THEN "none" ELSE "timeout"
  /\ failed' = (failed \/ (NrtsDue(Candidates(best), best, rx', gosrc) /\ wakeup))
  /\ UNCHANGED inFlight

SendToken ==
  /\ tok # "none"
  /\ hold = 0
  /\ \E best \in Picks(gosrc.src, rx) :
       \/ SendNoToken(best)
       \/ \E f \in Candidates(best) :
            \E passed \in SUBSET {g \in Candidates(best) : Waits(g)} :
              SendTokenOf(f, best, passed)
  /\ UNCHANGED <<hold, arbiterVars>>

-----------------------------------------------------------------------------
(* The arbiter *)

(* Any list frees the receiver. *)
MutReceiveListSrcs(m) ==
  /\ m \in listsrc
  /\ listsrc' = listsrc \ {m}
  /\ ctl' = [busy |-> FALSE, asked |-> ctl.asked \cup m.srcs]
  /\ UNCHANGED <<rx, hostVars, inFlight, grants>>

(* receive_listsrcs *)
ReceiveListSrcs(m) ==
  /\ m \in listsrc
  /\ listsrc' = listsrc \ {m}
  /\ ctl' = [busy |-> ctl.busy /\ m.nrts = NoSrc, asked |-> ctl.asked \cup m.srcs]
  /\ UNCHANGED <<rx, hostVars, inFlight, grants>>

(* schedule_epoch: at most one grant to this receiver, and none while it is
   busy; every request is answered or discarded. *)
ScheduleEpoch ==
  /\ ctl.asked # {}
  /\ \/ ctl' = [ctl EXCEPT !.asked = {}] /\ UNCHANGED grants
     \/ /\ ~ctl.busy
        /\ \E s \in ctl.asked : grants' = grants \cup {s}
        /\ ctl' = [busy |-> TRUE, asked |-> {}]
  /\ UNCHANGED <<rx, hostVars, inFlight, listsrc>>

(* A queue drops a data packet or token, or the token expires. *)
LoseData(d) ==
  /\ inFlight' = inFlight \ {d}
  /\ UNCHANGED <<rx, hostVars, listsrc, arbiterVars>>

(* A queue drops a control packet. *)
LoseControl ==
  /\ \/ \E m \in listsrc : listsrc' = listsrc \ {m} /\ UNCHANGED grants
     \/ \E s \in grants : grants' = grants \ {s} /\ UNCHANGED listsrc
  /\ UNCHANGED <<rx, hostVars, inFlight, ctl>>

Init ==
  /\ rx = [f \in Flows |-> NewFlow]
  /\ gosrc = [src |-> NoSrc, remain |-> -1, round |-> 0, sendNrts |-> FALSE]
  /\ hold = 0
  /\ wakeup = FALSE
  /\ tok = "none"
  /\ failed = FALSE
  /\ inFlight = {}
  /\ listsrc = {}
  /\ grants = {}
  /\ ctl = [busy |-> FALSE, asked |-> {}]

Next ==
  \/ \E f \in Flows : \/ StartFlow(f)
                      \/ ReceiveLongRts(f)
                      \/ ReceiveShortRts(f)
                      \/ RedundancyTimeout(f)
  \/ \E d \in inFlight : ReceiveData(d) \/ LoseData(d)
  \/ \E s \in grants : ReceiveGosrc(s)
  \/ Wakeup
  \/ Hold
  \/ SendToken
  \/ \E m \in listsrc : ReceiveListSrcs(m)
  \/ ScheduleEpoch
  \/ LoseControl

Spec == Init /\ [][Next]_vars

-----------------------------------------------------------------------------
(* Properties *)

(* No assertion fails: a grant is not given back while wakeup_evt is set,
   a token of a long flow is covered by the grant, an open flow misses a
   packet, and more tokens were sent than are known to be used
   (rankinghost.cpp:353, 618, 645; rankingflow.cpp:334, 366, 378). *)
NoAssertFails == ~failed

(* A receiver has at most one grant: on its way, in use, or on its way back;
   as long as there is one, the arbiter has the receiver down as busy. *)
OneGrant ==
  LET claims == Cardinality(grants)
                + (IF gosrc.src # NoSrc /\ ~gosrc.sendNrts THEN 1 ELSE 0)
                + Cardinality({m \in listsrc : m.nrts # NoSrc})
  IN  claims <= 1 /\ (claims = 1 => ctl.busy)

(* A grant that ended without being given back: the arbiter will never again
   grant this receiver anything. *)
GrantForgotten == gosrc.src = NoSrc /\ gosrc.round > 0 /\ ~gosrc.sendNrts

(* How the grant of the receiver stands, as in GrantLease. *)
Lease ==
  IF grants # {} THEN "granted"
  ELSE IF gosrc.src # NoSrc /\ ~gosrc.sendNrts THEN "held"
  ELSE IF \E m \in listsrc : m.nrts # NoSrc THEN "returning"
  ELSE IF ctl.busy THEN "lost" ELSE "free"

GrantLeaseSpec == INSTANCE GrantLease WITH lease <- Lease

(* flow_finish_at_receiver resets a grant in use. *)
Forget ==
  /\ Lease = "held" /\ Lease' = "lost"
  /\ GrantForgotten'
  /\ \E f \in Long : Open(f) /\ rx'[f].st = "done"

(* Grants come and go as GrantLease says, with one exception: the end of a
   flow (rankinghost.cpp:346) may drop one without giving it back.  Either way
   a grant that is lost stays lost. *)
ReturnedOrForgotten ==
  /\ GrantLeaseSpec!Init
  /\ [][GrantLeaseSpec!Next \/ Forget]_Lease

(* A receiver with an incomplete long flow asks again or goes on sending
   tokens, whatever is lost, unless its grant was forgotten. *)
NeverSilent ==
  (\E f \in Long : Open(f)) => wakeup \/ tok # "none" \/ GrantForgotten

(* The packets a short flow has lost are asked for again: the shared token
   event, which grants cancel and set again, stays set for it. *)
ShortFlowsServed == (\E f \in Short : Open(f)) => tok # "none"

(* When the grant of the current round ends with the flow it served, the
   receiver has already given it back, so that wakeup_evt is set: "assert(
   this->wakeup_evt != NULL)" is a comment at rankinghost.cpp:345. *)
WakeupAtFinish ==
  [][\A d \in inFlight \ inFlight' :
       (/\ d.flow \in Long
        /\ d.round = gosrc.round
        /\ rx[d.flow].st # "done"
        /\ rx'[d.flow].st = "done") => wakeup]_vars

-----------------------------------------------------------------------------
(* The inductive invariant *)

(* What is known of a flow at its receiver; more tokens were sent than are
   known to be used, and an open flow misses a packet. *)
FlowConsistent(f, r) ==
  /\ r.got \subseteq Packets(f)
  /\ r.until \in 0..Size[f] /\ 0..r.until - 1 \subseteq r.got
  /\ r.last \in -1..Size[f] - 1
  /\ -1 <= r.largest /\ r.largest < r.tokens
  /\ r.st \in {"idle", "sent"} => r.got = {} /\ r.tokens = 0
  /\ r.st = "open" => r.got # Packets(f)

FlowsConsistent == \A f \in Flows : FlowConsistent(f, rx[f])

(* A token on its way was counted; the packets of a short flow are counted
   when it opens, and a long flow that has not opened has none. *)
TokenCounted(d, r) ==
  /\ d.seq \in Packets(d.flow)
  /\ \/ r.st = "sent" /\ d.flow \in Short /\ d.tok < Size[d.flow]
     \/ r.st \in {"open", "done"} /\ d.tok < r.tokens

TokensCounted == \A d \in inFlight : TokenCounted(d, rx[d.flow])

SomeLongOpen == \E f \in Long : Open(f)

(* A grant in use, before it is given back. *)
InGrant == gosrc.src # NoSrc /\ ~gosrc.sendNrts
Returns == {m \in listsrc : m.nrts # NoSrc}

(* The source of the grant has an open flow.  Until the grant is given back
   there is one that wants tokens, tokens are sent and the list is not
   repeated. *)
GrantInUse ==
  /\ gosrc.src # NoSrc => /\ gosrc.remain > 0 /\ gosrc.round > 0
                          /\ \E f \in Long : Open(f) /\ Src[f] = gosrc.src
  /\ InGrant => /\ Unfinished(gosrc.src, rx) # {}
                /\ tok # "none"
                /\ ~wakeup

(* The list is repeated before the first grant and after a grant was given
   back. *)
ListRepeated == SomeLongOpen /\ (gosrc.sendNrts \/ gosrc.round = 0) => wakeup

(* A grant is in one place at a time, and the arbiter knows of it. *)
GrantInOnePlace ==
  /\ \A s, t \in grants : s = t
  /\ \A m, n \in Returns : m = n
  /\ InGrant => grants = {} /\ Returns = {}
  /\ grants # {} => Returns = {}
  /\ InGrant \/ grants # {} \/ Returns # {} => ctl.busy

IInv == /\ TypeOK
        /\ NoAssertFails
        /\ FlowsConsistent
        /\ TokensCounted
        /\ GrantInUse
        /\ ListRepeated
        /\ GrantInOnePlace
        /\ ShortFlowsServed

=============================================================================
