------------------------------ MODULE AsyncDES ------------------------------
(***************************************************************************)
(* The exchange of messages between the ranks of a parallel execution:     *)
(* async_des (parallel/async_des.c) over the send and receive slots of     *)
(* async_mpi (parallel/async_mpi.c).  A rank calls async_des again and     *)
(* again; a call polls every slot once and then adds up, over all ranks,   *)
(* the messages sent and not received.  When the sum is zero the exchange  *)
(* is over, the rank cancels its receives and waits for the others at a    *)
(* barrier, and the next exchange may begin (hx_parallel_get_nodes: the    *)
(* lookups, then the answers).                                             *)
(*                                                                         *)
(* A message of variable size is two: a header with tag 0 that announces   *)
(* the size, and a body with a tag of its own.  MPI is external: it keeps  *)
(* the messages between two ranks in order, a receive takes the first that *)
(* its tag admits; a send may complete before it is received.  Which of    *)
(* several posted receives gets a message is left open (MPI: the oldest).  *)
(*                                                                         *)
(* An operator with an underscore in its name is a mutated form of the one *)
(* that follows it, and is used by no specification.                       *)
(***************************************************************************)
EXTENDS Integers, Sequences, SequencesExt, FiniteSets, FiniteSetsExt, Functions

CONSTANTS
  Rank,
  NumSends, NumRecvs,   \* slots of a rank
  WithCount,            \* messages of variable size: a header comes first
  Load,                 \* messages a rank has to send, in each exchange
  Exchanges,            \* bound: exchanges, one after the other
  MayFail,              \* a send handler may run out of memory
  NULL

ASSUME RankAssumption == Rank # {} /\ IsFiniteSet(Rank)
ASSUME SlotAssumption == NumSends \in Nat \ {0} /\ NumRecvs \in Nat \ {0}
ASSUME LoadAssumption == Load \in [1..Exchanges -> [Rank -> Nat]] /\ Exchanges \in Nat \ {0}
ASSUME ModeAssumption == {WithCount, MayFail} \subseteq BOOLEAN

VARIABLES
  pc,          \* where a rank is, see Control
  slot,        \* i: the slot it is at
  ses,         \* the async_des_session of a rank
  sends, recvs,\* its slots: async_mpi sessions
  net,         \* MPI: messages from one rank to another, in order
  exchange,    \* which exchange a rank is in
  left,        \* what its send handler has to send in this exchange
  sent, handled   \* history: messages sent; messages given to receive handlers

vars == <<pc, slot, ses, sends, recvs, net, exchange, left, sent, handled>>

Control == {"create", "post", "send", "sendHandler", "sendNew", "recv", "recvAgain",
            "reduce", "cancel", "barrier", "out"}

Slots == 1..Max({NumSends, NumRecvs})

\* A message: who sent it, in which exchange, and its number there.  The tag
\* of a body is that number.
Message == Rank \X (1..Exchanges) \X Nat

NewSend   == [state |-> "success", peer |-> NULL, tag |-> 0, msg |-> NULL]
NewRecv   == [state |-> "post", peer |-> NULL, tag |-> 0, header |-> NULL,
              msg |-> NULL, got |-> NULL]
\* Tags of bodies start with the tag of headers.
NewSes_ZeroTag == [msgCount |-> 0, tags |-> 0, first |-> TRUE, noSends |-> FALSE, done |-> 0]
NewSes    == [msgCount |-> 0, tags |-> 1, first |-> TRUE, noSends |-> FALSE, done |-> 0]

\* A receive is posted from here on and not before.
Posted(state) == state \in {"test", "test2"}

\* The state after async_mpi has been asked to start.
StartState == IF WithCount THEN "post" ELSE "post2"

-----------------------------------------------------------------------------
(* MPI (external).                                                         *)

Packet(r, i, tag) == [tag |-> tag, msg |-> sends[r][i].msg, num |-> sends[r][i].tag]

InFlight(r, i, tag) ==
  \E n \in 1..Len(net[r][sends[r][i].peer]) :
    net[r][sends[r][i].peer][n] = Packet(r, i, tag)

\* MPI_Isend
Isend(r, i, tag) ==
  net' = [net EXCEPT ![r][sends[r][i].peer] = Append(@, Packet(r, i, tag))]

\* What MPI_Test may say of a send.
TestSend(r, i, tag) == {TRUE} \cup (IF InFlight(r, i, tag) THEN {FALSE} ELSE {})

\* A body is received from the sender of the header, whatever its tag.
Admits_AnyTag(rc, s, p) ==
  IF rc.state = "test" THEN p.tag = 0
  ELSE WithCount => s = rc.peer /\ p.tag # 0

\* The messages a posted receive admits.
Admits(rc, s, p) ==
  IF rc.state = "test" THEN p.tag = 0
  ELSE WithCount => s = rc.peer /\ p.tag = rc.tag

Deliver(s, r, i) ==
  /\ Posted(recvs[r][i].state) /\ recvs[r][i].got = NULL
  /\ \E n \in 1..Len(net[s][r]) :
       /\ Admits(recvs[r][i], s, net[s][r][n])
       /\ \A m \in 1..n - 1 : ~Admits(recvs[r][i], s, net[s][r][m])
       /\ recvs' = [recvs EXCEPT ![r][i].got = [from |-> s, packet |-> net[s][r][n]]]
       /\ net' = [net EXCEPT ![s][r] = RemoveAt(@, n)]
  /\ UNCHANGED <<pc, slot, ses, sends, exchange, left, sent, handled>>

-----------------------------------------------------------------------------
(* async_des.  The steps of async_mpi are taken one at a time: post, test, *)
(* post the body, test it.                                                 *)

\* Where a rank goes on after slot i, and after the send part of slot i.
NextSlot(r) ==
  LET i == slot[r] + 1
      hasSend == ~ses[r].noSends /\ i <= NumSends
  IN  /\ slot' = [slot EXCEPT ![r] = IF hasSend \/ i <= NumRecvs THEN i ELSE @]
      /\ pc' = [pc EXCEPT ![r] = IF hasSend
                                 THEN IF ses[r].first THEN "sendHandler" ELSE "send"
                                 ELSE IF i <= NumRecvs THEN "recv" ELSE "reduce"]

\* Where it goes on after a receive slot: while the receives are first posted
\* (at "post") to the next of them, and then to the first call.
RecvPartDone(r) ==
  IF pc[r] # "post" THEN NextSlot(r)
  ELSE IF slot[r] < NumRecvs
  THEN slot' = [slot EXCEPT ![r] = @ + 1] /\ UNCHANGED pc
  ELSE slot' = [slot EXCEPT ![r] = 1] /\ pc' = [pc EXCEPT ![r] = "sendHandler"]

SendPartDone(r) ==
  IF slot[r] <= NumRecvs
  THEN pc' = [pc EXCEPT ![r] = "recv"] /\ UNCHANGED slot
  ELSE NextSlot(r)

\* One step of async_mpi on a send slot, at "send" and, right after the
\* handler has given it a message, at "sendNew".
SendStep(r) ==
  LET i == slot[r]
      s == sends[r][i]
      To(state) == sends' = [sends EXCEPT ![r][i].state = state]
  IN
  /\ pc[r] \in {"send", "sendNew"}
  /\ \/ s.state = "post"  /\ Isend(r, i, 0) /\ To("test") /\ UNCHANGED <<pc, slot>>
     \/ s.state = "post2" /\ Isend(r, i, s.tag) /\ To("test2") /\ UNCHANGED <<pc, slot>>
     \/ /\ s.state \in {"test", "test2"}
        /\ \E flag \in TestSend(r, i, IF s.state = "test" THEN 0 ELSE s.tag) :
             IF flag
             THEN To(IF s.state = "test" THEN "post2" ELSE "success") /\ UNCHANGED <<pc, slot>>
             ELSE SendPartDone(r) /\ UNCHANGED sends
        /\ UNCHANGED net
     \/ /\ s.state = "success"
        /\ IF pc[r] = "send"
           THEN pc' = [pc EXCEPT ![r] = "sendHandler"] /\ UNCHANGED slot
           ELSE SendPartDone(r)
        /\ UNCHANGED <<net, sends>>
  /\ UNCHANGED <<ses, recvs, exchange, left, sent, handled>>

\* The handler (external): it gives the slot a message and a rank to send it
\* to, which may be its own, or says that there is none left.
SendHandler(r) ==
  /\ pc[r] = "sendHandler"
  /\ IF left[r] > 0
     THEN \E to \in Rank :
          LET msg == <<r, exchange[r], ses[r].tags>> IN
          /\ sends' = [sends EXCEPT ![r][slot[r]] =
               [state |-> StartState, peer |-> to, tag |-> ses[r].tags, msg |-> msg]]
          /\ ses' = [ses EXCEPT ![r].tags = @ + 1, ![r].msgCount = @ + 1]
          /\ left' = [left EXCEPT ![r] = @ - 1]
          /\ sent' = sent \cup {<<msg, to>>}
          /\ pc' = [pc EXCEPT ![r] = "sendNew"]
          /\ UNCHANGED slot
     ELSE /\ ses' = [ses EXCEPT ![r].done = @ + 1]
          /\ SendPartDone(r)
          /\ UNCHANGED <<sends, left, sent>>
  /\ UNCHANGED <<recvs, net, exchange, handled>>

\* A handler that fails returns -1 (_hx_parallel_send_gid2node_answer), and
\* async_des takes it for a message: the slot is as it was, and counts.
SendHandlerFails(r) ==
  /\ pc[r] = "sendHandler" /\ left[r] > 0 /\ MayFail
  /\ sends' = [sends EXCEPT ![r][slot[r]].tag = ses[r].tags]
  /\ ses' = [ses EXCEPT ![r].tags = @ + 1, ![r].msgCount = @ + 1]
  /\ left' = [left EXCEPT ![r] = @ - 1]
  /\ pc' = [pc EXCEPT ![r] = "sendNew"]
  /\ UNCHANGED <<slot, recvs, net, exchange, sent, handled>>

\* One step of async_mpi on a receive slot, at "recv" and, when the session is
\* created, at "post" or, after the slot has been reset, at "recvAgain".  What
\* these two calls return is not looked at.
RecvStep(r) ==
  LET i  == slot[r]
      rc == recvs[r][i]
      To(new) == recvs' = [recvs EXCEPT ![r][i] = new] /\ UNCHANGED <<pc, slot>>
  IN
  /\ pc[r] \in {"post", "recv", "recvAgain"}
  /\ \/ rc.state = "post"  /\ To([rc EXCEPT !.state = IF WithCount THEN "test" ELSE "test2"])
     \/ rc.state = "post2" /\ To([rc EXCEPT !.state = "test2"])
     \/ Posted(rc.state) /\ rc.got = NULL /\ RecvPartDone(r) /\ UNCHANGED recvs
     \/ /\ rc.state = "test" /\ rc.got # NULL
        /\ To([rc EXCEPT !.state = "post2", !.got = NULL, !.peer = rc.got.from,
                         !.tag = rc.got.packet.num, !.header = rc.got.packet.msg])
     \/ /\ rc.state = "test2" /\ rc.got # NULL
        /\ To([rc EXCEPT !.state = "success", !.got = NULL, !.peer = rc.got.from,
                         !.msg = rc.got.packet.msg])
     \/ rc.state = "success" /\ pc[r] # "recv" /\ RecvPartDone(r) /\ UNCHANGED recvs
  /\ UNCHANGED <<ses, sends, net, exchange, left, sent, handled>>

\* A rank that may still send itself does not count what it receives.
RecvHandler_Counted(r) ==
  LET i == slot[r] IN
  /\ pc[r] = "recv" /\ recvs[r][i].state = "success"
  /\ ses' = [ses EXCEPT ![r].msgCount = IF ses[r].noSends THEN @ - 1 ELSE @]
  /\ handled' = [handled EXCEPT ![r] = Append(@, [msg |-> recvs[r][i].msg, in |-> exchange[r]])]
  /\ recvs' = [recvs EXCEPT ![r][i] = NewRecv]
  /\ pc' = [pc EXCEPT ![r] = "recvAgain"]
  /\ UNCHANGED <<slot, sends, net, exchange, left, sent>>

\* The handler (external) takes what has been received; the slot is reset and
\* posted again.
RecvHandler(r) ==
  LET i == slot[r] IN
  /\ pc[r] = "recv" /\ recvs[r][i].state = "success"
  /\ ses' = [ses EXCEPT ![r].msgCount = @ - 1]
  /\ handled' = [handled EXCEPT ![r] = Append(@, [msg |-> recvs[r][i].msg, in |-> exchange[r]])]
  /\ recvs' = [recvs EXCEPT ![r][i] = NewRecv]
  /\ pc' = [pc EXCEPT ![r] = "recvAgain"]
  /\ UNCHANGED <<slot, sends, net, exchange, left, sent>>

\* The end of a call.  MPI_Allreduce returns to a rank when all ranks have
\* called it; after that they no longer wait for each other, so that it makes
\* no difference that they all go on at once.
NoSends(r)      == ses[r].noSends \/ ses[r].done >= NumSends

\* A rank that may still send counts like one that may not.
Contribution_NoGuard(r) == ses[r].msgCount

Contribution(r) == ses[r].msgCount + (IF NoSends(r) THEN 0 ELSE 1)
Total           == FoldFunction(+, 0, [r \in Rank |-> Contribution(r)])
Over(r)         == NoSends(r) /\ Total = 0

Allreduce ==
  /\ \A r \in Rank : pc[r] = "reduce"
  /\ ses' = [r \in Rank |-> [ses[r] EXCEPT !.first = FALSE, !.done = 0,
                                           !.noSends = NoSends(r)]]
  /\ slot' = [r \in Rank |-> 1]
  /\ pc' = [r \in Rank |-> IF Over(r) THEN "cancel"
                           ELSE IF NoSends(r) THEN "recv" ELSE "send"]
  /\ UNCHANGED <<sends, recvs, net, exchange, left, sent, handled>>

-----------------------------------------------------------------------------
(* The end of an exchange and the begin of the next.                       *)

\* async_des_session_destroy: a receive that waits is cancelled, and what it
\* may have received meanwhile is gone.  (It cancels a send, too, that has not
\* been tested since its message was received, which has no effect.)
Cancel(r) ==
  /\ pc[r] = "cancel"
  /\ recvs' = [recvs EXCEPT ![r] = [i \in 1..NumRecvs |-> NewRecv]]
  /\ pc' = [pc EXCEPT ![r] = "barrier"]
  /\ UNCHANGED <<slot, ses, sends, net, exchange, left, sent, handled>>

Barrier == \A r \in Rank : pc[r] = "barrier"

Leave ==
  /\ Barrier
  /\ exchange' = [r \in Rank |-> exchange[r] + 1]
  /\ pc' = [r \in Rank |-> IF exchange[r] = Exchanges THEN "out" ELSE "create"]
  /\ UNCHANGED <<slot, ses, sends, recvs, net, left, sent, handled>>

\* async_des_session_create, which then posts the receives one by one.
Create(r) ==
  /\ pc[r] = "create"
  /\ ses' = [ses EXCEPT ![r] = NewSes]
  /\ left' = [left EXCEPT ![r] = Load[exchange[r]][r]]
  /\ sends' = [sends EXCEPT ![r] = [i \in 1..NumSends |-> NewSend]]
  /\ recvs' = [recvs EXCEPT ![r] = [i \in 1..NumRecvs |-> NewRecv]]
  /\ pc' = [pc EXCEPT ![r] = "post"]
  /\ slot' = [slot EXCEPT ![r] = 1]
  /\ UNCHANGED <<net, exchange, sent, handled>>

Init ==
  /\ pc = [r \in Rank |-> "create"]
  /\ slot = [r \in Rank |-> 1]
  /\ ses = [r \in Rank |-> NewSes]
  /\ sends = [r \in Rank |-> [i \in 1..NumSends |-> NewSend]]
  /\ recvs = [r \in Rank |-> [i \in 1..NumRecvs |-> NewRecv]]
  /\ net = [s \in Rank |-> [r \in Rank |-> <<>>]]
  /\ exchange = [r \in Rank |-> 1]
  /\ left = Load[1]
  /\ sent = {}
  /\ handled = [r \in Rank |-> <<>>]

RankStep(r) ==
  \/ SendStep(r) \/ SendHandler(r) \/ SendHandlerFails(r)
  \/ RecvStep(r) \/ RecvHandler(r)
  \/ Cancel(r) \/ Create(r)

Deliveries == \E s, r \in Rank, i \in 1..NumRecvs : Deliver(s, r, i)

Next == (\E r \in Rank : RankStep(r)) \/ Deliveries \/ Allreduce \/ Leave

Spec == Init /\ [][Next]_vars

\* No rank stops, and MPI delivers what a posted receive waits for.
FairSpec ==
  /\ Spec
  /\ \A r \in Rank : WF_vars(RankStep(r))
  /\ \A s, r \in Rank, i \in 1..NumRecvs : WF_vars(Deliver(s, r, i))
  /\ WF_vars(Allreduce) /\ WF_vars(Leave)

-----------------------------------------------------------------------------
(* Properties.                                                             *)

SendStates == {"post", "test", "post2", "test2", "success"}

TypeOK ==
  /\ pc \in [Rank -> Control]
  /\ slot \in [Rank -> Slots]
  /\ ses \in [Rank -> [msgCount : Int, tags : Nat \ {0}, first : BOOLEAN,
                       noSends : BOOLEAN, done : 0..NumSends]]
  /\ \A r \in Rank : /\ \A i \in 1..NumSends : sends[r][i].state \in SendStates
                     /\ \A i \in 1..NumRecvs : recvs[r][i].state \in SendStates
  /\ exchange \in [Rank -> 1..Exchanges + 1]
  /\ left \in [Rank -> Nat]
  /\ \A m \in sent : m[1] \in Message /\ m[2] \in Rank

SentIn(e)     == {m \in sent : m[1][2] = e}
HandledBy(r)  == {h.msg : h \in Range(handled[r])}

\* async_des returns ASYNC_SUCCESS only when the exchange is over: every rank
\* has sent what it had to send, and every message has been handled.  The sum
\* of the counters is taken while ranks are at different calls of their slots;
\* that a rank counts one more while it may still send makes it safe.
SuccessMeansOver ==
  \A r \in Rank : pc[r] \in {"cancel", "barrier"} =>
    /\ \A q \in Rank : exchange[q] = exchange[r] => left[q] = 0
    /\ \A m \in SentIn(exchange[r]) : m[1] \in HandledBy(m[2])

\* A handler is given a message that was sent to its rank, in the exchange it
\* was sent in, and no message twice: what async_des_session_destroy cancels
\* can not take a message of the next exchange.  The body that goes into a
\* buffer is the one its header gave the size of, also when a rank has several
\* messages under way to the same rank.
HandledRight ==
  /\ \A r \in Rank : \A n \in 1..Len(handled[r]) :
       LET h == handled[r][n] IN
       /\ <<h.msg, r>> \in sent
       /\ h.msg[2] = h.in
       /\ \A k \in 1..n - 1 : handled[r][k].msg # h.msg
  /\ WithCount => \A r \in Rank, i \in 1..NumRecvs :
       recvs[r][i].state = "success" => recvs[r][i].msg = recvs[r][i].header

\* A send handler has failed: it was counted, and has sent nothing.
Failed ==
  \E r \in {q \in Rank : pc[q] \notin {"create", "out"}} :
    ses[r].tags - 1 > Cardinality({m \in sent : m[1][1] = r /\ m[1][2] = exchange[r]})

\* No rank waits in vain: the exchanges come to their end, on every rank, with
\* every message handled, whatever the order of sends and polls, unless a send
\* handler fails.  Then the sum never comes to 0.
AllComplete == <>(Failed \/ \A r \in Rank : pc[r] = "out")
=============================================================================
