--------------------------- MODULE AsyncDES_proofs ---------------------------
(***************************************************************************)
(* Proofs about async_des, for any ranks, slots and messages, in three     *)
(* parts.  Its control: where a rank and its slots can be.  Its messages:  *)
(* where a message and its header can be, and that a receive handler is    *)
(* given the right one, once.  The end of an exchange: that it is over     *)
(* when the sum of the counters says so.                                   *)
(***************************************************************************)
EXTENDS AsyncDES, FiniteSetsExt, Functions, FiniteSetTheorems, TLAPS

-----------------------------------------------------------------------------
(* The inductive invariant of the control.                                 *)

SendSlot  == [state : SendStates, peer : Rank \cup {NULL}, tag : Nat,
              msg : Message \cup {NULL}]
PacketSet == [tag : Nat, msg : Message, num : Nat]
GotSet    == [from : Rank, packet : PacketSet]
RecvSlot  == [state : SendStates, peer : Rank \cup {NULL}, tag : Nat,
              header : Message \cup {NULL}, msg : Message \cup {NULL},
              got : GotSet \cup {NULL}]
SesSet    == [msgCount : Int, tags : Nat \ {0}, first : BOOLEAN,
              noSends : BOOLEAN, done : 0..NumSends]
HandledSet == [msg : Message \cup {NULL}, in : 1..Exchanges]

\* TypeOK, with the fields it leaves out.
Typed ==
  /\ pc \in [Rank -> Control]
  /\ slot \in [Rank -> Slots]
  /\ ses \in [Rank -> SesSet]
  /\ sends \in [Rank -> [1..NumSends -> SendSlot]]
  /\ recvs \in [Rank -> [1..NumRecvs -> RecvSlot]]
  /\ net \in [Rank -> [Rank -> Seq(PacketSet)]]
  /\ exchange \in [Rank -> 1..Exchanges + 1]
  /\ left \in [Rank -> Nat]
  /\ sent \in SUBSET (Message \X Rank)
  /\ handled \in [Rank -> Seq(HandledSet)]

\* A rank is at a send slot, or at a receive slot, that it has.
AtASlot ==
  \A r \in Rank :
    /\ pc[r] \in {"send", "sendHandler", "sendNew"} => slot[r] <= NumSends
    /\ pc[r] \in {"post", "recv", "recvAgain"} => slot[r] <= NumRecvs

\* In a call, a slot is found without a message at most once.
DoneOnce ==
  \A r \in Rank :
    /\ pc[r] = "post" => ses[r].done = 0
    /\ pc[r] \in {"send", "sendHandler"} => ses[r].done < slot[r]
    /\ pc[r] \in {"sendNew", "recv", "recvAgain", "reduce"} => ses[r].done <= slot[r]

\* The message of slot i of rank r, or its header, has yet to be sent.
Waiting(r, i) == sends[r][i].state \in {"post", "test", "post2"}

Addressed ==
  \A r \in Rank, i \in 1..NumSends :
    Waiting(r, i) => sends[r][i].peer \in Rank /\ sends[r][i].msg \in Message

\* The send handler is asked for a message only for a slot that is done.
FreeSlot ==
  \A r \in Rank :
    /\ pc[r] = "sendHandler" => sends[r][slot[r]].state = "success"
    /\ pc[r] = "post" => \A i \in 1..NumSends : sends[r][i].state = "success"
    /\ ses[r].first /\ pc[r] \in {"send", "sendHandler", "sendNew", "recv", "recvAgain"}
       => \A i \in 1..NumSends : i > slot[r] => sends[r][i].state = "success"

\* A slot found without a message says that the rank has none left.
NoneLeft ==
  \A r \in Rank : pc[r] # "create" /\ (ses[r].noSends \/ ses[r].done > 0) => left[r] = 0

\* The ranks are in the same exchange.
InTime ==
  /\ \A r, q \in Rank : exchange[r] = exchange[q]
  /\ \A r \in Rank : pc[r] # "out" => exchange[r] <= Exchanges

ControlInv == Typed /\ AtASlot /\ DoneOnce /\ Addressed /\ FreeSlot /\ NoneLeft /\ InTime

-----------------------------------------------------------------------------
(* Lemmas.                                                                 *)

LEMMA SlotsBound == \E m \in Nat \ {0} : Slots = 1..m /\ NumSends <= m /\ NumRecvs <= m
<1>1. \E m \in {NumSends, NumRecvs} : \A k \in {NumSends, NumRecvs} : m >= k
  BY SlotAssumption
<1>2. PICK m \in {NumSends, NumRecvs} : \A k \in {NumSends, NumRecvs} : m >= k BY <1>1
<1>3. Max({NumSends, NumRecvs}) = m BY <1>2, SlotAssumption DEF Max
<1> QED BY <1>2, <1>3, SlotAssumption DEF Slots

\* RemoveAt leaves the other elements, in their order.
LEMMA RemoveAtIs ==
  ASSUME NEW S, NEW q \in Seq(S), NEW n \in 1..Len(q)
  PROVE  /\ RemoveAt(q, n) \in Seq(S)
         /\ Len(RemoveAt(q, n)) = Len(q) - 1
         /\ \A k \in 1..Len(q) - 1 : RemoveAt(q, n)[k] = IF k < n THEN q[k] ELSE q[k + 1]
<1> DEFINE a == SubSeq(q, 1, n - 1)
           b == SubSeq(q, n + 1, Len(q))
<1>1. a \in Seq(S) /\ Len(a) = n - 1 /\ \A k \in 1..n - 1 : a[k] = q[k] OBVIOUS
<1>2. b \in Seq(S) /\ Len(b) = Len(q) - n /\ \A k \in 1..Len(q) - n : b[k] = q[n + k] OBVIOUS
<1>3. RemoveAt(q, n) = a \o b BY DEF RemoveAt
<1> HIDE DEF a, b
<1>4. Len(q) \in Nat OBVIOUS
<1>5. a \o b \in Seq(S) /\ Len(a \o b) = Len(q) - 1
  <2>1. a \in Seq(S) /\ b \in Seq(S) BY <1>1, <1>2
  <2>2. Len(a) = n - 1 /\ Len(b) = Len(q) - n BY <1>1, <1>2
  <2>3. a \o b \in Seq(S) /\ Len(a \o b) = Len(a) + Len(b) BY <2>1
  <2> QED BY <2>2, <2>3, <1>4
<1>6. ASSUME NEW k \in 1..Len(q) - 1
      PROVE  (a \o b)[k] = IF k < n THEN q[k] ELSE q[k + 1]
  <2>1. CASE k < n BY <2>1, <1>1, <1>2
  <2>2. CASE ~(k < n)
    <3>1. k > Len(a) /\ k - (n - 1) \in 1..Len(q) - n BY <2>2, <1>1, <1>4
    <3>2. (a \o b)[k] = b[k - (n - 1)] BY <3>1, <1>1, <1>2, SMTT(60)
    <3>3. n + (k - (n - 1)) = k + 1 OBVIOUS
    <3> QED BY <3>1, <3>2, <3>3, <1>2, <2>2
  <2> QED BY <2>1, <2>2
<1> QED BY <1>3, <1>5, <1>6

\* Where a rank goes on from slot i.
LEMMA NextSlotIs ==
  ASSUME Typed, NEW r \in Rank, NextSlot(r)
  PROVE  /\ slot' \in [Rank -> Slots] /\ pc' \in [Rank -> Control]
         /\ \A q \in Rank \ {r} : slot'[q] = slot[q] /\ pc'[q] = pc[q]
         /\ \/ /\ slot'[r] = slot[r] + 1 /\ slot'[r] <= NumSends
               /\ pc'[r] = IF ses[r].first THEN "sendHandler" ELSE "send"
            \/ slot'[r] = slot[r] + 1 /\ slot'[r] <= NumRecvs /\ pc'[r] = "recv"
            \/ slot'[r] = slot[r] /\ pc'[r] = "reduce"
<1>1. PICK m \in Nat \ {0} : Slots = 1..m /\ NumSends <= m /\ NumRecvs <= m BY SlotsBound
<1> QED BY <1>1, SlotAssumption, SMTT(60) DEF Typed, NextSlot, Control, SesSet

LEMMA SendPartDoneIs ==
  ASSUME Typed, NEW r \in Rank, SendPartDone(r)
  PROVE  /\ slot' \in [Rank -> Slots] /\ pc' \in [Rank -> Control]
         /\ \A q \in Rank \ {r} : slot'[q] = slot[q] /\ pc'[q] = pc[q]
         /\ \/ /\ slot'[r] = slot[r] + 1 /\ slot'[r] <= NumSends
               /\ pc'[r] = IF ses[r].first THEN "sendHandler" ELSE "send"
            \/ /\ slot'[r] \in {slot[r], slot[r] + 1} /\ slot'[r] <= NumRecvs
               /\ pc'[r] = "recv"
            \/ slot'[r] = slot[r] /\ pc'[r] = "reduce"
<1>1. CASE slot[r] <= NumRecvs
  BY <1>1 DEF SendPartDone, Typed, Control
<1>2. CASE ~(slot[r] <= NumRecvs)
  BY <1>2, NextSlotIs DEF SendPartDone
<1> QED BY <1>1, <1>2

LEMMA RecvPartDoneIs ==
  ASSUME Typed, NEW r \in Rank, RecvPartDone(r)
  PROVE  /\ slot' \in [Rank -> Slots] /\ pc' \in [Rank -> Control]
         /\ \A q \in Rank \ {r} : slot'[q] = slot[q] /\ pc'[q] = pc[q]
         /\ IF pc[r] = "post"
            THEN \/ slot'[r] = slot[r] + 1 /\ slot'[r] <= NumRecvs /\ pc'[r] = "post"
                 \/ slot'[r] = 1 /\ pc'[r] = "sendHandler"
            ELSE \/ /\ slot'[r] = slot[r] + 1 /\ slot'[r] <= NumSends
                    /\ pc'[r] = IF ses[r].first THEN "sendHandler" ELSE "send"
                 \/ slot'[r] = slot[r] + 1 /\ slot'[r] <= NumRecvs /\ pc'[r] = "recv"
                 \/ slot'[r] = slot[r] /\ pc'[r] = "reduce"
<1>1. PICK m \in Nat \ {0} : Slots = 1..m /\ NumSends <= m /\ NumRecvs <= m BY SlotsBound
<1>2. CASE pc[r] = "post"
  <2>0. slot \in [Rank -> Slots] /\ pc \in [Rank -> Control] BY DEF Typed
  <2>1. CASE slot[r] < NumRecvs
    <3>1. slot' = [slot EXCEPT ![r] = @ + 1] /\ pc' = pc BY <1>2, <2>1 DEF RecvPartDone
    <3>2. slot[r] \in 1..m /\ slot[r] + 1 \in 1..m BY <1>1, <2>0, <2>1, SlotAssumption
    <3> QED BY <1>1, <1>2, <2>0, <2>1, <3>1, <3>2, SlotAssumption
  <2>2. CASE ~(slot[r] < NumRecvs)
    <3>1. slot' = [slot EXCEPT ![r] = 1] /\ pc' = [pc EXCEPT ![r] = "sendHandler"]
      BY <1>2, <2>2 DEF RecvPartDone
    <3> QED BY <1>1, <1>2, <2>0, <3>1 DEF Control
  <2> QED BY <2>1, <2>2
<1>3. CASE pc[r] # "post"
  BY <1>3, NextSlotIs DEF RecvPartDone
<1> QED BY <1>2, <1>3

\* A new state of one send slot.
SendBecomes(r, i, st) == sends' = [sends EXCEPT ![r][i].state = st]

LEMMA SendToState ==
  ASSUME Typed, NEW r \in Rank, NEW i \in 1..NumSends, NEW st \in SendStates,
         SendBecomes(r, i, st)
  PROVE  /\ sends' \in [Rank -> [1..NumSends -> SendSlot]]
         /\ sends'[r][i] = [sends[r][i] EXCEPT !.state = st]
         /\ \A q \in Rank, j \in 1..NumSends : q # r \/ j # i => sends'[q][j] = sends[q][j]
<1>1. sends \in [Rank -> [1..NumSends -> SendSlot]] BY DEF Typed
<1>a. sends[r][i] \in SendSlot BY <1>1
<1>2. [sends[r][i] EXCEPT !.state = st] \in SendSlot BY <1>a DEF SendSlot
<1>3. sends' = [sends EXCEPT ![r] = [sends[r] EXCEPT ![i] = [sends[r][i] EXCEPT !.state = st]]]
  BY DEF SendBecomes
<1>4. sends[r] \in [1..NumSends -> SendSlot] BY <1>1
<1> DEFINE new == [sends[r][i] EXCEPT !.state = st]
<1> HIDE DEF new
<1>5. sends' = [sends EXCEPT ![r] = [sends[r] EXCEPT ![i] = new]] BY <1>3 DEF new
<1>6. new \in SendSlot BY <1>2 DEF new
<1>7. [sends[r] EXCEPT ![i] = new] \in [1..NumSends -> SendSlot] BY <1>4, <1>6
<1>8. sends' \in [Rank -> [1..NumSends -> SendSlot]] BY <1>1, <1>5, <1>7
<1>9. sends'[r][i] = new BY <1>1, <1>4, <1>5
<1>10. \A q \in Rank, j \in 1..NumSends : q # r \/ j # i => sends'[q][j] = sends[q][j]
  <2>1. ASSUME NEW q \in Rank, NEW j \in 1..NumSends, q # r PROVE sends'[q][j] = sends[q][j]
    BY <2>1, <1>1, <1>5
  <2>2. ASSUME NEW j \in 1..NumSends, j # i PROVE sends'[r][j] = sends[r][j]
    BY <2>2, <1>1, <1>4, <1>5, SMTT(60)
  <2> QED BY <2>1, <2>2
<1> QED BY <1>8, <1>9, <1>10 DEF new

LEMMA IsendIs ==
  ASSUME Typed, NEW r \in Rank, NEW i \in 1..NumSends, NEW tag \in Nat,
         sends[r][i].peer \in Rank, sends[r][i].msg \in Message, Isend(r, i, tag)
  PROVE  /\ net' \in [Rank -> [Rank -> Seq(PacketSet)]]
         /\ Packet(r, i, tag) \in PacketSet
         /\ net'[r][sends[r][i].peer] = Append(net[r][sends[r][i].peer], Packet(r, i, tag))
         /\ \A s, q \in Rank : s # r \/ q # sends[r][i].peer => net'[s][q] = net[s][q]
<1> DEFINE p == sends[r][i].peer
           k == Packet(r, i, tag)
<1>1. net \in [Rank -> [Rank -> Seq(PacketSet)]] /\ sends[r][i] \in SendSlot
  <2>1. sends \in [Rank -> [1..NumSends -> SendSlot]] BY DEF Typed
  <2>2. net \in [Rank -> [Rank -> Seq(PacketSet)]] BY DEF Typed
  <2> QED BY <2>1, <2>2
<1>2. k \in PacketSet BY <1>1 DEF Packet, PacketSet, SendSlot
<1>3. net' = [net EXCEPT ![r][p] = Append(@, k)] BY DEF Isend
<1>4. p \in Rank OBVIOUS
<1> HIDE DEF p, k
<1>5. Append(net[r][p], k) \in Seq(PacketSet) BY <1>1, <1>2, <1>4
<1>6. /\ net' \in [Rank -> [Rank -> Seq(PacketSet)]]
      /\ net'[r][p] = Append(net[r][p], k)
      /\ \A s, q \in Rank : s # r \/ q # p => net'[s][q] = net[s][q]
  BY <1>1, <1>3, <1>4, <1>5
<1> QED BY <1>2, <1>6 DEF p, k

\* The parts of a step of a send slot: it starts to send, it goes on without
\* sending, or the rank goes on.
LEMMA SendStepIs ==
  ASSUME Typed, NEW r \in Rank, SendStep(r)
  PROVE  \/ /\ sends[r][slot[r]].state = "post" /\ Isend(r, slot[r], 0)
            /\ sends' = [sends EXCEPT ![r][slot[r]].state = "test"]
            /\ UNCHANGED <<pc, slot>>
         \/ /\ sends[r][slot[r]].state = "post2" /\ Isend(r, slot[r], sends[r][slot[r]].tag)
            /\ sends' = [sends EXCEPT ![r][slot[r]].state = "test2"]
            /\ UNCHANGED <<pc, slot>>
         \/ /\ sends[r][slot[r]].state = "test"
            /\ sends' = [sends EXCEPT ![r][slot[r]].state = "post2"]
            /\ UNCHANGED <<pc, slot, net>>
         \/ /\ sends[r][slot[r]].state = "test2"
            /\ sends' = [sends EXCEPT ![r][slot[r]].state = "success"]
            /\ UNCHANGED <<pc, slot, net>>
         \/ SendPartDone(r) /\ UNCHANGED <<sends, net>>
         \/ /\ sends[r][slot[r]].state = "success" /\ pc[r] = "send"
            /\ pc' = [pc EXCEPT ![r] = "sendHandler"]
            /\ UNCHANGED <<slot, sends, net>>
BY DEF SendStep

\* A rank goes on from a slot, to the next or to the end of the call.
LEMMA GoesOn ==
  ASSUME ControlInv, NEW r \in Rank,
         slot' \in [Rank -> Slots], pc' \in [Rank -> Control],
         \A q \in Rank \ {r} : slot'[q] = slot[q] /\ pc'[q] = pc[q] /\ ses'[q] = ses[q],
         UNCHANGED <<sends, exchange, left>>,
         ses' \in [Rank -> SesSet],
         ses'[r].first = ses[r].first, ses'[r].noSends = ses[r].noSends,
         ses'[r].done <= slot[r], ses'[r].done > 0 => left[r] = 0,
         pc[r] \in {"send", "sendHandler", "sendNew", "recv", "recvAgain"},
         \/ /\ slot'[r] = slot[r] + 1 /\ slot'[r] <= NumSends
            /\ pc'[r] = IF ses[r].first THEN "sendHandler" ELSE "send"
         \/ slot'[r] \in {slot[r], slot[r] + 1} /\ slot'[r] <= NumRecvs /\ pc'[r] = "recv"
         \/ slot'[r] = slot[r] /\ pc'[r] = "reduce"
  PROVE  AtASlot' /\ DoneOnce' /\ Addressed' /\ FreeSlot' /\ NoneLeft' /\ InTime'
<1>1. slot[r] \in Nat \ {0} /\ ses[r] \in SesSet /\ ses'[r] \in SesSet
  BY SlotsBound DEF ControlInv, Typed
<1>2. slot'[r] \in Nat \ {0} /\ ses'[r].done \in Nat /\ slot'[r] >= slot[r]
  BY <1>1, SlotAssumption DEF SesSet
<1>3. AtASlot' BY DEF ControlInv, AtASlot
<1>4. DoneOnce' BY <1>1, <1>2 DEF ControlInv, DoneOnce
<1>5. Addressed' BY DEF ControlInv, Addressed, Waiting
<1>6. FreeSlot'
  <2> SUFFICES ASSUME NEW q \in Rank
               PROVE  /\ pc'[q] = "sendHandler" => sends[q][slot'[q]].state = "success"
                      /\ pc'[q] = "post" => \A i \in 1..NumSends : sends[q][i].state = "success"
                      /\ ses'[q].first /\ pc'[q] \in {"send", "sendHandler", "sendNew", "recv", "recvAgain"}
                         => \A i \in 1..NumSends : i > slot'[q] => sends[q][i].state = "success"
    BY DEF FreeSlot
  <2>1. CASE q # r BY <2>1 DEF ControlInv, FreeSlot
  <2>2. CASE q = r
    <3>1. ses[r].first => \A i \in 1..NumSends : i > slot[r] => sends[r][i].state = "success"
      BY DEF ControlInv, FreeSlot
    <3>2. pc'[r] # "post" OBVIOUS
    <3>3. pc'[r] = "sendHandler" => ses[r].first /\ slot'[r] \in 1..NumSends /\ slot'[r] > slot[r]
      BY <1>1, <1>2, SlotAssumption
    <3>4. \A i \in 1..NumSends : i > slot'[r] => i > slot[r] BY <1>1, <1>2
    <3> QED BY <2>2, <3>1, <3>2, <3>3, <3>4
  <2> QED BY <2>1, <2>2
<1>7. NoneLeft' BY <1>1, <1>2 DEF ControlInv, NoneLeft
<1>8. InTime'
  <2>1. pc[r] # "out" OBVIOUS
  <2> QED BY <2>1 DEF ControlInv, InTime
<1> QED BY <1>3, <1>4, <1>5, <1>6, <1>7, <1>8

LEMMA SendStepControl ==
  ASSUME ControlInv, NEW r \in Rank, SendStep(r)
  PROVE  ControlInv'
<1>0. slot[r] \in 1..NumSends
  BY SlotsBound DEF SendStep, ControlInv, Typed, AtASlot
<1>1. PICK i \in 1..NumSends : i = slot[r] BY <1>0
<1>5. i \in 1..NumSends BY <1>1
<1>2. Typed /\ sends[r][i] \in SendSlot
  <2>1. sends \in [Rank -> [1..NumSends -> SendSlot]] BY DEF ControlInv, Typed
  <2> QED BY <1>1, <2>1 DEF ControlInv
<1>3. UNCHANGED <<ses, recvs, exchange, left, sent, handled>> BY DEF SendStep
<1>4. pc[r] \in {"send", "sendNew"} BY DEF SendStep
<1>10. ASSUME NEW st \in SendStates \ {"post"}, sends' = [sends EXCEPT ![r][i].state = st],
              st \in {"test", "post2"} => Waiting(r, i), UNCHANGED <<pc, slot>>,
              net' \in [Rank -> [Rank -> Seq(PacketSet)]]
       PROVE  ControlInv'
  <2>1. /\ sends' \in [Rank -> [1..NumSends -> SendSlot]]
        /\ sends'[r][i] = [sends[r][i] EXCEPT !.state = st]
        /\ \A q \in Rank, j \in 1..NumSends : q # r \/ j # i => sends'[q][j] = sends[q][j]
    <3>1. SendBecomes(r, i, st) /\ st \in SendStates BY <1>10 DEF SendBecomes
    <3> QED BY <1>5, <1>2, <3>1, SendToState
  <2>2. Typed' BY <2>1, <1>3, <1>10 DEF ControlInv, Typed
  <2>3. AtASlot' BY <1>10 DEF ControlInv, AtASlot
  <2>4. DoneOnce' BY <1>10, <1>3 DEF ControlInv, DoneOnce
  <2>5. Addressed'
    <3>1. /\ sends'[r][i].state = st /\ sends'[r][i].peer = sends[r][i].peer
          /\ sends'[r][i].msg = sends[r][i].msg
      BY <2>1, <1>2 DEF SendSlot
    <3>2. Waiting(r, i)' => Waiting(r, i) BY <3>1, <1>10 DEF Waiting, SendStates
    <3> SUFFICES ASSUME NEW q \in Rank, NEW j \in 1..NumSends, Waiting(q, j)'
                 PROVE  sends'[q][j].peer \in Rank /\ sends'[q][j].msg \in Message
      BY DEF Addressed
    <3>3. CASE q = r /\ j = i
      BY <1>5, <3>1, <3>2, <3>3 DEF ControlInv, Addressed
    <3>4. CASE q # r \/ j # i
      BY <2>1, <3>4 DEF ControlInv, Addressed, Waiting
    <3> QED BY <3>3, <3>4
  <2>6. FreeSlot'
    BY <2>1, <1>10, <1>3, <1>4, <1>1 DEF ControlInv, FreeSlot
  <2>7. NoneLeft' BY <1>10, <1>3 DEF ControlInv, NoneLeft
  <2>8. InTime' BY <1>10, <1>3 DEF ControlInv, InTime
  <2> QED BY <2>2, <2>3, <2>4, <2>5, <2>6, <2>7, <2>8 DEF ControlInv
<1>11. ASSUME SendPartDone(r), UNCHANGED <<sends, net>> PROVE ControlInv'
  <2>1. ses[r].done <= slot[r] /\ (ses[r].done > 0 => left[r] = 0)
    <3>1. slot[r] \in Nat /\ ses[r].done \in Nat
      BY <1>2, SlotsBound DEF Typed, SesSet
    <3> QED BY <3>1, <1>4 DEF ControlInv, DoneOnce, NoneLeft
  <2>2. /\ slot' \in [Rank -> Slots] /\ pc' \in [Rank -> Control]
        /\ \A q \in Rank \ {r} : slot'[q] = slot[q] /\ pc'[q] = pc[q]
        /\ \/ /\ slot'[r] = slot[r] + 1 /\ slot'[r] <= NumSends
              /\ pc'[r] = IF ses[r].first THEN "sendHandler" ELSE "send"
           \/ /\ slot'[r] \in {slot[r], slot[r] + 1} /\ slot'[r] <= NumRecvs
              /\ pc'[r] = "recv"
           \/ slot'[r] = slot[r] /\ pc'[r] = "reduce"
    BY <1>2, <1>11, SendPartDoneIs
  <2>3. ses' \in [Rank -> SesSet] BY <1>2, <1>3 DEF Typed
  <2>4. AtASlot' /\ DoneOnce' /\ Addressed' /\ FreeSlot' /\ NoneLeft' /\ InTime'
    BY <1>3, <1>4, <1>11, <2>1, <2>2, <2>3, GoesOn
  <2>5. Typed' BY <1>2, <1>3, <1>11, <2>2 DEF Typed
  <2> QED BY <2>4, <2>5 DEF ControlInv
<1>12. ASSUME sends[r][i].state = "success", pc[r] = "send",
              pc' = [pc EXCEPT ![r] = "sendHandler"], UNCHANGED <<slot, sends, net>>
       PROVE  ControlInv'
  <2>1. Typed' BY <1>2, <1>3, <1>12 DEF Typed, Control
  <2> USE <1>12, <1>3
  <2>2. pc \in [Rank -> Control] BY <1>2 DEF Typed
  <2>3. pc'[r] = "sendHandler" /\ \A q \in Rank \ {r} : pc'[q] = pc[q] BY <2>2
  <2>4. AtASlot' BY <2>3 DEF ControlInv, AtASlot
  <2>5. DoneOnce' BY <2>3 DEF ControlInv, DoneOnce
  <2>6. Addressed' BY DEF ControlInv, Addressed, Waiting
  <2>7. FreeSlot' BY <1>1, <2>3 DEF ControlInv, FreeSlot
  <2>8. NoneLeft' BY <2>3 DEF ControlInv, NoneLeft
  <2>9. InTime' BY <2>3 DEF ControlInv, InTime
  <2> QED BY <2>1, <2>4, <2>5, <2>6, <2>7, <2>8, <2>9 DEF ControlInv
<1>13. Waiting(r, i) =>
         sends[r][i].peer \in Rank /\ sends[r][i].msg \in Message /\ sends[r][i].tag \in Nat
  BY <1>1, <1>2 DEF ControlInv, Addressed, SendSlot
<1>6. /\ "test" \in SendStates \ {"post"} /\ "post2" \in SendStates \ {"post"}
      /\ "test2" \in SendStates \ {"post"} /\ "success" \in SendStates \ {"post"}
  BY DEF SendStates
<1>14. CASE sends[r][i].state = "post" /\ Isend(r, i, 0)
            /\ sends' = [sends EXCEPT ![r][i].state = "test"] /\ UNCHANGED <<pc, slot>>
  <2>1. Waiting(r, i) BY <1>14 DEF Waiting
  <2>2. net' \in [Rank -> [Rank -> Seq(PacketSet)]]
    BY <2>1, <1>1, <1>2, <1>13, <1>14, IsendIs
  <2> QED BY <2>1, <2>2, <1>6, <1>10, <1>14
<1>15. CASE sends[r][i].state = "post2" /\ Isend(r, i, sends[r][i].tag)
            /\ sends' = [sends EXCEPT ![r][i].state = "test2"] /\ UNCHANGED <<pc, slot>>
  <2>1. Waiting(r, i) BY <1>15 DEF Waiting
  <2>2. net' \in [Rank -> [Rank -> Seq(PacketSet)]]
    BY <2>1, <1>1, <1>2, <1>13, <1>15, IsendIs
  <2> QED BY <2>1, <2>2, <1>6, <1>10, <1>15
<1>16. CASE sends[r][i].state = "test" /\ sends' = [sends EXCEPT ![r][i].state = "post2"]
            /\ UNCHANGED <<pc, slot, net>>
  <2>1. Waiting(r, i) BY <1>16 DEF Waiting
  <2>2. net' \in [Rank -> [Rank -> Seq(PacketSet)]] BY <1>2, <1>16 DEF Typed
  <2> QED BY <2>1, <2>2, <1>6, <1>10, <1>16
<1>17. CASE sends[r][i].state = "test2" /\ sends' = [sends EXCEPT ![r][i].state = "success"]
            /\ UNCHANGED <<pc, slot, net>>
  <2>1. net' \in [Rank -> [Rank -> Seq(PacketSet)]] BY <1>2, <1>17 DEF Typed
  <2> QED BY <2>1, <1>6, <1>10, <1>17
<1> QED BY <1>2, <1>11, <1>12, <1>14, <1>15, <1>16, <1>17, <1>1, SendStepIs

LEMMA NewTypes ==
  /\ NewSend \in SendSlot /\ NewRecv \in RecvSlot /\ NewSes \in SesSet
  /\ StartState \in {"post", "post2"} /\ NewSend.state = "success" /\ NewRecv.state = "post"
BY SlotAssumption DEF NewSend, NewRecv, NewSes, SendSlot, RecvSlot, SesSet, StartState, SendStates

LEMMA CountedOne ==
  ASSUME NEW x \in SesSet
  PROVE  [x EXCEPT !.tags = @ + 1, !.msgCount = @ + 1] \in SesSet
<1>1. x.tags + 1 \in Nat \ {0} /\ x.msgCount + 1 \in Int BY DEF SesSet
<1> DEFINE a == x.tags + 1
           b == x.msgCount + 1
<1>2. a \in Nat \ {0} /\ b \in Int BY <1>1
<1> HIDE DEF a, b
<1>3. [x EXCEPT !.tags = a, !.msgCount = b] \in SesSet BY <1>2 DEF SesSet
<1> QED BY <1>3 DEF a, b

LEMMA SendHandlerControl ==
  ASSUME ControlInv, NEW r \in Rank, SendHandler(r)
  PROVE  ControlInv'
<1>0. slot[r] \in 1..NumSends
  BY SlotsBound DEF SendHandler, ControlInv, Typed, AtASlot
<1>1. PICK i \in 1..NumSends : i = slot[r] BY <1>0
<1>2. Typed /\ ses[r] \in SesSet /\ pc[r] = "sendHandler" BY DEF ControlInv, Typed, SendHandler
<1>3. UNCHANGED <<recvs, net, exchange, handled>> BY DEF SendHandler
<1>4. ses[r].done < slot[r] /\ (ses[r].done > 0 => left[r] = 0)
  BY <1>2 DEF ControlInv, DoneOnce, NoneLeft
<1>5. exchange[r] \in 1..Exchanges /\ left[r] \in Nat
  BY <1>2, LoadAssumption DEF ControlInv, InTime, Typed
<1>6. CASE left[r] > 0
  <2>1. PICK to \in Rank :
          /\ sends' = [sends EXCEPT ![r][i] =
               [state |-> StartState, peer |-> to, tag |-> ses[r].tags,
                msg |-> <<r, exchange[r], ses[r].tags>>]]
          /\ ses' = [ses EXCEPT ![r].tags = @ + 1, ![r].msgCount = @ + 1]
          /\ left' = [left EXCEPT ![r] = @ - 1]
          /\ sent' = sent \cup {<<<<r, exchange[r], ses[r].tags>>, to>>}
          /\ pc' = [pc EXCEPT ![r] = "sendNew"]
          /\ UNCHANGED slot
    BY <1>1, <1>6 DEF SendHandler
  <2>2. PICK msg : msg = <<r, exchange[r], ses[r].tags>> OBVIOUS
  <2>3. msg \in Message BY <1>2, <1>5, <2>2 DEF Message, SesSet
  <2>4. PICK new : new = [state |-> StartState, peer |-> to, tag |-> ses[r].tags, msg |-> msg] OBVIOUS
  <2>5. new \in SendSlot /\ new.peer = to /\ new.msg = msg
    BY <1>2, <2>3, <2>4, NewTypes DEF SendSlot, SesSet, SendStates
  <2>6. sends' = [sends EXCEPT ![r][i] = new] BY <2>1, <2>2, <2>4
  <2>7. sends \in [Rank -> [1..NumSends -> SendSlot]] BY <1>2 DEF Typed
  <2>8. /\ sends' \in [Rank -> [1..NumSends -> SendSlot]] /\ sends'[r][i] = new
        /\ \A q \in Rank, j \in 1..NumSends : q # r \/ j # i => sends'[q][j] = sends[q][j]
    BY <1>1, <2>5, <2>6, <2>7
  <2>9. /\ ses'[r] = [ses[r] EXCEPT !.tags = @ + 1, !.msgCount = @ + 1]
        /\ \A q \in Rank \ {r} : ses'[q] = ses[q]
        /\ ses' \in [Rank -> SesSet]
    <3>1. ses \in [Rank -> SesSet] BY <1>2 DEF Typed
    <3>2. ses' = [ses EXCEPT ![r] = [ses[r] EXCEPT !.tags = @ + 1, !.msgCount = @ + 1]]
      BY <2>1, <3>1
    <3>3. [ses[r] EXCEPT !.tags = @ + 1, !.msgCount = @ + 1] \in SesSet BY <1>2, CountedOne
    <3> QED BY <3>1, <3>2, <3>3
  <2>10. ses'[r].first = ses[r].first /\ ses'[r].noSends = ses[r].noSends /\ ses'[r].done = ses[r].done
    BY <1>2, <2>9 DEF SesSet
  <2>11. sent' \in SUBSET (Message \X Rank)
    <3>1. sent \in SUBSET (Message \X Rank) BY <1>2 DEF Typed
    <3> QED BY <2>1, <2>2, <2>3, <3>1
  <2>12. left' \in [Rank -> Nat] BY <1>2, <1>5, <1>6, <2>1 DEF Typed
  <2>13. pc'[r] = "sendNew" /\ \A q \in Rank \ {r} : pc'[q] = pc[q] BY <1>2, <2>1 DEF Typed
  <2>14. Typed'
    <3>1. pc' \in [Rank -> Control] BY <1>2, <2>1 DEF Typed, Control
    <3> QED BY <1>2, <1>3, <2>1, <2>8, <2>9, <2>11, <2>12, <3>1 DEF Typed
  <2>15. AtASlot' BY <1>1, <2>1, <2>13 DEF ControlInv, AtASlot
  <2>16. DoneOnce'
    <3>1. slot[r] \in Nat /\ ses[r].done \in Nat BY <1>1, <1>2 DEF SesSet
    <3> QED BY <1>4, <2>1, <2>9, <2>10, <2>13, <3>1 DEF ControlInv, DoneOnce
  <2>17. Addressed'
    <3> SUFFICES ASSUME NEW q \in Rank, NEW j \in 1..NumSends, Waiting(q, j)'
                 PROVE  sends'[q][j].peer \in Rank /\ sends'[q][j].msg \in Message
      BY DEF Addressed
    <3>1. CASE q = r /\ j = i BY <2>3, <2>5, <2>8, <3>1
    <3>2. CASE q # r \/ j # i BY <2>8, <3>2 DEF ControlInv, Addressed, Waiting
    <3> QED BY <3>1, <3>2
  <2>18. FreeSlot'
    BY <1>1, <1>2, <2>1, <2>8, <2>9, <2>10, <2>13 DEF ControlInv, FreeSlot
  <2>19. NoneLeft'
    <3>1. ~ses[r].noSends /\ ~(ses[r].done > 0)
      BY <1>2, <1>6 DEF ControlInv, NoneLeft
    <3>2. \A q \in Rank \ {r} : left'[q] = left[q] BY <1>2, <2>1 DEF Typed
    <3> QED BY <2>9, <2>10, <2>13, <3>1, <3>2 DEF ControlInv, NoneLeft
  <2>20. InTime' BY <1>3, <1>2, <2>13 DEF ControlInv, InTime
  <2> QED BY <2>14, <2>15, <2>16, <2>17, <2>18, <2>19, <2>20 DEF ControlInv
<1>7. CASE ~(left[r] > 0)
  <2>1. /\ ses' = [ses EXCEPT ![r].done = @ + 1] /\ SendPartDone(r)
        /\ UNCHANGED <<sends, left, sent>>
    BY <1>7 DEF SendHandler
  <2>2. left[r] = 0 BY <1>5, <1>7
  <2>3. /\ ses'[r] = [ses[r] EXCEPT !.done = @ + 1] /\ ses' \in [Rank -> SesSet]
        /\ \A q \in Rank \ {r} : ses'[q] = ses[q]
    <3>1. ses \in [Rank -> SesSet] BY <1>2 DEF Typed
    <3>2. ses' = [ses EXCEPT ![r] = [ses[r] EXCEPT !.done = @ + 1]] BY <2>1, <3>1
    <3>3. ses[r].done + 1 \in 0..NumSends BY <1>1, <1>2, <1>4, SlotAssumption DEF SesSet
    <3>4. [ses[r] EXCEPT !.done = @ + 1] \in SesSet BY <1>2, <3>3 DEF SesSet
    <3> QED BY <3>1, <3>2, <3>4
  <2>4. /\ ses'[r].first = ses[r].first /\ ses'[r].noSends = ses[r].noSends
        /\ ses'[r].done = ses[r].done + 1 BY <1>2, <2>3 DEF SesSet
  <2>5. ses'[r].done <= slot[r] BY <1>1, <1>2, <1>4, <2>4 DEF SesSet
  <2>6. /\ slot' \in [Rank -> Slots] /\ pc' \in [Rank -> Control]
        /\ \A q \in Rank \ {r} : slot'[q] = slot[q] /\ pc'[q] = pc[q]
        /\ \/ /\ slot'[r] = slot[r] + 1 /\ slot'[r] <= NumSends
              /\ pc'[r] = IF ses[r].first THEN "sendHandler" ELSE "send"
           \/ /\ slot'[r] \in {slot[r], slot[r] + 1} /\ slot'[r] <= NumRecvs
              /\ pc'[r] = "recv"
           \/ slot'[r] = slot[r] /\ pc'[r] = "reduce"
    BY <1>2, <2>1, SendPartDoneIs
  <2>7. AtASlot' /\ DoneOnce' /\ Addressed' /\ FreeSlot' /\ NoneLeft' /\ InTime'
    BY <1>2, <1>3, <2>1, <2>2, <2>3, <2>4, <2>5, <2>6, GoesOn
  <2>8. Typed' BY <1>2, <1>3, <2>1, <2>3, <2>6 DEF Typed
  <2> QED BY <2>7, <2>8 DEF ControlInv
<1> QED BY <1>6, <1>7

LEMMA SendHandlerFailsControl ==
  ASSUME ControlInv, NEW r \in Rank, SendHandlerFails(r)
  PROVE  ControlInv'
<1>0. slot[r] \in 1..NumSends
  BY SlotsBound DEF SendHandlerFails, ControlInv, Typed, AtASlot
<1>1. PICK i \in 1..NumSends : i = slot[r] BY <1>0
<1>2. Typed /\ ses[r] \in SesSet /\ pc[r] = "sendHandler" /\ left[r] > 0
  BY DEF ControlInv, Typed, SendHandlerFails
<1>3. UNCHANGED <<slot, recvs, net, exchange, sent, handled>> BY DEF SendHandlerFails
<1>4. /\ sends' = [sends EXCEPT ![r][i].tag = ses[r].tags]
      /\ ses' = [ses EXCEPT ![r].tags = @ + 1, ![r].msgCount = @ + 1]
      /\ left' = [left EXCEPT ![r] = @ - 1]
      /\ pc' = [pc EXCEPT ![r] = "sendNew"]
  BY <1>1 DEF SendHandlerFails
<1>5. sends \in [Rank -> [1..NumSends -> SendSlot]] BY <1>2 DEF Typed
<1>6. sends[r][i] \in SendSlot BY <1>1, <1>5
<1>7. PICK new : new = [sends[r][i] EXCEPT !.tag = ses[r].tags] OBVIOUS
<1>8. new \in SendSlot /\ new.state = sends[r][i].state
  BY <1>2, <1>6, <1>7 DEF SendSlot, SesSet
<1>9. sends' = [sends EXCEPT ![r][i] = new] BY <1>4, <1>7
<1>10. /\ sends' \in [Rank -> [1..NumSends -> SendSlot]] /\ sends'[r][i] = new
       /\ \A q \in Rank, j \in 1..NumSends : q # r \/ j # i => sends'[q][j] = sends[q][j]
  BY <1>1, <1>5, <1>8, <1>9
<1>11. /\ ses'[r] = [ses[r] EXCEPT !.tags = @ + 1, !.msgCount = @ + 1]
       /\ \A q \in Rank \ {r} : ses'[q] = ses[q]
       /\ ses' \in [Rank -> SesSet]
  <2>1. ses \in [Rank -> SesSet] BY <1>2 DEF Typed
  <2>2. ses' = [ses EXCEPT ![r] = [ses[r] EXCEPT !.tags = @ + 1, !.msgCount = @ + 1]]
    BY <1>4, <2>1
  <2>3. [ses[r] EXCEPT !.tags = @ + 1, !.msgCount = @ + 1] \in SesSet BY <1>2, CountedOne
  <2> QED BY <2>1, <2>2, <2>3
<1>12. ses'[r].first = ses[r].first /\ ses'[r].noSends = ses[r].noSends /\ ses'[r].done = ses[r].done
  BY <1>2, <1>11 DEF SesSet
<1>13. pc'[r] = "sendNew" /\ \A q \in Rank \ {r} : pc'[q] = pc[q] BY <1>2, <1>4 DEF Typed
<1>14. left' \in [Rank -> Nat] BY <1>2, <1>4 DEF Typed
<1>15. sends[r][i].state = "success" BY <1>1, <1>2 DEF ControlInv, FreeSlot
<1>16. Typed'
  <2>1. pc' \in [Rank -> Control] BY <1>2, <1>4 DEF Typed, Control
  <2> QED BY <1>2, <1>3, <1>10, <1>11, <1>14, <2>1 DEF Typed
<1>17. AtASlot' BY <1>1, <1>3, <1>13 DEF ControlInv, AtASlot
<1>18. DoneOnce'
  <2>1. slot[r] \in Nat /\ ses[r].done \in Nat BY <1>1, <1>2 DEF SesSet
  <2>2. ses[r].done < slot[r] BY <1>2 DEF ControlInv, DoneOnce
  <2>3. slot' = slot BY <1>3
  <2>4. \A q \in Rank \ {r} : ses'[q] = ses[q] /\ pc'[q] = pc[q] BY <1>11, <1>13
  <2> QED BY <1>12, <1>13, <2>1, <2>2, <2>3, <2>4 DEF ControlInv, DoneOnce
<1>19. Addressed'
  <2> SUFFICES ASSUME NEW q \in Rank, NEW j \in 1..NumSends, Waiting(q, j)'
               PROVE  sends'[q][j].peer \in Rank /\ sends'[q][j].msg \in Message
    BY DEF Addressed
  <2>1. CASE q = r /\ j = i BY <1>8, <1>10, <1>15, <2>1 DEF Waiting
  <2>2. CASE q # r \/ j # i BY <1>10, <2>2 DEF ControlInv, Addressed, Waiting
  <2> QED BY <2>1, <2>2
<1>20. FreeSlot'
  <2>1. slot' = slot BY <1>3
  <2>2. \A q \in Rank \ {r} : ses'[q] = ses[q] /\ pc'[q] = pc[q] BY <1>11, <1>13
  <2>3. \A q \in Rank, j \in 1..NumSends : sends'[q][j].state = sends[q][j].state
    BY <1>8, <1>10
  <2>4. \A q \in Rank \ {r} : sends'[q] = sends[q] BY <1>5, <1>9
  <2> SUFFICES ASSUME NEW q \in Rank
               PROVE  /\ pc'[q] = "sendHandler" => sends'[q][slot[q]].state = "success"
                      /\ pc'[q] = "post" => \A j \in 1..NumSends : sends'[q][j].state = "success"
                      /\ ses'[q].first /\ pc'[q] \in {"send", "sendHandler", "sendNew", "recv", "recvAgain"}
                         => \A j \in 1..NumSends : j > slot[q] => sends'[q][j].state = "success"
    BY <2>1 DEF FreeSlot
  <2>5. CASE q = r BY <1>2, <1>12, <1>13, <2>3, <2>5 DEF ControlInv, FreeSlot
  <2>6. CASE q # r BY <2>2, <2>4, <2>6 DEF ControlInv, FreeSlot
  <2> QED BY <2>5, <2>6
<1>21. NoneLeft'
  <2>1. ~ses[r].noSends /\ ~(ses[r].done > 0)
    BY <1>2 DEF ControlInv, NoneLeft
  <2>2. \A q \in Rank \ {r} : left'[q] = left[q] BY <1>2, <1>4 DEF Typed
  <2> QED BY <1>11, <1>12, <1>13, <2>1, <2>2 DEF ControlInv, NoneLeft
<1>22. InTime' BY <1>2, <1>3, <1>13 DEF ControlInv, InTime
<1> QED BY <1>16, <1>17, <1>18, <1>19, <1>20, <1>21, <1>22 DEF ControlInv

\* The rest of the invariant depends on these variables only.
LEMMA NoMove ==
  ASSUME ControlInv, UNCHANGED <<pc, slot, ses, sends, exchange, left>>
  PROVE  AtASlot' /\ DoneOnce' /\ Addressed' /\ FreeSlot' /\ NoneLeft' /\ InTime'
<1>1. AtASlot' /\ DoneOnce' BY DEF ControlInv, AtASlot, DoneOnce
<1>2. Addressed' BY DEF ControlInv, Addressed, Waiting
<1>3. FreeSlot' BY DEF ControlInv, FreeSlot
<1>4. NoneLeft' /\ InTime' BY DEF ControlInv, NoneLeft, InTime
<1> QED BY <1>1, <1>2, <1>3, <1>4

RecvBecomes(r, i, new) == recvs' = [recvs EXCEPT ![r][i] = new]

LEMMA RecvTo ==
  ASSUME Typed, NEW r \in Rank, NEW i \in 1..NumRecvs, NEW new \in RecvSlot,
         RecvBecomes(r, i, new)
  PROVE  /\ recvs' \in [Rank -> [1..NumRecvs -> RecvSlot]]
         /\ recvs'[r][i] = new
         /\ \A q \in Rank, j \in 1..NumRecvs : q # r \/ j # i => recvs'[q][j] = recvs[q][j]
<1>1. recvs \in [Rank -> [1..NumRecvs -> RecvSlot]] BY DEF Typed
<1>2. recvs' = [recvs EXCEPT ![r] = [recvs[r] EXCEPT ![i] = new]] BY <1>1 DEF RecvBecomes
<1>3. recvs[r] \in [1..NumRecvs -> RecvSlot] BY <1>1
<1>4. [recvs[r] EXCEPT ![i] = new] \in [1..NumRecvs -> RecvSlot] BY <1>3
<1>5. recvs' \in [Rank -> [1..NumRecvs -> RecvSlot]] BY <1>1, <1>2, <1>4
<1>6. recvs'[r][i] = new BY <1>1, <1>2, <1>3
<1>7. ASSUME NEW q \in Rank, NEW j \in 1..NumRecvs, q # r PROVE recvs'[q][j] = recvs[q][j]
  BY <1>1, <1>2, <1>7
<1>8. ASSUME NEW j \in 1..NumRecvs, j # i PROVE recvs'[r][j] = recvs[r][j]
  BY <1>1, <1>2, <1>3, <1>8, SMTT(60)
<1> QED BY <1>5, <1>6, <1>7, <1>8

\* What a step of a receive slot makes of it: it is posted, it takes what has
\* been received, or the rank goes on.
RecvStepDoes(r, i, new) ==
  LET rc == recvs[r][i]
      To == RecvBecomes(r, i, new) /\ UNCHANGED <<pc, slot>>
  IN  /\ i = slot[r] /\ rc \in RecvSlot
      /\ \/ /\ rc.state = "post" /\ To
            /\ new = [rc EXCEPT !.state = IF WithCount THEN "test" ELSE "test2"]
         \/ rc.state = "post2" /\ To /\ new = [rc EXCEPT !.state = "test2"]
         \/ /\ rc.state = "test" /\ rc.got # NULL /\ rc.got \in GotSet /\ To
            /\ new = [rc EXCEPT !.state = "post2", !.got = NULL, !.peer = rc.got.from,
                                !.tag = rc.got.packet.num, !.header = rc.got.packet.msg]
         \/ /\ rc.state = "test2" /\ rc.got # NULL /\ rc.got \in GotSet /\ To
            /\ new = [rc EXCEPT !.state = "success", !.got = NULL, !.peer = rc.got.from,
                                !.msg = rc.got.packet.msg]
         \/ RecvPartDone(r) /\ UNCHANGED recvs

LEMMA RecvStepIs ==
  ASSUME Typed, AtASlot, NEW r \in Rank, RecvStep(r)
  PROVE  \E i \in 1..NumRecvs, new \in RecvSlot : RecvStepDoes(r, i, new)
<1>0. slot[r] \in 1..NumRecvs
  BY SlotsBound DEF RecvStep, Typed, AtASlot
<1>1. PICK i \in 1..NumRecvs : i = slot[r] BY <1>0
<1>2. recvs \in [Rank -> [1..NumRecvs -> RecvSlot]] BY DEF Typed
<1>3. recvs[r][i] \in RecvSlot BY <1>1, <1>2
<1> DEFINE rc == recvs[r][i]
           To(new) == RecvBecomes(r, i, new) /\ UNCHANGED <<pc, slot>>
<1>4. \/ rc.state = "post" /\ To([rc EXCEPT !.state = IF WithCount THEN "test" ELSE "test2"])
      \/ rc.state = "post2" /\ To([rc EXCEPT !.state = "test2"])
      \/ /\ rc.state = "test" /\ rc.got # NULL
         /\ To([rc EXCEPT !.state = "post2", !.got = NULL, !.peer = rc.got.from,
                          !.tag = rc.got.packet.num, !.header = rc.got.packet.msg])
      \/ /\ rc.state = "test2" /\ rc.got # NULL
         /\ To([rc EXCEPT !.state = "success", !.got = NULL, !.peer = rc.got.from,
                          !.msg = rc.got.packet.msg])
      \/ RecvPartDone(r) /\ UNCHANGED recvs
  BY <1>1 DEF RecvStep, RecvBecomes
<1>5. rc.got # NULL => rc.got \in GotSet
  <2>1. rc.got \in {NULL} \cup GotSet BY <1>3, SMTT(60) DEF RecvSlot
  <2> HIDE DEF rc
  <2> QED BY <2>1
<1>6. \A new \in RecvSlot :
        \/ rc.state = "post" /\ new = [rc EXCEPT !.state = IF WithCount THEN "test" ELSE "test2"]
        \/ rc.state = "post2" /\ new = [rc EXCEPT !.state = "test2"]
        \/ /\ rc.state = "test" /\ rc.got # NULL
           /\ new = [rc EXCEPT !.state = "post2", !.got = NULL, !.peer = rc.got.from,
                               !.tag = rc.got.packet.num, !.header = rc.got.packet.msg]
        \/ /\ rc.state = "test2" /\ rc.got # NULL
           /\ new = [rc EXCEPT !.state = "success", !.got = NULL, !.peer = rc.got.from,
                               !.msg = rc.got.packet.msg]
        => (To(new) => RecvStepDoes(r, i, new))
  BY <1>1, <1>3, <1>5 DEF RecvStepDoes
<1> HIDE DEF To
<1>7. \E new \in RecvSlot : RecvStepDoes(r, i, new)
  <2>1. CASE rc.state = "post" /\ To([rc EXCEPT !.state = IF WithCount THEN "test" ELSE "test2"])
    <3>1. [rc EXCEPT !.state = IF WithCount THEN "test" ELSE "test2"] \in RecvSlot
      BY <1>3 DEF RecvSlot, SendStates
    <3> QED BY <1>6, <2>1, <3>1
  <2>2. CASE rc.state = "post2" /\ To([rc EXCEPT !.state = "test2"])
    <3>1. [rc EXCEPT !.state = "test2"] \in RecvSlot BY <1>3, SMTT(60) DEF RecvSlot, SendStates
    <3> QED BY <1>6, <2>2, <3>1
  <2>3. CASE /\ rc.state = "test" /\ rc.got # NULL
             /\ To([rc EXCEPT !.state = "post2", !.got = NULL, !.peer = rc.got.from,
                              !.tag = rc.got.packet.num, !.header = rc.got.packet.msg])
    <3>1. [rc EXCEPT !.state = "post2", !.got = NULL, !.peer = rc.got.from,
             !.tag = rc.got.packet.num, !.header = rc.got.packet.msg] \in RecvSlot
      BY <1>3, <1>5, <2>3 DEF RecvSlot, SendStates, GotSet, PacketSet
    <3> QED BY <1>6, <2>3, <3>1, SMTT(60)
  <2>4. CASE /\ rc.state = "test2" /\ rc.got # NULL
             /\ To([rc EXCEPT !.state = "success", !.got = NULL, !.peer = rc.got.from,
                              !.msg = rc.got.packet.msg])
    <3>1. [rc EXCEPT !.state = "success", !.got = NULL, !.peer = rc.got.from,
             !.msg = rc.got.packet.msg] \in RecvSlot
      BY <1>3, <1>5, <2>4 DEF RecvSlot, SendStates, GotSet, PacketSet
    <3> QED BY <1>6, <2>4, <3>1
  <2>5. CASE RecvPartDone(r) /\ UNCHANGED recvs
    BY <1>1, <1>3, <2>5 DEF RecvStepDoes
  <2> QED BY <1>4, <2>1, <2>2, <2>3, <2>4, <2>5
<1> QED BY <1>7

LEMMA RecvStepControl ==
  ASSUME ControlInv, NEW r \in Rank, RecvStep(r)
  PROVE  ControlInv'
<1>1. Typed /\ AtASlot /\ ses[r] \in SesSet BY DEF ControlInv, Typed
<1>2. UNCHANGED <<ses, sends, net, exchange, left, sent, handled>> BY DEF RecvStep
<1>3. pc[r] \in {"post", "recv", "recvAgain"} BY DEF RecvStep
<1>4. ASSUME NEW i \in 1..NumRecvs, NEW new \in RecvSlot,
             RecvBecomes(r, i, new), UNCHANGED <<pc, slot>>
      PROVE  ControlInv'
  <2>1. recvs' \in [Rank -> [1..NumRecvs -> RecvSlot]] BY <1>1, <1>4, RecvTo
  <2>2. Typed' BY <1>1, <1>2, <1>4, <2>1 DEF Typed
  <2> QED BY <1>2, <1>4, <2>2, NoMove DEF ControlInv
<1>5. ASSUME RecvPartDone(r), UNCHANGED recvs PROVE ControlInv'
  <2>1. /\ slot' \in [Rank -> Slots] /\ pc' \in [Rank -> Control]
        /\ \A q \in Rank \ {r} : slot'[q] = slot[q] /\ pc'[q] = pc[q]
        /\ IF pc[r] = "post"
           THEN \/ slot'[r] = slot[r] + 1 /\ slot'[r] <= NumRecvs /\ pc'[r] = "post"
                \/ slot'[r] = 1 /\ pc'[r] = "sendHandler"
           ELSE \/ /\ slot'[r] = slot[r] + 1 /\ slot'[r] <= NumSends
                   /\ pc'[r] = IF ses[r].first THEN "sendHandler" ELSE "send"
                \/ slot'[r] = slot[r] + 1 /\ slot'[r] <= NumRecvs /\ pc'[r] = "recv"
                \/ slot'[r] = slot[r] /\ pc'[r] = "reduce"
    BY <1>1, <1>5, RecvPartDoneIs
  <2>2. Typed' BY <1>1, <1>2, <1>5, <2>1 DEF Typed
  <2>3. CASE pc[r] = "post"
    <3>1. /\ pc'[r] \in {"post", "sendHandler"} /\ (pc'[r] = "sendHandler" => slot'[r] = 1)
          /\ (pc'[r] = "post" => slot'[r] <= NumRecvs)
      BY <2>1, <2>3
    <3>2. ses[r].done = 0 /\ \A j \in 1..NumSends : sends[r][j].state = "success"
      BY <2>3 DEF ControlInv, DoneOnce, FreeSlot
    <3>3. AtASlot' BY <2>1, <3>1, SlotAssumption DEF ControlInv, AtASlot
    <3>4. DoneOnce'
      <4>1. slot'[r] = 1 => 0 < slot'[r] OBVIOUS
      <4>2. \A q \in Rank \ {r} : ses'[q] = ses[q] BY <1>2
      <4> QED BY <1>2, <2>1, <3>1, <3>2, <4>1, <4>2 DEF ControlInv, DoneOnce
    <3>5. Addressed' BY <1>2 DEF ControlInv, Addressed, Waiting
    <3>6. FreeSlot'
      <4>1. 1 \in 1..NumSends BY SlotAssumption
      <4> SUFFICES ASSUME NEW q \in Rank
                   PROVE  /\ pc'[q] = "sendHandler" => sends[q][slot'[q]].state = "success"
                          /\ pc'[q] = "post" => \A j \in 1..NumSends : sends[q][j].state = "success"
                          /\ ses[q].first /\ pc'[q] \in {"send", "sendHandler", "sendNew", "recv", "recvAgain"}
                             => \A j \in 1..NumSends : j > slot'[q] => sends[q][j].state = "success"
        BY <1>2 DEF FreeSlot
      <4>2. CASE q = r BY <3>1, <3>2, <4>1, <4>2
      <4>3. CASE q # r BY <2>1, <4>3 DEF ControlInv, FreeSlot
      <4> QED BY <4>2, <4>3
    <3>7. NoneLeft'
      <4>1. ~(ses[r].done > 0) BY <3>2
      <4>2. pc[r] # "create" BY <2>3
      <4> QED BY <1>2, <2>1, <4>1, <4>2 DEF ControlInv, NoneLeft
    <3>8. InTime' BY <1>2, <2>1, <2>3 DEF ControlInv, InTime
    <3> QED BY <2>2, <3>3, <3>4, <3>5, <3>6, <3>7, <3>8 DEF ControlInv
  <2>4. CASE pc[r] # "post"
    <3>1. ses[r].done <= slot[r] /\ (ses[r].done > 0 => left[r] = 0)
      BY <1>3, <2>4 DEF ControlInv, DoneOnce, NoneLeft
    <3>2. ses' \in [Rank -> SesSet] BY <1>1, <1>2 DEF Typed
    <3>3. AtASlot' /\ DoneOnce' /\ Addressed' /\ FreeSlot' /\ NoneLeft' /\ InTime'
      <4>1. UNCHANGED <<sends, exchange, left>> /\ ses' = ses BY <1>2
      <4> QED BY <1>3, <2>1, <2>4, <3>1, <3>2, <4>1, GoesOn
    <3> QED BY <2>2, <3>3 DEF ControlInv
  <2> QED BY <2>3, <2>4
<1>6. PICK i \in 1..NumRecvs, new \in RecvSlot : RecvStepDoes(r, i, new)
  BY <1>1, RecvStepIs
<1>7. \/ RecvBecomes(r, i, new) /\ UNCHANGED <<pc, slot>>
      \/ RecvPartDone(r) /\ UNCHANGED recvs
  BY <1>6, SMTT(60) DEF RecvStepDoes
<1>8. CASE RecvBecomes(r, i, new) /\ UNCHANGED <<pc, slot>> BY <1>4, <1>8
<1>9. CASE RecvPartDone(r) /\ UNCHANGED recvs BY <1>5, <1>9
<1> QED BY <1>7, <1>8, <1>9

\* What Deliver does: one packet leaves the net for one posted receive.
DeliverDoes(s, r, i, n, new) ==
  /\ recvs[r][i] \in RecvSlot /\ net[s][r] \in Seq(PacketSet)
  /\ net[s][r][n] \in PacketSet
  /\ Posted(recvs[r][i].state) /\ recvs[r][i].got = NULL
  /\ Admits(recvs[r][i], s, net[s][r][n])
  /\ new = [recvs[r][i] EXCEPT !.got = [from |-> s, packet |-> net[s][r][n]]]
  /\ RecvBecomes(r, i, new)
  /\ net' \in [Rank -> [Rank -> Seq(PacketSet)]]
  /\ net'[s][r] = RemoveAt(net[s][r], n)
  /\ \A t, q \in Rank : t # s \/ q # r => net'[t][q] = net[t][q]
  /\ UNCHANGED <<pc, slot, ses, sends, exchange, left, sent, handled>>

LEMMA DeliverIs ==
  ASSUME Typed, NEW s \in Rank, NEW r \in Rank, NEW i \in 1..NumRecvs, Deliver(s, r, i)
  PROVE  \E n \in 1..Len(net[s][r]), new \in RecvSlot : DeliverDoes(s, r, i, n, new)
<1>1. PICK n \in 1..Len(net[s][r]) :
        /\ Admits(recvs[r][i], s, net[s][r][n])
        /\ recvs' = [recvs EXCEPT ![r][i].got = [from |-> s, packet |-> net[s][r][n]]]
        /\ net' = [net EXCEPT ![s][r] = RemoveAt(@, n)]
  BY DEF Deliver
<1>2. /\ Posted(recvs[r][i].state) /\ recvs[r][i].got = NULL
      /\ UNCHANGED <<pc, slot, ses, sends, exchange, left, sent, handled>>
  BY DEF Deliver
<1>3. net \in [Rank -> [Rank -> Seq(PacketSet)]] /\ recvs \in [Rank -> [1..NumRecvs -> RecvSlot]]
  BY DEF Typed
<1>4. net[s][r] \in Seq(PacketSet) /\ recvs[r][i] \in RecvSlot BY <1>3
<1>5. net[s][r][n] \in PacketSet BY <1>4
<1>6. PICK got : got = [from |-> s, packet |-> net[s][r][n]] OBVIOUS
<1>7. PICK new : new = [recvs[r][i] EXCEPT !.got = got] OBVIOUS
<1>8. new \in RecvSlot BY <1>4, <1>5, <1>6, <1>7 DEF RecvSlot, GotSet
<1>9. RecvBecomes(r, i, new)
  <2>1. recvs' = [recvs EXCEPT ![r][i] = new] BY <1>1, <1>3, <1>6, <1>7
  <2> QED BY <2>1 DEF RecvBecomes
<1>10. PICK rest : rest = RemoveAt(net[s][r], n) OBVIOUS
<1>11. rest \in Seq(PacketSet) BY <1>4, <1>10, RemoveAtIs
<1>12. net' = [net EXCEPT ![s][r] = rest] BY <1>1, <1>10
<1>13. net' \in [Rank -> [Rank -> Seq(PacketSet)]] BY <1>3, <1>11, <1>12
<1>14. net'[s][r] = rest BY <1>3, <1>12
<1>15. \A t, q \in Rank : t # s \/ q # r => net'[t][q] = net[t][q]
  <2>1. ASSUME NEW t \in Rank, NEW q \in Rank, t # s PROVE net'[t][q] = net[t][q]
    BY <2>1, <1>3, <1>12
  <2>2. ASSUME NEW q \in Rank, q # r PROVE net'[s][q] = net[s][q]
    BY <2>2, <1>3, <1>12
  <2> QED BY <2>1, <2>2
<1>16. new = [recvs[r][i] EXCEPT !.got = [from |-> s, packet |-> net[s][r][n]]]
  BY <1>6, <1>7
<1>17. DeliverDoes(s, r, i, n, new)
  BY <1>1, <1>2, <1>4, <1>5, <1>9, <1>10, <1>13, <1>14, <1>15, <1>16 DEF DeliverDoes
<1> QED BY <1>8, <1>17

LEMMA DeliverControl ==
  ASSUME ControlInv, NEW s \in Rank, NEW r \in Rank, NEW i \in 1..NumRecvs, Deliver(s, r, i)
  PROVE  ControlInv'
<1>1. Typed BY DEF ControlInv
<1>5. PICK n \in 1..Len(net[s][r]), new \in RecvSlot : DeliverDoes(s, r, i, n, new)
  BY <1>1, DeliverIs
<1>2. /\ RecvBecomes(r, i, new) /\ net' \in [Rank -> [Rank -> Seq(PacketSet)]]
      /\ UNCHANGED <<pc, slot, ses, sends, exchange, left, sent, handled>>
  BY <1>5 DEF DeliverDoes
<1>3. recvs' \in [Rank -> [1..NumRecvs -> RecvSlot]] BY <1>1, <1>2, RecvTo
<1>4. Typed' BY <1>1, <1>2, <1>3 DEF Typed
<1> QED BY <1>2, <1>4, NoMove DEF ControlInv

LEMMA RecvHandlerControl ==
  ASSUME ControlInv, NEW r \in Rank, RecvHandler(r)
  PROVE  ControlInv'
<1>0. slot[r] \in 1..NumRecvs
  BY SlotsBound DEF RecvHandler, ControlInv, Typed, AtASlot
<1>1. PICK i \in 1..NumRecvs : i = slot[r] BY <1>0
<1>2. Typed /\ ses[r] \in SesSet /\ pc[r] = "recv" BY DEF ControlInv, Typed, RecvHandler
<1>3. UNCHANGED <<slot, sends, net, exchange, left, sent>> BY DEF RecvHandler
<1>4. PICK h : h = [msg |-> recvs[r][i].msg, in |-> exchange[r]] OBVIOUS
<1>5. /\ ses' = [ses EXCEPT ![r].msgCount = @ - 1]
      /\ handled' = [handled EXCEPT ![r] = Append(@, h)]
      /\ recvs' = [recvs EXCEPT ![r][i] = NewRecv]
      /\ pc' = [pc EXCEPT ![r] = "recvAgain"]
  BY <1>1, <1>4 DEF RecvHandler
<1>6. h \in HandledSet
  <2>1. exchange[r] \in 1..Exchanges
    BY <1>2, LoadAssumption DEF ControlInv, InTime, Typed
  <2>2. recvs \in [Rank -> [1..NumRecvs -> RecvSlot]] BY <1>2 DEF Typed
  <2>3. recvs[r][i] \in RecvSlot BY <1>1, <2>2
  <2> QED BY <1>4, <2>1, <2>3 DEF HandledSet, RecvSlot
<1>7. handled' \in [Rank -> Seq(HandledSet)]
  <2>1. handled \in [Rank -> Seq(HandledSet)] BY <1>2 DEF Typed
  <2>2. Append(handled[r], h) \in Seq(HandledSet) BY <1>6, <2>1
  <2> QED BY <1>5, <2>1, <2>2
<1>8. recvs' \in [Rank -> [1..NumRecvs -> RecvSlot]]
  <2>1. i \in 1..NumRecvs BY <1>1
  <2>2. NewRecv \in RecvSlot BY NewTypes
  <2>3. RecvBecomes(r, i, NewRecv) BY <1>5 DEF RecvBecomes
  <2> QED BY <1>2, <2>1, <2>2, <2>3, RecvTo
<1>9. /\ ses'[r] = [ses[r] EXCEPT !.msgCount = @ - 1]
      /\ \A q \in Rank \ {r} : ses'[q] = ses[q]
      /\ ses' \in [Rank -> SesSet]
  <2>1. ses \in [Rank -> SesSet] BY <1>2 DEF Typed
  <2>2. ses' = [ses EXCEPT ![r] = [ses[r] EXCEPT !.msgCount = @ - 1]] BY <1>5, <2>1
  <2>3. [ses[r] EXCEPT !.msgCount = @ - 1] \in SesSet BY <1>2 DEF SesSet
  <2> QED BY <2>1, <2>2, <2>3
<1>10. ses'[r].first = ses[r].first /\ ses'[r].noSends = ses[r].noSends /\ ses'[r].done = ses[r].done
  BY <1>2, <1>9 DEF SesSet
<1>11. pc' \in [Rank -> Control] BY <1>2, <1>5 DEF Typed, Control
<1>12. pc'[r] = "recvAgain" /\ \A q \in Rank \ {r} : pc'[q] = pc[q] BY <1>2, <1>5 DEF Typed
<1>13. Typed' BY <1>2, <1>3, <1>7, <1>8, <1>9, <1>11 DEF Typed
<1>14. slot' = slot /\ sends' = sends /\ exchange' = exchange /\ left' = left BY <1>3
<1>15. \A q \in Rank \ {r} : ses'[q] = ses[q] /\ pc'[q] = pc[q] BY <1>9, <1>12
<1>16. AtASlot' BY <1>1, <1>12, <1>14 DEF ControlInv, AtASlot
<1>17. DoneOnce' BY <1>2, <1>10, <1>12, <1>14, <1>15 DEF ControlInv, DoneOnce
<1>18. Addressed' BY <1>14 DEF ControlInv, Addressed, Waiting
<1>19. FreeSlot' BY <1>2, <1>10, <1>12, <1>14, <1>15 DEF ControlInv, FreeSlot
<1>20. NoneLeft' BY <1>2, <1>10, <1>12, <1>14, <1>15 DEF ControlInv, NoneLeft
<1>21. InTime' BY <1>2, <1>12, <1>14 DEF ControlInv, InTime
<1> QED BY <1>13, <1>16, <1>17, <1>18, <1>19, <1>20, <1>21 DEF ControlInv

LEMMA CancelControl ==
  ASSUME ControlInv, NEW r \in Rank, Cancel(r)
  PROVE  ControlInv'
<1>1. Typed /\ pc[r] = "cancel" BY DEF ControlInv, Cancel
<1>2. UNCHANGED <<slot, ses, sends, net, exchange, left, sent, handled>> BY DEF Cancel
<1>3. recvs' \in [Rank -> [1..NumRecvs -> RecvSlot]]
  <2>1. [i \in 1..NumRecvs |-> NewRecv] \in [1..NumRecvs -> RecvSlot] BY NewTypes
  <2>2. recvs \in [Rank -> [1..NumRecvs -> RecvSlot]] BY <1>1 DEF Typed
  <2> QED BY <2>1, <2>2 DEF Cancel
<1>4. pc' \in [Rank -> Control] BY <1>1 DEF Typed, Control, Cancel
<1>5. pc'[r] = "barrier" /\ \A q \in Rank \ {r} : pc'[q] = pc[q] BY <1>1 DEF Typed, Cancel
<1>6. Typed' BY <1>1, <1>2, <1>3, <1>4 DEF Typed
<1>7. AtASlot' BY <1>2, <1>5 DEF ControlInv, AtASlot
<1>8. DoneOnce' BY <1>2, <1>5 DEF ControlInv, DoneOnce
<1>9. Addressed' BY <1>2 DEF ControlInv, Addressed, Waiting
<1>10. FreeSlot' BY <1>2, <1>5 DEF ControlInv, FreeSlot
<1>11. NoneLeft' BY <1>1, <1>2, <1>5 DEF ControlInv, NoneLeft
<1>12. InTime' BY <1>1, <1>2, <1>5 DEF ControlInv, InTime
<1> QED BY <1>6, <1>7, <1>8, <1>9, <1>10, <1>11, <1>12 DEF ControlInv

LEMMA CreateControl ==
  ASSUME ControlInv, NEW r \in Rank, Create(r)
  PROVE  ControlInv'
<1>1. Typed /\ pc[r] = "create" BY DEF ControlInv, Create
<1>2. UNCHANGED <<net, exchange, sent, handled>> BY DEF Create
<1>3. recvs' \in [Rank -> [1..NumRecvs -> RecvSlot]]
  <2>1. [i \in 1..NumRecvs |-> NewRecv] \in [1..NumRecvs -> RecvSlot] BY NewTypes
  <2>2. recvs \in [Rank -> [1..NumRecvs -> RecvSlot]] BY <1>1 DEF Typed
  <2> QED BY <2>1, <2>2 DEF Create
<1>4. /\ sends' \in [Rank -> [1..NumSends -> SendSlot]]
      /\ sends'[r] = [i \in 1..NumSends |-> NewSend]
      /\ \A q \in Rank \ {r} : sends'[q] = sends[q]
  <2>1. [i \in 1..NumSends |-> NewSend] \in [1..NumSends -> SendSlot] BY NewTypes
  <2>2. sends \in [Rank -> [1..NumSends -> SendSlot]] BY <1>1 DEF Typed
  <2> QED BY <2>1, <2>2 DEF Create
<1>5. pc' \in [Rank -> Control] /\ slot' \in [Rank -> Slots]
  <2>1. 1 \in Slots BY SlotsBound
  <2> QED BY <1>1, <2>1 DEF Typed, Control, Create
<1>6. /\ pc'[r] = "post" /\ slot'[r] = 1 /\ ses'[r] = NewSes
      /\ \A q \in Rank \ {r} : pc'[q] = pc[q] /\ slot'[q] = slot[q] /\ ses'[q] = ses[q] /\ left'[q] = left[q]
  BY <1>1 DEF Typed, Create
<1>7. ses' \in [Rank -> SesSet]
  <2>1. NewSes \in SesSet BY NewTypes
  <2> QED BY <1>1, <2>1 DEF Typed, Create
<1>8. left' \in [Rank -> Nat]
  <2>1. exchange[r] \in 1..Exchanges
    BY <1>1, LoadAssumption DEF ControlInv, InTime, Typed
  <2>2. Load[exchange[r]][r] \in Nat BY <2>1, LoadAssumption
  <2> QED BY <1>1, <2>2 DEF Typed, Create
<1>9. Typed' BY <1>1, <1>2, <1>3, <1>4, <1>5, <1>7, <1>8 DEF Typed
<1>10. AtASlot' BY <1>6, SlotAssumption DEF ControlInv, AtASlot
<1>11. DoneOnce' BY <1>6 DEF ControlInv, DoneOnce, NewSes
<1>12. \A i \in 1..NumSends : sends'[r][i].state = "success" BY <1>4, NewTypes
<1>13. Addressed'
  <2> SUFFICES ASSUME NEW q \in Rank, NEW j \in 1..NumSends, Waiting(q, j)'
               PROVE  sends'[q][j].peer \in Rank /\ sends'[q][j].msg \in Message
    BY DEF Addressed
  <2>1. CASE q = r BY <1>12, <2>1 DEF Waiting
  <2>2. CASE q # r BY <1>4, <2>2 DEF ControlInv, Addressed, Waiting
  <2> QED BY <2>1, <2>2
<1>14. FreeSlot'
  <2> SUFFICES ASSUME NEW q \in Rank
               PROVE  /\ pc'[q] = "sendHandler" => sends'[q][slot'[q]].state = "success"
                      /\ pc'[q] = "post" => \A j \in 1..NumSends : sends'[q][j].state = "success"
                      /\ ses'[q].first /\ pc'[q] \in {"send", "sendHandler", "sendNew", "recv", "recvAgain"}
                         => \A j \in 1..NumSends : j > slot'[q] => sends'[q][j].state = "success"
    BY DEF FreeSlot
  <2>1. CASE q = r BY <1>6, <1>12, <2>1
  <2>2. CASE q # r BY <1>4, <1>6, <2>2 DEF ControlInv, FreeSlot
  <2> QED BY <2>1, <2>2
<1>15. NoneLeft' BY <1>6 DEF ControlInv, NoneLeft, NewSes
<1>16. InTime' BY <1>1, <1>2, <1>6 DEF ControlInv, InTime
<1> QED BY <1>9, <1>10, <1>11, <1>13, <1>14, <1>15, <1>16 DEF ControlInv

LEMMA AllreduceControl ==
  ASSUME ControlInv, Allreduce
  PROVE  ControlInv'
<1>1. Typed /\ \A r \in Rank : pc[r] = "reduce" BY DEF ControlInv, Allreduce
<1>2. UNCHANGED <<sends, recvs, net, exchange, left, sent, handled>> BY DEF Allreduce
<1>3. ses' = [r \in Rank |-> [ses[r] EXCEPT !.first = FALSE, !.done = 0, !.noSends = NoSends(r)]]
  BY DEF Allreduce
<1>4. \A r \in Rank : ses[r] \in SesSet BY <1>1 DEF Typed
<1>5. \A r \in Rank : NoSends(r) \in BOOLEAN /\ (NoSends(r) => left[r] = 0)
  <2> TAKE r \in Rank
  <2>1. ses[r].done >= NumSends => ses[r].done > 0 BY <1>4, SlotAssumption DEF SesSet
  <2>2. pc[r] # "create" BY <1>1
  <2> QED BY <1>4, <2>1, <2>2 DEF NoSends, SesSet, ControlInv, NoneLeft
<1>6. ses' \in [Rank -> SesSet]
  <2>1. ASSUME NEW r \in Rank
        PROVE  [ses[r] EXCEPT !.first = FALSE, !.done = 0, !.noSends = NoSends(r)] \in SesSet
    <3>1. 0 \in 0..NumSends BY SlotAssumption
    <3> QED BY <1>4, <1>5, <3>1 DEF SesSet
  <2> QED BY <1>3, <2>1
<1>7. \A r \in Rank : ~ses'[r].first /\ ses'[r].done = 0 /\ (ses'[r].noSends => left[r] = 0)
  BY <1>3, <1>4, <1>5 DEF SesSet
<1>8. slot' = [r \in Rank |-> 1] /\ slot' \in [Rank -> Slots]
  <2>1. 1 \in Slots BY SlotsBound
  <2> QED BY <2>1 DEF Allreduce
<1>9. pc' \in [Rank -> Control] /\ \A r \in Rank : pc'[r] \in {"cancel", "recv", "send"}
  <2>1. pc' = [r \in Rank |-> IF Over(r) THEN "cancel" ELSE IF NoSends(r) THEN "recv" ELSE "send"]
    BY DEF Allreduce
  <2> QED BY <2>1 DEF Control
<1>10. Typed' BY <1>1, <1>2, <1>6, <1>8, <1>9 DEF Typed
<1>11. AtASlot' BY <1>8, <1>9, SlotAssumption DEF AtASlot
<1>12. DoneOnce' BY <1>7, <1>8, <1>9 DEF DoneOnce
<1>13. Addressed' BY <1>2 DEF ControlInv, Addressed, Waiting
<1>14. FreeSlot' BY <1>7, <1>9 DEF FreeSlot
<1>15. NoneLeft' BY <1>2, <1>7 DEF NoneLeft
<1>16. InTime'
  <2>1. \A r \in Rank : pc[r] # "out" BY <1>1
  <2> QED BY <1>2, <2>1 DEF ControlInv, InTime
<1> QED BY <1>10, <1>11, <1>12, <1>13, <1>14, <1>15, <1>16 DEF ControlInv

LEMMA LeaveControl ==
  ASSUME ControlInv, Leave
  PROVE  ControlInv'
<1>1. Typed /\ \A r \in Rank : pc[r] = "barrier" BY DEF ControlInv, Leave, Barrier
<1>2. UNCHANGED <<slot, ses, sends, recvs, net, left, sent, handled>> BY DEF Leave
<1>3. \A r \in Rank : exchange[r] \in 1..Exchanges
  <2>1. \A r \in Rank : pc[r] # "out" BY <1>1
  <2> QED BY <1>1, <2>1, LoadAssumption DEF ControlInv, InTime, Typed
<1>4. exchange' = [r \in Rank |-> exchange[r] + 1] BY DEF Leave
<1>5. pc' = [r \in Rank |-> IF exchange[r] = Exchanges THEN "out" ELSE "create"] BY DEF Leave
<1>6. exchange' \in [Rank -> 1..Exchanges + 1] BY <1>3, <1>4, LoadAssumption
<1>7. Typed'
  <2>1. pc' \in [Rank -> Control] BY <1>5 DEF Control
  <2> QED BY <1>1, <1>2, <1>6, <2>1 DEF Typed
<1>8. \A r \in Rank : pc'[r] \in {"out", "create"} BY <1>5
<1>9. AtASlot' /\ DoneOnce' BY <1>8 DEF AtASlot, DoneOnce
<1>10. Addressed' BY <1>2 DEF ControlInv, Addressed, Waiting
<1>11. FreeSlot' BY <1>8 DEF FreeSlot
<1>12. NoneLeft'
  <2>1. \A r \in Rank : pc[r] # "create" BY <1>1
  <2> QED BY <1>2, <2>1 DEF ControlInv, NoneLeft
<1>13. InTime' BY <1>3, <1>4, <1>5, LoadAssumption DEF ControlInv, InTime
<1> QED BY <1>7, <1>9, <1>10, <1>11, <1>12, <1>13 DEF ControlInv

LEMMA InitControl == Init => ControlInv
<1> SUFFICES ASSUME Init PROVE ControlInv OBVIOUS
<1>1. Typed
  <2>1. 1 \in Slots BY SlotsBound
  <2>2. pc \in [Rank -> Control] /\ slot \in [Rank -> Slots] BY <2>1 DEF Init, Control
  <2>3. ses \in [Rank -> SesSet] BY NewTypes DEF Init
  <2>4. sends \in [Rank -> [1..NumSends -> SendSlot]] BY NewTypes DEF Init
  <2>5. recvs \in [Rank -> [1..NumRecvs -> RecvSlot]] BY NewTypes DEF Init
  <2>6. <<>> \in Seq(PacketSet) /\ <<>> \in Seq(HandledSet) OBVIOUS
  <2>7. net \in [Rank -> [Rank -> Seq(PacketSet)]] BY <2>6 DEF Init
  <2>8. exchange \in [Rank -> 1..Exchanges + 1] BY LoadAssumption DEF Init
  <2>9. left \in [Rank -> Nat] BY LoadAssumption DEF Init
  <2>10. sent \in SUBSET (Message \X Rank) BY DEF Init
  <2>11. handled \in [Rank -> Seq(HandledSet)] BY <2>6 DEF Init
  <2> QED BY <2>2, <2>3, <2>4, <2>5, <2>7, <2>8, <2>9, <2>10, <2>11 DEF Typed
<1>2. \A r \in Rank : pc[r] = "create" BY DEF Init
<1>3. AtASlot /\ DoneOnce /\ FreeSlot /\ NoneLeft BY <1>2 DEF AtASlot, DoneOnce, FreeSlot, NoneLeft
<1>4. Addressed BY NewTypes DEF Init, Addressed, Waiting
<1>5. InTime BY LoadAssumption DEF Init, InTime
<1> QED BY <1>1, <1>3, <1>4, <1>5 DEF ControlInv

LEMMA NextControl == ControlInv /\ [Next]_vars => ControlInv'
<1> SUFFICES ASSUME ControlInv, [Next]_vars PROVE ControlInv' OBVIOUS
<1>1. ASSUME NEW r \in Rank, RankStep(r) PROVE ControlInv'
  BY <1>1, SendStepControl, SendHandlerControl, SendHandlerFailsControl, RecvStepControl,
     RecvHandlerControl, CancelControl, CreateControl DEF RankStep
<1>2. CASE Deliveries BY <1>2, DeliverControl DEF Deliveries
<1>3. CASE Allreduce BY <1>3, AllreduceControl
<1>4. CASE Leave BY <1>4, LeaveControl
<1>5. CASE UNCHANGED vars
  <2>1. Typed' BY <1>5 DEF vars, ControlInv, Typed
  <2>2. UNCHANGED <<pc, slot, ses, sends, exchange, left>> BY <1>5 DEF vars
  <2> QED BY <2>1, <2>2, NoMove DEF ControlInv
<1> QED BY <1>1, <1>2, <1>3, <1>4, <1>5 DEF Next

\* Where the ranks and their slots can be, in every reachable state.
THEOREM ControlKept == Spec => []ControlInv
BY InitControl, NextControl, PTL DEF Spec

\* Every step of async_des and of async_mpi keeps the sessions well typed, for
\* any number of ranks and slots; the counter of slots found without a message
\* never exceeds the number of send slots.
THEOREM TypeCorrect == Spec => []TypeOK
<1>1. ControlInv => TypeOK
  <2> SUFFICES ASSUME ControlInv PROVE TypeOK OBVIOUS
  <2>1. \A r \in Rank, i \in 1..NumSends : sends[r][i].state \in SendStates
    <3>1. sends \in [Rank -> [1..NumSends -> SendSlot]] BY DEF ControlInv, Typed
    <3> QED BY <3>1 DEF SendSlot
  <2>2. \A r \in Rank, i \in 1..NumRecvs : recvs[r][i].state \in SendStates
    <3>1. recvs \in [Rank -> [1..NumRecvs -> RecvSlot]] BY DEF ControlInv, Typed
    <3> QED BY <3>1 DEF RecvSlot
  <2>3. \A m \in sent : m[1] \in Message /\ m[2] \in Rank BY DEF ControlInv, Typed
  <2> QED BY <2>1, <2>2, <2>3 DEF ControlInv, Typed, TypeOK, SesSet
<1> QED BY <1>1, ControlKept, PTL

-----------------------------------------------------------------------------
(* The inductive invariant of the messages.  A message is, in this order,  *)
(* in a send slot that waits, in the net, in a receive slot, and handled;  *)
(* its header goes before it.  The places exclude each other.              *)

\* A receive slot is at work on a message, which it has the header of or has.
Busy(r, i) ==
  IF WithCount THEN \/ recvs[r][i].state = "test" /\ recvs[r][i].got # NULL
                    \/ recvs[r][i].state \in {"post2", "test2", "success"}
               ELSE \/ recvs[r][i].state = "test2" /\ recvs[r][i].got # NULL
                    \/ recvs[r][i].state = "success"

HasBody(r, i) == \/ recvs[r][i].state = "test2" /\ recvs[r][i].got # NULL
                 \/ recvs[r][i].state = "success"

Subject(r, i) == IF recvs[r][i].state = "success" THEN recvs[r][i].msg
                 ELSE IF recvs[r][i].got # NULL THEN recvs[r][i].got.packet.msg
                 ELSE recvs[r][i].header

\* The numbers of a rank's messages are below its next tag.
SentOnce ==
  /\ \A m \in sent : /\ m[1][2] <= exchange[m[1][1]]
                     /\ m[1][3] # 0
                     /\ m[1][2] = exchange[m[1][1]] =>
                          pc[m[1][1]] # "create" /\ m[1][3] < ses[m[1][1]].tags
  /\ \A m, n \in sent : m[1] = n[1] => m = n

\* What waits, travels or is received has been sent, in this exchange; the tag
\* of a body is the number of the message, and with the sender names it.
SendsKnown ==
  \A r \in Rank, i \in 1..NumSends : Waiting(r, i) =>
    /\ sends[r][i].msg = <<r, exchange[r], sends[r][i].tag>>
    /\ <<sends[r][i].msg, sends[r][i].peer>> \in sent
    /\ sends[r][i].state \in {"post", "test"} => WithCount

KnownPacket(s, r, p) ==
  /\ p.msg = <<s, exchange[s], p.num>>
  /\ <<p.msg, r>> \in sent
  /\ p.tag = p.num \/ (p.tag = 0 /\ WithCount)

NetKnown == \A s, r \in Rank : \A n \in 1..Len(net[s][r]) : KnownPacket(s, r, net[s][r][n])

KnownRecv(r, rc) ==
  /\ rc.state \in {"test", "post2"} => WithCount
  /\ rc.got # NULL =>
       /\ rc.state \in {"test", "test2"}
       /\ KnownPacket(rc.got.from, r, rc.got.packet)
       /\ WithCount /\ rc.state = "test2" => rc.got.packet.msg = rc.header
  /\ WithCount /\ rc.state \in {"post2", "test2", "success"} =>
       /\ rc.header = <<rc.peer, exchange[r], rc.tag>>
       /\ <<rc.header, r>> \in sent
  /\ rc.state = "success" =>
       /\ rc.msg[2] = exchange[r] /\ <<rc.msg, r>> \in sent
       /\ WithCount => rc.msg = rc.header

RecvsKnown == \A r \in Rank, i \in 1..NumRecvs : KnownRecv(r, recvs[r][i])

HandledKnown ==
  \A r \in Rank : \A n \in 1..Len(handled[r]) :
    <<handled[r][n].msg, r>> \in sent /\ handled[r][n].msg[2] = handled[r][n].in

Known == SentOnce /\ SendsKnown /\ NetKnown /\ RecvsKnown /\ HandledKnown

\* A message is in one place, and its header too.
NoTwoSends == \A r \in Rank, i, j \in 1..NumSends :
  Waiting(r, i) /\ Waiting(r, j) /\ sends[r][i].msg = sends[r][j].msg => i = j
NoTwoPackets == \A s, r \in Rank : \A n, k \in 1..Len(net[s][r]) :
  net[s][r][n] = net[s][r][k] => n = k
NoTwoRecvs == \A r \in Rank, i, j \in 1..NumRecvs :
  Busy(r, i) /\ Busy(r, j) /\ Subject(r, i) = Subject(r, j) => i = j
HandledOnce == \A r \in Rank : \A n, k \in 1..Len(handled[r]) :
  handled[r][n].msg = handled[r][k].msg => n = k
SendNotInNet == \A s, r \in Rank, i \in 1..NumSends : \A n \in 1..Len(net[s][r]) :
  Waiting(s, i) /\ sends[s][i].msg = net[s][r][n].msg =>
    net[s][r][n].tag = 0 /\ sends[s][i].state # "post"
SendNotReceived == \A s, r \in Rank, i \in 1..NumSends, j \in 1..NumRecvs :
  Waiting(s, i) /\ Busy(r, j) /\ sends[s][i].msg = Subject(r, j) =>
    ~HasBody(r, j) /\ sends[s][i].state # "post"
SendNotHandled == \A s, r \in Rank, i \in 1..NumSends : \A n \in 1..Len(handled[r]) :
  Waiting(s, i) => handled[r][n].msg # sends[s][i].msg
NetNotReceived == \A s, r \in Rank, j \in 1..NumRecvs : \A n \in 1..Len(net[s][r]) :
  Busy(r, j) /\ net[s][r][n].msg = Subject(r, j) => net[s][r][n].tag # 0 /\ ~HasBody(r, j)
NetNotHandled == \A s, r \in Rank : \A n \in 1..Len(net[s][r]), k \in 1..Len(handled[r]) :
  net[s][r][n].msg # handled[r][k].msg
RecvNotHandled == \A r \in Rank, j \in 1..NumRecvs : \A k \in 1..Len(handled[r]) :
  Busy(r, j) => handled[r][k].msg # Subject(r, j)

Unique ==
  /\ NoTwoSends /\ NoTwoPackets /\ NoTwoRecvs /\ HandledOnce
  /\ SendNotInNet /\ SendNotReceived /\ SendNotHandled
  /\ NetNotReceived /\ NetNotHandled /\ RecvNotHandled

-----------------------------------------------------------------------------
(* Steps that move no message.                                             *)

LEMMA FewerUnique ==
  ASSUME Unique, net' = net, handled' = handled,
         \A q \in Rank, j \in 1..NumSends : Waiting(q, j)' =>
           /\ Waiting(q, j) /\ sends'[q][j].msg = sends[q][j].msg
           /\ sends'[q][j].state = "post" => sends[q][j].state = "post",
         \A q \in Rank, j \in 1..NumRecvs : Busy(q, j)' =>
           /\ Busy(q, j) /\ Subject(q, j)' = Subject(q, j)
           /\ HasBody(q, j)' => HasBody(q, j)
  PROVE  Unique'
<1>1. NoTwoSends' BY DEF Unique, NoTwoSends
<1>2. NoTwoPackets' /\ HandledOnce' BY DEF Unique, NoTwoPackets, HandledOnce
<1>3. NoTwoRecvs' BY DEF Unique, NoTwoRecvs
<1>4. SendNotInNet' BY DEF Unique, SendNotInNet
<1>5. SendNotReceived' BY DEF Unique, SendNotReceived
<1>6. SendNotHandled' BY DEF Unique, SendNotHandled
<1>7. NetNotReceived' BY DEF Unique, NetNotReceived
<1>8. NetNotHandled' BY DEF Unique, NetNotHandled
<1>9. RecvNotHandled' BY DEF Unique, RecvNotHandled
<1> QED BY <1>1, <1>2, <1>3, <1>4, <1>5, <1>6, <1>7, <1>8, <1>9 DEF Unique

\* What is known stays known while more is sent.
LEMMA KnownStays ==
  ASSUME exchange' = exchange, sent \subseteq sent'
  PROVE  /\ \A s, r, p : KnownPacket(s, r, p) => KnownPacket(s, r, p)'
         /\ \A r, rc : KnownRecv(r, rc) => KnownRecv(r, rc)'
         /\ NetKnown /\ net' = net => NetKnown'
         /\ RecvsKnown /\ recvs' = recvs => RecvsKnown'
         /\ HandledKnown /\ handled' = handled => HandledKnown'
<1>1. \A s, r, p : KnownPacket(s, r, p) => KnownPacket(s, r, p)' BY DEF KnownPacket
<1>2. \A r, rc : KnownRecv(r, rc) => KnownRecv(r, rc)' BY <1>1 DEF KnownRecv
<1>3. NetKnown /\ net' = net => NetKnown' BY <1>1 DEF NetKnown
<1>4. RecvsKnown /\ recvs' = recvs => RecvsKnown' BY <1>2 DEF RecvsKnown
<1>5. HandledKnown /\ handled' = handled => HandledKnown' BY DEF HandledKnown
<1> QED BY <1>1, <1>2, <1>3, <1>4, <1>5

LEMMA SentStays ==
  ASSUME Typed, SentOnce, sent' = sent, exchange' = exchange, ses' \in [Rank -> SesSet],
         \A q \in Rank : pc[q] = "create" \/ (pc'[q] # "create" /\ ses'[q].tags >= ses[q].tags)
  PROVE  SentOnce'
<1>1. sent \in SUBSET (Message \X Rank) /\ ses \in [Rank -> SesSet] BY DEF Typed
<1>2. ASSUME NEW m \in sent
      PROVE  /\ m[1][2] <= exchange[m[1][1]]
             /\ m[1][3] # 0
             /\ m[1][2] = exchange[m[1][1]] =>
                  pc'[m[1][1]] # "create" /\ m[1][3] < ses'[m[1][1]].tags
  <2>1. m[1][1] \in Rank /\ m[1][3] \in Nat BY <1>1 DEF Message
  <2>2. ses[m[1][1]].tags \in Nat /\ ses'[m[1][1]].tags \in Nat BY <1>1, <2>1 DEF SesSet
  <2> QED BY <2>1, <2>2 DEF SentOnce
<1>3. \A m, n \in sent : m[1] = n[1] => m = n BY DEF SentOnce
<1> QED BY <1>2, <1>3 DEF SentOnce

-----------------------------------------------------------------------------
(* Sending.                                                                *)

\* Slot i of rank r sends a packet with its message, which may be the header.
LEMMA IsendUnique ==
  ASSUME ControlInv, Known, Unique, NEW r \in Rank, NEW i \in 1..NumSends, NEW to \in Rank,
         NEW p \in PacketSet, Waiting(r, i), sends[r][i].peer = to, p.msg = sends[r][i].msg,
         KnownPacket(r, to, p),
         net'[r][to] = Append(net[r][to], p),
         \A s, q \in Rank : s # r \/ q # to => net'[s][q] = net[s][q],
         recvs' = recvs, handled' = handled,
         \A q \in Rank, j \in 1..NumSends : q # r \/ j # i => sends'[q][j] = sends[q][j],
         sends'[r][i].msg = sends[r][i].msg,
         \/ /\ p.tag = 0 /\ sends[r][i].state = "post"
            /\ sends'[r][i].state = "test"
         \/ p.tag # 0 /\ sends[r][i].state = "post2" /\ ~Waiting(r, i)'
  PROVE  Unique'
<1> DEFINE m == p.msg
<1>0. net \in [Rank -> [Rank -> Seq(PacketSet)]] BY DEF ControlInv, Typed
<1>1. net[r][to] \in Seq(PacketSet) BY <1>0
<1>2. PICK len \in Nat : len = Len(net[r][to]) BY <1>1
<1>3. /\ Len(net'[r][to]) = len + 1 /\ net'[r][to][len + 1] = p
      /\ \A n \in 1..len : net'[r][to][n] = net[r][to][n]
  BY <1>1, <1>2
<1>4. \A n \in 1..len + 1 : n = len + 1 \/ n \in 1..len BY <1>2
\* A packet is the new one or was there.
<1>5. \A s, q \in Rank : \A n \in 1..Len(net'[s][q]) :
        \/ s = r /\ q = to /\ n = len + 1 /\ net'[s][q][n] = p
        \/ n \in 1..Len(net[s][q]) /\ net'[s][q][n] = net[s][q][n]
  <2> TAKE s \in Rank, q \in Rank
  <2>1. CASE s = r /\ q = to BY <2>1, <1>2, <1>3, <1>4
  <2>2. CASE s # r \/ q # to BY <2>2
  <2> QED BY <2>1, <2>2
<1>6. \A q \in Rank, j \in 1..NumSends :
        /\ sends'[q][j].msg = sends[q][j].msg
        /\ Waiting(q, j)' => Waiting(q, j) /\ (q # r \/ j # i \/ p.tag = 0)
        /\ sends'[q][j].state = "post" => sends[q][j].state = "post" /\ (q # r \/ j # i)
  BY DEF Waiting
<1>7. \A q \in Rank, j \in 1..NumRecvs :
        (Busy(q, j)' <=> Busy(q, j)) /\ Subject(q, j)' = Subject(q, j) /\ (HasBody(q, j)' <=> HasBody(q, j))
  BY DEF Busy, Subject, HasBody
\* Where the message can be and where not, before the step.
<1>8. p.tag = 0 => \A n \in 1..Len(net[r][to]) : net[r][to][n].msg # m
  BY DEF Unique, SendNotInNet
<1>9. \A n \in 1..Len(net[r][to]) : net[r][to][n].msg = m => net[r][to][n].tag = 0
  BY DEF Unique, SendNotInNet
<1>10. \A j \in 1..NumRecvs : Busy(to, j) /\ Subject(to, j) = m => ~HasBody(to, j) /\ p.tag # 0
  BY DEF Unique, SendNotReceived
<1>11. \A q \in Rank : \A n \in 1..Len(handled[q]) : handled[q][n].msg # m
  BY DEF Unique, SendNotHandled
<1>12. NoTwoSends' BY <1>6 DEF Unique, NoTwoSends
<1>13. NoTwoPackets'
  <2> SUFFICES ASSUME NEW s \in Rank, NEW q \in Rank, NEW n \in 1..Len(net'[s][q]),
                      NEW k \in 1..Len(net'[s][q]), net'[s][q][n] = net'[s][q][k]
               PROVE  n = k
    BY DEF NoTwoPackets
  <2>1. CASE n \in 1..Len(net[s][q]) /\ k \in 1..Len(net[s][q])
             /\ net'[s][q][n] = net[s][q][n] /\ net'[s][q][k] = net[s][q][k]
    <3>1. net[s][q][n] = net[s][q][k] BY <2>1
    <3>2. \A a, b \in 1..Len(net[s][q]) : net[s][q][a] = net[s][q][b] => a = b
      BY DEF Unique, NoTwoPackets
    <3> QED BY <2>1, <3>1, <3>2
  <2>2. ASSUME NEW a \in 1..Len(net[s][q]), s = r, q = to, net[s][q][a] = p PROVE FALSE
    BY <2>2, <1>8, <1>9
  <2>3. \/ s = r /\ q = to /\ n = len + 1 /\ net'[s][q][n] = p
        \/ n \in 1..Len(net[s][q]) /\ net'[s][q][n] = net[s][q][n]
    BY <1>5
  <2>4. \/ s = r /\ q = to /\ k = len + 1 /\ net'[s][q][k] = p
        \/ k \in 1..Len(net[s][q]) /\ net'[s][q][k] = net[s][q][k]
    BY <1>5
  <2>0. net'[s][q][n] = net'[s][q][k] OBVIOUS
  <2>5. CASE s = r /\ q = to /\ n = len + 1 /\ net'[s][q][n] = p
    <3>1. CASE k = len + 1 BY <2>5, <3>1
    <3>2. CASE k \in 1..Len(net[s][q]) /\ net'[s][q][k] = net[s][q][k]
      BY <2>0, <2>2, <2>5, <3>2, SMTT(60)
    <3> QED BY <2>4, <3>1, <3>2
  <2>6. CASE s = r /\ q = to /\ k = len + 1 /\ net'[s][q][k] = p
    <3>1. CASE n = len + 1 BY <2>6, <3>1
    <3>2. CASE n \in 1..Len(net[s][q]) /\ net'[s][q][n] = net[s][q][n]
      BY <2>0, <2>2, <2>6, <3>2, SMTT(60)
    <3> QED BY <2>3, <3>1, <3>2
  <2> QED BY <2>1, <2>3, <2>4, <2>5, <2>6
<1>14. NoTwoRecvs' BY <1>7 DEF Unique, NoTwoRecvs
<1>15. HandledOnce' BY DEF Unique, HandledOnce
<1>16. SendNotInNet'
  <2> SUFFICES ASSUME NEW s \in Rank, NEW q \in Rank, NEW j \in 1..NumSends,
                      NEW n \in 1..Len(net'[s][q]),
                      Waiting(s, j)', sends'[s][j].msg = net'[s][q][n].msg
               PROVE  net'[s][q][n].tag = 0 /\ sends'[s][j].state # "post"
    BY DEF SendNotInNet
  <2>1. CASE n \in 1..Len(net[s][q]) /\ net'[s][q][n] = net[s][q][n]
    BY <2>1, <1>6 DEF Unique, SendNotInNet
  <2>2. CASE s = r /\ q = to /\ net'[s][q][n] = p
    <3>1. Waiting(r, j) /\ sends[r][j].msg = sends[r][i].msg BY <2>2, <1>6
    <3>2. j = i BY <3>1 DEF Unique, NoTwoSends
    <3> QED BY <2>2, <3>2, <1>6
  <2> QED BY <1>5, <2>1, <2>2
<1>17. SendNotReceived' BY <1>6, <1>7 DEF Unique, SendNotReceived
<1>18. SendNotHandled' BY <1>6 DEF Unique, SendNotHandled
<1>19. NetNotReceived'
  <2> SUFFICES ASSUME NEW s \in Rank, NEW q \in Rank, NEW j \in 1..NumRecvs,
                      NEW n \in 1..Len(net'[s][q]),
                      Busy(q, j), net'[s][q][n].msg = Subject(q, j)
               PROVE  net'[s][q][n].tag # 0 /\ ~HasBody(q, j)
    BY <1>7 DEF NetNotReceived
  <2>1. CASE n \in 1..Len(net[s][q]) /\ net'[s][q][n] = net[s][q][n]
    BY <2>1 DEF Unique, NetNotReceived
  <2>2. CASE s = r /\ q = to /\ net'[s][q][n] = p
    BY <2>2, <1>10
  <2> QED BY <1>5, <2>1, <2>2
<1>20. NetNotHandled'
  <2> SUFFICES ASSUME NEW s \in Rank, NEW q \in Rank, NEW n \in 1..Len(net'[s][q]),
                      NEW k \in 1..Len(handled[q])
               PROVE  net'[s][q][n].msg # handled[q][k].msg
    BY DEF NetNotHandled
  <2>1. CASE n \in 1..Len(net[s][q]) /\ net'[s][q][n] = net[s][q][n]
    BY <2>1 DEF Unique, NetNotHandled
  <2>2. CASE s = r /\ q = to /\ net'[s][q][n] = p
    BY <2>2, <1>11
  <2> QED BY <1>5, <2>1, <2>2
<1>21. RecvNotHandled' BY <1>7 DEF Unique, RecvNotHandled
<1> QED BY <1>12, <1>13, <1>14, <1>15, <1>16, <1>17, <1>18, <1>19, <1>20, <1>21 DEF Unique

\* The slots that still wait have the messages they had.
LEMMA SendsStay ==
  ASSUME SendsKnown, exchange' = exchange, sent' = sent,
         \A q \in Rank, j \in 1..NumSends : Waiting(q, j)' =>
           /\ Waiting(q, j) /\ sends'[q][j].msg = sends[q][j].msg
           /\ sends'[q][j].tag = sends[q][j].tag /\ sends'[q][j].peer = sends[q][j].peer
           /\ sends'[q][j].state \in {"post", "test"} => WithCount
  PROVE  SendsKnown'
BY DEF SendsKnown

LEMMA IsendKnown ==
  ASSUME ControlInv, Known, NEW r \in Rank, NEW i \in 1..NumSends, NEW to \in Rank,
         NEW p \in PacketSet,
         KnownPacket(r, to, p), exchange' = exchange, sent' = sent,
         net'[r][to] = Append(net[r][to], p),
         \A s, q \in Rank : s # r \/ q # to => net'[s][q] = net[s][q]
  PROVE  NetKnown'
<1>0. net \in [Rank -> [Rank -> Seq(PacketSet)]] BY DEF ControlInv, Typed
<1>1. net[r][to] \in Seq(PacketSet) BY <1>0
<1>2. \A s, q, k : KnownPacket(s, q, k) => KnownPacket(s, q, k)' BY KnownStays
<1>3. \A s, q \in Rank : \A n \in 1..Len(net[s][q]) : KnownPacket(s, q, net[s][q][n])
  BY DEF Known, NetKnown
<1> SUFFICES ASSUME NEW s \in Rank, NEW q \in Rank, NEW n \in 1..Len(net'[s][q])
             PROVE  \/ s = r /\ q = to /\ net'[s][q][n] = p
                    \/ n \in 1..Len(net[s][q]) /\ net'[s][q][n] = net[s][q][n]
  <2>1. ASSUME NEW s \in Rank, NEW q \in Rank, NEW n \in 1..Len(net'[s][q]),
               NEW k, k = net'[s][q][n], KnownPacket(s, q, k)
        PROVE  KnownPacket(s, q, net[s][q][n])'
    BY <2>1, <1>2 DEF KnownPacket
  <2> QED BY <2>1, <1>3 DEF NetKnown
<1>4. CASE s = r /\ q = to
  <2>0. PICK len \in Nat : len = Len(net[r][to]) BY <1>1
  <2>1. /\ Len(net'[r][to]) = len + 1 /\ net'[r][to][len + 1] = p
        /\ \A k \in 1..len : net'[r][to][k] = net[r][to][k]
    BY <1>1, <2>0
  <2>2. n \in 1..len \/ n = len + 1 BY <1>4, <2>0, <2>1
  <2>5. CASE n \in 1..len BY <1>4, <2>0, <2>1, <2>5
  <2>6. CASE n = len + 1
    <3>1. net'[s][q] = net'[r][to] BY <1>4
    <3>2. net'[s][q][n] = p BY <2>1, <2>6, <3>1
    <3> QED BY <1>4, <3>2
  <2> QED BY <2>2, <2>5, <2>6
<1>5. CASE s # r \/ q # to BY <1>5
<1> QED BY <1>4, <1>5

LEMMA SendStepMessages ==
  ASSUME ControlInv, Known, Unique, NEW r \in Rank, SendStep(r)
  PROVE  Known' /\ Unique'
<1>0. slot[r] \in 1..NumSends
  BY SlotsBound DEF SendStep, ControlInv, Typed, AtASlot
<1>1. PICK i \in 1..NumSends : i = slot[r] BY <1>0
<1>2. i \in 1..NumSends BY <1>1
<1>3. Typed /\ SentOnce /\ sends \in [Rank -> [1..NumSends -> SendSlot]] /\ ses \in [Rank -> SesSet]
  BY DEF ControlInv, Typed, Known
<1>4. sends[r][i] \in SendSlot BY <1>2, <1>3
<1>5. UNCHANGED <<ses, recvs, exchange, left, sent, handled>> /\ pc[r] # "create" BY DEF SendStep
<1>6. sent \subseteq sent' BY <1>5
<1>7. /\ pc'[r] # "create" /\ \A q \in Rank \ {r} : pc'[q] = pc[q]
  <2>1. CASE SendPartDone(r) BY <1>3, <2>1, SendPartDoneIs
  <2>2. CASE pc' = pc \/ pc' = [pc EXCEPT ![r] = "sendHandler"]
    BY <1>3, <1>5, <2>2 DEF Typed
  <2> QED BY <1>3, <2>1, <2>2, SendStepIs
<1>8. SentOnce'
  <2>1. \A q \in Rank : pc[q] = "create" \/ (pc'[q] # "create" /\ ses'[q].tags >= ses[q].tags)
    <3>1. \A q \in Rank : ses[q].tags \in Nat BY <1>3 DEF SesSet
    <3>2. ses' = ses BY <1>5
    <3> QED BY <1>5, <1>7, <3>1, <3>2
  <2> QED BY <1>3, <1>5, <2>1, SentStays
<1>9. RecvsKnown' /\ HandledKnown' BY <1>5, <1>6, KnownStays DEF Known
<1>10. \A q \in Rank, j \in 1..NumRecvs :
        (Busy(q, j)' <=> Busy(q, j)) /\ Subject(q, j)' = Subject(q, j) /\ (HasBody(q, j)' <=> HasBody(q, j))
  BY <1>5 DEF Busy, Subject, HasBody
\* The slot sends its header or its message.
<1>11. ASSUME NEW tag \in Nat, NEW st \in SendStates, Isend(r, i, tag),
              sends' = [sends EXCEPT ![r][i].state = st],
              \/ tag = 0 /\ sends[r][i].state = "post" /\ st = "test"
              \/ tag = sends[r][i].tag /\ sends[r][i].state = "post2" /\ st = "test2"
       PROVE  Known' /\ Unique'
  <2>1. Waiting(r, i) BY <1>11 DEF Waiting
  <2>2. sends[r][i].peer \in Rank /\ sends[r][i].msg \in Message
    <3>1. Addressed BY DEF ControlInv
    <3> QED BY <1>2, <2>1, <3>1 DEF Addressed
  <2>3. PICK to \in Rank : to = sends[r][i].peer BY <2>2
  <2>4a. Isend(r, i, tag) BY <1>11, SMTT(60)
  <2>4b. /\ Packet(r, i, tag) \in PacketSet
         /\ net'[r][sends[r][i].peer] = Append(net[r][sends[r][i].peer], Packet(r, i, tag))
         /\ \A s, q \in Rank : s # r \/ q # sends[r][i].peer => net'[s][q] = net[s][q]
    BY <1>2, <1>3, <2>2, <2>4a, IsendIs, SMTT(60)
  <2>4. PICK p \in PacketSet : p = Packet(r, i, tag) BY <2>4b
  <2>5. /\ net'[r][to] = Append(net[r][to], p)
        /\ \A s, q \in Rank : s # r \/ q # to => net'[s][q] = net[s][q]
    <3>1. sends[r][i].peer = to /\ Packet(r, i, tag) = p BY <2>3, <2>4
    <3> QED BY <2>4b, <3>1
  <2>6. p.msg = sends[r][i].msg /\ p.num = sends[r][i].tag /\ p.tag = tag
    BY <2>4 DEF Packet
  <2>7. /\ sends[r][i].msg = <<r, exchange[r], sends[r][i].tag>>
        /\ <<sends[r][i].msg, to>> \in sent
        /\ sends[r][i].state = "post" => WithCount
    BY <1>2, <2>1, <2>3 DEF Known, SendsKnown
  <2>8. KnownPacket(r, to, p) BY <1>11, <2>6, <2>7 DEF KnownPacket
  <2>9. sends[r][i].tag # 0
    <3>1. \A k \in sent : k[1][3] # 0 BY DEF Known, SentOnce
    <3>2. sends[r][i].msg[3] # 0 BY <2>7, <3>1
    <3> QED BY <2>7, <3>2
  <2>10. /\ sends'[r][i] = [sends[r][i] EXCEPT !.state = st]
         /\ \A q \in Rank, j \in 1..NumSends : q # r \/ j # i => sends'[q][j] = sends[q][j]
    <3>1. SendBecomes(r, i, st) BY <1>11 DEF SendBecomes
    <3> QED BY <1>2, <1>3, <1>11, <3>1, SendToState
  <2>11. /\ sends'[r][i].state = st /\ sends'[r][i].msg = sends[r][i].msg
         /\ sends'[r][i].tag = sends[r][i].tag /\ sends'[r][i].peer = sends[r][i].peer
    BY <1>4, <2>10 DEF SendSlot
  <2>12. \/ p.tag = 0 /\ sends[r][i].state = "post" /\ sends'[r][i].state = "test"
         \/ p.tag # 0 /\ sends[r][i].state = "post2" /\ sends'[r][i].state = "test2"
    BY <1>11, <2>6, <2>9, <2>11
  <2>13. sends'[r][i].state = "test2" => ~Waiting(r, i)' BY DEF Waiting
  <2>14. Unique'
    <3>1. \/ p.tag = 0 /\ sends[r][i].state = "post" /\ sends'[r][i].state = "test"
          \/ p.tag # 0 /\ sends[r][i].state = "post2" /\ ~Waiting(r, i)'
      BY <2>12, <2>13
    <3>2. recvs' = recvs /\ handled' = handled BY <1>5
    <3>3. sends[r][i].peer = to /\ p.msg = sends[r][i].msg BY <2>3, <2>6
    <3>4. \A q \in Rank, j \in 1..NumSends : q # r \/ j # i => sends'[q][j] = sends[q][j]
      BY <2>10
    <3>5. sends'[r][i].msg = sends[r][i].msg BY <2>11
    <3> QED BY <1>2, <2>1, <2>5, <2>8, <3>1, <3>2, <3>3, <3>4, <3>5, IsendUnique
  <2>15. NetKnown' BY <1>2, <1>5, <2>5, <2>8, IsendKnown
  <2>16. SendsKnown'
    <3>1. \A q \in Rank, j \in 1..NumSends : Waiting(q, j)' =>
             /\ Waiting(q, j) /\ sends'[q][j].msg = sends[q][j].msg
             /\ sends'[q][j].tag = sends[q][j].tag /\ sends'[q][j].peer = sends[q][j].peer
             /\ sends'[q][j].state \in {"post", "test"} => WithCount
      <4> TAKE q \in Rank, j \in 1..NumSends
      <4>1. CASE q = r /\ j = i BY <2>1, <2>7, <2>11, <2>12, <4>1
      <4>2. CASE q # r \/ j # i BY <2>10, <4>2 DEF Waiting, Known, SendsKnown
      <4> QED BY <4>1, <4>2
    <3> QED BY <1>5, <3>1, SendsStay DEF Known
  <2> QED BY <1>8, <1>9, <2>14, <2>15, <2>16 DEF Known
\* It sends nothing.
<1>12. ASSUME UNCHANGED net, NEW st \in SendStates,
              \/ sends' = sends
              \/ /\ sends' = [sends EXCEPT ![r][i].state = st]
                 /\ (sends[r][i].state = "test" /\ st = "post2") \/ st = "success"
       PROVE  Known' /\ Unique'
  <2>1. \A q \in Rank, j \in 1..NumSends : Waiting(q, j)' =>
           /\ Waiting(q, j) /\ sends'[q][j].msg = sends[q][j].msg
           /\ sends'[q][j].tag = sends[q][j].tag /\ sends'[q][j].peer = sends[q][j].peer
           /\ sends'[q][j].state = sends[q][j].state \/ sends'[q][j].state = "post2"
    <3>1. CASE sends' = sends BY <3>1 DEF Waiting
    <3>2. CASE /\ sends' = [sends EXCEPT ![r][i].state = st]
               /\ (sends[r][i].state = "test" /\ st = "post2") \/ st = "success"
      <4>1. /\ sends'[r][i] = [sends[r][i] EXCEPT !.state = st]
            /\ \A q \in Rank, j \in 1..NumSends : q # r \/ j # i => sends'[q][j] = sends[q][j]
        <5>1. SendBecomes(r, i, st) BY <3>2 DEF SendBecomes
        <5> QED BY <1>2, <1>3, <5>1, SendToState
      <4>2. /\ sends'[r][i].state = st /\ sends'[r][i].msg = sends[r][i].msg
            /\ sends'[r][i].tag = sends[r][i].tag /\ sends'[r][i].peer = sends[r][i].peer
        BY <1>4, <4>1 DEF SendSlot
      <4> TAKE q \in Rank, j \in 1..NumSends
      <4>3. CASE q = r /\ j = i BY <3>2, <4>2, <4>3 DEF Waiting
      <4>4. CASE q # r \/ j # i BY <4>1, <4>4 DEF Waiting
      <4> QED BY <4>3, <4>4
    <3> QED BY <1>12, <3>1, <3>2
  <2>2. Unique' BY <1>5, <1>10, <1>12, <2>1, FewerUnique
  <2>3. NetKnown' BY <1>5, <1>6, <1>12, KnownStays DEF Known
  <2>4. SendsKnown'
    <3>1. \A q \in Rank, j \in 1..NumSends : Waiting(q, j)' =>
            (sends'[q][j].state \in {"post", "test"} => WithCount)
      BY <2>1 DEF Known, SendsKnown
    <3> QED BY <1>5, <2>1, <3>1, SendsStay DEF Known
  <2> QED BY <1>8, <1>9, <2>2, <2>3, <2>4 DEF Known
<1>13. CASE sends[r][i].state = "post" /\ Isend(r, i, 0)
            /\ sends' = [sends EXCEPT ![r][i].state = "test"]
  <2>1. "test" \in SendStates /\ 0 \in Nat BY DEF SendStates
  <2> QED BY <1>11, <1>13, <2>1
<1>14. CASE sends[r][i].state = "post2" /\ Isend(r, i, sends[r][i].tag)
            /\ sends' = [sends EXCEPT ![r][i].state = "test2"]
  <2>1. "test2" \in SendStates /\ sends[r][i].tag \in Nat BY <1>4 DEF SendStates, SendSlot
  <2> QED BY <1>11, <1>14, <2>1
<1>15. "post2" \in SendStates /\ "success" \in SendStates BY DEF SendStates
<1>16. CASE sends[r][i].state = "test" /\ sends' = [sends EXCEPT ![r][i].state = "post2"]
            /\ UNCHANGED net
  BY <1>12, <1>15, <1>16
<1>17. CASE sends' = [sends EXCEPT ![r][i].state = "success"] /\ UNCHANGED net
  BY <1>12, <1>15, <1>17
<1>18. CASE UNCHANGED <<sends, net>>
  BY <1>12, <1>15, <1>18
<1> QED BY <1>1, <1>3, <1>13, <1>14, <1>16, <1>17, <1>18, SendStepIs

LEMMA SendHandlerMessages ==
  ASSUME ControlInv, Known, Unique, NEW r \in Rank, SendHandler(r)
  PROVE  Known' /\ Unique'
<1>0. slot[r] \in 1..NumSends
  BY SlotsBound DEF SendHandler, ControlInv, Typed, AtASlot
<1>1. PICK i \in 1..NumSends : i = slot[r] BY <1>0
<1>2. i \in 1..NumSends BY <1>1
<1>3. Typed /\ SentOnce /\ sends \in [Rank -> [1..NumSends -> SendSlot]] /\ ses \in [Rank -> SesSet]
  BY DEF ControlInv, Typed, Known
<1>4. ses[r] \in SesSet /\ pc[r] = "sendHandler" BY <1>3 DEF SendHandler
<1>5. UNCHANGED <<recvs, net, exchange, handled>> BY DEF SendHandler
<1>6. \A q \in Rank, j \in 1..NumRecvs :
        (Busy(q, j)' <=> Busy(q, j)) /\ Subject(q, j)' = Subject(q, j) /\ (HasBody(q, j)' <=> HasBody(q, j))
  BY <1>5 DEF Busy, Subject, HasBody
<1>7. ses' \in [Rank -> SesSet] BY SendHandlerControl DEF ControlInv, Typed
<1>8. CASE left[r] > 0
  <2>1. PICK to \in Rank :
          /\ sends' = [sends EXCEPT ![r][i] =
               [state |-> StartState, peer |-> to, tag |-> ses[r].tags,
                msg |-> <<r, exchange[r], ses[r].tags>>]]
          /\ ses' = [ses EXCEPT ![r].tags = @ + 1, ![r].msgCount = @ + 1]
          /\ sent' = sent \cup {<<<<r, exchange[r], ses[r].tags>>, to>>}
          /\ pc' = [pc EXCEPT ![r] = "sendNew"]
    BY <1>1, <1>8 DEF SendHandler
  <2>2. PICK msg : msg = <<r, exchange[r], ses[r].tags>> OBVIOUS
  <2>3. PICK new : new = [state |-> StartState, peer |-> to, tag |-> ses[r].tags, msg |-> msg] OBVIOUS
  <2>4. sends' = [sends EXCEPT ![r][i] = new] BY <2>1, <2>2, <2>3
  <2>5. /\ sends'[r][i] = new
        /\ \A q \in Rank, j \in 1..NumSends : q # r \/ j # i => sends'[q][j] = sends[q][j]
    BY <1>2, <1>3, <2>4
  <2>6. new.peer = to /\ new.msg = msg /\ new.tag = ses[r].tags /\ (new.state = "post" => WithCount)
        /\ new.state # "test"
    BY <2>3 DEF StartState
  <2>7. sent' = sent \cup {<<msg, to>>} BY <2>1, <2>2
  <2>8. /\ ses'[r].tags = ses[r].tags + 1 /\ \A q \in Rank \ {r} : ses'[q] = ses[q]
    BY <1>3, <1>4, <2>1 DEF SesSet
  <2>9. pc'[r] = "sendNew" /\ \A q \in Rank \ {r} : pc'[q] = pc[q] BY <1>3, <2>1 DEF Typed
  \* The message is new.
  <2>10. \A m \in sent : m[1] # msg
    <3> SUFFICES ASSUME NEW m \in sent, m[1] = msg PROVE FALSE OBVIOUS
    <3>1. m[1][1] = r /\ m[1][2] = exchange[r] /\ m[1][3] = ses[r].tags BY <2>2
    <3>2. m[1][3] < ses[r].tags BY <1>3, <3>1 DEF SentOnce
    <3> QED BY <1>4, <3>1, <3>2 DEF SesSet
  <2>11. SentOnce'
    <3>1. sent \in SUBSET (Message \X Rank) BY <1>3 DEF Typed
    <3>2. ASSUME NEW m \in sent'
          PROVE  /\ m[1][2] <= exchange[m[1][1]]
                 /\ m[1][3] # 0
                 /\ m[1][2] = exchange[m[1][1]] =>
                      pc'[m[1][1]] # "create" /\ m[1][3] < ses'[m[1][1]].tags
      <4>1. CASE m \in sent
        <5>1. m[1][1] \in Rank /\ m[1][3] \in Nat BY <3>1, <4>1 DEF Message
        <5>2. /\ m[1][2] <= exchange[m[1][1]]
              /\ m[1][3] # 0
              /\ m[1][2] = exchange[m[1][1]] =>
                   pc[m[1][1]] # "create" /\ m[1][3] < ses[m[1][1]].tags
          BY <1>3, <4>1 DEF SentOnce
        <5>3. ses[r].tags \in Nat BY <1>4 DEF SesSet
        <5>4. CASE m[1][1] = r BY <2>8, <2>9, <5>1, <5>2, <5>3, <5>4
        <5>5. CASE m[1][1] # r BY <2>8, <2>9, <5>1, <5>2, <5>5
        <5> QED BY <5>4, <5>5
      <4>2. CASE m = <<msg, to>>
        <5>1. m[1][1] = r /\ m[1][2] = exchange[r] /\ m[1][3] = ses[r].tags BY <2>2, <4>2
        <5>2. exchange[r] \in Nat BY <1>3, LoadAssumption DEF Typed
        <5>3. ses[r].tags \in Nat \ {0} BY <1>4 DEF SesSet
        <5> QED BY <2>8, <2>9, <5>1, <5>2, <5>3
      <4> QED BY <2>7, <4>1, <4>2
    <3>3. \A m, n \in sent' : m[1] = n[1] => m = n
      BY <1>3, <2>7, <2>10 DEF SentOnce
    <3> QED BY <1>5, <3>2, <3>3 DEF SentOnce
  <2>12. sent \subseteq sent' BY <2>7
  <2>13. NetKnown' /\ RecvsKnown' /\ HandledKnown' BY <1>5, <2>12, KnownStays DEF Known
  <2>14. SendsKnown'
    <3> SUFFICES ASSUME NEW q \in Rank, NEW j \in 1..NumSends, Waiting(q, j)'
                 PROVE  /\ sends'[q][j].msg = <<q, exchange[q], sends'[q][j].tag>>
                        /\ <<sends'[q][j].msg, sends'[q][j].peer>> \in sent'
                        /\ sends'[q][j].state \in {"post", "test"} => WithCount
      BY <1>5 DEF SendsKnown
    <3>1. CASE q = r /\ j = i BY <2>2, <2>5, <2>6, <2>7, <3>1
    <3>2. CASE q # r \/ j # i BY <2>5, <2>12, <3>2 DEF Waiting, Known, SendsKnown
    <3> QED BY <3>1, <3>2
  \* Its message is nowhere.
  <2>15. \A q \in Rank, j \in 1..NumSends :
           Waiting(q, j)' /\ (q # r \/ j # i) =>
             /\ Waiting(q, j) /\ sends'[q][j] = sends[q][j] /\ sends[q][j].msg # msg
    <3>1. \A q \in Rank, j \in 1..NumSends : Waiting(q, j) => sends[q][j].msg # msg
      BY <2>10 DEF Known, SendsKnown
    <3> QED BY <2>5, <3>1 DEF Waiting
  <2>16. \A s, q \in Rank : \A n \in 1..Len(net[s][q]) : net[s][q][n].msg # msg
    BY <2>10 DEF Known, NetKnown, KnownPacket
  <2>17. \A q \in Rank, j \in 1..NumRecvs : Busy(q, j) => Subject(q, j) # msg
    <3>1. \A q \in Rank, j \in 1..NumRecvs : Busy(q, j) => <<Subject(q, j), q>> \in sent
      BY DEF Known, RecvsKnown, KnownRecv, KnownPacket, Busy, Subject
    <3> QED BY <2>10, <3>1
  <2>18. \A q \in Rank : \A n \in 1..Len(handled[q]) : handled[q][n].msg # msg
    BY <2>10 DEF Known, HandledKnown
  <2>19. sends'[r][i].msg = msg BY <2>5, <2>6
  <2>20. NoTwoSends' BY <2>15, <2>19 DEF Unique, NoTwoSends
  <2>21. NoTwoPackets' /\ HandledOnce' /\ NetNotHandled'
    BY <1>5 DEF Unique, NoTwoPackets, HandledOnce, NetNotHandled
  <2>22. NoTwoRecvs' BY <1>6 DEF Unique, NoTwoRecvs
  <2>23. SendNotInNet'
    <3> SUFFICES ASSUME NEW s \in Rank, NEW q \in Rank, NEW j \in 1..NumSends,
                        NEW n \in 1..Len(net[s][q]),
                        Waiting(s, j)', sends'[s][j].msg = net[s][q][n].msg
                 PROVE  net[s][q][n].tag = 0 /\ sends'[s][j].state # "post"
      BY <1>5 DEF SendNotInNet
    <3>1. CASE s = r /\ j = i BY <2>16, <2>19, <3>1
    <3>2. CASE s # r \/ j # i
      <4>1. Waiting(s, j) /\ sends'[s][j] = sends[s][j] BY <2>15, <3>2
      <4>2. SendNotInNet BY DEF Unique
      <4> QED BY <4>1, <4>2 DEF SendNotInNet
    <3> QED BY <3>1, <3>2
  <2>24. SendNotReceived' BY <1>6, <2>15, <2>17, <2>19 DEF Unique, SendNotReceived
  <2>25. SendNotHandled' BY <1>5, <2>15, <2>18, <2>19 DEF Unique, SendNotHandled
  <2>26. NetNotReceived' BY <1>5, <1>6 DEF Unique, NetNotReceived
  <2>27. RecvNotHandled' BY <1>5, <1>6 DEF Unique, RecvNotHandled
  <2> QED BY <2>11, <2>13, <2>14, <2>20, <2>21, <2>22, <2>23, <2>24, <2>25, <2>26, <2>27
          DEF Known, Unique
<1>9. CASE ~(left[r] > 0)
  <2>1. /\ ses' = [ses EXCEPT ![r].done = @ + 1] /\ SendPartDone(r)
        /\ UNCHANGED <<sends, left, sent>>
    BY <1>9 DEF SendHandler
  <2>2. pc'[r] # "create" /\ \A q \in Rank \ {r} : pc'[q] = pc[q] BY <1>3, <2>1, SendPartDoneIs
  <2>3. ses'[r].tags = ses[r].tags /\ \A q \in Rank \ {r} : ses'[q] = ses[q]
    BY <1>3, <1>4, <2>1 DEF SesSet
  <2>4. SentOnce'
    <3>1. \A q \in Rank : pc[q] = "create" \/ (pc'[q] # "create" /\ ses'[q].tags >= ses[q].tags)
      <4>1. \A q \in Rank : ses[q].tags \in Nat BY <1>3 DEF SesSet
      <4> QED BY <2>2, <2>3, <4>1
    <3> QED BY <1>3, <1>5, <1>7, <2>1, <3>1, SentStays
  <2>5. NetKnown' /\ RecvsKnown' /\ HandledKnown' BY <1>5, <2>1, KnownStays DEF Known
  <2>6. SendsKnown' BY <1>5, <2>1 DEF Known, SendsKnown, Waiting
  <2>7. Unique'
    <3>1. \A q \in Rank, j \in 1..NumSends : Waiting(q, j)' => Waiting(q, j) /\ sends'[q][j] = sends[q][j]
      BY <2>1 DEF Waiting
    <3> QED BY <1>5, <1>6, <3>1, FewerUnique
  <2> QED BY <2>4, <2>5, <2>6, <2>7 DEF Known
<1> QED BY <1>8, <1>9

\* A failed handler moves no message.
LEMMA SendHandlerFailsMessages ==
  ASSUME ControlInv, Known, Unique, NEW r \in Rank, SendHandlerFails(r)
  PROVE  Known' /\ Unique'
<1>0. slot[r] \in 1..NumSends
  BY SlotsBound DEF SendHandlerFails, ControlInv, Typed, AtASlot
<1>1. PICK i \in 1..NumSends : i = slot[r] BY <1>0
<1>2. i \in 1..NumSends BY <1>1
<1>3. Typed /\ SentOnce /\ sends \in [Rank -> [1..NumSends -> SendSlot]] /\ ses \in [Rank -> SesSet]
  BY DEF ControlInv, Typed, Known
<1>4. sends[r][i].state = "success" /\ sends[r][i] \in SendSlot /\ ses[r] \in SesSet
  BY <1>1, <1>2, <1>3 DEF ControlInv, FreeSlot, SendHandlerFails
<1>5. /\ recvs' = recvs /\ net' = net /\ exchange' = exchange /\ sent' = sent /\ handled' = handled
      /\ sends' = [sends EXCEPT ![r][i].tag = ses[r].tags]
      /\ ses' = [ses EXCEPT ![r].tags = @ + 1, ![r].msgCount = @ + 1]
      /\ pc' = [pc EXCEPT ![r] = "sendNew"]
  BY <1>1 DEF SendHandlerFails
<1>6. \A q \in Rank, j \in 1..NumSends : Waiting(q, j)' => Waiting(q, j) /\ sends'[q][j] = sends[q][j]
  <2>1. PICK new : new = [sends[r][i] EXCEPT !.tag = ses[r].tags] OBVIOUS
  <2>2. new.state = "success" BY <1>4, <2>1 DEF SendSlot
  <2>3. sends' = [sends EXCEPT ![r][i] = new] BY <1>5, <2>1
  <2>4. /\ sends'[r][i] = new
        /\ \A q \in Rank, j \in 1..NumSends : q # r \/ j # i => sends'[q][j] = sends[q][j]
    BY <1>2, <1>3, <2>3
  <2> TAKE q \in Rank, j \in 1..NumSends
  <2>5. CASE q = r /\ j = i BY <2>2, <2>4, <2>5 DEF Waiting
  <2>6. CASE q # r \/ j # i BY <2>4, <2>6 DEF Waiting
  <2> QED BY <2>5, <2>6
<1>7. \A q \in Rank, j \in 1..NumRecvs :
        (Busy(q, j)' <=> Busy(q, j)) /\ Subject(q, j)' = Subject(q, j) /\ (HasBody(q, j)' <=> HasBody(q, j))
  BY <1>5 DEF Busy, Subject, HasBody
<1>8. SentOnce'
  <2>1. ses' \in [Rank -> SesSet] BY SendHandlerFailsControl DEF ControlInv, Typed
  <2>2. \A q \in Rank : pc[q] = "create" \/ (pc'[q] # "create" /\ ses'[q].tags >= ses[q].tags)
    <3>1. ses'[r].tags = ses[r].tags + 1 /\ \A q \in Rank \ {r} : ses'[q] = ses[q]
      BY <1>3, <1>4, <1>5 DEF SesSet
    <3>2. pc'[r] = "sendNew" /\ \A q \in Rank \ {r} : pc'[q] = pc[q] BY <1>3, <1>5 DEF Typed
    <3>3. \A q \in Rank : ses[q].tags \in Nat BY <1>3 DEF SesSet
    <3> QED BY <3>1, <3>2, <3>3
  <2> QED BY <1>3, <1>5, <2>1, <2>2, SentStays
<1>9. NetKnown' /\ RecvsKnown' /\ HandledKnown' BY <1>5, KnownStays DEF Known
<1>10. SendsKnown'
  <2>1. SendsKnown BY DEF Known
  <2>2. exchange' = exchange /\ sent' = sent BY <1>5
  <2>3. \A q \in Rank, j \in 1..NumSends : Waiting(q, j)' =>
          /\ Waiting(q, j) /\ sends'[q][j].msg = sends[q][j].msg
          /\ sends'[q][j].tag = sends[q][j].tag /\ sends'[q][j].peer = sends[q][j].peer
          /\ sends'[q][j].state \in {"post", "test"} => WithCount
    BY <1>6, <2>1 DEF SendsKnown
  <2> QED BY <2>1, <2>2, <2>3, SendsStay
<1>11. Unique' BY <1>5, <1>6, <1>7, FewerUnique
<1> QED BY <1>8, <1>9, <1>10, <1>11 DEF Known

-----------------------------------------------------------------------------
(* Receiving.                                                              *)

\* One receive slot changes; its message, if it has one, does not.
LEMMA RecvChanges ==
  ASSUME ControlInv, Known, Unique, NEW r \in Rank, NEW i \in 1..NumRecvs, NEW new \in RecvSlot,
         RecvBecomes(r, i, new),
         sends' = sends, net' = net, handled' = handled, exchange' = exchange, sent' = sent,
         KnownRecv(r, new),
         Busy(r, i)' => /\ Busy(r, i) /\ Subject(r, i)' = Subject(r, i)
                        /\ HasBody(r, i)' => HasBody(r, i)
  PROVE  RecvsKnown' /\ Unique'
<1>1. Typed BY DEF ControlInv
<1>2. /\ recvs'[r][i] = new
      /\ \A q \in Rank, j \in 1..NumRecvs : q # r \/ j # i => recvs'[q][j] = recvs[q][j]
  BY <1>1, RecvTo
<1>3. \A q \in Rank, j \in 1..NumRecvs : q # r \/ j # i =>
        (Busy(q, j)' <=> Busy(q, j)) /\ Subject(q, j)' = Subject(q, j) /\ (HasBody(q, j)' <=> HasBody(q, j))
  BY <1>2 DEF Busy, Subject, HasBody
<1>4. \A q \in Rank, j \in 1..NumRecvs : Busy(q, j)' =>
        /\ Busy(q, j) /\ Subject(q, j)' = Subject(q, j)
        /\ HasBody(q, j)' => HasBody(q, j)
  <2> TAKE q \in Rank, j \in 1..NumRecvs
  <2>1. CASE q = r /\ j = i BY <2>1
  <2>2. CASE q # r \/ j # i BY <1>3, <2>2
  <2> QED BY <2>1, <2>2
<1>5. \A q \in Rank, j \in 1..NumSends : Waiting(q, j)' <=> Waiting(q, j) BY DEF Waiting
<1>6. Unique' BY <1>4, <1>5, FewerUnique
<1>7. RecvsKnown'
  <2>1. \A q, rc : KnownRecv(q, rc) => KnownRecv(q, rc)' BY KnownStays
  <2>2. \A q \in Rank, j \in 1..NumRecvs : KnownRecv(q, recvs[q][j]) BY DEF Known, RecvsKnown
  <2>3. ASSUME NEW q \in Rank, NEW j \in 1..NumRecvs PROVE KnownRecv(q, recvs'[q][j])
    <3>1. CASE q = r /\ j = i BY <1>2, <3>1
    <3>2. CASE q # r \/ j # i BY <1>2, <2>2, <3>2, SMTT(60)
    <3> QED BY <3>1, <3>2
  <2>4. ASSUME NEW q \in Rank, NEW j \in 1..NumRecvs PROVE KnownRecv(q, recvs[q][j])'
    <3>1. PICK rc : rc = recvs'[q][j] OBVIOUS
    <3>2. KnownRecv(q, rc)' BY <2>1, <2>3, <3>1, SMTT(60)
    <3> QED BY <3>1, <3>2 DEF KnownRecv, KnownPacket
  <2> QED BY <2>4 DEF RecvsKnown
<1> QED BY <1>6, <1>7

LEMMA RecvStepMessages ==
  ASSUME ControlInv, Known, Unique, NEW r \in Rank, RecvStep(r)
  PROVE  Known' /\ Unique'
<1>1. Typed /\ AtASlot /\ SentOnce /\ ses \in [Rank -> SesSet] BY DEF ControlInv, Typed, Known
<1>2. /\ ses' = ses /\ sends' = sends /\ net' = net /\ exchange' = exchange /\ sent' = sent
      /\ handled' = handled
  BY DEF RecvStep
<1>3. pc[r] # "create" BY DEF RecvStep
<1>3a. PICK i \in 1..NumRecvs, new \in RecvSlot : RecvStepDoes(r, i, new)
  BY <1>1, RecvStepIs
<1>4. /\ i = slot[r] /\ recvs[r][i] \in RecvSlot
      /\ pc' = pc \/ RecvPartDone(r)
  BY <1>3a DEF RecvStepDoes
<1>5. PICK rc \in RecvSlot : rc = recvs[r][i] BY <1>4
<1>6. i \in 1..NumRecvs /\ KnownRecv(r, rc) BY <1>4, <1>5 DEF Known, RecvsKnown
<1>7. SentOnce' /\ SendsKnown' /\ NetKnown' /\ HandledKnown'
  <2>1. pc'[r] # "create" /\ \A q \in Rank \ {r} : pc'[q] = pc[q]
    <3>1. CASE RecvPartDone(r) BY <1>1, <1>3, <3>1, RecvPartDoneIs
    <3>2. CASE pc' = pc BY <1>3, <3>2
    <3> QED BY <1>4, <3>1, <3>2
  <2>2. \A q \in Rank : pc[q] = "create" \/ (pc'[q] # "create" /\ ses'[q].tags >= ses[q].tags)
    <3>1. \A q \in Rank : ses[q].tags \in Nat BY <1>1 DEF SesSet
    <3> QED BY <1>2, <2>1, <3>1
  <2>3. SentOnce' BY <1>1, <1>2, <2>2, SentStays
  <2>4. SendsKnown' BY <1>2 DEF Known, SendsKnown, Waiting
  <2>5. NetKnown' /\ HandledKnown' BY <1>2, KnownStays DEF Known
  <2> QED BY <2>3, <2>4, <2>5
<1>8. CASE RecvPartDone(r) /\ UNCHANGED recvs
  <2>1. \A q \in Rank, j \in 1..NumRecvs :
          (Busy(q, j)' <=> Busy(q, j)) /\ Subject(q, j)' = Subject(q, j) /\ (HasBody(q, j)' <=> HasBody(q, j))
    BY <1>8 DEF Busy, Subject, HasBody
  <2>2. \A q \in Rank, j \in 1..NumSends : Waiting(q, j)' <=> Waiting(q, j) BY <1>2 DEF Waiting
  <2>3. Unique' BY <1>2, <2>1, <2>2, FewerUnique
  <2>4. RecvsKnown' BY <1>2, <1>8, KnownStays DEF Known
  <2> QED BY <1>7, <2>3, <2>4 DEF Known
\* The slot changes: it is known, and has what it had.
<1>9. ASSUME RecvBecomes(r, i, new), KnownRecv(r, new),
             \/ new.got = NULL /\ new.state = IF WithCount THEN "test" ELSE "test2"
             \/ /\ WithCount /\ rc.state = "post2" /\ new.state = "test2"
                /\ rc.got = NULL /\ new.got = NULL /\ new.header = rc.header
             \/ /\ WithCount /\ rc.state = "test" /\ rc.got # NULL /\ new.state = "post2"
                /\ new.got = NULL /\ new.header = rc.got.packet.msg
             \/ /\ rc.state = "test2" /\ rc.got # NULL /\ new.state = "success"
                /\ new.msg = rc.got.packet.msg
      PROVE  Known' /\ Unique'
  <2>1. recvs'[r][i] = new BY <1>1, <1>9, RecvTo
  <2>2. Busy(r, i)' => /\ Busy(r, i) /\ Subject(r, i)' = Subject(r, i)
                       /\ HasBody(r, i)' => HasBody(r, i)
    BY <1>5, <1>9, <2>1 DEF Busy, Subject, HasBody
  <2>3. RecvsKnown' /\ Unique' BY <1>2, <1>4, <1>9, <2>2, RecvChanges
  <2> QED BY <1>7, <2>3 DEF Known
<1>10. WithCount \in BOOLEAN BY ModeAssumption
<1>11. CASE /\ rc.state = "post"
            /\ new = [rc EXCEPT !.state = IF WithCount THEN "test" ELSE "test2"]
            /\ RecvBecomes(r, i, new)
  <2>1. rc.got = NULL BY <1>6, <1>11 DEF KnownRecv
  <2>2. new.got = NULL /\ new.state = IF WithCount THEN "test" ELSE "test2"
    BY <1>5, <1>11, <2>1 DEF RecvSlot
  <2>3. KnownRecv(r, new) BY <1>10, <2>2 DEF KnownRecv
  <2> QED BY <1>9, <1>11, <2>2, <2>3
<1>12. CASE /\ rc.state = "post2" /\ new = [rc EXCEPT !.state = "test2"]
            /\ RecvBecomes(r, i, new)
  <2>1. rc.got = NULL /\ WithCount BY <1>6, <1>12 DEF KnownRecv
  <2>2. /\ new.got = NULL /\ new.state = "test2" /\ new.header = rc.header /\ new.peer = rc.peer
        /\ new.tag = rc.tag
    BY <1>5, <1>12, <2>1 DEF RecvSlot
  <2>3. KnownRecv(r, new) BY <1>6, <1>12, <2>1, <2>2 DEF KnownRecv
  <2> QED BY <1>9, <1>12, <2>1, <2>2, <2>3
<1>13. CASE /\ rc.state = "test" /\ rc.got # NULL /\ rc.got \in GotSet
            /\ new = [rc EXCEPT !.state = "post2", !.got = NULL, !.peer = rc.got.from,
                                !.tag = rc.got.packet.num, !.header = rc.got.packet.msg]
            /\ RecvBecomes(r, i, new)
  <2>0. KnownRecv(r, rc) /\ rc.state = "test" /\ rc.got # NULL BY <1>6, <1>13
  <2>1. WithCount /\ KnownPacket(rc.got.from, r, rc.got.packet) BY <2>0, SMTT(60) DEF KnownRecv
  <2>2. /\ new.got = NULL /\ new.state = "post2" /\ new.header = rc.got.packet.msg
        /\ new.peer = rc.got.from /\ new.tag = rc.got.packet.num
    BY <1>5, <1>13 DEF RecvSlot
  <2>3. exchange[rc.got.from] = exchange[r] BY <1>13 DEF ControlInv, InTime, GotSet
  <2>4. KnownRecv(r, new) BY <2>1, <2>2, <2>3 DEF KnownRecv, KnownPacket
  <2> QED BY <1>9, <1>13, <2>1, <2>2, <2>4
<1>14. CASE /\ rc.state = "test2" /\ rc.got # NULL /\ rc.got \in GotSet
            /\ new = [rc EXCEPT !.state = "success", !.got = NULL, !.peer = rc.got.from,
                                !.msg = rc.got.packet.msg]
            /\ RecvBecomes(r, i, new)
  <2>1. /\ KnownPacket(rc.got.from, r, rc.got.packet)
        /\ WithCount => rc.got.packet.msg = rc.header
    BY <1>6, <1>14, SMTT(60) DEF KnownRecv
  <2>2. /\ new.got = NULL /\ new.state = "success" /\ new.header = rc.header
        /\ new.peer = rc.got.from /\ new.tag = rc.tag /\ new.msg = rc.got.packet.msg
    BY <1>5, <1>14 DEF RecvSlot
  <2>3. exchange[rc.got.from] = exchange[r] BY <1>14 DEF ControlInv, InTime, GotSet
  <2>4. new.msg = <<new.peer, exchange[r], rc.got.packet.num>> /\ <<new.msg, r>> \in sent
    BY <2>1, <2>2, <2>3 DEF KnownPacket
  <2>5. WithCount => new.header = <<new.peer, exchange[r], new.tag>> /\ <<new.header, r>> \in sent
    <3> SUFFICES ASSUME WithCount
                 PROVE  new.header = <<new.peer, exchange[r], new.tag>> /\ <<new.header, r>> \in sent
      OBVIOUS
    <3>1. rc.header = <<rc.peer, exchange[r], rc.tag>> /\ <<rc.header, r>> \in sent
      BY <1>6, <1>14 DEF KnownRecv
    <3>2. rc.header = new.msg BY <2>1, <2>2
    <3>3. rc.peer = new.peer BY <2>4, <3>1, <3>2
    <3> QED BY <2>2, <3>1, <3>3
  <2>6. new.msg[2] = exchange[r] BY <2>4
  <2>7. KnownRecv(r, new) BY <2>1, <2>2, <2>4, <2>5, <2>6 DEF KnownRecv
  <2> QED BY <1>9, <1>14, <2>2, <2>7
<1> QED BY <1>3a, <1>5, <1>8, <1>11, <1>12, <1>13, <1>14 DEF RecvStepDoes

LEMMA NewRecvIs ==
  ASSUME NEW r
  PROVE  /\ NewRecv \in RecvSlot /\ KnownRecv(r, NewRecv)
         /\ NewRecv.got = NULL /\ NewRecv.state = "post"
BY NewTypes DEF NewRecv, KnownRecv

LEMMA RecvHandlerMessages ==
  ASSUME ControlInv, Known, Unique, NEW r \in Rank, RecvHandler(r)
  PROVE  Known' /\ Unique'
<1>0. slot[r] \in 1..NumRecvs
  BY SlotsBound DEF RecvHandler, ControlInv, Typed, AtASlot
<1>1. PICK i \in 1..NumRecvs : i = slot[r] BY <1>0
<1>2. i \in 1..NumRecvs BY <1>1
<1>3. Typed /\ SentOnce /\ ses \in [Rank -> SesSet] /\ handled \in [Rank -> Seq(HandledSet)]
  BY DEF ControlInv, Typed, Known
<1>4. PICK h : h = [msg |-> recvs[r][i].msg, in |-> exchange[r]] OBVIOUS
<1>5. /\ ses' = [ses EXCEPT ![r].msgCount = @ - 1]
      /\ handled' = [handled EXCEPT ![r] = Append(@, h)]
      /\ recvs' = [recvs EXCEPT ![r][i] = NewRecv]
      /\ pc' = [pc EXCEPT ![r] = "recvAgain"]
      /\ sends' = sends /\ net' = net /\ exchange' = exchange /\ sent' = sent
      /\ recvs[r][i].state = "success"
  BY <1>1, <1>4 DEF RecvHandler
<1>6. /\ recvs'[r][i] = NewRecv
      /\ \A q \in Rank, j \in 1..NumRecvs : q # r \/ j # i => recvs'[q][j] = recvs[q][j]
  <2>1. NewRecv \in RecvSlot /\ Typed BY <1>3, NewTypes
  <2>2. RecvBecomes(r, i, NewRecv) BY <1>5 DEF RecvBecomes
  <2> QED BY <1>2, <2>1, <2>2, RecvTo
<1>7. PICK m : m = recvs[r][i].msg OBVIOUS
<1>8. Busy(r, i) /\ HasBody(r, i) /\ Subject(r, i) = m /\ h.msg = m /\ h.in = exchange[r]
  BY <1>4, <1>5, <1>7 DEF Busy, HasBody, Subject
<1>9. <<m, r>> \in sent /\ m[2] = exchange[r]
  BY <1>2, <1>5, <1>7 DEF Known, RecvsKnown, KnownRecv
<1>10. ~Busy(r, i)' BY <1>6, NewRecvIs DEF Busy
<1>11. \A q \in Rank, j \in 1..NumRecvs : Busy(q, j)' =>
         /\ Busy(q, j) /\ Subject(q, j)' = Subject(q, j) /\ (HasBody(q, j)' <=> HasBody(q, j))
         /\ q # r \/ j # i
  <2> TAKE q \in Rank, j \in 1..NumRecvs
  <2>1. CASE q = r /\ j = i BY <1>10, <2>1
  <2>2. CASE q # r \/ j # i BY <1>6, <2>2 DEF Busy, Subject, HasBody
  <2> QED BY <2>1, <2>2
<1>12. \A q \in Rank, j \in 1..NumSends : Waiting(q, j)' <=> Waiting(q, j) BY <1>5 DEF Waiting
<1>13. PICK len \in Nat : len = Len(handled[r]) BY <1>3
<1>14. \A q \in Rank : \A n \in 1..Len(handled'[q]) :
         \/ q = r /\ n = len + 1 /\ handled'[q][n] = h
         \/ n \in 1..Len(handled[q]) /\ handled'[q][n] = handled[q][n]
  <2>1. handled'[r] = Append(handled[r], h) /\ \A q \in Rank \ {r} : handled'[q] = handled[q]
    BY <1>3, <1>5
  <2>2. /\ Len(handled'[r]) = len + 1 /\ handled'[r][len + 1] = h
        /\ \A n \in 1..len : handled'[r][n] = handled[r][n]
    BY <1>3, <1>13, <2>1
  <2> TAKE q \in Rank
  <2>3. CASE q = r
    <3> TAKE n \in 1..Len(handled'[q])
    <3>1. n \in 1..len \/ n = len + 1 BY <2>2, <2>3, <1>13
    <3>2. CASE n \in 1..len BY <1>13, <2>2, <2>3, <3>2
    <3>3. CASE n = len + 1
      <4>1. handled'[q] = handled'[r] BY <2>3
      <4>2. handled'[q][n] = h BY <2>2, <3>3, <4>1
      <4> QED BY <2>3, <3>3, <4>2
    <3> QED BY <3>1, <3>2, <3>3
  <2>4. CASE q # r BY <2>1, <2>4
  <2> QED BY <2>3, <2>4
\* Known'
<1>15. SentOnce'
  <2>1. ses' \in [Rank -> SesSet] BY RecvHandlerControl DEF ControlInv, Typed
  <2>2. \A q \in Rank : pc[q] = "create" \/ (pc'[q] # "create" /\ ses'[q].tags >= ses[q].tags)
    <3>1. ses'[r].tags = ses[r].tags /\ \A q \in Rank \ {r} : ses'[q] = ses[q]
      BY <1>3, <1>5 DEF SesSet
    <3>2. pc'[r] = "recvAgain" /\ \A q \in Rank \ {r} : pc'[q] = pc[q] BY <1>3, <1>5 DEF Typed
    <3>3. \A q \in Rank : ses[q].tags \in Nat BY <1>3 DEF SesSet
    <3> QED BY <3>1, <3>2, <3>3
  <2> QED BY <1>3, <1>5, <2>1, <2>2, SentStays
<1>16. NetKnown' BY <1>5, KnownStays DEF Known
<1>17. SendsKnown' BY <1>5 DEF Known, SendsKnown, Waiting
<1>18. HandledKnown'
  <2> SUFFICES ASSUME NEW q \in Rank, NEW n \in 1..Len(handled'[q])
               PROVE  /\ <<handled'[q][n].msg, q>> \in sent
                      /\ handled'[q][n].msg[2] = handled'[q][n].in
    BY <1>5 DEF HandledKnown
  <2>1. CASE q = r /\ handled'[q][n] = h BY <1>8, <1>9, <2>1
  <2>2. CASE n \in 1..Len(handled[q]) /\ handled'[q][n] = handled[q][n]
    BY <2>2 DEF Known, HandledKnown
  <2> QED BY <1>14, <2>1, <2>2
<1>19. RecvsKnown'
  <2>1. \A q, rc : KnownRecv(q, rc) => KnownRecv(q, rc)' BY <1>5, KnownStays
  <2>2. \A q \in Rank, j \in 1..NumRecvs : KnownRecv(q, recvs[q][j]) BY DEF Known, RecvsKnown
  <2>3. ASSUME NEW q \in Rank, NEW j \in 1..NumRecvs PROVE KnownRecv(q, recvs'[q][j])
    <3>1. CASE q = r /\ j = i BY <1>6, <3>1, NewRecvIs
    <3>2. CASE q # r \/ j # i BY <1>6, <2>2, <3>2
    <3> QED BY <3>1, <3>2
  <2>4. ASSUME NEW q \in Rank, NEW j \in 1..NumRecvs PROVE KnownRecv(q, recvs[q][j])'
    <3>1. PICK rc : rc = recvs'[q][j] OBVIOUS
    <3>2. KnownRecv(q, rc)' BY <2>1, <2>3, <3>1, SMTT(60)
    <3> QED BY <3>1, <3>2 DEF KnownRecv, KnownPacket
  <2> QED BY <2>4 DEF RecvsKnown
\* Unique'
<1>20. NoTwoSends' /\ NoTwoPackets' BY <1>5, <1>12 DEF Unique, NoTwoSends, NoTwoPackets
<1>21. NoTwoRecvs' BY <1>11 DEF Unique, NoTwoRecvs
<1>22. \A n \in 1..Len(handled[r]) : handled[r][n].msg # m
  BY <1>2, <1>8 DEF Unique, RecvNotHandled
<1>23. HandledOnce'
  <2> SUFFICES ASSUME NEW q \in Rank, NEW n \in 1..Len(handled'[q]), NEW k \in 1..Len(handled'[q]),
                      handled'[q][n].msg = handled'[q][k].msg
               PROVE  n = k
    BY DEF HandledOnce
  <2>1. \/ q = r /\ n = len + 1 /\ handled'[q][n] = h
        \/ n \in 1..Len(handled[q]) /\ handled'[q][n] = handled[q][n]
    BY <1>14
  <2>2. \/ q = r /\ k = len + 1 /\ handled'[q][k] = h
        \/ k \in 1..Len(handled[q]) /\ handled'[q][k] = handled[q][k]
    BY <1>14
  <2>3. CASE n \in 1..Len(handled[q]) /\ k \in 1..Len(handled[q])
             /\ handled'[q][n] = handled[q][n] /\ handled'[q][k] = handled[q][k]
    <3>1. \A a, b \in 1..Len(handled[q]) : handled[q][a].msg = handled[q][b].msg => a = b
      BY DEF Unique, HandledOnce
    <3> QED BY <2>3, <3>1
  <2>4. CASE q = r /\ n = len + 1 /\ handled'[q][n] = h BY <1>8, <1>22, <2>2, <2>4
  <2>5. CASE q = r /\ k = len + 1 /\ handled'[q][k] = h BY <1>8, <1>22, <2>1, <2>5
  <2> QED BY <2>1, <2>2, <2>3, <2>4, <2>5
<1>24. SendNotInNet' BY <1>5, <1>12 DEF Unique, SendNotInNet
<1>25. SendNotReceived' BY <1>5, <1>11, <1>12 DEF Unique, SendNotReceived
<1>26. SendNotHandled'
  <2> SUFFICES ASSUME NEW s \in Rank, NEW q \in Rank, NEW j \in 1..NumSends,
                      NEW n \in 1..Len(handled'[q]), Waiting(s, j)
               PROVE  handled'[q][n].msg # sends[s][j].msg
    BY <1>5, <1>12 DEF SendNotHandled
  <2>1. CASE n \in 1..Len(handled[q]) /\ handled'[q][n] = handled[q][n]
    BY <2>1 DEF Unique, SendNotHandled
  <2>2. CASE q = r /\ handled'[q][n] = h
    <3>1. sends[s][j].msg # m BY <1>2, <1>8 DEF Unique, SendNotReceived
    <3> QED BY <1>8, <2>2, <3>1
  <2> QED BY <1>14, <2>1, <2>2
<1>27. NetNotReceived' BY <1>5, <1>11 DEF Unique, NetNotReceived
<1>28. NetNotHandled'
  <2> SUFFICES ASSUME NEW s \in Rank, NEW q \in Rank, NEW n \in 1..Len(net[s][q]),
                      NEW k \in 1..Len(handled'[q])
               PROVE  net[s][q][n].msg # handled'[q][k].msg
    BY <1>5, SMTT(60) DEF NetNotHandled
  <2>1. CASE k \in 1..Len(handled[q]) /\ handled'[q][k] = handled[q][k]
    BY <2>1 DEF Unique, NetNotHandled
  <2>2. CASE q = r /\ handled'[q][k] = h
    <3>1. net[s][r][n].msg # m BY <1>2, <1>8, <2>2 DEF Unique, NetNotReceived
    <3> QED BY <1>8, <2>2, <3>1
  <2> QED BY <1>14, <2>1, <2>2
<1>29. RecvNotHandled'
  <2> SUFFICES ASSUME NEW q \in Rank, NEW j \in 1..NumRecvs, NEW k \in 1..Len(handled'[q]),
                      Busy(q, j)'
               PROVE  handled'[q][k].msg # Subject(q, j)
    BY <1>11 DEF RecvNotHandled
  <2>1. Busy(q, j) /\ (q # r \/ j # i) BY <1>11
  <2>2. CASE k \in 1..Len(handled[q]) /\ handled'[q][k] = handled[q][k]
    BY <2>1, <2>2 DEF Unique, RecvNotHandled
  <2>3. CASE q = r /\ handled'[q][k] = h
    <3>1. Subject(r, j) # m BY <1>2, <1>8, <2>1, <2>3 DEF Unique, NoTwoRecvs
    <3> QED BY <1>8, <2>3, <3>1
  <2> QED BY <1>14, <2>2, <2>3
<1> QED BY <1>15, <1>16, <1>17, <1>18, <1>19, <1>20, <1>21, <1>23, <1>24, <1>25, <1>26, <1>27,
           <1>28, <1>29 DEF Known, Unique
\* A posted receive gets a packet.  It was not at work on another message, nor
\* is another receive at work on this one.
LEMMA DeliverMessages ==
  ASSUME ControlInv, Known, Unique, NEW s \in Rank, NEW r \in Rank, NEW i \in 1..NumRecvs,
         Deliver(s, r, i)
  PROVE  Known' /\ Unique'
<1>1. Typed /\ SentOnce /\ ses \in [Rank -> SesSet] /\ WithCount \in BOOLEAN
  BY ModeAssumption DEF ControlInv, Typed, Known
<1>1a. PICK n \in 1..Len(net[s][r]), new \in RecvSlot : DeliverDoes(s, r, i, n, new)
  BY <1>1, DeliverIs
<1>2. /\ recvs[r][i] \in RecvSlot /\ net[s][r] \in Seq(PacketSet)
      /\ net[s][r][n] \in PacketSet
      /\ Posted(recvs[r][i].state) /\ recvs[r][i].got = NULL
      /\ Admits(recvs[r][i], s, net[s][r][n])
      /\ new = [recvs[r][i] EXCEPT !.got = [from |-> s, packet |-> net[s][r][n]]]
      /\ RecvBecomes(r, i, new)
      /\ net' \in [Rank -> [Rank -> Seq(PacketSet)]]
      /\ net'[s][r] = RemoveAt(net[s][r], n)
      /\ \A t, q \in Rank : t # s \/ q # r => net'[t][q] = net[t][q]
      /\ UNCHANGED <<pc, slot, ses, sends, exchange, left, sent, handled>>
  BY <1>1a DEF DeliverDoes
<1>3. PICK p \in PacketSet : p = net[s][r][n] BY <1>2
<1>4. PICK rc \in RecvSlot : rc = recvs[r][i] BY <1>2
<1>5. /\ new.got.from = s /\ new.got.packet = p /\ new.state = rc.state /\ new.peer = rc.peer
      /\ new.tag = rc.tag /\ new.header = rc.header /\ rc.got = NULL
      /\ rc.state \in {"test", "test2"} /\ Admits(rc, s, p)
  BY <1>2, <1>3, <1>4 DEF RecvSlot, Posted
<1>6. /\ recvs'[r][i] = new
      /\ \A q \in Rank, j \in 1..NumRecvs : q # r \/ j # i => recvs'[q][j] = recvs[q][j]
  BY <1>1, <1>2, RecvTo, SMTT(60)
<1>7. n \in 1..Len(net[s][r]) /\ Len(net[s][r]) \in Nat BY <1>2
<1>8. KnownPacket(s, r, p) BY <1>3, <1>7 DEF Known, NetKnown
<1>9. p.num # 0 /\ p.num \in Nat /\ p.tag \in Nat
  <2>1. p.msg[3] # 0 BY <1>8 DEF KnownPacket, Known, SentOnce
  <2> QED BY <1>8, <2>1 DEF KnownPacket, PacketSet
<1>10. KnownRecv(r, rc) BY <1>4 DEF Known, RecvsKnown
\* The packet is the one that was announced.
<1>11. WithCount /\ rc.state = "test2" => p.msg = rc.header /\ p.tag # 0
  <2> SUFFICES ASSUME WithCount, rc.state = "test2" PROVE p.msg = rc.header /\ p.tag # 0
    OBVIOUS
  <2>1. rc.header = <<rc.peer, exchange[r], rc.tag>> /\ <<rc.header, r>> \in sent
    BY <1>10 DEF KnownRecv
  <2>2. rc.header[3] # 0 BY <2>1 DEF Known, SentOnce
  <2>3. s = rc.peer /\ p.tag = rc.tag BY <1>5 DEF Admits
  <2>4. exchange[s] = exchange[r] BY DEF ControlInv, InTime
  <2> QED BY <1>8, <2>1, <2>2, <2>3, <2>4 DEF KnownPacket
<1>12. rc.state = "test" => WithCount /\ p.tag = 0 BY <1>5, <1>10 DEF Admits, KnownRecv
<1>13. ~WithCount => p.tag # 0 BY <1>8, <1>9 DEF KnownPacket
\* What is in the net was there before, and is not this packet.
<1>14. \A k, l \in 1..Len(net[s][r]) : net[s][r][k] = net[s][r][l] => k = l
  BY DEF Unique, NoTwoPackets
<1>15. PICK len \in Nat : len = Len(net[s][r]) BY <1>7
<1>16. /\ Len(net'[s][r]) = len - 1
       /\ \A k \in 1..len - 1 : net'[s][r][k] = IF k < n THEN net[s][r][k] ELSE net[s][r][k + 1]
  <2>1. PICK q \in Seq(PacketSet) : q = net[s][r] BY <1>2
  <2>2. n \in 1..Len(q) /\ len = Len(q) /\ net'[s][r] = RemoveAt(q, n) BY <1>2, <1>7, <1>15, <2>1
  <2>3. /\ Len(RemoveAt(q, n)) = len - 1
        /\ \A k \in 1..len - 1 : RemoveAt(q, n)[k] = IF k < n THEN q[k] ELSE q[k + 1]
    BY <2>2, RemoveAtIs
  <2> QED BY <2>1, <2>2, <2>3
<1>17. \A t, q \in Rank : \A k \in 1..Len(net'[t][q]) :
         \E l \in 1..Len(net[t][q]) :
           net'[t][q][k] = net[t][q][l] /\ (t = s /\ q = r => l # n)
  <2> TAKE t \in Rank, q \in Rank
  <2> TAKE k \in 1..Len(net'[t][q])
  <2>1. CASE t = s /\ q = r
    <3>1. k \in 1..len - 1 BY <1>16, <2>1
    <3>2. CASE k < n
      <4>1. k \in 1..Len(net[s][r]) /\ k # n BY <1>7, <1>15, <3>1, <3>2
      <4>2. net'[s][r][k] = net[s][r][k] BY <1>16, <3>1, <3>2
      <4> QED BY <2>1, <4>1, <4>2
    <3>3. CASE ~(k < n)
      <4>1. k + 1 \in 1..Len(net[s][r]) /\ k + 1 # n BY <1>7, <1>15, <3>1, <3>3
      <4>2. net'[s][r][k] = net[s][r][k + 1] BY <1>16, <3>1, <3>3
      <4> QED BY <2>1, <4>1, <4>2
    <3> QED BY <3>2, <3>3
  <2>2. CASE t # s \/ q # r BY <1>2, <2>2
  <2> QED BY <2>1, <2>2
<1>18. \A k \in 1..Len(net[s][r]) : k # n => net[s][r][k] # p BY <1>3, <1>7, <1>14
\* Known'
<1>19. UNCHANGED <<pc, slot, ses, sends, exchange, left, sent, handled>> BY <1>2
<1>20. SentOnce'
  <2>1. \A q \in Rank : pc[q] = "create" \/ (pc'[q] # "create" /\ ses'[q].tags >= ses[q].tags)
    <3>1. \A q \in Rank : ses[q].tags \in Nat BY <1>1 DEF SesSet
    <3> QED BY <1>19, <3>1
  <2> QED BY <1>1, <1>19, <2>1, SentStays
<1>21. HandledKnown' BY <1>19, KnownStays DEF Known
<1>22. SendsKnown' BY <1>19 DEF Known, SendsKnown, Waiting
<1>23. NetKnown'
  <2>1. \A t, q, k : KnownPacket(t, q, k) => KnownPacket(t, q, k)' BY <1>19, KnownStays
  <2>2. \A t, q \in Rank : \A k \in 1..Len(net[t][q]) : KnownPacket(t, q, net[t][q][k])
    BY DEF Known, NetKnown
  <2> SUFFICES ASSUME NEW t \in Rank, NEW q \in Rank, NEW k \in 1..Len(net'[t][q])
               PROVE  KnownPacket(t, q, net[t][q][k])'
    BY DEF NetKnown
  <2>3. PICK x : x = net'[t][q][k] OBVIOUS
  <2>4. KnownPacket(t, q, x)
    <3>1. PICK l \in 1..Len(net[t][q]) : net'[t][q][k] = net[t][q][l] BY <1>17
    <3> QED BY <2>2, <2>3, <3>1
  <2>5. KnownPacket(t, q, x)' BY <2>1, <2>4
  <2> QED BY <2>3, <2>5 DEF KnownPacket
<1>24. KnownRecv(r, new)
  <2>1. new.got # NULL =>
          /\ new.state \in {"test", "test2"}
          /\ KnownPacket(new.got.from, r, new.got.packet)
          /\ WithCount /\ new.state = "test2" => new.got.packet.msg = new.header
    BY <1>5, <1>8, <1>11
  <2>2. new.state # "success" /\ new.state # "post2" BY <1>5
  <2> QED BY <1>5, <1>10, <2>1, <2>2 DEF KnownRecv
<1>25. RecvsKnown'
  <2>1. \A q, x : KnownRecv(q, x) => KnownRecv(q, x)' BY <1>19, KnownStays
  <2>2. \A q \in Rank, j \in 1..NumRecvs : KnownRecv(q, recvs[q][j]) BY DEF Known, RecvsKnown
  <2>3. ASSUME NEW q \in Rank, NEW j \in 1..NumRecvs PROVE KnownRecv(q, recvs'[q][j])
    <3>1. CASE q = r /\ j = i BY <1>6, <1>24, <3>1
    <3>2. CASE q # r \/ j # i BY <1>6, <2>2, <3>2, SMTT(60)
    <3> QED BY <3>1, <3>2
  <2>4. ASSUME NEW q \in Rank, NEW j \in 1..NumRecvs PROVE KnownRecv(q, recvs[q][j])'
    <3>1. PICK x : x = recvs'[q][j] OBVIOUS
    <3>2. KnownRecv(q, x)' BY <2>1, <2>3, <3>1
    <3> QED BY <3>1, <3>2 DEF KnownRecv, KnownPacket
  <2> QED BY <2>4 DEF RecvsKnown
\* Unique'
<1>26. \A q \in Rank, j \in 1..NumRecvs : q # r \/ j # i =>
         (Busy(q, j)' <=> Busy(q, j)) /\ Subject(q, j)' = Subject(q, j) /\ (HasBody(q, j)' <=> HasBody(q, j))
  BY <1>6 DEF Busy, Subject, HasBody
<1>27. \A q \in Rank, j \in 1..NumSends : Waiting(q, j)' <=> Waiting(q, j) BY <1>19 DEF Waiting
<1>28. Busy(r, i)' => Subject(r, i)' = p.msg
  BY <1>5, <1>6, <1>11 DEF Busy, Subject
<1>29. Busy(r, i) => Subject(r, i) = p.msg
  BY <1>4, <1>5, <1>11 DEF Busy, Subject
<1>30. HasBody(r, i)' => p.tag # 0
  BY <1>5, <1>6, <1>11, <1>13 DEF HasBody
<1>31. WithCount /\ p.tag # 0 => Busy(r, i)
  BY <1>4, <1>5, <1>12 DEF Busy
<1>32. \A j \in 1..NumRecvs : j # i /\ Busy(r, j) => Subject(r, j) # p.msg
  <2> SUFFICES ASSUME NEW j \in 1..NumRecvs, j # i, Busy(r, j), Subject(r, j) = p.msg PROVE FALSE
    OBVIOUS
  <2>1. ~Busy(r, i) BY <1>29 DEF Unique, NoTwoRecvs
  <2>2. p.tag # 0 /\ ~HasBody(r, j) BY <1>3, <1>7 DEF Unique, NetNotReceived
  <2>3. ~WithCount BY <1>31, <2>1, <2>2
  <2> QED BY <2>2, <2>3 DEF Busy, HasBody
<1>33. NoTwoSends' /\ HandledOnce' /\ SendNotHandled'
  BY <1>19, <1>27 DEF Unique, NoTwoSends, HandledOnce, SendNotHandled
<1>34. NoTwoPackets'
  <2> SUFFICES ASSUME NEW t \in Rank, NEW q \in Rank, NEW k \in 1..Len(net'[t][q]),
                      NEW l \in 1..Len(net'[t][q]), net'[t][q][k] = net'[t][q][l]
               PROVE  k = l
    BY DEF NoTwoPackets
  <2>1. CASE t = s /\ q = r
    <3>1. k \in 1..len - 1 /\ l \in 1..len - 1 BY <1>16, <2>1
    <3>2. PICK a \in 1..len : a = IF k < n THEN k ELSE k + 1 BY <3>1, <1>15
    <3>3. PICK b \in 1..len : b = IF l < n THEN l ELSE l + 1 BY <3>1, <1>15
    <3>4. net'[s][r][k] = net[s][r][a] BY <1>16, <3>1, <3>2
    <3>5. net'[s][r][l] = net[s][r][b] BY <1>16, <3>1, <3>3
    <3>6. a \in 1..Len(net[s][r]) /\ b \in 1..Len(net[s][r]) BY <1>15
    <3>7. a = b BY <1>14, <2>1, <3>4, <3>5, <3>6
    <3> QED BY <1>7, <3>1, <3>2, <3>3, <3>7
  <2>2. CASE t # s \/ q # r
    <3>1. net'[t][q] = net[t][q] BY <1>2, <2>2
    <3>2. \A a, b \in 1..Len(net[t][q]) : net[t][q][a] = net[t][q][b] => a = b
      BY DEF Unique, NoTwoPackets
    <3> QED BY <3>1, <3>2
  <2> QED BY <2>1, <2>2
<1>35. NoTwoRecvs'
  <2> SUFFICES ASSUME NEW q \in Rank, NEW j \in 1..NumRecvs, NEW k \in 1..NumRecvs,
                      Busy(q, j)', Busy(q, k)', Subject(q, j)' = Subject(q, k)'
               PROVE  j = k
    BY DEF NoTwoRecvs
  <2>1. CASE q = r /\ j = i /\ k # i BY <1>26, <1>28, <1>32, <2>1
  <2>2. CASE q = r /\ k = i /\ j # i BY <1>26, <1>28, <1>32, <2>2
  <2>3. CASE q # r \/ (j # i /\ k # i) BY <1>26, <2>3 DEF Unique, NoTwoRecvs
  <2> QED BY <2>1, <2>2, <2>3
<1>36. SendNotInNet'
  <2> SUFFICES ASSUME NEW t \in Rank, NEW q \in Rank, NEW j \in 1..NumSends,
                      NEW k \in 1..Len(net'[t][q]), Waiting(t, j), sends[t][j].msg = net'[t][q][k].msg
               PROVE  net'[t][q][k].tag = 0 /\ sends[t][j].state # "post"
    BY <1>19, <1>27 DEF SendNotInNet
  <2>1. PICK l \in 1..Len(net[t][q]) : net'[t][q][k] = net[t][q][l] BY <1>17
  <2> QED BY <2>1 DEF Unique, SendNotInNet
<1>37. SendNotReceived'
  <2> SUFFICES ASSUME NEW t \in Rank, NEW q \in Rank, NEW j \in 1..NumSends, NEW k \in 1..NumRecvs,
                      Waiting(t, j), Busy(q, k)', sends[t][j].msg = Subject(q, k)'
               PROVE  ~HasBody(q, k)' /\ sends[t][j].state # "post"
    BY <1>19, <1>27 DEF SendNotReceived
  <2>1. CASE q = r /\ k = i
    <3>1. sends[t][j].msg = p.msg BY <1>28, <2>1
    <3>2. t = s
      <4>1. sends[t][j].msg = <<t, exchange[t], sends[t][j].tag>> BY DEF Known, SendsKnown
      <4> QED BY <1>8, <3>1, <4>1 DEF KnownPacket
    <3>3. p.tag = 0 /\ sends[t][j].state # "post"
      BY <1>3, <1>7, <3>1, <3>2 DEF Unique, SendNotInNet
    <3> QED BY <1>30, <2>1, <3>3
  <2>2. CASE q # r \/ k # i BY <1>26, <2>2 DEF Unique, SendNotReceived
  <2> QED BY <2>1, <2>2
<1>38. NetNotReceived'
  <2> SUFFICES ASSUME NEW t \in Rank, NEW q \in Rank, NEW j \in 1..NumRecvs,
                      NEW k \in 1..Len(net'[t][q]),
                      Busy(q, j)', net'[t][q][k].msg = Subject(q, j)'
               PROVE  net'[t][q][k].tag # 0 /\ ~HasBody(q, j)'
    BY DEF NetNotReceived
  <2>1. PICK l \in 1..Len(net[t][q]) :
          net'[t][q][k] = net[t][q][l] /\ (t = s /\ q = r => l # n)
    BY <1>17
  <2>2. CASE q = r /\ j = i
    <3>1. PICK x : x = net[t][r][l] OBVIOUS
    <3>2. x = net'[t][q][k] /\ x.msg = p.msg BY <1>28, <2>1, <2>2, <3>1
    <3>3. KnownPacket(t, r, x) BY <2>1, <2>2, <3>1 DEF Known, NetKnown
    <3>4. t = s /\ x.num = p.num BY <1>8, <3>2, <3>3 DEF KnownPacket
    <3>5. x # p BY <1>18, <2>1, <2>2, <3>1, <3>4
    <3>6. x \in PacketSet BY <1>2, <2>1, <2>2, <3>1, <3>4
    <3>7. x.tag # p.tag
      <4> SUFFICES ASSUME x.tag = p.tag PROVE FALSE OBVIOUS
      <4>1. x = p BY <3>2, <3>4, <3>6, SMTT(60) DEF PacketSet
      <4> QED BY <3>5, <4>1
    <3>8. CASE p.tag = 0 BY <1>30, <2>2, <3>2, <3>7, <3>8
    <3>9. CASE p.tag # 0
      <4>1. x.tag = 0 /\ WithCount BY <1>8, <3>3, <3>4, <3>7, <3>9 DEF KnownPacket
      <4>2. Busy(r, i) /\ Subject(r, i) = x.msg BY <1>29, <1>31, <3>2, <3>9, <4>1
      <4>3. x.tag # 0 BY <2>1, <2>2, <3>1, <4>2 DEF Unique, NetNotReceived
      <4> QED BY <4>1, <4>3
    <3> QED BY <3>8, <3>9
  <2>3. CASE q # r \/ j # i
    <3>1. Busy(q, j) /\ net[t][q][l].msg = Subject(q, j) BY <1>26, <2>1, <2>3
    <3>2. net[t][q][l].tag # 0 /\ ~HasBody(q, j) BY <2>1, <3>1 DEF Unique, NetNotReceived
    <3> QED BY <1>26, <2>1, <2>3, <3>2
  <2> QED BY <2>2, <2>3
<1>39. NetNotHandled'
  <2> SUFFICES ASSUME NEW t \in Rank, NEW q \in Rank, NEW k \in 1..Len(net'[t][q]),
                      NEW j \in 1..Len(handled[q])
               PROVE  net'[t][q][k].msg # handled[q][j].msg
    BY <1>19 DEF NetNotHandled
  <2>1. PICK l \in 1..Len(net[t][q]) : net'[t][q][k] = net[t][q][l] BY <1>17
  <2> QED BY <2>1 DEF Unique, NetNotHandled
<1>40. RecvNotHandled'
  <2> SUFFICES ASSUME NEW q \in Rank, NEW j \in 1..NumRecvs, NEW k \in 1..Len(handled[q]), Busy(q, j)'
               PROVE  handled[q][k].msg # Subject(q, j)'
    BY <1>19 DEF RecvNotHandled
  <2>1. CASE q = r /\ j = i
    <3>1. handled[r][k].msg # p.msg BY <1>3, <1>7, <2>1 DEF Unique, NetNotHandled
    <3> QED BY <1>28, <2>1, <3>1
  <2>2. CASE q # r \/ j # i BY <1>26, <2>2 DEF Unique, RecvNotHandled
  <2> QED BY <2>1, <2>2
<1> QED BY <1>20, <1>21, <1>22, <1>23, <1>25, <1>33, <1>34, <1>35, <1>36, <1>37, <1>38, <1>39, <1>40
        DEF Known, Unique

-----------------------------------------------------------------------------
(* The end of an exchange and the begin of the next.                       *)

\* The receives of a rank are reset.
LEMMA RecvsReset ==
  ASSUME ControlInv, Known, NEW r \in Rank,
         recvs' = [recvs EXCEPT ![r] = [i \in 1..NumRecvs |-> NewRecv]],
         exchange' = exchange, sent' = sent
  PROVE  /\ RecvsKnown'
         /\ \A q \in Rank, j \in 1..NumRecvs : Busy(q, j)' =>
              /\ Busy(q, j) /\ Subject(q, j)' = Subject(q, j)
              /\ HasBody(q, j)' => HasBody(q, j)
<1>1. recvs \in [Rank -> [1..NumRecvs -> RecvSlot]] BY DEF ControlInv, Typed
<1>2. \A q \in Rank, j \in 1..NumRecvs : recvs'[q][j] = IF q = r THEN NewRecv ELSE recvs[q][j]
  BY <1>1
<1>3. ASSUME NEW q \in Rank, NEW j \in 1..NumRecvs, Busy(q, j)'
      PROVE  /\ Busy(q, j) /\ Subject(q, j)' = Subject(q, j)
             /\ HasBody(q, j)' => HasBody(q, j)
  <2>1. CASE q = r
    <3>1. recvs'[q][j].state = "post" BY <1>2, <2>1, NewRecvIs
    <3> QED BY <1>3, <3>1 DEF Busy
  <2>2. CASE q # r
    <3>1. recvs'[q][j] = recvs[q][j] BY <1>2, <2>2
    <3> QED BY <1>3, <3>1 DEF Busy, Subject, HasBody
  <2> QED BY <2>1, <2>2
<1>4. RecvsKnown'
  <2>1. \A q, rc : KnownRecv(q, rc) => KnownRecv(q, rc)' BY KnownStays
  <2>2. \A q \in Rank, j \in 1..NumRecvs : KnownRecv(q, recvs[q][j]) BY DEF Known, RecvsKnown
  <2>3. ASSUME NEW q \in Rank, NEW j \in 1..NumRecvs PROVE KnownRecv(q, recvs'[q][j])
    <3>1. CASE q = r BY <1>2, <3>1, NewRecvIs
    <3>2. CASE q # r BY <1>2, <2>2, <3>2, SMTT(60)
    <3> QED BY <3>1, <3>2
  <2>4. ASSUME NEW q \in Rank, NEW j \in 1..NumRecvs PROVE KnownRecv(q, recvs[q][j])'
    <3>1. PICK rc : rc = recvs'[q][j] OBVIOUS
    <3>2. KnownRecv(q, rc)' BY <2>1, <2>3, <3>1, SMTT(60)
    <3> QED BY <3>1, <3>2 DEF KnownRecv, KnownPacket
  <2> QED BY <2>4 DEF RecvsKnown
<1> QED BY <1>3, <1>4

LEMMA CancelMessages ==
  ASSUME ControlInv, Known, Unique, NEW r \in Rank, Cancel(r)
  PROVE  Known' /\ Unique'
<1>1. Typed /\ SentOnce /\ ses \in [Rank -> SesSet] /\ pc \in [Rank -> Control]
  BY DEF ControlInv, Typed, Known
<1>2. /\ recvs' = [recvs EXCEPT ![r] = [i \in 1..NumRecvs |-> NewRecv]]
      /\ pc' = [pc EXCEPT ![r] = "barrier"]
      /\ ses' = ses /\ sends' = sends /\ net' = net /\ exchange' = exchange
      /\ sent' = sent /\ handled' = handled
  BY DEF Cancel
<1>3. SentOnce'
  <2>1. \A q \in Rank : pc[q] = "create" \/ (pc'[q] # "create" /\ ses'[q].tags >= ses[q].tags)
    <3>1. \A q \in Rank : ses[q].tags \in Nat BY <1>1 DEF SesSet
    <3> QED BY <1>1, <1>2, <3>1
  <2> QED BY <1>1, <1>2, <2>1, SentStays
<1>4. SendsKnown' BY <1>2 DEF Known, SendsKnown, Waiting
<1>5. NetKnown' /\ HandledKnown' BY <1>2, KnownStays DEF Known
<1>6. /\ RecvsKnown'
      /\ \A q \in Rank, j \in 1..NumRecvs : Busy(q, j)' =>
           /\ Busy(q, j) /\ Subject(q, j)' = Subject(q, j)
           /\ HasBody(q, j)' => HasBody(q, j)
  BY <1>2, RecvsReset
<1>7. \A q \in Rank, j \in 1..NumSends : Waiting(q, j)' => Waiting(q, j) BY <1>2 DEF Waiting
<1>8. Unique' BY <1>2, <1>6, <1>7, FewerUnique
<1> QED BY <1>3, <1>4, <1>5, <1>6, <1>8 DEF Known

LEMMA CreateMessages ==
  ASSUME ControlInv, Known, Unique, NEW r \in Rank, Create(r)
  PROVE  Known' /\ Unique'
<1>1. Typed /\ SentOnce /\ ses \in [Rank -> SesSet] /\ pc \in [Rank -> Control]
      /\ sends \in [Rank -> [1..NumSends -> SendSlot]]
  BY DEF ControlInv, Typed, Known
<1>2. /\ recvs' = [recvs EXCEPT ![r] = [i \in 1..NumRecvs |-> NewRecv]]
      /\ sends' = [sends EXCEPT ![r] = [i \in 1..NumSends |-> NewSend]]
      /\ pc' = [pc EXCEPT ![r] = "post"] /\ ses' = [ses EXCEPT ![r] = NewSes]
      /\ net' = net /\ exchange' = exchange /\ sent' = sent /\ handled' = handled
      /\ pc[r] = "create"
  BY DEF Create
<1>3. SentOnce'
  <2>1. \A q \in Rank : pc[q] = "create" \/ (pc'[q] # "create" /\ ses'[q].tags >= ses[q].tags)
    <3>1. \A q \in Rank : ses[q].tags \in Nat BY <1>1 DEF SesSet
    <3> QED BY <1>1, <1>2, <3>1
  <2>2. ses' \in [Rank -> SesSet] BY CreateControl DEF ControlInv, Typed
  <2> QED BY <1>1, <1>2, <2>1, <2>2, SentStays
<1>4. \A q \in Rank, j \in 1..NumSends : Waiting(q, j)' => Waiting(q, j) /\ sends'[q][j] = sends[q][j]
  <2> TAKE q \in Rank, j \in 1..NumSends
  <2>1. CASE q = r
    <3>1. sends'[q][j] = NewSend BY <1>1, <1>2, <2>1
    <3> QED BY <3>1, NewTypes DEF Waiting
  <2>2. CASE q # r
    <3>1. sends'[q][j] = sends[q][j] BY <1>1, <1>2, <2>2
    <3> QED BY <3>1 DEF Waiting
  <2> QED BY <2>1, <2>2
<1>5. SendsKnown' BY <1>2, <1>4, SendsStay DEF Known, SendsKnown
<1>6. NetKnown' /\ HandledKnown' BY <1>2, KnownStays DEF Known
<1>7. /\ RecvsKnown'
      /\ \A q \in Rank, j \in 1..NumRecvs : Busy(q, j)' =>
           /\ Busy(q, j) /\ Subject(q, j)' = Subject(q, j)
           /\ HasBody(q, j)' => HasBody(q, j)
  BY <1>2, RecvsReset
<1>8. Unique' BY <1>2, <1>4, <1>7, FewerUnique
<1> QED BY <1>3, <1>5, <1>6, <1>7, <1>8 DEF Known

LEMMA AllreduceMessages ==
  ASSUME ControlInv, Known, Unique, Allreduce
  PROVE  Known' /\ Unique'
<1>1. Typed /\ SentOnce /\ ses \in [Rank -> SesSet] BY DEF ControlInv, Typed, Known
<1>2. /\ ses' = [r \in Rank |-> [ses[r] EXCEPT !.first = FALSE, !.done = 0, !.noSends = NoSends(r)]]
      /\ pc' = [r \in Rank |-> IF Over(r) THEN "cancel" ELSE IF NoSends(r) THEN "recv" ELSE "send"]
      /\ UNCHANGED <<sends, recvs, net, exchange, left, sent, handled>>
  BY DEF Allreduce
<1>3. SentOnce'
  <2>1. ses' \in [Rank -> SesSet] BY AllreduceControl DEF ControlInv, Typed
  <2>2. \A q \in Rank : pc'[q] # "create" /\ ses'[q].tags = ses[q].tags /\ ses[q].tags \in Nat
    BY <1>1, <1>2 DEF SesSet
  <2>3. \A q \in Rank : pc[q] = "create" \/ (pc'[q] # "create" /\ ses'[q].tags >= ses[q].tags)
    BY <2>2
  <2>4. sent' = sent /\ exchange' = exchange BY <1>2
  <2> QED BY <1>1, <2>1, <2>3, <2>4, SentStays
<1>4. SendsKnown' BY <1>2 DEF Known, SendsKnown, Waiting
<1>5. NetKnown' /\ RecvsKnown' /\ HandledKnown' BY <1>2, KnownStays DEF Known
<1>6. Unique'
  <2>1. \A q \in Rank, j \in 1..NumRecvs :
          (Busy(q, j)' <=> Busy(q, j)) /\ Subject(q, j)' = Subject(q, j) /\ (HasBody(q, j)' <=> HasBody(q, j))
    <3>1. recvs' = recvs BY <1>2
    <3> QED BY <3>1 DEF Busy, Subject, HasBody
  <2>2. \A q \in Rank, j \in 1..NumSends : Waiting(q, j)' => Waiting(q, j) BY <1>2 DEF Waiting
  <2> QED BY <1>2, <2>1, <2>2, FewerUnique
<1> QED BY <1>3, <1>4, <1>5, <1>6 DEF Known

\* Nothing is under way.
Still ==
  \A r \in Rank :
    /\ left[r] = 0
    /\ \A i \in 1..NumSends : ~Waiting(r, i)
    /\ \A i \in 1..NumRecvs : ~Busy(r, i) /\ recvs[r][i].got = NULL
    /\ \A s \in Rank : net[s][r] = <<>>

\* The next exchange begins with nothing of the last one under way.
LEMMA LeaveMessages ==
  ASSUME ControlInv, Known, Unique, Leave, Still,
         \A r \in Rank, i \in 1..NumRecvs : recvs[r][i] = NewRecv
  PROVE  Known' /\ Unique'
<1>1. /\ exchange' = [r \in Rank |-> exchange[r] + 1]
      /\ UNCHANGED <<slot, ses, sends, recvs, net, left, sent, handled>>
  BY DEF Leave
<1>2. /\ sent \in SUBSET (Message \X Rank) /\ exchange \in [Rank -> 1..Exchanges + 1]
      /\ Exchanges \in Nat /\ SentOnce
  BY LoadAssumption DEF ControlInv, Typed, Known
<1>3. SentOnce'
  <2>1. ASSUME NEW m \in sent
        PROVE  /\ m[1][2] <= exchange'[m[1][1]]
               /\ m[1][3] # 0
               /\ m[1][2] # exchange'[m[1][1]]
    <3>1. m[1][1] \in Rank /\ m[1][2] \in Nat BY <1>2 DEF Message
    <3>2. exchange[m[1][1]] \in Nat /\ exchange'[m[1][1]] = exchange[m[1][1]] + 1 BY <1>1, <1>2, <3>1
    <3>3. m[1][2] <= exchange[m[1][1]] /\ m[1][3] # 0 BY <1>2 DEF SentOnce
    <3> QED BY <3>1, <3>2, <3>3
  <2>2. \A m, n \in sent : m[1] = n[1] => m = n BY <1>2 DEF SentOnce
  <2>3. sent' = sent BY <1>1
  <2> QED BY <2>1, <2>2, <2>3 DEF SentOnce
<1>4. SendsKnown' BY <1>1 DEF Still, SendsKnown, Waiting
<1>5. NetKnown'
  <2>1. \A s, r \in Rank : Len(net'[s][r]) = 0 BY <1>1 DEF Still
  <2> QED BY <2>1 DEF NetKnown
<1>6. RecvsKnown' BY <1>1, NewRecvIs DEF RecvsKnown, KnownRecv
<1>7. HandledKnown' BY <1>1 DEF Known, HandledKnown
<1>8. Unique'
  <2>1. \A q \in Rank, j \in 1..NumRecvs :
          (Busy(q, j)' <=> Busy(q, j)) /\ Subject(q, j)' = Subject(q, j) /\ (HasBody(q, j)' <=> HasBody(q, j))
    BY <1>1 DEF Busy, Subject, HasBody
  <2>2. \A q \in Rank, j \in 1..NumSends : Waiting(q, j)' => Waiting(q, j) BY <1>1 DEF Waiting
  <2> QED BY <1>1, <2>1, <2>2, FewerUnique
<1> QED BY <1>3, <1>4, <1>5, <1>6, <1>7, <1>8 DEF Known

LEMMA InitMessages == Init => Known /\ Unique
<1> SUFFICES ASSUME Init PROVE Known /\ Unique OBVIOUS
<1>1. \A r \in Rank, i \in 1..NumSends : ~Waiting(r, i) BY NewTypes DEF Init, Waiting
<1>2. \A r \in Rank, i \in 1..NumRecvs : recvs[r][i] = NewRecv BY DEF Init
<1>3. \A r \in Rank, i \in 1..NumRecvs : ~Busy(r, i) BY <1>2, NewRecvIs DEF Busy
<1>4. \A s, r \in Rank : Len(net[s][r]) = 0 BY DEF Init
<1>5. \A r \in Rank : Len(handled[r]) = 0 BY DEF Init
<1>6. SentOnce BY DEF Init, SentOnce
<1>7. SendsKnown BY <1>1 DEF SendsKnown
<1>8. NetKnown BY <1>4 DEF NetKnown
<1>9. RecvsKnown BY <1>2, NewRecvIs DEF RecvsKnown
<1>10. HandledKnown BY <1>5 DEF HandledKnown
<1>11. NoTwoSends /\ NoTwoRecvs BY <1>1, <1>3 DEF NoTwoSends, NoTwoRecvs
<1>12. NoTwoPackets /\ HandledOnce BY <1>4, <1>5 DEF NoTwoPackets, HandledOnce
<1>13. SendNotInNet /\ SendNotReceived /\ SendNotHandled
  BY <1>1 DEF SendNotInNet, SendNotReceived, SendNotHandled
<1>14. NetNotReceived /\ NetNotHandled /\ RecvNotHandled
  BY <1>3, <1>4 DEF NetNotReceived, NetNotHandled, RecvNotHandled
<1> QED BY <1>6, <1>7, <1>8, <1>9, <1>10, <1>11, <1>12, <1>13, <1>14 DEF Known, Unique

LEMMA StutterMessages == Known /\ Unique /\ UNCHANGED vars => Known' /\ Unique'
<1> SUFFICES ASSUME Known, Unique, UNCHANGED vars PROVE Known' /\ Unique' OBVIOUS
<1>1. /\ pc' = pc /\ ses' = ses /\ sends' = sends /\ recvs' = recvs /\ net' = net
      /\ exchange' = exchange /\ sent' = sent /\ handled' = handled
  BY DEF vars
<1>2. SentOnce' BY <1>1 DEF Known, SentOnce
<1>3. SendsKnown' BY <1>1 DEF Known, SendsKnown, Waiting
<1>4. NetKnown' /\ RecvsKnown' /\ HandledKnown' BY <1>1, KnownStays DEF Known
<1>5. \A q \in Rank, j \in 1..NumRecvs :
        (Busy(q, j)' <=> Busy(q, j)) /\ Subject(q, j)' = Subject(q, j) /\ (HasBody(q, j)' <=> HasBody(q, j))
  BY <1>1 DEF Busy, Subject, HasBody
<1>6. \A q \in Rank, j \in 1..NumSends : Waiting(q, j)' => Waiting(q, j) BY <1>1 DEF Waiting
<1>7. Unique' BY <1>1, <1>5, <1>6, FewerUnique
<1> QED BY <1>2, <1>3, <1>4, <1>7 DEF Known

-----------------------------------------------------------------------------
(* A sum by FoldFunction.  The fold is defined by recursion; what it is is *)
(* proved by induction over sets of natural numbers, which are closed      *)
(* under + 1 and so are all of Nat.                                        *)

\* Induction over the natural numbers, for a set in place of a predicate.
LEMMA NatSetInduction ==
  ASSUME NEW A, 0 \in A, \A n \in Nat : n \in A => n + 1 \in A
  PROVE  Nat \subseteq A
<1> SUFFICES ASSUME Nat \ A # {} PROVE FALSE OBVIOUS
<1> DEFINE Less == OpToRel(<, Nat)
<1>1. IsWellFoundedOn(Less, Nat) BY NatLessThanWellFounded
<1>2. \A x, y \in Nat : <<x, y>> \in Less <=> x < y BY DEF OpToRel
<1> HIDE DEF Less
<1>3. \E x \in Nat \ A : \A y \in Nat \ A : <<y, x>> \notin Less BY <1>1, WFMin
<1>4. PICK x \in Nat \ A : \A y \in Nat \ A : <<y, x>> \notin Less BY <1>3
<1>5. x # 0 OBVIOUS
<1>6. x - 1 \in Nat /\ x - 1 < x BY <1>5
<1>7. x - 1 \in A BY <1>2, <1>4, <1>6
<1> QED BY <1>6, <1>7

\* The sum of the values of f.
SumOf(f) == FoldFunction(+, 0, f)

\* The element that a fold over s takes first.
Element(s) == CHOOSE x \in s : TRUE

\* g gives the sum of f over each of the sets S.
Sums(S, f, g) ==
  g = [s \in S |-> IF s = {} THEN 0 ELSE f[Element(s)] + g[s \ {Element(s)}]]

\* The subsets of R with n elements or fewer.
Small(R, n) == {s \in SUBSET R : Cardinality(s) <= n}

\* The function that the fold is defined to be is there.
LEMMA SumsExist ==
  ASSUME NEW R, IsFiniteSet(R), NEW f
  PROVE  \E g : Sums(SUBSET R, f, g)
<1> DEFINE A == {n \in Nat : \E g : Sums(Small(R, n), f, g)}
<1>0. \A s \in SUBSET R : IsFiniteSet(s) /\ Cardinality(s) \in Nat
  BY FS_Subset, FS_CardinalityType
<1>1. 0 \in A
  <2>1. Small(R, 0) = {{}} BY <1>0, FS_EmptySet DEF Small
  <2>2. Sums({{}}, f, [s \in {{}} |-> 0]) BY DEF Sums
  <2> QED BY <2>1, <2>2
<1>2. ASSUME NEW n \in Nat, n \in A PROVE n + 1 \in A
  <2>1. PICK g : Sums(Small(R, n), f, g) BY <1>2
  <2> DEFINE step(h, s) == IF s = {} THEN 0 ELSE f[Element(s)] + h[s \ {Element(s)}]
             h == [s \in Small(R, n + 1) |-> step(g, s)]
  <2>2. \A s \in Small(R, n) : g[s] = step(g, s) BY <2>1 DEF Sums
  <2>3. Small(R, n) \subseteq Small(R, n + 1) BY <1>0 DEF Small
  <2>4. \A s \in Small(R, n) : h[s] = g[s] BY <2>2, <2>3
  <2>5. ASSUME NEW s \in Small(R, n + 1), s # {} PROVE s \ {Element(s)} \in Small(R, n)
    <3>1. Element(s) \in s BY <2>5 DEF Element
    <3>2. Cardinality(s \ {Element(s)}) = Cardinality(s) - 1
      BY <3>1, <1>0, FS_RemoveElement DEF Small
    <3> QED BY <3>2, <1>0 DEF Small
  <2>6. \A s \in Small(R, n + 1) : h[s] = step(h, s) BY <2>4, <2>5
  <2> HIDE DEF h
  <2>7. h = [s \in Small(R, n + 1) |-> h[s]] BY DEF h
  <2>8. Sums(Small(R, n + 1), f, h) BY <2>6, <2>7 DEF Sums
  <2> QED BY <2>8
<1>3. Cardinality(R) \in A
  <2> HIDE DEF A
  <2>1. Nat \subseteq A BY <1>1, <1>2, NatSetInduction
  <2> QED BY <2>1, FS_CardinalityType
<1>4. Small(R, Cardinality(R)) = SUBSET R BY FS_Subset DEF Small
<1> QED BY <1>3, <1>4

\* A fold over the domain of f is the sum of f.
LEMMA FoldIsASum ==
  ASSUME NEW R, IsFiniteSet(R), NEW f, DOMAIN f = R
  PROVE  \E g : Sums(SUBSET R, f, g) /\ SumOf(f) = g[R]
<1> DEFINE it == CHOOSE g : Sums(SUBSET R, f, g)
<1>1. Sums(SUBSET R, f, it) BY SumsExist
<1>2. SumOf(f) = it[R]
   BY DEF SumOf, FoldFunction, FoldFunctionOnSet, MapThenFoldSet, Sums, Element
<1> QED BY <1>1, <1>2

-----------------------------------------------------------------------------
(* Sums of counts.                                                         *)

\* The pairs of M that begin with an element of s.
From(M, s) == {x \in M : x[1] \in s}

\* f gives the pairs of M that begin with r, less those of H, plus one if r is
\* in C.
PairsLess(f, R, M, H, C) ==
  /\ DOMAIN f = R
  /\ \A r \in R : f[r] = Cardinality(From(M, {r})) - Cardinality(From(H, {r}))
                         + (IF r \in C THEN 1 ELSE 0)

\* The sum of such an f counts all pairs of M, less those of H, and C.
LEMMA SumCounts ==
  ASSUME NEW R, IsFiniteSet(R), NEW M, IsFiniteSet(M), NEW H, IsFiniteSet(H), NEW C \in SUBSET R,
         NEW f, PairsLess(f, R, M, H, C)
  PROVE  SumOf(f) = Cardinality(From(M, R)) - Cardinality(From(H, R)) + Cardinality(C)
<1> DEFINE count(s) == Cardinality(From(M, s)) - Cardinality(From(H, s)) + Cardinality(C \cap s)
<1>1. PICK g : Sums(SUBSET R, f, g) /\ SumOf(f) = g[R] BY FoldIsASum DEF PairsLess
<1> DEFINE A == {n \in Nat : \A s \in Small(R, n) : g[s] = count(s)}
<1>0. \A s \in SUBSET R : IsFiniteSet(s) /\ Cardinality(s) \in Nat
  BY FS_Subset, FS_CardinalityType
<1>2. \A s : /\ IsFiniteSet(From(M, s)) /\ Cardinality(From(M, s)) \in Nat
             /\ IsFiniteSet(From(H, s)) /\ Cardinality(From(H, s)) \in Nat
  BY FS_Subset, FS_CardinalityType DEF From
<1>3. \A s : IsFiniteSet(C \cap s) /\ Cardinality(C \cap s) \in Nat
  <2>1. \A s : (C \cap s) \in SUBSET R OBVIOUS
  <2> QED BY <1>0, <2>1
<1>4. g[{}] = count({})
  <2>1. From(M, {}) = {} /\ From(H, {}) = {} /\ C \cap {} = {} BY DEF From
  <2>2. g[{}] = 0 BY <1>1 DEF Sums
  <2>3. Cardinality({}) = 0 BY FS_EmptySet
  <2>4. count({}) = 0 BY <2>1, <2>3
  <2> QED BY <2>2, <2>4
<1>5. ASSUME NEW s \in SUBSET R, s # {}, g[s \ {Element(s)}] = count(s \ {Element(s)})
      PROVE  g[s] = count(s)
  <2> DEFINE x == Element(s)
             t == s \ {x}
  <2>1. x \in s BY <1>5 DEF Element
  <2>2. g[s] = f[x] + g[t] BY <1>1, <1>5 DEF Sums
  <2>3. ASSUME NEW X, IsFiniteSet(X)
        PROVE  Cardinality(From(X, s)) = Cardinality(From(X, {x})) + Cardinality(From(X, t))
    <3>1. From(X, s) = From(X, {x}) \cup From(X, t) BY <2>1 DEF From
    <3>2. From(X, {x}) \cap From(X, t) = {} BY DEF From
    <3>3. IsFiniteSet(From(X, {x})) /\ IsFiniteSet(From(X, t)) BY <2>3, FS_Subset DEF From
    <3>4. Cardinality(From(X, {x})) \in Nat /\ Cardinality(From(X, t)) \in Nat BY <3>3, FS_CardinalityType
    <3> HIDE DEF x, t
    <3>5. Cardinality(From(X, s)) = Cardinality(From(X, {x})) + Cardinality(From(X, t))
                                    - Cardinality(From(X, {x}) \cap From(X, t))
      BY <3>1, <3>3, FS_Union
    <3>6. Cardinality(From(X, {x}) \cap From(X, t)) = 0 BY <3>2, FS_EmptySet
    <3> QED BY <3>4, <3>5, <3>6
  <2>4. Cardinality(C \cap s) = (IF x \in C THEN 1 ELSE 0) + Cardinality(C \cap t)
    <3>1. CASE x \in C
      <4>1. C \cap s = (C \cap t) \cup {x} /\ x \notin C \cap t BY <2>1, <3>1
      <4> HIDE DEF x, t
      <4>2. Cardinality(C \cap s) = Cardinality(C \cap t) + 1 BY <4>1, <1>3, FS_AddElement
      <4>3. Cardinality(C \cap t) \in Nat BY <1>3
      <4> QED BY <3>1, <4>2, <4>3
    <3>2. CASE x \notin C
      <4>1. C \cap s = C \cap t BY <2>1, <3>2
      <4> HIDE DEF x, t
      <4>2. Cardinality(C \cap t) \in Nat BY <1>3
      <4>3. Cardinality(C \cap s) = Cardinality(C \cap t) BY <4>1
      <4> QED BY <3>2, <4>2, <4>3
    <3> QED BY <3>1, <3>2
  <2>5. f[x] = Cardinality(From(M, {x})) - Cardinality(From(H, {x})) + (IF x \in C THEN 1 ELSE 0)
    BY <2>1 DEF PairsLess
  <2>6. Cardinality(From(M, s)) = Cardinality(From(M, {x})) + Cardinality(From(M, t)) BY <2>3
  <2>7. Cardinality(From(H, s)) = Cardinality(From(H, {x})) + Cardinality(From(H, t)) BY <2>3
  <2>8. g[t] = count(t) BY <1>5
  <2> HIDE DEF x, t
  <2>9. Cardinality(C \cap t) \in Nat BY <1>3
  <2>10. /\ Cardinality(From(M, {x})) \in Nat /\ Cardinality(From(M, t)) \in Nat
         /\ Cardinality(From(H, {x})) \in Nat /\ Cardinality(From(H, t)) \in Nat BY <1>2
  <2> QED BY <2>2, <2>4, <2>5, <2>6, <2>7, <2>8, <2>9, <2>10
<1>6. 0 \in A
  <2>1. Small(R, 0) = {{}} BY <1>0, FS_EmptySet DEF Small
  <2> QED BY <2>1, <1>4
<1>7. ASSUME NEW n \in Nat, n \in A PROVE n + 1 \in A
  <2> SUFFICES ASSUME NEW s \in Small(R, n + 1) PROVE g[s] = count(s) OBVIOUS
  <2>1. CASE s = {} BY <2>1, <1>4
  <2>2. CASE s # {}
    <3>1. Element(s) \in s BY <2>2 DEF Element
    <3>2. Cardinality(s \ {Element(s)}) = Cardinality(s) - 1
      BY <3>1, <1>0, FS_RemoveElement DEF Small
    <3>3. s \ {Element(s)} \in Small(R, n) BY <3>2, <1>0 DEF Small
    <3>4. s \in SUBSET R BY DEF Small
    <3>5. g[s \ {Element(s)}] = count(s \ {Element(s)}) BY <3>3, <1>7
    <3> HIDE DEF count
    <3> QED BY <3>4, <3>5, <2>2, <1>5
  <2> QED BY <2>1, <2>2
<1>8. Cardinality(R) \in A
  <2> HIDE DEF A
  <2>1. Nat \subseteq A BY <1>6, <1>7, NatSetInduction
  <2> QED BY <2>1, FS_CardinalityType
<1>9. R \in Small(R, Cardinality(R)) BY FS_CardinalityType DEF Small
<1>10. g[R] = count(R) BY <1>8, <1>9
<1>11. C \cap R = C OBVIOUS
<1> QED BY <1>1, <1>10, <1>11

\* The pairs of an element of R with a number that D gives it.
Pairs(R, D) == {x \in R \X Nat : x[2] \in D[x[1]]}

\* As many pairs begin with r as D gives it numbers.
LEMMA PairsCount ==
  ASSUME NEW R, IsFiniteSet(R), NEW D, \A r \in R : D[r] \subseteq Nat /\ IsFiniteSet(D[r])
  PROVE  /\ IsFiniteSet(Pairs(R, D))
         /\ \A r \in R : Cardinality(From(Pairs(R, D), {r})) = Cardinality(D[r])
         /\ From(Pairs(R, D), R) = Pairs(R, D)
<1> DEFINE P == Pairs(R, D)
<1>1. ASSUME NEW r \in R
      PROVE  /\ IsFiniteSet(From(P, {r}))
             /\ Cardinality(From(P, {r})) = Cardinality(D[r])
  <2> DEFINE f == [k \in D[r] |-> <<r, k>>]
  <2>1. \A k \in D[r] : <<r, k>> \in From(P, {r}) BY DEF From, Pairs
  <2>2. \A x \in From(P, {r}) : x[2] \in D[r] /\ x = <<r, x[2]>> BY DEF From, Pairs
  <2>3. f \in [D[r] -> From(P, {r})] BY <2>1
  <2>4. \A k, l \in D[r] : f[k] = f[l] => k = l OBVIOUS
  <2>5. \A x \in From(P, {r}) : \E k \in D[r] : f[k] = x BY <2>2
  <2> HIDE DEF f, P
  <2>6. f \in Bijection(D[r], From(P, {r}))
    BY <2>3, <2>4, <2>5 DEF Bijection, Injection, Surjection, IsInjective
  <2>7. ExistsBijection(D[r], From(P, {r})) BY <2>6 DEF ExistsBijection
  <2> QED BY <2>7, FS_Bijection
<1>2. From(P, R) = P BY DEF From, Pairs
<1>3. IsFiniteSet(P)
  <2> DEFINE f == [r \in R |-> From(P, {r})]
             T == {f[r] : r \in R}
  <2>1. f \in Surjection(R, T) BY DEF Surjection
  <2>2. \A t \in T : IsFiniteSet(t) BY <1>1
  <2>3. P = UNION T
    <3>1. \A x \in P : x[1] \in R /\ x \in From(P, {x[1]}) BY DEF From, Pairs
    <3>2. \A r \in R : From(P, {r}) \subseteq P BY DEF From
    <3> QED BY <3>1, <3>2
  <2> HIDE DEF f, T, P
  <2>4. IsFiniteSet(T) BY <2>1, FS_Surjection
  <2> QED BY <2>2, <2>3, <2>4, FS_UNION
<1> QED BY <1>1, <1>2, <1>3

-----------------------------------------------------------------------------
(* The inductive invariant of the exchange.                                *)

\* What a rank has handled in the exchange it is in.
NowHandled(r) == {n \in 1..Len(handled[r]) : handled[r][n].in = exchange[r]}

\* A rank counts a message for each tag and against each it has handled.
Counted ==
  \A r \in Rank :
    /\ pc[r] \notin {"create", "out"} =>
         ses[r].msgCount = ses[r].tags - 1 - Cardinality(NowHandled(r))
    /\ pc[r] = "create" => NowHandled(r) = {}
    /\ \A n \in 1..Len(handled[r]) : handled[r][n].in <= exchange[r]

AllHandled ==
  \A m \in sent : m[1][2] = exchange[m[1][1]] =>
    \E n \in 1..Len(handled[m[2]]) : handled[m[2]][n].msg = m[1]

Ending == {"cancel", "barrier"}

\* The ranks end an exchange together, and when they do it is over; a rank that
\* is between two exchanges has no receive posted.
Phases ==
  \A r \in Rank :
    /\ pc[r] \in Ending => Still /\ AllHandled /\ \A q \in Rank : pc[q] \in Ending
    /\ pc[r] = "out" => \A q \in Rank : pc[q] = "out"
    /\ pc[r] \in {"barrier", "create", "out"} => \A i \in 1..NumRecvs : recvs[r][i] = NewRecv

DESInv == ControlInv /\ Known /\ Unique /\ Counted /\ Phases

-----------------------------------------------------------------------------
(* The sum of the counters.                                                *)

\* What is sent in an exchange, by number; what is handled; who may yet send.
Numbers == Pairs(Rank, [r \in Rank |-> 1..ses[r].tags - 1])
Taken   == Pairs(Rank, [r \in Rank |-> NowHandled(r)])
Open    == {r \in Rank : ~NoSends(r)}

LEMMA NowHandledIs ==
  ASSUME ControlInv, NEW r \in Rank
  PROVE  NowHandled(r) \subseteq Nat /\ IsFiniteSet(NowHandled(r))
<1>1. handled[r] \in Seq(HandledSet)
  <2>1. handled \in [Rank -> Seq(HandledSet)] BY DEF ControlInv, Typed
  <2> QED BY <2>1
<1>2. Len(handled[r]) \in Nat BY <1>1
<1>3. IsFiniteSet(1..Len(handled[r])) BY <1>2, FS_Interval
<1>4. NowHandled(r) \subseteq 1..Len(handled[r]) BY DEF NowHandled
<1> QED BY <1>2, <1>3, <1>4, FS_Subset

\* The sum is the number of the messages counted, less those handled, and of
\* the ranks that may yet send.
LEMMA TotalIs ==
  ASSUME ControlInv, Counted, \A r \in Rank : pc[r] \notin {"create", "out"}
  PROVE  /\ IsFiniteSet(Numbers) /\ IsFiniteSet(Taken) /\ IsFiniteSet(Open)
         /\ Total = Cardinality(Numbers) - Cardinality(Taken) + Cardinality(Open)
<1>1. ses \in [Rank -> SesSet] /\ IsFiniteSet(Rank) BY RankAssumption DEF ControlInv, Typed
<1>2. PICK D : D = [r \in Rank |-> 1..ses[r].tags - 1] OBVIOUS
<1>3. PICK E : E = [r \in Rank |-> NowHandled(r)] OBVIOUS
<1>4. ASSUME NEW r \in Rank
      PROVE  /\ D[r] \subseteq Nat /\ IsFiniteSet(D[r]) /\ Cardinality(D[r]) = ses[r].tags - 1
             /\ E[r] \subseteq Nat /\ IsFiniteSet(E[r]) /\ E[r] = NowHandled(r)
  <2>1. ses[r].tags \in Nat \ {0} BY <1>1 DEF SesSet
  <2>2. 1..ses[r].tags - 1 \subseteq Nat BY <2>1
  <2>3. IsFiniteSet(1..ses[r].tags - 1) /\ Cardinality(1..ses[r].tags - 1) = ses[r].tags - 1
    <3>1. PICK k \in Nat : k = ses[r].tags - 1 BY <2>1
    <3>2. IsFiniteSet(1..k) /\ Cardinality(1..k) = IF 1 > k THEN 0 ELSE k - 1 + 1
      BY FS_Interval
    <3>3. Cardinality(1..k) = k BY <3>2
    <3> QED BY <3>1, <3>2, <3>3
  <2> QED BY <1>2, <1>3, <2>2, <2>3, NowHandledIs
<1>5. Numbers = Pairs(Rank, D) /\ Taken = Pairs(Rank, E) BY <1>2, <1>3 DEF Numbers, Taken
<1>6. /\ IsFiniteSet(Numbers) /\ From(Numbers, Rank) = Numbers
      /\ \A r \in Rank : Cardinality(From(Numbers, {r})) = ses[r].tags - 1
  <2>1. \A r \in Rank : D[r] \subseteq Nat /\ IsFiniteSet(D[r]) BY <1>4
  <2>2. /\ IsFiniteSet(Pairs(Rank, D)) /\ From(Pairs(Rank, D), Rank) = Pairs(Rank, D)
        /\ \A r \in Rank : Cardinality(From(Pairs(Rank, D), {r})) = Cardinality(D[r])
    BY <1>1, <2>1, PairsCount
  <2> QED BY <1>4, <1>5, <2>2
<1>7. /\ IsFiniteSet(Taken) /\ From(Taken, Rank) = Taken
      /\ \A r \in Rank : Cardinality(From(Taken, {r})) = Cardinality(NowHandled(r))
  <2>1. \A r \in Rank : E[r] \subseteq Nat /\ IsFiniteSet(E[r]) BY <1>4
  <2>2. /\ IsFiniteSet(Pairs(Rank, E)) /\ From(Pairs(Rank, E), Rank) = Pairs(Rank, E)
        /\ \A r \in Rank : Cardinality(From(Pairs(Rank, E), {r})) = Cardinality(E[r])
    BY <1>1, <2>1, PairsCount
  <2> QED BY <1>4, <1>5, <2>2
<1>8. Open \in SUBSET Rank /\ IsFiniteSet(Open) BY <1>1, FS_Subset DEF Open
<1>9. PICK f : f = [r \in Rank |-> Contribution(r)] OBVIOUS
<1>10. ASSUME NEW r \in Rank
       PROVE  f[r] = Cardinality(From(Numbers, {r})) - Cardinality(From(Taken, {r}))
                     + (IF r \in Open THEN 1 ELSE 0)
  <2>1. f[r] = ses[r].msgCount + (IF r \in Open THEN 1 ELSE 0)
    BY <1>9 DEF Contribution, Open
  <2>2. ses[r].msgCount = ses[r].tags - 1 - Cardinality(NowHandled(r)) BY DEF Counted
  <2> QED BY <1>6, <1>7, <2>1, <2>2
<1>11. SumOf(f)
         = Cardinality(From(Numbers, Rank)) - Cardinality(From(Taken, Rank)) + Cardinality(Open)
  <2>1. PICK M : M = Numbers OBVIOUS
  <2>2. PICK H : H = Taken OBVIOUS
  <2>3. PICK C : C = Open OBVIOUS
  <2>4. IsFiniteSet(M) /\ IsFiniteSet(H) /\ C \in SUBSET Rank BY <1>6, <1>7, <1>8, <2>1, <2>2, <2>3
  <2>5. DOMAIN f = Rank /\ IsFiniteSet(Rank) BY <1>1, <1>9
  <2>6. PairsLess(f, Rank, M, H, C) BY <1>10, <2>1, <2>2, <2>3, <2>5 DEF PairsLess
  <2>7. SumOf(f) = Cardinality(From(M, Rank)) - Cardinality(From(H, Rank)) + Cardinality(C)
    BY <2>4, <2>5, <2>6, SumCounts
  <2> QED BY <2>1, <2>2, <2>3, <2>7
<1>12. Total = SumOf(f) BY <1>9 DEF Total, SumOf
<1> QED BY <1>6, <1>7, <1>8, <1>11, <1>12

\* When the sum is 0, no rank may yet send, and every message is handled: what
\* is handled is numbered, one number each, so that there are as many numbers
\* only if none is left over.
LEMMA ZeroMeansOver ==
  ASSUME ControlInv, Known, Unique, Counted,
         \A r \in Rank : pc[r] \notin {"create", "out"}, Total = 0
  PROVE  (\A r \in Rank : NoSends(r)) /\ AllHandled
<1>1. /\ IsFiniteSet(Numbers) /\ IsFiniteSet(Taken) /\ IsFiniteSet(Open)
      /\ Total = Cardinality(Numbers) - Cardinality(Taken) + Cardinality(Open)
  BY TotalIs
<1>2. /\ ses \in [Rank -> SesSet] /\ exchange \in [Rank -> 1..Exchanges + 1]
      /\ sent \in SUBSET (Message \X Rank)
  BY DEF ControlInv, Typed
<1>3. \A r, q \in Rank : exchange[r] = exchange[q] BY DEF ControlInv, InTime
\* What is handled was sent, in this exchange.
<1>4. \A x : x \in Taken <=> x \in Rank \X Nat /\ x[2] \in NowHandled(x[1])
  BY DEF Taken, Pairs
<1>5. \A x : x \in Numbers <=> x \in Rank \X Nat /\ x[2] \in 1..ses[x[1]].tags - 1
  BY DEF Numbers, Pairs
<1>6. ASSUME NEW x \in Taken
      PROVE  /\ x[1] \in Rank /\ x[2] \in 1..Len(handled[x[1]])
             /\ <<handled[x[1]][x[2]].msg, x[1]>> \in sent
             /\ handled[x[1]][x[2]].msg \in Message
             /\ handled[x[1]][x[2]].msg[2] = exchange[handled[x[1]][x[2]].msg[1]]
  <2>1. x[1] \in Rank /\ x[2] \in NowHandled(x[1]) BY <1>4
  <2>2. x[2] \in 1..Len(handled[x[1]]) /\ handled[x[1]][x[2]].in = exchange[x[1]]
    BY <2>1 DEF NowHandled
  <2>3. PICK h : h = handled[x[1]][x[2]] OBVIOUS
  <2>4. <<h.msg, x[1]>> \in sent /\ h.msg[2] = h.in BY <2>1, <2>2, <2>3 DEF Known, HandledKnown
  <2>5. h.msg \in Message BY <1>2, <2>4
  <2>6. h.msg[1] \in Rank BY <2>5 DEF Message
  <2>7. h.msg[2] = exchange[h.msg[1]] BY <1>3, <2>1, <2>2, <2>3, <2>4, <2>6
  <2> QED BY <2>1, <2>2, <2>3, <2>4, <2>5, <2>7
<1> DEFINE msg(x) == handled[x[1]][x[2]].msg
           number == [x \in Taken |-> <<msg(x)[1], msg(x)[3]>>]
<1>7. ASSUME NEW x \in Taken PROVE number[x] \in Numbers
  <2>1. PICK m : m = msg(x) OBVIOUS
  <2>2. m \in Message /\ <<m, x[1]>> \in sent /\ m[2] = exchange[m[1]] BY <1>6, <2>1
  <2>3. m[3] # 0 /\ m[3] < ses[m[1]].tags BY <2>2 DEF Known, SentOnce
  <2>4. m[1] \in Rank /\ m[3] \in Nat BY <2>2 DEF Message
  <2>5. ses[m[1]].tags \in Nat BY <1>2, <2>4 DEF SesSet
  <2>6. m[3] \in 1..ses[m[1]].tags - 1 BY <2>3, <2>4, <2>5
  <2>7. <<m[1], m[3]>> \in Numbers BY <1>5, <2>4, <2>6
  <2> QED BY <2>1, <2>7
<1>8. ASSUME NEW x \in Taken, NEW y \in Taken, number[x] = number[y] PROVE x = y
  <2>1. PICK m : m = msg(x) OBVIOUS
  <2>2. PICK k : k = msg(y) OBVIOUS
  <2>3. /\ m \in Message /\ <<m, x[1]>> \in sent /\ m[2] = exchange[m[1]]
        /\ x[1] \in Rank /\ x[2] \in 1..Len(handled[x[1]])
    BY <1>6, <2>1
  <2>4. /\ k \in Message /\ <<k, y[1]>> \in sent /\ k[2] = exchange[k[1]]
        /\ y[1] \in Rank /\ y[2] \in 1..Len(handled[y[1]])
    BY <1>6, <2>2
  <2>5. m[1] = k[1] /\ m[3] = k[3] BY <1>8, <2>1, <2>2
  <2>6. m = k BY <2>3, <2>4, <2>5 DEF Message
  <2>7. <<m, x[1]>> = <<k, y[1]>>
    <3>1. \A a, b \in sent : a[1] = b[1] => a = b BY DEF Known, SentOnce
    <3> QED BY <2>3, <2>4, <2>6, <3>1
  <2>8. x[1] = y[1] BY <2>7, SMTT(60)
  <2>9. x[2] = y[2]
    <3>1. \A a, b \in 1..Len(handled[x[1]]) :
            handled[x[1]][a].msg = handled[x[1]][b].msg => a = b
      BY <2>3 DEF Unique, HandledOnce
    <3> QED BY <2>1, <2>2, <2>3, <2>4, <2>6, <2>8, <3>1, ZenonT(60)
  <2>10. x \in Rank \X Nat /\ y \in Rank \X Nat BY <1>4
  <2> QED BY <2>8, <2>9, <2>10
<1>9. number \in Injection(Taken, Numbers)
  <2>1. number \in [Taken -> Numbers] BY <1>7
  <2> HIDE DEF number
  <2> QED BY <1>8, <2>1 DEF Injection, IsInjective
<1> HIDE DEF number
<1>10. /\ Cardinality(Taken) <= Cardinality(Numbers)
       /\ Cardinality(Taken) = Cardinality(Numbers) <=> number \in Surjection(Taken, Numbers)
  BY <1>1, <1>9, FS_Injection
<1>11. Cardinality(Taken) \in Nat /\ Cardinality(Numbers) \in Nat /\ Cardinality(Open) \in Nat
  BY <1>1, FS_CardinalityType
<1>12. Cardinality(Open) = 0 /\ Cardinality(Taken) = Cardinality(Numbers)
  <2>1. 0 = Cardinality(Numbers) - Cardinality(Taken) + Cardinality(Open) BY <1>1
  <2>2. Cardinality(Taken) <= Cardinality(Numbers) BY <1>10
  <2>3. \A a, b, c \in Nat : 0 = a - b + c /\ b <= a => c = 0 /\ b = a OBVIOUS
  <2> QED BY <1>11, <2>1, <2>2, <2>3
<1>13. \A r \in Rank : NoSends(r)
  <2>1. Open = {} BY <1>1, <1>12, FS_EmptySet
  <2> QED BY <2>1 DEF Open
<1>14. \A y \in Numbers : \E x \in Taken : number[x] = y
  BY <1>10, <1>12 DEF Surjection
<1>15. AllHandled
  <2> SUFFICES ASSUME NEW m \in sent, m[1][2] = exchange[m[1][1]]
               PROVE  \E n \in 1..Len(handled[m[2]]) : handled[m[2]][n].msg = m[1]
    BY DEF AllHandled
  <2>1. PICK k : k = m[1] OBVIOUS
  <2>2. k \in Message /\ m = <<k, m[2]>> /\ m[2] \in Rank /\ k[2] = exchange[k[1]] BY <1>2, <2>1
  <2>3. k[3] # 0 /\ k[3] < ses[k[1]].tags BY <2>1, <2>2 DEF Known, SentOnce
  <2>4. k[1] \in Rank /\ k[3] \in Nat BY <2>2 DEF Message
  <2>5. ses[k[1]].tags \in Nat BY <1>2, <2>4 DEF SesSet
  <2>6. <<k[1], k[3]>> \in Numbers BY <1>5, <2>3, <2>4, <2>5
  <2>7. PICK x \in Taken : number[x] = <<k[1], k[3]>> BY <1>14, <2>6
  <2>8. PICK h : h = msg(x) OBVIOUS
  <2>9. /\ h \in Message /\ <<h, x[1]>> \in sent /\ h[2] = exchange[h[1]]
        /\ x[1] \in Rank /\ x[2] \in 1..Len(handled[x[1]])
    BY <1>6, <2>7, <2>8
  <2>10. h[1] = k[1] /\ h[3] = k[3] BY <2>7, <2>8 DEF number
  <2>11. h = k BY <2>2, <2>9, <2>10 DEF Message
  <2>12. x[1] = m[2]
    <3>1. \A a, b \in sent : a[1] = b[1] => a = b BY DEF Known, SentOnce
    <3>2. <<h, x[1]>> = m BY <2>1, <2>9, <2>11, <3>1
    <3> QED BY <3>2
  <2> QED BY <2>1, <2>8, <2>9, <2>11, <2>12
<1> QED BY <1>13, <1>15

\* When every message is handled, none is anywhere else.
LEMMA HandledMeansStill ==
  ASSUME ControlInv, Known, Unique, AllHandled,
         \A r \in Rank : pc[r] # "create" /\ NoSends(r)
  PROVE  Still
<1>1. /\ sent \in SUBSET (Message \X Rank) /\ ses \in [Rank -> SesSet]
      /\ net \in [Rank -> [Rank -> Seq(PacketSet)]]
  BY DEF ControlInv, Typed
<1>2. \A r, q \in Rank : exchange[r] = exchange[q] BY DEF ControlInv, InTime
\* A message of this exchange is handled.
<1>3. ASSUME NEW m, NEW r \in Rank, NEW q \in Rank, <<m, r>> \in sent, m[2] = exchange[q]
      PROVE  \E n \in 1..Len(handled[r]) : handled[r][n].msg = m
  <2>1. m \in Message BY <1>1, <1>3
  <2>2. m[1] \in Rank BY <2>1 DEF Message
  <2>3. m[2] = exchange[m[1]] BY <1>2, <1>3, <2>2
  <2>4. PICK x \in sent : x[1] = m /\ x[2] = r BY <1>3
  <2> QED BY <2>3, <2>4 DEF AllHandled
<1>4. ASSUME NEW r \in Rank PROVE left[r] = 0
  <2>1. ses[r].noSends \/ ses[r].done > 0 BY SlotAssumption, <1>1 DEF NoSends, SesSet
  <2> QED BY <2>1 DEF ControlInv, NoneLeft
<1>5. ASSUME NEW r \in Rank, NEW i \in 1..NumSends PROVE ~Waiting(r, i)
  <2> SUFFICES ASSUME Waiting(r, i) PROVE FALSE OBVIOUS
  <2>1. PICK m : m = sends[r][i].msg OBVIOUS
  <2>2. PICK to \in Rank : to = sends[r][i].peer BY DEF ControlInv, Addressed
  <2>3. m[2] = exchange[r] /\ <<m, to>> \in sent BY <2>1, <2>2 DEF Known, SendsKnown
  <2>4. PICK n \in 1..Len(handled[to]) : handled[to][n].msg = m BY <1>3, <2>3
  <2> QED BY <2>1, <2>4 DEF Unique, SendNotHandled
<1>6. ASSUME NEW r \in Rank, NEW i \in 1..NumRecvs PROVE ~Busy(r, i)
  <2> SUFFICES ASSUME Busy(r, i) PROVE FALSE OBVIOUS
  <2>1. PICK rc \in RecvSlot : rc = recvs[r][i]
    <3>1. recvs \in [Rank -> [1..NumRecvs -> RecvSlot]] BY DEF ControlInv, Typed
    <3> QED BY <3>1
  <2>2. KnownRecv(r, rc) BY <2>1 DEF Known, RecvsKnown
  <2>3. PICK m : m = Subject(r, i) OBVIOUS
  <2>4. \E q \in Rank : m[2] = exchange[q] /\ <<m, r>> \in sent
    <3>1. CASE rc.state = "success" BY <2>1, <2>2, <2>3, <3>1 DEF Subject, KnownRecv
    <3>2. CASE rc.state # "success" /\ rc.got # NULL
      <4>1. m = rc.got.packet.msg BY <2>1, <2>3, <3>2 DEF Subject
      <4>2. rc.got.from \in Rank BY <3>2 DEF RecvSlot, GotSet
      <4>3. KnownPacket(rc.got.from, r, rc.got.packet) BY <2>2, <3>2 DEF KnownRecv
      <4> QED BY <4>1, <4>2, <4>3 DEF KnownPacket
    <3>3. CASE rc.state # "success" /\ rc.got = NULL
      <4>1. m = rc.header /\ WithCount /\ rc.state \in {"post2", "test2"}
        BY <2>1, <2>3, <3>3 DEF Subject, Busy
      <4>2. rc.header = <<rc.peer, exchange[r], rc.tag>> /\ <<rc.header, r>> \in sent
        BY <2>2, <4>1 DEF KnownRecv
      <4> QED BY <4>1, <4>2
    <3> QED BY <3>1, <3>2, <3>3
  <2>5. PICK n \in 1..Len(handled[r]) : handled[r][n].msg = m BY <1>3, <2>4
  <2> QED BY <2>3, <2>5 DEF Unique, RecvNotHandled
<1>7. ASSUME NEW r \in Rank, NEW i \in 1..NumRecvs PROVE recvs[r][i].got = NULL
  <2> SUFFICES ASSUME recvs[r][i].got # NULL PROVE FALSE OBVIOUS
  <2>1. KnownRecv(r, recvs[r][i]) BY DEF Known, RecvsKnown
  <2>2. recvs[r][i].state \in {"test", "test2"} /\ (recvs[r][i].state = "test" => WithCount)
    BY <2>1 DEF KnownRecv
  <2>3. Busy(r, i) BY <2>2 DEF Busy
  <2> QED BY <1>6, <2>3
<1>8. ASSUME NEW s \in Rank, NEW r \in Rank PROVE net[s][r] = <<>>
  <2>1. net[s][r] \in Seq(PacketSet) BY <1>1
  <2>2. ASSUME NEW n \in 1..Len(net[s][r]) PROVE FALSE
    <3>1. PICK p : p = net[s][r][n] OBVIOUS
    <3>2. KnownPacket(s, r, p) BY <3>1 DEF Known, NetKnown
    <3>3. p.msg[2] = exchange[s] /\ <<p.msg, r>> \in sent BY <3>2 DEF KnownPacket
    <3>4. PICK k \in 1..Len(handled[r]) : handled[r][k].msg = p.msg BY <1>3, <3>3
    <3> QED BY <3>1, <3>4 DEF Unique, NetNotHandled
  <2>3. Len(net[s][r]) \in Nat BY <2>1
  <2>4. Len(net[s][r]) = 0
    <3>1. 1 \notin 1..Len(net[s][r]) BY <2>2
    <3> QED BY <2>3, <3>1
  <2> QED BY <2>1, <2>4
<1> QED BY <1>4, <1>5, <1>6, <1>7, <1>8 DEF Still

-----------------------------------------------------------------------------
(* The counters.                                                           *)

LEMMA CountedStays ==
  ASSUME ControlInv, Counted, handled' = handled, exchange' = exchange, ses' \in [Rank -> SesSet],
         \A q \in Rank :
           /\ pc'[q] \notin {"create", "out"} =>
                /\ pc[q] \notin {"create", "out"}
                /\ ses'[q].msgCount - ses'[q].tags = ses[q].msgCount - ses[q].tags
           /\ pc'[q] = "create" => pc[q] = "create"
  PROVE  Counted'
<1>1. \A q : NowHandled(q)' = NowHandled(q) BY DEF NowHandled
<1>2. ses \in [Rank -> SesSet] BY DEF ControlInv, Typed
<1> SUFFICES ASSUME NEW q \in Rank
             PROVE  /\ pc'[q] \notin {"create", "out"} =>
                         ses'[q].msgCount = ses'[q].tags - 1 - Cardinality(NowHandled(q))
                    /\ pc'[q] = "create" => NowHandled(q) = {}
                    /\ \A n \in 1..Len(handled[q]) : handled[q][n].in <= exchange[q]
  BY <1>1 DEF Counted
<1>3. ses[q].msgCount \in Int /\ ses[q].tags \in Nat /\ ses'[q].msgCount \in Int /\ ses'[q].tags \in Nat
  BY <1>2 DEF SesSet
<1>4. Cardinality(NowHandled(q)) \in Nat BY NowHandledIs, FS_CardinalityType
<1>5. CASE pc'[q] \notin {"create", "out"}
  <2>1. /\ ses'[q].msgCount - ses'[q].tags = ses[q].msgCount - ses[q].tags
        /\ pc[q] \notin {"create", "out"}
    BY <1>5
  <2>2. ses[q].msgCount = ses[q].tags - 1 - Cardinality(NowHandled(q)) BY <2>1 DEF Counted
  <2>3. ses'[q].msgCount = ses'[q].tags - 1 - Cardinality(NowHandled(q))
    BY <1>3, <1>4, <2>1, <2>2
  <2> QED BY <1>5, <2>3 DEF Counted
<1>6. CASE pc'[q] \in {"create", "out"} BY <1>6 DEF Counted
<1> QED BY <1>5, <1>6

LEMMA SendStepCounted ==
  ASSUME ControlInv, Counted, NEW r \in Rank, SendStep(r)
  PROVE  Counted'
<1>1. Typed /\ pc \in [Rank -> Control] /\ ses \in [Rank -> SesSet] BY DEF ControlInv, Typed
<1>2. UNCHANGED <<ses, exchange, handled>> /\ pc[r] \in {"send", "sendNew"} BY DEF SendStep
<1>3. pc'[r] # "create" /\ \A q \in Rank \ {r} : pc'[q] = pc[q]
  <2>1. CASE SendPartDone(r) BY <1>1, <2>1, SendPartDoneIs
  <2>2. CASE pc' = pc \/ pc' = [pc EXCEPT ![r] = "sendHandler"] BY <1>1, <1>2, <2>2
  <2> QED BY <1>1, <2>1, <2>2, SendStepIs
<1> QED BY <1>1, <1>2, <1>3, CountedStays

LEMMA SendHandlerCounted ==
  ASSUME ControlInv, Counted, NEW r \in Rank, SendHandler(r) \/ SendHandlerFails(r)
  PROVE  Counted'
<1>1. Typed /\ pc \in [Rank -> Control] /\ ses \in [Rank -> SesSet] BY DEF ControlInv, Typed
<1>2. UNCHANGED <<exchange, handled>> /\ pc[r] = "sendHandler"
  BY DEF SendHandler, SendHandlerFails
<1>3. ses' \in [Rank -> SesSet]
  BY SendHandlerControl, SendHandlerFailsControl DEF ControlInv, Typed
<1>4. /\ pc'[r] # "create" /\ \A q \in Rank \ {r} : pc'[q] = pc[q] /\ ses'[q] = ses[q]
      /\ ses'[r].msgCount - ses'[r].tags = ses[r].msgCount - ses[r].tags
  <2>0. ses[r] \in SesSet /\ ses[r].msgCount \in Int /\ ses[r].tags \in Nat BY <1>1 DEF SesSet
  <2>1. CASE /\ ses' = [ses EXCEPT ![r].tags = @ + 1, ![r].msgCount = @ + 1]
             /\ pc' = [pc EXCEPT ![r] = "sendNew"]
    <3>1. ses'[r] = [ses[r] EXCEPT !.tags = @ + 1, !.msgCount = @ + 1] BY <1>1, <2>1
    <3>2. ses'[r].tags = ses[r].tags + 1 /\ ses'[r].msgCount = ses[r].msgCount + 1
      BY <2>0, <3>1 DEF SesSet
    <3> QED BY <1>1, <2>0, <2>1, <3>2
  <2>2. CASE ses' = [ses EXCEPT ![r].done = @ + 1] /\ SendPartDone(r)
    <3>1. ses'[r].tags = ses[r].tags /\ ses'[r].msgCount = ses[r].msgCount
      BY <1>1, <2>0, <2>2 DEF SesSet
    <3>2. pc'[r] # "create" /\ \A q \in Rank \ {r} : pc'[q] = pc[q]
      BY <1>1, <2>2, SendPartDoneIs
    <3> QED BY <1>1, <2>2, <3>1, <3>2
  <2> QED BY <2>1, <2>2 DEF SendHandler, SendHandlerFails
<1> QED BY <1>2, <1>3, <1>4, CountedStays

LEMMA RecvStepCounted ==
  ASSUME ControlInv, Counted, NEW r \in Rank, RecvStep(r)
  PROVE  Counted'
<1>1. Typed /\ AtASlot /\ ses \in [Rank -> SesSet] BY DEF ControlInv, Typed
<1>2. UNCHANGED <<ses, exchange, handled>> /\ pc[r] \in {"post", "recv", "recvAgain"} BY DEF RecvStep
<1>3. pc'[r] # "create" /\ \A q \in Rank \ {r} : pc'[q] = pc[q]
  <2>1. CASE RecvPartDone(r) BY <1>1, <1>2, <2>1, RecvPartDoneIs
  <2>2. CASE pc' = pc BY <1>2, <2>2
  <2>3. PICK i \in 1..NumRecvs, new \in RecvSlot : RecvStepDoes(r, i, new)
    BY <1>1, RecvStepIs
  <2>4. pc' = pc \/ RecvPartDone(r) BY <2>3 DEF RecvStepDoes
  <2> QED BY <2>1, <2>2, <2>4
<1> QED BY <1>1, <1>2, <1>3, CountedStays

\* The handler has one more, and the counter one less.
LEMMA RecvHandlerCounted ==
  ASSUME ControlInv, Counted, NEW r \in Rank, RecvHandler(r)
  PROVE  Counted'
<1>1. /\ pc \in [Rank -> Control] /\ ses \in [Rank -> SesSet] /\ handled \in [Rank -> Seq(HandledSet)]
      /\ exchange \in [Rank -> 1..Exchanges + 1] /\ Exchanges \in Nat
  BY LoadAssumption DEF ControlInv, Typed
<1>2. PICK h : h = [msg |-> recvs[r][slot[r]].msg, in |-> exchange[r]] OBVIOUS
<1>3. /\ ses' = [ses EXCEPT ![r].msgCount = @ - 1]
      /\ handled' = [handled EXCEPT ![r] = Append(@, h)]
      /\ pc' = [pc EXCEPT ![r] = "recvAgain"] /\ exchange' = exchange /\ pc[r] = "recv"
  BY <1>2 DEF RecvHandler
<1>4. ASSUME NEW q \in Rank, q # r
      PROVE  /\ handled'[q] = handled[q] /\ pc'[q] = pc[q] /\ ses'[q] = ses[q]
             /\ NowHandled(q)' = NowHandled(q)
  BY <1>1, <1>3, <1>4 DEF NowHandled
<1>5. PICK len \in Nat : len = Len(handled[r]) BY <1>1
<1>6. /\ Len(handled'[r]) = len + 1 /\ handled'[r][len + 1] = h
      /\ \A n \in 1..len : handled'[r][n] = handled[r][n]
  <2>1. handled[r] \in Seq(HandledSet) /\ handled'[r] = Append(handled[r], h) BY <1>1, <1>3
  <2> QED BY <1>5, <2>1
<1>7. h.in = exchange[r] BY <1>2
<1>8. NowHandled(r)' = NowHandled(r) \cup {len + 1} /\ len + 1 \notin NowHandled(r)
  <2>1. NowHandled(r) = {n \in 1..len : handled[r][n].in = exchange[r]} BY <1>5 DEF NowHandled
  <2>2. NowHandled(r)' = {n \in 1..len + 1 : handled'[r][n].in = exchange[r]}
    BY <1>3, <1>6 DEF NowHandled
  <2>3. 1..len + 1 = 1..len \cup {len + 1} BY <1>5
  <2> QED BY <1>6, <1>7, <2>1, <2>2, <2>3
<1>9. /\ Cardinality(NowHandled(r)') = Cardinality(NowHandled(r)) + 1
      /\ Cardinality(NowHandled(r)) \in Nat
  BY <1>8, NowHandledIs, FS_AddElement, FS_CardinalityType
<1>10. ses'[r].msgCount = ses[r].msgCount - 1 /\ ses'[r].tags = ses[r].tags /\ pc'[r] = "recvAgain"
  BY <1>1, <1>3 DEF SesSet
<1>11. ses[r].msgCount \in Int /\ ses[r].tags \in Nat BY <1>1 DEF SesSet
<1>12. ses'[r].msgCount = ses'[r].tags - 1 - Cardinality(NowHandled(r)')
  <2>1. ses[r].msgCount = ses[r].tags - 1 - Cardinality(NowHandled(r)) BY <1>3 DEF Counted
  <2> QED BY <1>9, <1>10, <1>11, <2>1
<1>13. \A n \in 1..Len(handled'[r]) : handled'[r][n].in <= exchange[r]
  <2>1. \A n \in 1..len : handled[r][n].in <= exchange[r] BY <1>5 DEF Counted
  <2>2. exchange[r] <= exchange[r] BY <1>1
  <2>3. \A n \in 1..len + 1 : n \in 1..len \/ n = len + 1 BY <1>5
  <2>4. \A n \in 1..len : handled'[r][n].in <= exchange[r] BY <1>6, <2>1
  <2>5. handled'[r][len + 1].in <= exchange[r] BY <1>6, <1>7, <2>2
  <2> QED BY <1>6, <2>3, <2>4, <2>5
<1> SUFFICES ASSUME NEW q \in Rank
             PROVE  /\ pc'[q] \notin {"create", "out"} =>
                         ses'[q].msgCount = ses'[q].tags - 1 - Cardinality(NowHandled(q)')
                    /\ pc'[q] = "create" => NowHandled(q)' = {}
                    /\ \A n \in 1..Len(handled'[q]) : handled'[q][n].in <= exchange'[q]
  BY DEF Counted
<1>14. CASE q = r BY <1>3, <1>10, <1>12, <1>13, <1>14
<1>15. CASE q # r BY <1>3, <1>4, <1>15 DEF Counted
<1> QED BY <1>14, <1>15

LEMMA CreateCounted ==
  ASSUME ControlInv, Counted, NEW r \in Rank, Create(r)
  PROVE  Counted'
<1>1. pc \in [Rank -> Control] /\ ses \in [Rank -> SesSet] BY DEF ControlInv, Typed
<1>2. /\ ses' = [ses EXCEPT ![r] = NewSes] /\ pc' = [pc EXCEPT ![r] = "post"]
      /\ handled' = handled /\ exchange' = exchange /\ pc[r] = "create"
  BY DEF Create
<1>3. \A q : NowHandled(q)' = NowHandled(q) BY <1>2 DEF NowHandled
<1> SUFFICES ASSUME NEW q \in Rank
             PROVE  /\ pc'[q] \notin {"create", "out"} =>
                         ses'[q].msgCount = ses'[q].tags - 1 - Cardinality(NowHandled(q))
                    /\ pc'[q] = "create" => NowHandled(q) = {}
                    /\ \A n \in 1..Len(handled[q]) : handled[q][n].in <= exchange[q]
  BY <1>2, <1>3 DEF Counted
<1>4. CASE q = r
  <2>1. Cardinality(NowHandled(r)) = 0 BY <1>2, FS_EmptySet DEF Counted
  <2>2. ses'[r].msgCount = 0 /\ ses'[r].tags = 1 /\ pc'[r] = "post" BY <1>1, <1>2 DEF NewSes
  <2> QED BY <1>4, <2>1, <2>2 DEF Counted
<1>5. CASE q # r BY <1>1, <1>2, <1>5 DEF Counted
<1> QED BY <1>4, <1>5

LEMMA AllreduceCounted ==
  ASSUME ControlInv, Counted, Allreduce
  PROVE  Counted'
<1>1. ses \in [Rank -> SesSet] BY DEF ControlInv, Typed
<1>2. ses' \in [Rank -> SesSet] BY AllreduceControl DEF ControlInv, Typed
<1>3. handled' = handled /\ exchange' = exchange /\ \A q \in Rank : pc[q] = "reduce" BY DEF Allreduce
<1>4. \A q \in Rank : /\ ses'[q].msgCount = ses[q].msgCount /\ ses'[q].tags = ses[q].tags
                      /\ pc'[q] # "create"
  BY <1>1 DEF Allreduce, SesSet
<1> QED BY <1>2, <1>3, <1>4, CountedStays

LEMMA CancelCounted ==
  ASSUME ControlInv, Counted, NEW r \in Rank, Cancel(r)
  PROVE  Counted'
<1>1. ses \in [Rank -> SesSet] /\ pc \in [Rank -> Control] BY DEF ControlInv, Typed
<1>2. /\ handled' = handled /\ exchange' = exchange /\ ses' = ses
      /\ pc' = [pc EXCEPT ![r] = "barrier"] /\ pc[r] = "cancel"
  BY DEF Cancel
<1>3. \A q \in Rank : pc'[q] = pc[q] \/ (q = r /\ pc'[q] = "barrier" /\ pc[q] = "cancel")
  BY <1>1, <1>2
<1> QED BY <1>1, <1>2, <1>3, CountedStays

LEMMA LeaveCounted ==
  ASSUME ControlInv, Counted, Leave
  PROVE  Counted'
<1>1. /\ handled \in [Rank -> Seq(HandledSet)] /\ exchange \in [Rank -> 1..Exchanges + 1]
      /\ Exchanges \in Nat
  BY LoadAssumption DEF ControlInv, Typed
<1>2. /\ exchange' = [r \in Rank |-> exchange[r] + 1] /\ handled' = handled
      /\ pc' = [r \in Rank |-> IF exchange[r] = Exchanges THEN "out" ELSE "create"]
  BY DEF Leave
<1>3. ASSUME NEW q \in Rank, NEW n \in 1..Len(handled[q])
      PROVE  handled[q][n].in <= exchange'[q] /\ handled[q][n].in # exchange'[q]
  <2>1. handled[q][n] \in HandledSet
    <3>1. handled[q] \in Seq(HandledSet) BY <1>1
    <3> QED BY <3>1
  <2>2. handled[q][n].in \in Nat /\ exchange[q] \in Nat BY <1>1, <2>1 DEF HandledSet
  <2>3. handled[q][n].in <= exchange[q] BY DEF Counted
  <2> QED BY <1>2, <2>2, <2>3
<1>4. \A q \in Rank : NowHandled(q)' = {} BY <1>2, <1>3 DEF NowHandled
<1>5. \A q \in Rank : pc'[q] \in {"create", "out"} BY <1>2
<1> QED BY <1>2, <1>3, <1>4, <1>5 DEF Counted

-----------------------------------------------------------------------------
(* The phases.                                                             *)

Work == Control \ {"create", "cancel", "barrier", "out"}

\* A rank that is at work, or begins to be, keeps all others from the end.
LEMMA WorkPhases ==
  ASSUME Phases, NEW r \in Rank, pc[r] \in Work \cup {"create"}, pc'[r] \in Work,
         \A q \in Rank \ {r} : pc'[q] = pc[q],
         \A q \in Rank \ {r}, i \in 1..NumRecvs : recvs'[q][i] = recvs[q][i]
  PROVE  Phases'
<1>1. \A q \in Rank : pc[q] \notin Ending /\ pc[q] # "out" BY DEF Phases, Ending, Work
<1>2. \A q \in Rank : pc'[q] \notin Ending /\ pc'[q] # "out" BY <1>1 DEF Ending, Work
<1>3. \A q \in Rank : pc'[q] \in {"barrier", "create", "out"} =>
        \A i \in 1..NumRecvs : recvs'[q][i] = NewRecv
  <2> TAKE q \in Rank
  <2>1. CASE q = r BY <2>1 DEF Work
  <2>2. CASE q # r BY <2>2 DEF Phases
  <2> QED BY <2>1, <2>2
<1> QED BY <1>2, <1>3 DEF Phases, Ending

LEMMA SendStepPhases ==
  ASSUME ControlInv, Phases, NEW r \in Rank, SendStep(r)
  PROVE  Phases'
<1>1. Typed /\ pc \in [Rank -> Control] BY DEF ControlInv, Typed
<1>2. recvs' = recvs /\ pc[r] \in {"send", "sendNew"} BY DEF SendStep
<1>3. pc'[r] \in Work /\ \A q \in Rank \ {r} : pc'[q] = pc[q]
  <2>1. CASE SendPartDone(r) BY <1>1, <2>1, SendPartDoneIs DEF Work
  <2>2. CASE pc' = pc \/ pc' = [pc EXCEPT ![r] = "sendHandler"]
    BY <1>1, <1>2, <2>2 DEF Work, Control
  <2> QED BY <1>1, <2>1, <2>2, SendStepIs
<1>4. pc[r] \in Work BY <1>2 DEF Work, Control
<1> QED BY <1>2, <1>3, <1>4, WorkPhases

LEMMA SendHandlerPhases ==
  ASSUME ControlInv, Phases, NEW r \in Rank, SendHandler(r) \/ SendHandlerFails(r)
  PROVE  Phases'
<1>1. Typed /\ pc \in [Rank -> Control] BY DEF ControlInv, Typed
<1>2. recvs' = recvs /\ pc[r] = "sendHandler" BY DEF SendHandler, SendHandlerFails
<1>3. pc'[r] \in Work /\ \A q \in Rank \ {r} : pc'[q] = pc[q]
  <2>1. CASE SendPartDone(r) BY <1>1, <2>1, SendPartDoneIs DEF Work
  <2>2. CASE pc' = [pc EXCEPT ![r] = "sendNew"] BY <1>1, <2>2 DEF Work, Control
  <2> QED BY <2>1, <2>2 DEF SendHandler, SendHandlerFails
<1>4. pc[r] \in Work BY <1>2 DEF Work, Control
<1> QED BY <1>2, <1>3, <1>4, WorkPhases

LEMMA RecvStepPhases ==
  ASSUME ControlInv, Phases, NEW r \in Rank, RecvStep(r)
  PROVE  Phases'
<1>1. Typed /\ AtASlot /\ recvs \in [Rank -> [1..NumRecvs -> RecvSlot]] BY SMTT(60) DEF ControlInv, Typed
<1>2. pc[r] \in {"post", "recv", "recvAgain"} BY DEF RecvStep
<1>3. pc'[r] \in Work /\ \A q \in Rank \ {r} : pc'[q] = pc[q]
  <2>1. CASE RecvPartDone(r) BY <1>1, <1>2, <2>1, RecvPartDoneIs DEF Work
  <2>2. CASE pc' = pc BY <1>2, <2>2 DEF Work, Control
  <2>3. PICK i \in 1..NumRecvs, new \in RecvSlot : RecvStepDoes(r, i, new)
    BY <1>1, RecvStepIs
  <2>4. pc' = pc \/ RecvPartDone(r) BY <2>3 DEF RecvStepDoes
  <2> QED BY <2>1, <2>2, <2>4
<1>4. \A q \in Rank \ {r}, i \in 1..NumRecvs : recvs'[q][i] = recvs[q][i]
  <2>1. recvs' = recvs \/ \E x : recvs' = [recvs EXCEPT ![r] = x] BY DEF RecvStep
  <2> QED BY <1>1, <2>1
<1>5. pc[r] \in Work BY <1>2 DEF Work, Control
<1> QED BY <1>3, <1>4, <1>5, WorkPhases

LEMMA RecvHandlerPhases ==
  ASSUME ControlInv, Phases, NEW r \in Rank, RecvHandler(r)
  PROVE  Phases'
<1>1. pc \in [Rank -> Control] /\ recvs \in [Rank -> [1..NumRecvs -> RecvSlot]] BY DEF ControlInv, Typed
<1>2. /\ pc[r] = "recv" /\ pc' = [pc EXCEPT ![r] = "recvAgain"]
      /\ recvs' = [recvs EXCEPT ![r][slot[r]] = NewRecv]
  BY DEF RecvHandler
<1>3. pc'[r] \in Work /\ pc[r] \in Work /\ \A q \in Rank \ {r} : pc'[q] = pc[q]
  BY <1>1, <1>2 DEF Work, Control
<1>4. \A q \in Rank \ {r}, i \in 1..NumRecvs : recvs'[q][i] = recvs[q][i] BY <1>1, <1>2
<1> QED BY <1>3, <1>4, WorkPhases

LEMMA CreatePhases ==
  ASSUME ControlInv, Phases, NEW r \in Rank, Create(r)
  PROVE  Phases'
<1>1. pc \in [Rank -> Control] /\ recvs \in [Rank -> [1..NumRecvs -> RecvSlot]] BY DEF ControlInv, Typed
<1>2. /\ pc[r] = "create" /\ pc' = [pc EXCEPT ![r] = "post"]
      /\ recvs' = [recvs EXCEPT ![r] = [i \in 1..NumRecvs |-> NewRecv]]
  BY DEF Create
<1>3. pc'[r] \in Work /\ \A q \in Rank \ {r} : pc'[q] = pc[q] BY <1>1, <1>2 DEF Work, Control
<1>4. \A q \in Rank \ {r}, i \in 1..NumRecvs : recvs'[q][i] = recvs[q][i] BY <1>1, <1>2
<1> QED BY <1>2, <1>3, <1>4, WorkPhases

\* Nothing is delivered at the end of an exchange: nothing is in the net.
LEMMA DeliverPhases ==
  ASSUME ControlInv, Phases, NEW s \in Rank, NEW r \in Rank, NEW i \in 1..NumRecvs, Deliver(s, r, i)
  PROVE  Phases'
<1>1. Typed /\ recvs \in [Rank -> [1..NumRecvs -> RecvSlot]] BY DEF ControlInv, Typed
<1>2. /\ Posted(recvs[r][i].state) /\ Len(net[s][r]) # 0 /\ pc' = pc
      /\ \A q \in Rank \ {r}, j \in 1..NumRecvs : recvs'[q][j] = recvs[q][j]
  <2>1. Posted(recvs[r][i].state) /\ pc' = pc BY DEF Deliver
  <2>2. PICK n \in 1..Len(net[s][r]) :
          recvs' = [recvs EXCEPT ![r][i].got = [from |-> s, packet |-> net[s][r][n]]]
    BY DEF Deliver
  <2>3. Len(net[s][r]) # 0 BY <2>2
  <2>4. \A q \in Rank \ {r}, j \in 1..NumRecvs : recvs'[q][j] = recvs[q][j] BY <1>1, <2>2
  <2> QED BY <2>1, <2>3, <2>4
<1>3. \A q \in Rank : pc[q] \notin Ending BY <1>2 DEF Phases, Still
<1>4. \A q \in Rank : pc[q] \in {"barrier", "create", "out"} =>
        \A j \in 1..NumRecvs : recvs'[q][j] = NewRecv
  <2> SUFFICES ASSUME NEW q \in Rank, pc[q] \in {"barrier", "create", "out"}, NEW j \in 1..NumRecvs
               PROVE  recvs'[q][j] = NewRecv
    OBVIOUS
  <2>1. \A k \in 1..NumRecvs : recvs[q][k] = NewRecv BY DEF Phases
  <2>2. q # r BY <1>2, <2>1, NewRecvIs DEF Posted
  <2>3. recvs'[q][j] = recvs[q][j] BY <1>1, <1>2, <2>2
  <2> QED BY <2>1, <2>3
<1>5. \A q \in Rank : pc[q] = "out" => \A t \in Rank : pc[t] = "out" BY DEF Phases
<1> QED BY <1>2, <1>3, <1>4, <1>5 DEF Phases, Ending

LEMMA CancelPhases ==
  ASSUME ControlInv, Known, Phases, NEW r \in Rank, Cancel(r)
  PROVE  Phases'
<1>1. pc \in [Rank -> Control] /\ recvs \in [Rank -> [1..NumRecvs -> RecvSlot]] BY DEF ControlInv, Typed
<1>2. /\ pc[r] = "cancel" /\ pc' = [pc EXCEPT ![r] = "barrier"]
      /\ recvs' = [recvs EXCEPT ![r] = [i \in 1..NumRecvs |-> NewRecv]]
      /\ UNCHANGED <<slot, ses, sends, net, exchange, left, sent, handled>>
  BY DEF Cancel
<1>3. Still /\ AllHandled /\ \A q \in Rank : pc[q] \in Ending BY <1>2 DEF Phases, Ending
<1>4. \A q \in Rank, i \in 1..NumRecvs : recvs'[q][i] = IF q = r THEN NewRecv ELSE recvs[q][i]
  BY <1>1, <1>2
<1>5. Still'
  <2>1. \A q \in Rank, i \in 1..NumSends : ~Waiting(q, i)' BY <1>2, <1>3 DEF Still, Waiting
  <2>2. \A q \in Rank, i \in 1..NumRecvs : ~Busy(q, i)'
    <3> SUFFICES ASSUME NEW q \in Rank, NEW i \in 1..NumRecvs, Busy(q, i)' PROVE FALSE OBVIOUS
    <3>1. Busy(q, i) BY <1>2, RecvsReset
    <3> QED BY <1>3, <3>1 DEF Still
  <2>3. \A q \in Rank, i \in 1..NumRecvs : recvs'[q][i].got = NULL
    BY <1>3, <1>4, NewRecvIs DEF Still
  <2> QED BY <1>2, <1>3, <2>1, <2>2, <2>3 DEF Still
<1>6. AllHandled' BY <1>2, <1>3 DEF AllHandled
<1>7. \A q \in Rank : pc'[q] \in Ending BY <1>1, <1>2, <1>3 DEF Ending
<1>8. \A q \in Rank : pc'[q] \in {"barrier", "create", "out"} =>
        \A i \in 1..NumRecvs : recvs'[q][i] = NewRecv
  <2> TAKE q \in Rank
  <2>1. CASE q = r BY <1>4, <2>1
  <2>2. CASE q # r
    <3>1. pc'[q] = pc[q] BY <1>1, <1>2, <2>2
    <3> QED BY <1>4, <2>2, <3>1 DEF Phases
  <2> QED BY <2>1, <2>2
<1> QED BY <1>5, <1>6, <1>7, <1>8 DEF Phases, Ending

\* The exchange is over when MPI_Allreduce gives 0.
LEMMA AllreducePhases ==
  ASSUME ControlInv, Known, Unique, Counted, Allreduce
  PROVE  Phases'
<1>1. /\ \A r \in Rank : pc[r] = "reduce"
      /\ pc' = [r \in Rank |-> IF Over(r) THEN "cancel" ELSE IF NoSends(r) THEN "recv" ELSE "send"]
      /\ UNCHANGED <<sends, recvs, net, exchange, left, sent, handled>>
  BY DEF Allreduce
<1>2. CASE Total = 0
  <2>1. (\A r \in Rank : NoSends(r)) /\ AllHandled BY <1>1, <1>2, ZeroMeansOver
  <2>2. \A r \in Rank : pc'[r] = "cancel" BY <1>1, <1>2, <2>1 DEF Over
  <2>3. Still BY <1>1, <2>1, HandledMeansStill
  <2>4. Still'
    <3>1. \A q \in Rank, i \in 1..NumSends : Waiting(q, i)' <=> Waiting(q, i) BY <1>1 DEF Waiting
    <3>2. \A q \in Rank, i \in 1..NumRecvs : Busy(q, i)' <=> Busy(q, i) BY <1>1 DEF Busy
    <3> QED BY <1>1, <2>3, <3>1, <3>2 DEF Still
  <2>5. AllHandled' BY <1>1, <2>1 DEF AllHandled
  <2> QED BY <2>2, <2>4, <2>5 DEF Phases, Ending
<1>3. CASE Total # 0
  <2>1. \A r \in Rank : pc'[r] \in {"recv", "send"} BY <1>1, <1>3 DEF Over
  <2> QED BY <2>1 DEF Phases, Ending
<1> QED BY <1>2, <1>3

LEMMA LeavePhases ==
  ASSUME ControlInv, Phases, Leave
  PROVE  Phases'
<1>1. /\ \A r \in Rank : pc[r] = "barrier"
      /\ pc' = [r \in Rank |-> IF exchange[r] = Exchanges THEN "out" ELSE "create"]
      /\ recvs' = recvs
  BY DEF Leave, Barrier
<1>2. \A r, q \in Rank : exchange[r] = exchange[q] BY DEF ControlInv, InTime
<1>3. \A r, q \in Rank : pc'[r] \in {"out", "create"} /\ pc'[r] = pc'[q] BY <1>1, <1>2
<1>4. \A r \in Rank, i \in 1..NumRecvs : recvs'[r][i] = NewRecv BY <1>1 DEF Phases
<1> QED BY <1>3, <1>4 DEF Phases, Ending

-----------------------------------------------------------------------------
(* Every step.                                                             *)

LEMMA InitDES == Init => DESInv
<1> SUFFICES ASSUME Init PROVE DESInv OBVIOUS
<1>1. ControlInv /\ Known /\ Unique BY InitControl, InitMessages
<1>2. \A r \in Rank : pc[r] = "create" /\ Len(handled[r]) = 0 BY DEF Init
<1>3. Counted BY <1>2 DEF Counted, NowHandled
<1>4. \A r \in Rank, i \in 1..NumRecvs : recvs[r][i] = NewRecv BY DEF Init
<1>5. Phases BY <1>2, <1>4 DEF Phases, Ending
<1> QED BY <1>1, <1>3, <1>5 DEF DESInv

LEMMA NextDES == DESInv /\ [Next]_vars => DESInv'
<1> SUFFICES ASSUME ControlInv, Known, Unique, Counted, Phases, [Next]_vars
             PROVE  DESInv'
  BY DEF DESInv
<1>1. ControlInv' BY NextControl
<1>2. ASSUME NEW r \in Rank, RankStep(r) PROVE Known' /\ Unique' /\ Counted' /\ Phases'
  <2>1. CASE SendStep(r) BY <2>1, SendStepMessages, SendStepCounted, SendStepPhases
  <2>2. CASE SendHandler(r) BY <2>2, SendHandlerMessages, SendHandlerCounted, SendHandlerPhases
  <2>3. CASE SendHandlerFails(r)
    BY <2>3, SendHandlerFailsMessages, SendHandlerCounted, SendHandlerPhases
  <2>4. CASE RecvStep(r) BY <2>4, RecvStepMessages, RecvStepCounted, RecvStepPhases
  <2>5. CASE RecvHandler(r) BY <2>5, RecvHandlerMessages, RecvHandlerCounted, RecvHandlerPhases
  <2>6. CASE Cancel(r) BY <2>6, CancelMessages, CancelCounted, CancelPhases
  <2>7. CASE Create(r) BY <2>7, CreateMessages, CreateCounted, CreatePhases
  <2> QED BY <1>2, <2>1, <2>2, <2>3, <2>4, <2>5, <2>6, <2>7 DEF RankStep
<1>3. ASSUME NEW s \in Rank, NEW r \in Rank, NEW i \in 1..NumRecvs, Deliver(s, r, i)
      PROVE  Known' /\ Unique' /\ Counted' /\ Phases'
  <2>1. Known' /\ Unique' BY <1>3, DeliverMessages
  <2>2. Phases' BY <1>3, DeliverPhases
  <2>3. Counted'
    <3>1. ses \in [Rank -> SesSet] BY DEF ControlInv, Typed
    <3>2. UNCHANGED <<pc, ses, exchange, handled>> BY <1>3 DEF Deliver
    <3> QED BY <3>1, <3>2, CountedStays
  <2> QED BY <2>1, <2>2, <2>3
<1>4. CASE Allreduce
  <2>1. Known' /\ Unique' BY <1>4, AllreduceMessages
  <2>2. Counted' BY <1>4, AllreduceCounted
  <2>3. Phases' BY <1>4, AllreducePhases
  <2> QED BY <1>1, <2>1, <2>2, <2>3 DEF DESInv
<1>5. CASE Leave
  <2>1. \A r \in Rank : pc[r] = "barrier" BY <1>5 DEF Leave, Barrier
  <2>2. Still BY <2>1, RankAssumption DEF Phases, Ending
  <2>3. \A r \in Rank, i \in 1..NumRecvs : recvs[r][i] = NewRecv BY <2>1 DEF Phases
  <2>4. Known' /\ Unique' BY <1>5, <2>2, <2>3, LeaveMessages
  <2> QED BY <1>1, <1>5, <2>4, LeaveCounted, LeavePhases DEF DESInv
<1>6. CASE UNCHANGED vars
  <2>1. Known' /\ Unique' BY <1>6, StutterMessages
  <2>2. Counted' BY <1>6 DEF vars, Counted, NowHandled
  <2>3. Phases' BY <1>6 DEF vars, Phases, Still, AllHandled, Waiting, Busy
  <2> QED BY <1>1, <2>1, <2>2, <2>3 DEF DESInv
<1> QED BY <1>1, <1>2, <1>3, <1>4, <1>5, <1>6 DEF Next, Deliveries, DESInv

\* The inductive invariant of the exchanges holds in every reachable state.
THEOREM DESInvHolds == Spec => []DESInv
BY InitDES, NextDES, PTL DEF Spec

\* async_des returns ASYNC_SUCCESS only when the exchange is over, on every
\* rank: for any number of ranks and slots, whatever each has to send, and
\* with handlers that fail.  The sum that MPI_Allreduce gives counts the
\* messages that were given a number, less those that were handled, and the
\* ranks that may yet send; it is 0 only if each of these is none.
THEOREM SuccessIsTheEnd == Spec => []SuccessMeansOver
<1>1. DESInv => SuccessMeansOver
  <2> SUFFICES ASSUME DESInv, NEW r \in Rank, pc[r] \in {"cancel", "barrier"}
               PROVE  /\ \A q \in Rank : exchange[q] = exchange[r] => left[q] = 0
                      /\ \A m \in SentIn(exchange[r]) : m[1] \in HandledBy(m[2])
    BY DEF SuccessMeansOver
  <2>1. Still /\ AllHandled BY DEF DESInv, Phases, Ending
  <2>2. sent \in SUBSET (Message \X Rank) /\ handled \in [Rank -> Seq(HandledSet)]
    BY DEF DESInv, ControlInv, Typed
  <2>3. ASSUME NEW m \in SentIn(exchange[r]) PROVE m[1] \in HandledBy(m[2])
    <3>1. m \in sent /\ m[1][2] = exchange[r] BY DEF SentIn
    <3>2. m[1] \in Message /\ m[2] \in Rank BY <2>2, <3>1
    <3>3. m[1][1] \in Rank BY <3>2 DEF Message
    <3>4. m[1][2] = exchange[m[1][1]] BY <3>1, <3>3 DEF DESInv, ControlInv, InTime
    <3>5. PICK n \in 1..Len(handled[m[2]]) : handled[m[2]][n].msg = m[1]
      BY <2>1, <3>1, <3>4 DEF AllHandled
    <3>6. handled[m[2]] \in Seq(HandledSet) BY <2>2, <3>2
    <3>7. handled[m[2]][n] \in Range(handled[m[2]]) BY <3>6 DEF Range
    <3> QED BY <3>5, <3>7 DEF HandledBy
  <2> QED BY <2>1, <2>3 DEF Still
<1> QED BY <1>1, DESInvHolds, PTL

\* A receive handler is given only messages that were sent to its rank, in the
\* exchange they were sent in, none twice, and a body only in the buffer that
\* its own header gave the size of: for any number of ranks, slots and
\* messages, with and without headers, in any order of the deliveries that MPI
\* admits, across exchanges.
THEOREM HandledAreRight == Spec => []HandledRight
<1>1. DESInv => HandledRight
  <2> SUFFICES ASSUME DESInv PROVE HandledRight OBVIOUS
  <2>1. ASSUME NEW r \in Rank, NEW n \in 1..Len(handled[r])
        PROVE  /\ <<handled[r][n].msg, r>> \in sent
               /\ handled[r][n].msg[2] = handled[r][n].in
               /\ \A k \in 1..n - 1 : handled[r][k].msg # handled[r][n].msg
    <3>1. <<handled[r][n].msg, r>> \in sent /\ handled[r][n].msg[2] = handled[r][n].in
      BY DEF DESInv, Known, HandledKnown
    <3>2. Len(handled[r]) \in Nat
      <4>1. handled \in [Rank -> Seq(HandledSet)] BY DEF DESInv, ControlInv, Typed
      <4> QED BY <4>1
    <3>3. \A k \in 1..n - 1 : k \in 1..Len(handled[r]) /\ k # n BY <3>2
    <3>4. \A k \in 1..Len(handled[r]) : handled[r][k].msg = handled[r][n].msg => k = n
      BY DEF DESInv, Unique, HandledOnce
    <3> QED BY <3>1, <3>3, <3>4
  <2>2. WithCount => \A r \in Rank, i \in 1..NumRecvs :
          recvs[r][i].state = "success" => recvs[r][i].msg = recvs[r][i].header
    BY DEF DESInv, Known, RecvsKnown, KnownRecv
  <2> QED BY <2>1, <2>2 DEF HandledRight
<1> QED BY <1>1, DESInvHolds, PTL
=============================================================================
