----------------------------- MODULE Ne2kProofs -----------------------------
(***************************************************************************)
(* Proofs about Ne2k, for every size of the receive ring and any number of *)
(* packets, frames and damaged headers.                                    *)
(***************************************************************************)
EXTENDS Ne2k, Counting

Bits == {"PRX", "PTX", "TXE", "OVW"}

PcI == {"none", "read", "recv", "reset", "reset2", "copy", "advance", "eth",
        "replying", "ptx", "sending", "ack", "mask", "eoi", "unmask", "ack2"}

SendAt == {"none", "test", "queue", "copy", "start"}

-----------------------------------------------------------------------------
(***************************************************************************)
(* Who may run: the processor's IF flag, the in-service bit and the mask   *)
(* register at every point of neISR and neSend; and the edge.              *)
(***************************************************************************)
Ctl ==
    /\ pcI \in PcI
    /\ isr \subseteq Bits /\ st \subseteq Bits
    /\ send \in [pkt : Nat, at : SendAt]
    /\ inService <=> pcI \notin {"none", "unmask", "ack2"}
    /\ imr <=> pcI \notin {"eoi", "unmask"}
    /\ pcI \in {"eoi", "unmask", "ack2"} => ~intOn
    /\ send.at # "none" => ~intOn /\ pcI \in {"none", "replying", "sending"}
    /\ pcI \in {"none", "read"} => st = {}
    /\ pcI \in {"none", "ack2"} /\ isr # {} => irr

(***************************************************************************)
(* Ctl holds after neInit.                                                 *)
(***************************************************************************)
LEMMA CtlInit == Init => Ctl
  BY DEF Init, Ctl, PcI, SendAt, NoSend

(***************************************************************************)
(* The chip keeps Ctl: a bit it sets outside the handler has its edge      *)
(* latched, or finds one latched before.                                   *)
(***************************************************************************)
LEMMA CtlChip == ASSUME Ctl, Chip PROVE Ctl'
<1> USE DEF Ctl, SetIsr, Latched, Line, drv, Bits
<1>1. ASSUME NEW k \in 1 .. 2, NEW bad \in BOOLEAN, RxStore(k, bad) PROVE Ctl'
  BY <1>1 DEF RxStore
<1>2. CASE RxOverflow
  BY <1>2 DEF RxOverflow
<1>3. CASE TxDone("PTX")
  BY <1>3 DEF TxDone
<1>4. CASE TxDone("TXE")
  BY <1>4 DEF TxDone
<1> QED BY <1>1, <1>2, <1>3, <1>4 DEF Chip

(***************************************************************************)
(* neSend keeps Ctl, called by main or by the handler.                     *)
(***************************************************************************)
LEMMA CtlSend == ASSUME Ctl, nsent \in Nat, MainSend \/ neSend PROVE Ctl'
<1> USE DEF Ctl, chip, cpu, ghost, PcI, SendAt, NoSend
<1>1. CASE MainSend
  BY <1>1 DEF MainSend
<1>2. CASE SendTest
  BY <1>2 DEF SendTest
<1>3. CASE SendQueue
  BY <1>3 DEF SendQueue
<1>4. CASE SendCopy
  BY <1>4 DEF SendCopy
<1>5. CASE SendStart
  BY <1>5 DEF SendStart
<1> QED BY <1>1, <1>2, <1>3, <1>4, <1>5 DEF neSend

(***************************************************************************)
(* neRecv keeps Ctl: it only moves the handler on.                         *)
(***************************************************************************)
LEMMA CtlRecv == ASSUME Ctl, neRecv PROVE Ctl'
<1> USE DEF Ctl, chip, cpu, ghost, PcI
<1>1. CASE RecvHead
  BY <1>1 DEF RecvHead
<1>2. CASE RecvResetCurr
  BY <1>2 DEF RecvResetCurr
<1>3. CASE RecvResetBnry
  BY <1>3 DEF RecvResetBnry
<1>4. CASE RecvCopy
  BY <1>4 DEF RecvCopy
<1>5. CASE RecvAdvance
  BY <1>5 DEF RecvAdvance
<1> QED BY <1>1, <1>2, <1>3, <1>4, <1>5 DEF neRecv

(***************************************************************************)
(* The interrupt and neISR keep Ctl: the line falls before the EOI and     *)
(* rises again behind it if a bit is still set.                            *)
(***************************************************************************)
LEMMA CtlIsr ==
  ASSUME Ctl, nsent \in Nat, sendQueue \in Seq(Nat), Interrupt \/ neISR
  PROVE  Ctl'
<1> USE DEF Ctl, chip, cpu, ghost, PcI, SendAt
<1>1. CASE Interrupt
  BY <1>1 DEF Interrupt
<1>2. CASE IsrRead
  BY <1>2 DEF IsrRead
<1>3. CASE IsrDeliver \/ IsrReplied \/ IsrNothingQueued \/ IsrDel \/ IsrEoi
  BY <1>3 DEF IsrDeliver, IsrReplied, IsrNothingQueued, IsrDel, IsrEoi
<1>4. CASE IsrReply
  BY <1>4 DEF IsrReply
<1>5. CASE IsrSend
  <2>1. Head(sendQueue) \in Nat
    BY <1>5 DEF IsrSend
  <2> QED BY <1>5, <2>1 DEF IsrSend
<1>6. CASE IsrAck
  BY <1>6 DEF IsrAck, neSetIntState, SetIsr
<1>7. CASE IsrMask
  BY <1>7 DEF IsrMask, neSetIntMask
<1>8. CASE IsrUnmask
  BY <1>8 DEF IsrUnmask, neSetIntMask, Latched, Line
<1>9. CASE IsrExit
  BY <1>9 DEF IsrExit, neSetIntState, SetIsr, Latched, Line
<1> QED BY <1>1, <1>2, <1>3, <1>4, <1>5, <1>6, <1>7, <1>8, <1>9, CtlRecv DEF neISR

-----------------------------------------------------------------------------
(***************************************************************************)
(* What is handed to neSend: the packets in the queue, in the transmit     *)
(* buffer and in neSend's hand are packets main or arpReply has sent.      *)
(***************************************************************************)
Packets ==
    /\ nsent \in 0 .. MaxSend
    /\ sendQueue \in Seq(1 .. nsent)
    /\ loaded \in Seq(1 .. nsent)
    /\ send.pkt \in 0 .. nsent
    /\ send.at # "none" <=> send.pkt # 0
    /\ pcI = "sending" => sendQueue # <<>>

\* What is left in the queue once neISR has deleted the packet it sends.
Waiting == IF pcI = "sending" THEN Tail(sendQueue) ELSE sendQueue

InHand(p) == IF send.pkt = p /\ send.at # "start" THEN 1 ELSE 0

\* What a step may change of what Packets speaks of.
pkts == <<sendQueue, send, nsent, loaded>>

(***************************************************************************)
(* How often a packet is in a queue it is added to or deleted from.        *)
(***************************************************************************)
LEMMA CountAppend ==
  ASSUME NEW S, NEW s \in Seq(S), NEW e \in S, NEW p
  PROVE  /\ Count(p, s) \in Nat
         /\ Count(p, Append(s, e)) = Count(p, s) + (IF e = p THEN 1 ELSE 0)
<1> DEFINE t == Append(s, e)
           X == {i \in DOMAIN s : s[i] = p}
           Z == {i \in DOMAIN t : t[i] = p}
<1>1. /\ Len(s) \in Nat /\ DOMAIN s = 1 .. Len(s) /\ DOMAIN t = 1 .. Len(s) + 1
      /\ t[Len(s) + 1] = e /\ \A i \in 1 .. Len(s) : t[i] = s[i]
  BY Grown
<1> HIDE DEF t
<1>2. Z = IF e = p THEN X \cup {Len(s) + 1} ELSE X
  BY <1>1
<1>3. X \in SUBSET (1 .. Len(s))
  BY <1>1
<1> HIDE DEF X, Z
<1>4. Cardinality(X) \in Nat /\ Cardinality(X \cup {Len(s) + 1}) = Cardinality(X) + 1
  BY <1>1, <1>3, Counted
<1>5. Count(p, s) = Cardinality(X)
  BY DEF Count, X
<1>6. Count(p, t) = Cardinality(X) + (IF e = p THEN 1 ELSE 0)
  <2>1. Count(p, t) = Cardinality(Z)
    BY DEF Count, Z
  <2> QED BY <1>2, <1>4, <2>1
<1> QED BY <1>4, <1>5, <1>6 DEF t

(***************************************************************************)
(* The same for the head of a queue.                                       *)
(***************************************************************************)
LEMMA CountTail ==
  ASSUME NEW S, NEW s \in Seq(S), s # <<>>, NEW p
  PROVE  /\ Count(p, Tail(s)) \in Nat
         /\ Count(p, s) = Count(p, Tail(s)) + (IF Head(s) = p THEN 1 ELSE 0)
<1> DEFINE t == Tail(s)
           n == Len(s) - 1
           X == {i \in DOMAIN t : t[i] = p}
           Y == {i + 1 : i \in X}
           Z == {i \in DOMAIN s : s[i] = p}
<1>1. /\ n \in Nat /\ DOMAIN s = 1 .. n + 1 /\ DOMAIN t = 1 .. n
      /\ Head(s) = s[1] /\ \A i \in 1 .. n : t[i] = s[i + 1]
  BY Shrunk, LenProperties
<1>2. X \in SUBSET (1 .. n)
  BY <1>1
<1> HIDE DEF t, n
<1>3. Z = IF Head(s) = p THEN Y \cup {1} ELSE Y
  <2>1. \A i \in DOMAIN s : i = 1 \/ (i - 1 \in 1 .. n /\ i = (i - 1) + 1)
    BY <1>1
  <2> QED BY <1>1, <2>1
<1>4. Cardinality(X) \in Nat /\ IsFiniteSet(X) /\ Cardinality(Y) = Cardinality(X)
  <2> HIDE DEF X
  <2> QED BY <1>1, <1>2, Counted, Shifted
<1>5. IsFiniteSet(Y) /\ 1 \notin Y
  <2>1. Y \in SUBSET (1 .. n + 1) /\ n + 1 \in Nat /\ 1 \notin Y
    BY <1>1, <1>2
  <2> HIDE DEF Y
  <2> QED BY <2>1, Counted
<1> HIDE DEF X, Y, Z
<1>6. Cardinality(Y \cup {1}) = Cardinality(Y) + 1
  BY <1>5, FS_AddElement
<1>7. Count(p, t) = Cardinality(X)
  BY DEF Count, X
<1>8. Count(p, s) = Cardinality(Y) + (IF Head(s) = p THEN 1 ELSE 0)
  <2>1. Cardinality(Y) \in Nat
    BY <1>4
  <2>2. Count(p, s) = Cardinality(Z)
    BY DEF Count, Z
  <2> QED BY <1>3, <1>6, <2>1, <2>2
<1> QED BY <1>4, <1>7, <1>8 DEF t

(***************************************************************************)
(* A packet that was never sent is nowhere.                                *)
(***************************************************************************)
LEMMA CountNew ==
  ASSUME NEW n \in Nat, NEW s \in Seq(1 .. n)
  PROVE  Count(n + 1, s) = 0
<1>1. {i \in DOMAIN s : s[i] = n + 1} = {}
  BY ElementOfSeq, LenProperties
<1> QED BY <1>1, FS_EmptySet DEF Count

\* LoadedOnce with its parts named.
Once(p) == Count(p, Waiting) + Count(p, loaded) + InHand(p) = 1

(***************************************************************************)
(* The named form says the same.                                           *)
(***************************************************************************)
LEMMA OnceForm == LoadedOnce <=> \A p \in 1 .. nsent : Once(p)
  BY DEF LoadedOnce, Once, Waiting, InHand

PktInv == Ctl /\ Packets /\ \A p \in 1 .. nsent : Once(p)

(***************************************************************************)
(* The queue that waits is a sequence of packets.                          *)
(***************************************************************************)
LEMMA WaitingType == ASSUME Packets PROVE Waiting \in Seq(1 .. nsent)
  BY Shrunk DEF Packets, Waiting

(***************************************************************************)
(* After neInit no packet has been sent.                                   *)
(***************************************************************************)
LEMMA PktInit == Init => PktInv
<1> SUFFICES ASSUME Init PROVE PktInv
  OBVIOUS
<1>1. Packets
  BY Ne2kAssumption DEF Init, Packets, NoSend
<1>2. 1 .. nsent = {}
  BY DEF Init
<1> QED BY <1>1, <1>2, CtlInit DEF PktInv

(***************************************************************************)
(* A step that touches no packet.                                          *)
(***************************************************************************)
LEMMA PktSame ==
  ASSUME PktInv, UNCHANGED pkts, pcI = "sending" <=> pcI' = "sending"
  PROVE  Packets' /\ \A p \in 1 .. nsent' : Once(p)'
<1>1. Packets'
  BY DEF PktInv, Packets, pkts
<1>2. Waiting' = Waiting
  BY DEF Waiting, pkts
<1>3. \A p : InHand(p)' = InHand(p)
  BY DEF InHand, pkts
<1> QED BY <1>1, <1>2, <1>3 DEF PktInv, Once, pkts

(***************************************************************************)
(* neSend is called with a new packet, by main or by arpReply.             *)
(***************************************************************************)
LEMMA PktNew ==
  ASSUME PktInv, nsent < MaxSend, send.at = "none", pcI # "sending", pcI' # "sending",
         send' = [pkt |-> nsent + 1, at |-> "test"], nsent' = nsent + 1,
         UNCHANGED <<sendQueue, loaded>>
  PROVE  Packets' /\ \A p \in 1 .. nsent' : Once(p)'
<1>1. nsent \in Nat /\ nsent + 1 \in 0 .. MaxSend /\ send.pkt = 0
  BY Ne2kAssumption DEF PktInv, Packets
<1>2. Seq(1 .. nsent) \subseteq Seq(1 .. nsent + 1)
  BY <1>1
<1>3. sendQueue \in Seq(1 .. nsent) /\ loaded \in Seq(1 .. nsent)
  BY DEF PktInv, Packets
<1>4. Packets'
  BY <1>1, <1>2, <1>3 DEF Packets
<1>5. Waiting = sendQueue /\ Waiting' = sendQueue
  BY DEF Waiting
<1>6. ASSUME NEW p \in 1 .. nsent PROVE Once(p)'
  <2>1. InHand(p) = 0 /\ InHand(p)' = 0
    BY <1>1 DEF InHand
  <2> QED BY <1>5, <2>1 DEF PktInv, Once
<1>7. ASSUME NEW p \in Nat, p = nsent + 1 PROVE Once(p)'
  <2>1. Count(p, sendQueue) = 0 /\ Count(p, loaded) = 0
    BY <1>1, <1>3, <1>7, CountNew
  <2>2. InHand(p)' = 1
    BY <1>7 DEF InHand
  <2> QED BY <1>5, <2>1, <2>2 DEF Once
<1>8. \A p \in 1 .. nsent' : p \in 1 .. nsent \/ (p \in Nat /\ p = nsent + 1)
  BY <1>1
<1> QED BY <1>4, <1>6, <1>7, <1>8

(***************************************************************************)
(* neSend itself: to the queue, or to the transmit buffer.                 *)
(***************************************************************************)
LEMMA PktSend ==
  ASSUME PktInv, neSend
  PROVE  Packets' /\ \A p \in 1 .. nsent' : Once(p)'
<1> USE DEF chip, cpu, ghost
<1>0. /\ nsent \in Nat /\ sendQueue \in Seq(1 .. nsent) /\ loaded \in Seq(1 .. nsent)
      /\ send.pkt \in 0 .. nsent /\ send \in [pkt : Nat, at : SendAt]
      /\ send.at # "none" <=> send.pkt # 0
      /\ Waiting \in Seq(1 .. nsent)
  BY WaitingType DEF PktInv, Packets, Ctl
<1>1. CASE SendTest
  <2>1. send'.pkt = send.pkt /\ send'.at \in {"queue", "copy"} /\ send.at = "test"
    BY <1>0, <1>1 DEF SendTest
  <2>2. Packets'
    BY <1>1, <2>1 DEF SendTest, PktInv, Packets
  <2>3. Waiting' = Waiting /\ \A p : InHand(p)' = InHand(p)
    BY <1>1, <2>1 DEF SendTest, Waiting, InHand
  <2> QED BY <1>1, <2>2, <2>3 DEF SendTest, PktInv, Once
<1>2. CASE SendQueue
  <2>1. send.pkt \in 1 .. nsent
    BY <1>0, <1>2 DEF SendQueue
  <2>2. Append(sendQueue, send.pkt) \in Seq(1 .. nsent) /\ Append(sendQueue, send.pkt) # <<>>
    <3>1. Append(sendQueue, send.pkt) \in Seq(1 .. nsent)
      BY <1>0, <2>1, Grown
    <3>2. Len(Append(sendQueue, send.pkt)) = Len(sendQueue) + 1 /\ Len(sendQueue) \in Nat
      BY <1>0, <2>1, Grown
    <3> QED BY <3>1, <3>2
  <2>3. Packets'
    BY <1>0, <1>2, <2>2 DEF SendQueue, PktInv, Packets, NoSend
  <2>4. Waiting' = Append(Waiting, send.pkt)
    <3>1. CASE pcI = "sending"
      <4>1. sendQueue # <<>>
        BY <3>1 DEF PktInv, Packets
      <4>2. Tail(Append(sendQueue, send.pkt)) = Append(Tail(sendQueue), send.pkt)
        BY <1>0, <2>1, <4>1
      <4> QED BY <1>2, <3>1, <4>2 DEF SendQueue, Waiting
    <3>2. CASE pcI # "sending"
      BY <1>2, <3>2 DEF SendQueue, Waiting
    <3> QED BY <3>1, <3>2
  <2>5. ASSUME NEW p \in 1 .. nsent PROVE Once(p)'
    <3>1. /\ Count(p, Waiting) \in Nat
          /\ Count(p, Waiting') = Count(p, Waiting) + (IF send.pkt = p THEN 1 ELSE 0)
      BY <1>0, <2>1, <2>4, CountAppend
    <3>2. Count(p, loaded) \in Nat
      BY <1>0, <2>1, CountAppend
    <3>3. InHand(p)' = 0 /\ InHand(p) = IF send.pkt = p THEN 1 ELSE 0
      BY <1>2 DEF SendQueue, InHand, NoSend
    <3>4. Once(p)
      BY DEF PktInv
    <3> QED BY <1>2, <3>1, <3>2, <3>3, <3>4 DEF SendQueue, Once
  <2> QED BY <1>2, <2>3, <2>5 DEF SendQueue
<1>3. CASE SendCopy
  <2>1. send.pkt \in 1 .. nsent /\ send'.pkt = send.pkt /\ send'.at = "start"
    BY <1>0, <1>3 DEF SendCopy
  <2>2. Append(loaded, send.pkt) \in Seq(1 .. nsent)
    BY <1>0, <2>1, Grown
  <2>3. Packets' /\ Waiting' = Waiting
    BY <1>0, <1>3, <2>1, <2>2 DEF SendCopy, PktInv, Packets, Waiting
  <2>4. ASSUME NEW p \in 1 .. nsent PROVE Once(p)'
    <3>0. loaded' = Append(loaded, send.pkt)
      BY <1>3 DEF SendCopy
    <3>1. /\ Count(p, loaded) \in Nat
          /\ Count(p, loaded') = Count(p, loaded) + (IF send.pkt = p THEN 1 ELSE 0)
      <4>1. /\ Count(p, loaded) \in Nat
            /\ Count(p, Append(loaded, send.pkt))
                 = Count(p, loaded) + (IF send.pkt = p THEN 1 ELSE 0)
        <5>1. loaded \in Seq(1 .. nsent) /\ send.pkt \in 1 .. nsent
          BY <1>0, <2>1
        <5> QED BY <5>1, CountAppend, Zenon
      <4> QED BY <3>0, <4>1
    <3>2. Count(p, Waiting) \in Nat
      BY <1>0, <2>1, CountAppend
    <3>3. InHand(p)' = 0 /\ InHand(p) = IF send.pkt = p THEN 1 ELSE 0
      BY <1>3, <2>1 DEF SendCopy, InHand
    <3>4. Once(p)
      BY DEF PktInv
    <3> QED BY <2>3, <3>1, <3>2, <3>3, <3>4 DEF Once
  <2> QED BY <1>3, <2>3, <2>4 DEF SendCopy
<1>4. CASE SendStart
  <2>1. Packets' /\ Waiting' = Waiting
    BY <1>0, <1>4 DEF SendStart, PktInv, Packets, Waiting, NoSend
  <2>2. \A p \in 1 .. nsent : InHand(p)' = 0 /\ InHand(p) = 0
    BY <1>4 DEF SendStart, InHand, NoSend
  <2> QED BY <1>4, <2>1, <2>2 DEF SendStart, PktInv, Once
<1> QED BY <1>1, <1>2, <1>3, <1>4 DEF neSend

(***************************************************************************)
(* neISR takes the head of the queue, and deletes it when neSend is back.  *)
(***************************************************************************)
LEMMA PktIsr ==
  ASSUME PktInv, IsrSend \/ IsrDel
  PROVE  Packets' /\ \A p \in 1 .. nsent' : Once(p)'
<1> USE DEF chip, cpu, ghost
<1>0. /\ nsent \in Nat /\ sendQueue \in Seq(1 .. nsent) /\ loaded \in Seq(1 .. nsent)
      /\ send.at # "none" <=> send.pkt # 0
  BY DEF PktInv, Packets
<1>1. CASE IsrSend
  <2>1. sendQueue # <<>> /\ Head(sendQueue) \in 1 .. nsent
    BY <1>0, <1>1, Shrunk DEF IsrSend
  <2>2. send.at = "none" /\ send.pkt = 0
    BY <1>0, <1>1 DEF IsrSend, PktInv, Ctl
  <2>3. Packets'
    BY <1>0, <1>1, <2>1 DEF IsrSend, PktInv, Packets
  <2>4. Waiting = sendQueue /\ Waiting' = Tail(sendQueue)
    BY <1>1 DEF IsrSend, Waiting
  <2>5. ASSUME NEW p \in 1 .. nsent PROVE Once(p)'
    <3>1. /\ Count(p, Tail(sendQueue)) \in Nat
          /\ Count(p, sendQueue) = Count(p, Tail(sendQueue))
                                     + (IF Head(sendQueue) = p THEN 1 ELSE 0)
      BY <1>0, <2>1, CountTail
    <3>2. Count(p, loaded) \in Nat
      BY <1>0, <2>1, CountAppend
    <3>3. InHand(p) = 0 /\ InHand(p)' = IF Head(sendQueue) = p THEN 1 ELSE 0
      BY <1>1, <2>2 DEF IsrSend, InHand
    <3>4. Once(p)
      BY DEF PktInv
    <3> QED BY <1>1, <2>4, <3>1, <3>2, <3>3, <3>4 DEF IsrSend, Once
  <2> QED BY <1>1, <2>3, <2>5 DEF IsrSend
<1>2. CASE IsrDel
  <2>1. sendQueue # <<>> /\ Tail(sendQueue) \in Seq(1 .. nsent)
    BY <1>0, <1>2, Shrunk DEF IsrDel, PktInv, Packets
  <2>2. Packets' /\ Waiting' = Waiting
    BY <1>2, <2>1 DEF IsrDel, PktInv, Packets, Waiting
  <2>3. \A p : InHand(p)' = InHand(p)
    BY <1>2 DEF IsrDel, InHand
  <2> QED BY <1>2, <2>2, <2>3 DEF IsrDel, PktInv, Once
<1> QED BY <1>1, <1>2

\* The steps of the handler that touch no packet.
QuietIsr ==
    \/ IsrRead \/ neRecv \/ IsrDeliver \/ IsrReplied \/ IsrNothingQueued
    \/ IsrAck \/ IsrMask \/ IsrEoi \/ IsrUnmask \/ IsrExit

(***************************************************************************)
(* They leave the packets alone and do not begin or end a resend.          *)
(***************************************************************************)
LEMMA QuietSteps ==
  ASSUME Chip \/ Interrupt \/ QuietIsr \/ UNCHANGED vars, Ctl
  PROVE  UNCHANGED pkts /\ (pcI = "sending" <=> pcI' = "sending")
<1> USE DEF pkts, chip, cpu, drv, ghost
<1>1. CASE Chip
  BY <1>1 DEF Chip, RxStore, RxOverflow, TxDone
<1>2. CASE Interrupt
  BY <1>2 DEF Interrupt, Ctl
<1>3. CASE IsrRead
  BY <1>3 DEF IsrRead
<1>4. CASE neRecv
  BY <1>4 DEF neRecv, RecvHead, RecvResetCurr, RecvResetBnry, RecvCopy, RecvAdvance
<1>5. CASE IsrDeliver \/ IsrReplied \/ IsrNothingQueued
  BY <1>5 DEF IsrDeliver, IsrReplied, IsrNothingQueued
<1>6. CASE IsrAck \/ IsrMask \/ IsrEoi \/ IsrUnmask \/ IsrExit
  BY <1>6 DEF IsrAck, IsrMask, IsrEoi, IsrUnmask, IsrExit
<1>7. CASE UNCHANGED vars
  BY <1>7 DEF vars
<1> QED BY <1>1, <1>2, <1>3, <1>4, <1>5, <1>6, <1>7 DEF QuietIsr

(***************************************************************************)
(* PktInv is inductive.                                                    *)
(***************************************************************************)
LEMMA PktStep == ASSUME PktInv, [Next]_vars PROVE PktInv'
<1>1. Ctl'
  <2>1. Ctl /\ nsent \in Nat /\ sendQueue \in Seq(Nat)
    <3>1. nsent \in Nat /\ sendQueue \in Seq(1 .. nsent) /\ Seq(1 .. nsent) \subseteq Seq(Nat)
      BY DEF PktInv, Packets
    <3> QED BY <3>1 DEF PktInv
  <2>2. CASE UNCHANGED vars
    BY <2>1, <2>2 DEF Ctl, vars, chip, cpu, drv
  <2> QED BY <2>1, <2>2, CtlChip, CtlSend, CtlIsr DEF Next
<1>2. Packets' /\ \A p \in 1 .. nsent' : Once(p)'
  <2>0. Ctl
    BY DEF PktInv
  <2>1. CASE Chip \/ Interrupt \/ QuietIsr \/ UNCHANGED vars
    BY <2>0, <2>1, QuietSteps, PktSame
  <2>2. CASE MainSend
    BY <2>2, PktNew DEF MainSend
  <2>3. CASE IsrReply
    <3>1. send.at = "none"
      BY <2>0, <2>3 DEF IsrReply, Ctl
    <3> QED BY <2>3, <3>1, PktNew DEF IsrReply
  <2> QED BY <2>1, <2>2, <2>3, PktSend, PktIsr DEF Next, neISR, QuietIsr
<1> QED BY <1>1, <1>2 DEF PktInv

-----------------------------------------------------------------------------
(***************************************************************************)
(* Why the queue goes on: unless a completion was hidden, packets that     *)
(* wait have a transmission running or a PTX that neISR has not dealt with *)
(* yet.                                                                    *)
(***************************************************************************)
GoesOn ==
    IF "PTX" \in st
    THEN pcI = "ptx" \/ (pcI = "sending" /\ send.at \in {"test", "copy", "start"}) \/ txp
    ELSE txp \/ "PTX" \in isr

TxInv == (hidden = {} /\ (sendQueue # <<>> \/ send.at = "queue")) => GoesOn

(***************************************************************************)
(* The chip and neSend keep TxInv.                                         *)
(***************************************************************************)
LEMMA TxChip == ASSUME Ctl, TxInv, Chip PROVE TxInv'
<1> USE DEF TxInv, GoesOn, SetIsr, drv, ghost, Claimed, Ctl
<1>1. CASE \E k \in 1 .. 2, bad \in BOOLEAN : RxStore(k, bad)
  BY <1>1 DEF RxStore
<1>2. CASE RxOverflow
  BY <1>2 DEF RxOverflow
<1>3. CASE TxDone("PTX") \/ TxDone("TXE")
  BY <1>3 DEF TxDone
<1> QED BY <1>1, <1>2, <1>3 DEF Chip

(***************************************************************************)
(* neSend queues a packet only behind a running transmission.              *)
(***************************************************************************)
LEMMA TxSend == ASSUME Ctl, TxInv, MainSend \/ neSend PROVE TxInv'
<1> USE DEF TxInv, GoesOn, chip, cpu, ghost, Ctl, NoSend
<1>1. CASE MainSend
  BY <1>1 DEF MainSend
<1>2. CASE SendTest
  BY <1>2 DEF SendTest, Is26
<1>3. CASE SendQueue
  BY <1>3 DEF SendQueue
<1>4. CASE SendCopy
  BY <1>4 DEF SendCopy
<1>5. CASE SendStart
  BY <1>5 DEF SendStart
<1> QED BY <1>1, <1>2, <1>3, <1>4, <1>5 DEF neSend

(***************************************************************************)
(* neISR keeps TxInv: PTX read alone leads to a neSend if something waits. *)
(***************************************************************************)
LEMMA TxIsr ==
  ASSUME Ctl, TxInv, pcI = "sending" => sendQueue # <<>>, Interrupt \/ neISR
  PROVE  TxInv'
<1> USE DEF TxInv, GoesOn, chip, cpu, ghost, Ctl
<1>1. CASE Interrupt
  BY <1>1 DEF Interrupt
<1>2. CASE IsrRead
  BY <1>2 DEF IsrRead
<1>3. CASE neRecv
  BY <1>3 DEF neRecv, RecvHead, RecvResetCurr, RecvResetBnry, RecvCopy, RecvAdvance
<1>4. CASE IsrDeliver \/ IsrReply \/ IsrReplied \/ IsrNothingQueued
  BY <1>4 DEF IsrDeliver, IsrReply, IsrReplied, IsrNothingQueued
<1>5. CASE IsrSend
  BY <1>5 DEF IsrSend
<1>6. CASE IsrDel
  BY <1>6 DEF IsrDel
<1>7. CASE IsrAck
  BY <1>7 DEF IsrAck, neSetIntState, SetIsr
<1>8. CASE IsrMask \/ IsrUnmask
  <2>1. UNCHANGED <<hidden, sendQueue, send, st, txp, isr>> /\ pcI \notin {"ptx", "sending"}
    BY <1>8 DEF IsrMask, IsrUnmask, neSetIntMask
  <2> QED BY <2>1
<1>9. CASE IsrEoi
  BY <1>9 DEF IsrEoi
<1>10. CASE IsrExit
  BY <1>10 DEF IsrExit, neSetIntState, SetIsr
<1> QED BY <1>1, <1>2, <1>3, <1>4, <1>5, <1>6, <1>7, <1>8, <1>9, <1>10 DEF neISR

-----------------------------------------------------------------------------
(***************************************************************************)
(* The inductive invariant of the driver's control and of its queue.       *)
(***************************************************************************)
LEMMA SendInv == Spec => [](PktInv /\ TxInv)
<1>1. Init => PktInv /\ TxInv
  <2>1. Init => TxInv
    BY DEF Init, TxInv, NoSend
  <2> QED BY <2>1, PktInit
<1>2. PktInv /\ TxInv /\ [Next]_vars => (PktInv /\ TxInv)'
  <2> SUFFICES ASSUME PktInv, TxInv, [Next]_vars PROVE PktInv' /\ TxInv'
    OBVIOUS
  <2>1. Ctl /\ (pcI = "sending" => sendQueue # <<>>)
    BY DEF PktInv, Packets
  <2>2. CASE UNCHANGED vars
    BY <2>2, PktStep DEF TxInv, GoesOn, vars, chip, cpu, drv, ghost
  <2> QED BY <2>1, <2>2, PktStep, TxChip, TxSend, TxIsr DEF Next
<1> QED BY <1>1, <1>2, PTL DEF Spec

(***************************************************************************)
(* Every packet handed to neSend is copied into the transmit buffer once   *)
(* or is in the queue once, for any number of packets and any interleaving *)
(* with the handler.                                                       *)
(***************************************************************************)
THEOREM PacketsAreLoadedOnce == Spec => []LoadedOnce
<1>1. PktInv => LoadedOnce
  BY OnceForm DEF PktInv
<1> QED BY <1>1, SendInv, PTL

(***************************************************************************)
(* The edge-triggered controller misses no edge: outside the handler a     *)
(* pending status bit has its request latched.                             *)
(***************************************************************************)
THEOREM EdgesAreLatched == Spec => []NoLostEdge
<1>1. PktInv => NoLostEdge
  BY DEF PktInv, Ctl, NoLostEdge
<1> QED BY <1>1, SendInv, PTL

(***************************************************************************)
(* The queue stands still only when a completion was hidden from neISR.    *)
(***************************************************************************)
THEOREM QueueGoesOn == Spec => []TxWaitsOnlyIfHidden
<1>1. PktInv /\ TxInv => TxWaitsOnlyIfHidden
  BY DEF PktInv, Ctl, TxInv, GoesOn, TxWaitsOnlyIfHidden
<1> QED BY <1>1, SendInv, PTL

(***************************************************************************)
(* neISR is entered only when no handler and no neSend is running, though  *)
(* it runs with interrupts enabled.                                        *)
(***************************************************************************)
THEOREM HandlerIsNotReentered == Spec => NoReentry
<1> DEFINE Enters == pcI' = "read" /\ pcI # "read"
           Outside == pcI = "none" /\ send.at = "none"
<1>1. ASSUME Ctl, [Next]_vars, Enters PROVE Outside
  <2> USE DEF Ctl, chip, cpu, drv, ghost
  <2>1. CASE Interrupt
    BY <1>1, <2>1 DEF Interrupt
  <2>2. CASE Chip
    BY <1>1, <2>2 DEF Chip, RxStore, RxOverflow, TxDone
  <2>3. CASE MainSend \/ neSend
    BY <1>1, <2>3 DEF MainSend, neSend, SendTest, SendQueue, SendCopy, SendStart
  <2>4. CASE neRecv
    BY <1>1, <2>4 DEF neRecv, RecvHead, RecvResetCurr, RecvResetBnry, RecvCopy, RecvAdvance
  <2>5. CASE IsrRead
    BY <1>1, <2>5 DEF IsrRead
  <2>6. CASE IsrDeliver \/ IsrReply \/ IsrReplied \/ IsrSend \/ IsrNothingQueued \/ IsrDel
    BY <1>1, <2>6 DEF IsrDeliver, IsrReply, IsrReplied, IsrSend, IsrNothingQueued, IsrDel
  <2>7. CASE IsrAck \/ IsrMask \/ IsrEoi \/ IsrUnmask \/ IsrExit
    BY <1>1, <2>7 DEF IsrAck, IsrMask, IsrEoi, IsrUnmask, IsrExit
  <2>8. CASE UNCHANGED vars
    BY <1>1, <2>8 DEF vars
  <2> QED BY <1>1, <2>1, <2>2, <2>3, <2>4, <2>5, <2>6, <2>7, <2>8 DEF Next, neISR
<1>2. PktInv /\ [Next]_vars => [Enters => Outside]_vars
  BY <1>1 DEF PktInv
<1>3. Spec => [][Enters => Outside]_vars
  BY <1>2, SendInv, PTL DEF Spec
<1> QED BY <1>3 DEF NoReentry

-----------------------------------------------------------------------------
(***************************************************************************)
(* The receive ring, for every size of the ring and any number of frames   *)
(* and damaged headers.                                                    *)
(***************************************************************************)

\* The page of the oldest frame: a reset has put CURR back before the boundary.
Front == IF pcI = "reset2" THEN PSTART ELSE Bound

\* How far page p lies behind page f, going round the ring.
Off(f, p) == IF p >= f THEN p - f ELSE p - f + N

Frame == [pkt : Nat, next : Ring \cup {0}, bad : BOOLEAN]

(***************************************************************************)
(* The two registers.  BNRY is never the ring's last page, and outside     *)
(* a reset never CURR, which is what the chip's count of free pages needs. *)
(***************************************************************************)
Registers ==
    /\ bnry \in (PSTART - 1 .. PSTOP - 2) \cup {PSTOP}
    /\ curr \in Ring
    /\ IF pcI = "reset2" THEN curr < bnry \/ bnry <= PSTART
                         ELSE bnry # PSTOP => curr # bnry

Stored ==
    /\ ring \in [Ring -> Frame]
    /\ nrecv \in 0 .. MaxRecv
    /\ \A q \in Ring : ring[q].pkt <= nrecv
    /\ buf \in 0 .. nrecv
    /\ got \in Seq(Nat) /\ arrived \in Seq(Nat)

\* What neRecv has read is still what the ring holds.
Reading ==
    /\ pcI \in {"copy", "advance"} => hd.bound = Bound /\ hd.next = ring[Bound].next
    /\ pcI = "advance" => buf = ring[Bound].pkt

\* c[0], ..., c[n]: the pages where frames start, from Front to CURR.
Walk(n, c) ==
    /\ c[0] = Front /\ c[n] = curr
    /\ \A i \in 0 .. n - 1 : ring[c[i]].next = c[i + 1]
    /\ \A i, j \in 0 .. n : i < j => Off(Front, c[i]) < Off(Front, c[j])

InEth == IF pcI = "eth" THEN 1 ELSE 0

\* What arrived: what was passed up, what neRecv returned, the n frames at c.
Holds(n, c) ==
    /\ Len(arrived) = Len(got) + InEth + n
    /\ \A i \in 1 .. Len(got) : arrived[i] = got[i]
    /\ InEth = 1 => arrived[Len(got) + 1] = buf
    /\ \A i \in 1 .. n : arrived[Len(got) + InEth + i] = ring[c[i - 1]].pkt

Walked == \E n \in Nat : \E c \in [0 .. n -> Ring] : Walk(n, c) /\ Holds(n, c)

-----------------------------------------------------------------------------
\* Where neISR is while it deals with a frame, and while the frame is in the ring.
AtFrame == {"recv", "reset", "reset2", "copy", "advance", "eth", "replying"}
Unread  == {"recv", "reset", "copy", "advance"}

(***************************************************************************)
(* PRX, unless it is the bit of the frame neISR is dealing with, stands    *)
(* for a frame in the ring.                                                *)
(***************************************************************************)
PrxStands ==
    /\ pcI \in AtFrame => "PRX" \in st
    /\ pcI \in Unread => Front # curr
    /\ "PRX" \in isr /\ ~("PRX" \in st /\ pcI \in AtFrame \cup {"ack"}) => Front # curr

\* A frame that neISR is reading, or is still going to see PRX for.
Due == IF pcI \in Unread \/ ("PRX" \in isr /\ "PRX" \notin st) THEN 1 ELSE 0

\* Every other frame in the ring had no PRX of its own.
Backlog == behind \in Nat /\ Len(arrived) = Len(got) + InEth + behind + Due

RingInv == Registers /\ Stored /\ Reading /\ Walked /\ PrxStands /\ Backlog

-----------------------------------------------------------------------------
(***************************************************************************)
(* Arithmetic of the ring.  A page has one distance from another.          *)
(***************************************************************************)
LEMMA OffFacts ==
  ASSUME NEW f \in Ring, NEW p \in Ring
  PROVE  /\ Off(f, p) \in 0 .. N - 1 /\ N \in Nat /\ N >= 3
         /\ Off(f, f) = 0
         /\ \A q \in Ring : Off(f, p) = Off(f, q) => p = q
  BY Ne2kAssumption DEF Off, Ring, N

(***************************************************************************)
(* Going on k pages with the chip's wrap adds k to the distance.           *)
(***************************************************************************)
LEMMA OffWrap ==
  ASSUME NEW f \in Ring, NEW p \in Ring, NEW k \in 0 .. 2, Off(f, p) + k < N
  PROVE  Wrap(p + k) \in Ring /\ Off(f, Wrap(p + k)) = Off(f, p) + k
  BY Ne2kAssumption DEF Off, Ring, N, Wrap

(***************************************************************************)
(* Distances from a page further on.                                       *)
(***************************************************************************)
LEMMA Rebase ==
  ASSUME NEW f \in Ring, NEW g \in Ring, NEW p \in Ring, Off(f, g) <= Off(f, p)
  PROVE  Off(g, p) = Off(f, p) - Off(f, g)
  BY Ne2kAssumption DEF Off, Ring, N

(***************************************************************************)
(* neRecv reads at a page of the ring.                                     *)
(***************************************************************************)
LEMMA FrontInRing == ASSUME Registers PROVE Front \in Ring /\ Bound \in Ring
  BY Ne2kAssumption DEF Registers, Front, Bound, Ring

(***************************************************************************)
(* The chip's count of free pages, also during a reset: a frame it stores  *)
(* ends before the oldest one begins, and the registers stay apart.        *)
(***************************************************************************)
LEMMA Fits ==
  ASSUME Registers, NEW k \in 1 .. 2, Avail > k
  PROVE  /\ Off(Front, curr) + k < N
         /\ IF pcI = "reset2" THEN Wrap(curr + k) < bnry \/ bnry <= PSTART
                              ELSE bnry # PSTOP => Wrap(curr + k) # bnry
<1>1. CASE pcI = "reset2"
  BY <1>1, Ne2kAssumption DEF Registers, Front, Bound, Ring, Off, N, Avail, Wrap
<1>2. CASE pcI # "reset2"
  BY <1>2, Ne2kAssumption DEF Registers, Front, Bound, Ring, Off, N, Avail, Wrap
<1> QED BY <1>1, <1>2

-----------------------------------------------------------------------------
\* Where the frames are: the part of RingInv that speaks of no status bit.
Frames == Registers /\ Stored /\ Reading /\ Walked

rx == <<bnry, curr, ring, buf, hd, arrived, got, nrecv>>

\* Where neISR is when the frames are not as at other times.
Midway == {"reset2", "copy", "advance", "eth"}

(***************************************************************************)
(* A step that touches neither the ring nor neRecv's variables.            *)
(***************************************************************************)
LEMMA FramesSame ==
  ASSUME Frames, UNCHANGED rx, pcI' = pcI \/ (pcI \notin Midway /\ pcI' \notin Midway)
  PROVE  Frames' /\ UNCHANGED <<Front, ring, curr>>
<1> USE DEF rx, Midway
<1>1. Front' = Front /\ Bound' = Bound /\ InEth' = InEth
  BY DEF Front, Bound, InEth
<1>2. Registers' /\ Stored'
  BY DEF Frames, Registers, Stored
<1>3. Reading'
  BY <1>1 DEF Frames, Reading
<1>4. Walked'
  <2>0. PICK n \in Nat : \E c \in [0 .. n -> Ring] : Walk(n, c) /\ Holds(n, c)
    BY DEF Frames, Walked
  <2>1. PICK c \in [0 .. n -> Ring] : Walk(n, c) /\ Holds(n, c)
    BY <2>0
  <2>2. Walk(n, c)' /\ Holds(n, c)'
    BY <1>1, <2>1 DEF Walk, Holds
  <2> QED BY <2>2 DEF Walked
<1> QED BY <1>1, <1>2, <1>3, <1>4 DEF Frames

(***************************************************************************)
(* Every other step of the driver is one.                                  *)
(***************************************************************************)
LEMMA FramesQuiet ==
  ASSUME Frames, Ctl,
         \/ RxOverflow \/ TxDone("PTX") \/ TxDone("TXE") \/ MainSend \/ neSend \/ Interrupt
         \/ IsrRead \/ IsrReplied \/ IsrSend \/ IsrNothingQueued \/ IsrDel
         \/ IsrAck \/ IsrMask \/ IsrEoi \/ IsrUnmask \/ IsrExit \/ UNCHANGED vars
  PROVE  Frames' /\ UNCHANGED <<Front, ring, curr>>
<1> USE DEF rx, chip, cpu, drv, ghost, Midway
<1>1. CASE RxOverflow \/ TxDone("PTX") \/ TxDone("TXE")
  <2>1. UNCHANGED rx /\ pcI' = pcI
    BY <1>1 DEF RxOverflow, TxDone
  <2> QED BY <2>1, FramesSame
<1>2. CASE MainSend \/ neSend
  <2>1. UNCHANGED rx /\ pcI' = pcI
    BY <1>2 DEF MainSend, neSend, SendTest, SendQueue, SendCopy, SendStart
  <2> QED BY <2>1, FramesSame
<1>3. CASE Interrupt
  <2>1. UNCHANGED rx /\ pcI \notin Midway /\ pcI' \notin Midway
    BY <1>3 DEF Interrupt, Ctl
  <2> QED BY <2>1, FramesSame
<1>4. CASE IsrRead \/ IsrReplied \/ IsrSend \/ IsrNothingQueued \/ IsrDel
  <2>1. UNCHANGED rx /\ pcI \notin Midway /\ pcI' \notin Midway
    BY <1>4 DEF IsrRead, IsrReplied, IsrSend, IsrNothingQueued, IsrDel
  <2> QED BY <2>1, FramesSame
<1>5. CASE IsrAck \/ IsrMask \/ IsrEoi \/ IsrUnmask \/ IsrExit
  <2>1. UNCHANGED rx /\ pcI \notin Midway /\ pcI' \notin Midway
    BY <1>5 DEF IsrAck, IsrMask, IsrEoi, IsrUnmask, IsrExit
  <2> QED BY <2>1, FramesSame
<1>6. CASE UNCHANGED vars
  <2>1. UNCHANGED rx /\ pcI' = pcI
    BY <1>6 DEF vars
  <2> QED BY <2>1, FramesSame
<1> QED BY <1>1, <1>2, <1>3, <1>4, <1>5, <1>6

(***************************************************************************)
(* The chip stores a frame behind the others, whatever neRecv is doing,    *)
(* and writes no page that holds one.                                      *)
(***************************************************************************)
LEMMA FramesStore ==
  ASSUME Frames, pcI \in Unread => Front # curr,
         NEW k \in 1 .. 2, NEW bad \in BOOLEAN, RxStore(k, bad)
  PROVE  /\ Frames' /\ Front' = Front /\ Front' # curr'
         /\ Front = curr => ring'[Front].next = curr'
<1> DEFINE p == nrecv + 1
           next == Wrap(curr + k)
           new == [pkt |-> p, next |-> next, bad |-> bad]
           body == [pkt |-> p, next |-> 0, bad |-> FALSE]
           pages == {Wrap(curr + i) : i \in 0 .. k - 1}
<1>1. /\ nrecv < MaxRecv /\ Avail > k
      /\ ring' = [q \in Ring |-> IF q = curr THEN new ELSE IF q \in pages THEN body ELSE ring[q]]
      /\ arrived' = Append(arrived, p) /\ nrecv' = p /\ curr' = next
      /\ UNCHANGED <<bnry, pcI, hd, buf, got>>
  BY DEF RxStore, drv
<1>2. Registers /\ Stored /\ Reading
  BY DEF Frames
<1>3. Front \in Ring /\ Bound \in Ring /\ curr \in Ring
  BY <1>2, FrontInRing DEF Registers
<1>4. Off(Front, curr) + k < N
  BY <1>1, <1>2, Fits
<1>5. next \in Ring /\ Off(Front, next) = Off(Front, curr) + k
  BY <1>3, <1>4, OffWrap
<1>6. Front' = Front /\ Bound' = Bound /\ InEth' = InEth
  BY <1>1 DEF Front, Bound, InEth
<1>7. ASSUME NEW q \in pages PROVE Off(Front, q) >= Off(Front, curr)
  <2>1. PICK i \in 0 .. k - 1 : q = Wrap(curr + i)
    OBVIOUS
  <2>2. i \in 0 .. 2 /\ Off(Front, curr) + i < N /\ Off(Front, curr) \in Nat
    BY <1>3, <1>4, OffFacts
  <2> QED BY <1>3, <2>1, <2>2, OffWrap
<1> HIDE DEF pages
<1>8. ASSUME NEW q \in Ring, Off(Front, q) < Off(Front, curr) PROVE ring'[q] = ring[q]
  <2>1. q # curr /\ q \notin pages
    BY <1>3, <1>7, <1>8, OffFacts
  <2> QED BY <1>1, <2>1
<1>9. p \in Nat /\ p <= MaxRecv /\ nrecv \in Nat
  BY <1>1, <1>2, Ne2kAssumption DEF Stored
<1>10. Registers'
  <2>1. IF pcI = "reset2" THEN next < bnry \/ bnry <= PSTART
                          ELSE bnry # PSTOP => next # bnry
    BY <1>1, <1>2, Fits
  <2> HIDE DEF next
  <2> QED BY <1>1, <1>2, <1>5, <2>1 DEF Registers
<1>11. Stored'
  <2>1. new \in Frame /\ body \in Frame
    BY <1>5, <1>9 DEF Frame
  <2>2. ring' \in [Ring -> Frame] /\ \A q \in Ring : ring'[q].pkt <= p
    <3>0. ring \in [Ring -> Frame] /\ \A q \in Ring : ring[q].pkt <= nrecv /\ ring[q].pkt \in Nat
      BY <1>2 DEF Stored, Frame
    <3>1. ASSUME NEW q \in Ring PROVE ring'[q] \in Frame /\ ring'[q].pkt <= p
      <4>1. ring'[q] = new \/ ring'[q] = body \/ ring'[q] = ring[q]
        BY <1>1
      <4>2. new.pkt = p /\ body.pkt = p
        OBVIOUS
      <4> HIDE DEF new, body
      <4> QED BY <1>9, <2>1, <3>0, <4>1, <4>2
    <3> QED BY <1>1, <3>1
  <2>3. Append(arrived, p) \in Seq(Nat)
    BY <1>2, <1>9, Grown DEF Stored
  <2>4. p \in 0 .. MaxRecv /\ buf \in 0 .. p /\ got \in Seq(Nat)
    BY <1>2, <1>9, Ne2kAssumption DEF Stored
  <2> HIDE DEF p
  <2> QED BY <1>1, <2>2, <2>3, <2>4 DEF Stored
<1>0. PICK n \in Nat : \E c \in [0 .. n -> Ring] : Walk(n, c) /\ Holds(n, c)
  BY DEF Frames, Walked
<1>12. PICK c \in [0 .. n -> Ring] : Walk(n, c) /\ Holds(n, c)
  BY <1>0
<1> HIDE DEF next, new, body
<1>13. PICK d \in [0 .. n + 1 -> Ring] : d[n + 1] = next /\ \A i \in 0 .. n : d[i] = c[i]
  <2> DEFINE e == [i \in 0 .. n + 1 |-> IF i <= n THEN c[i] ELSE next]
  <2>1. e \in [0 .. n + 1 -> Ring] /\ e[n + 1] = next /\ \A i \in 0 .. n : e[i] = c[i]
    BY <1>5
  <2> QED BY <2>1
<1>14. c[0] = Front /\ c[n] = curr /\ \A i \in 0 .. n : c[i] \in Ring
  BY <1>12 DEF Walk
<1>15. \A i \in 0 .. n : Off(Front, c[i]) < Off(Front, curr) \/ (i = n /\ c[i] = curr)
  BY <1>12 DEF Walk
<1>16. \A i \in 0 .. n - 1 : ring'[c[i]] = ring[c[i]]
  <2>1. \A i \in 0 .. n - 1 : i \in 0 .. n /\ i # n
    OBVIOUS
  <2> QED BY <1>8, <1>14, <1>15, <2>1
<1>17. ring'[curr].next = next /\ ring'[curr].pkt = p
  BY <1>1, <1>3 DEF new
<1>18. Walk(n + 1, d)'
  <2>1. d[0] = Front' /\ d[n + 1] = curr'
    BY <1>1, <1>6, <1>13, <1>14
  <2>2. ASSUME NEW i \in 0 .. n PROVE ring'[d[i]].next = d[i + 1]
    <3>1. CASE i = n
      BY <1>13, <1>14, <1>17, <3>1
    <3>2. CASE i \in 0 .. n - 1
      BY <1>12, <1>13, <1>16, <3>2 DEF Walk
    <3> QED BY <3>1, <3>2
  <2>3. ASSUME NEW i \in 0 .. n + 1, NEW j \in 0 .. n + 1, i < j
        PROVE  Off(Front, d[i]) < Off(Front, d[j])
    <3>1. CASE j \in 0 .. n
      BY <1>12, <1>13, <2>3, <3>1 DEF Walk
    <3>2. CASE j = n + 1
      <4>1. i \in 0 .. n /\ d[j] = next /\ d[i] = c[i]
        BY <1>13, <2>3, <3>2
      <4>2. Off(Front, c[i]) \in Nat /\ Off(Front, curr) \in Nat
        BY <1>3, <1>14, <4>1, OffFacts
      <4>3. Off(Front, c[i]) < Off(Front, curr) \/ c[i] = curr
        BY <1>15, <4>1
      <4> QED BY <1>5, <4>1, <4>2, <4>3
    <3> QED BY <2>3, <3>1, <3>2
  <2>4. (n + 1) - 1 = n
    OBVIOUS
  <2> QED BY <1>6, <2>1, <2>2, <2>3, <2>4 DEF Walk
<1>19. Holds(n + 1, d)'
  <2>1. /\ Len(arrived) \in Nat /\ Len(arrived') = Len(arrived) + 1
        /\ arrived'[Len(arrived) + 1] = p
        /\ \A i \in 1 .. Len(arrived) : arrived'[i] = arrived[i]
    <3>1. arrived \in Seq(Nat)
      BY <1>2 DEF Stored
    <3> QED BY <1>1, <1>9, <3>1, Grown
  <2>2. Len(got) \in Nat /\ InEth \in 0 .. 1
    BY <1>2, LenProperties DEF Stored, InEth
  <2>3. Len(arrived) = Len(got) + InEth + n
    BY <1>12 DEF Holds
  <2>4. \A i \in 1 .. Len(got) : arrived'[i] = got[i]
    BY <1>12, <2>1, <2>2, <2>3 DEF Holds
  <2>5. InEth = 1 => arrived'[Len(got) + 1] = buf
    BY <1>12, <2>1, <2>2, <2>3 DEF Holds
  <2>6. ASSUME NEW i \in 1 .. n + 1 PROVE arrived'[Len(got) + InEth + i] = ring'[d[i - 1]].pkt
    <3>1. CASE i = n + 1
      <4>1. d[i - 1] = curr /\ Len(got) + InEth + i = Len(arrived) + 1
        BY <1>13, <1>14, <2>2, <2>3, <3>1
      <4> QED BY <1>17, <2>1, <4>1
    <3>2. CASE i \in 1 .. n
      <4>1. d[i - 1] = c[i - 1] /\ ring'[c[i - 1]] = ring[c[i - 1]]
        BY <1>13, <1>16, <3>2
      <4>2. Len(got) + InEth + i \in 1 .. Len(arrived)
        BY <2>2, <2>3, <3>2
      <4> QED BY <1>12, <2>1, <3>2, <4>1, <4>2 DEF Holds
    <3> QED BY <3>1, <3>2
  <2>7. Len(arrived') = Len(got) + InEth + (n + 1)
    BY <2>1, <2>2, <2>3
  <2> QED BY <1>1, <1>6, <2>4, <2>5, <2>6, <2>7 DEF Holds
<1>20. Walked'
  <2>1. n + 1 \in Nat
    OBVIOUS
  <2> QED BY <2>1, <1>18, <1>19 DEF Walked
<1>21. Front # next
  <2>1. Off(Front, curr) \in Nat /\ Off(Front, Front) = 0
    BY <1>3, OffFacts
  <2> QED BY <1>5, <2>1
<1>22. Reading'
  <2>1. SUFFICES ASSUME pcI \in {"copy", "advance"} PROVE ring'[Bound] = ring[Bound]
    BY <1>1, <1>2, <1>6 DEF Reading
  <2>2. Front = Bound
    BY <2>1 DEF Front
  <2>3. Bound # curr
    BY <2>1, <2>2 DEF Unread
  <2>4. Off(Front, Bound) < Off(Front, curr)
    BY <1>3, <2>2, <2>3, OffFacts
  <2> QED BY <1>3, <1>8, <2>4
<1> QED BY <1>1, <1>6, <1>10, <1>11, <1>17, <1>20, <1>21, <1>22 DEF Frames

(***************************************************************************)
(* neRecv moves the boundary behind the frame it has read: the others stay *)
(* where they are, and BNRY, one page behind the next, is not CURR.        *)
(***************************************************************************)
LEMMA FramesAdvance ==
  ASSUME Frames, Front # curr, RecvAdvance
  PROVE  Frames' /\ Front' = ring[Front].next /\ UNCHANGED <<ring, curr>>
<1>1. /\ pcI = "advance" /\ pcI' = "eth" /\ bnry' = hd.next - 1
      /\ UNCHANGED <<curr, ring, buf, arrived, got, nrecv>>
  BY DEF RecvAdvance, ghost
<1>2. Registers /\ Stored /\ Reading
  BY DEF Frames
<1>3. Front = Bound /\ hd.next = ring[Front].next /\ buf = ring[Front].pkt
  BY <1>1, <1>2 DEF Front, Reading
<1>4. Front \in Ring /\ curr \in Ring
  BY <1>2, FrontInRing DEF Registers
<1>5. PICK n \in Nat : \E c \in [0 .. n -> Ring] : Walk(n, c) /\ Holds(n, c)
  BY DEF Frames, Walked
<1>6. PICK c \in [0 .. n -> Ring] : Walk(n, c) /\ Holds(n, c)
  BY <1>5
<1>7. n - 1 \in Nat /\ c[0] = Front /\ c[n] = curr
  BY <1>6 DEF Walk
<1>8. c[1] \in Ring /\ hd.next = c[1]
  <2>1. 0 \in 0 .. n - 1 /\ 1 \in 0 .. n /\ 0 + 1 = 1
    BY <1>7
  <2> QED BY <1>3, <1>6, <1>7, <2>1 DEF Walk
<1>9. Front' = c[1] /\ Bound' = c[1] /\ InEth' = 1 /\ InEth = 0
  BY <1>1, <1>8, Ne2kAssumption DEF Front, Bound, Ring, InEth
<1>10. Off(Front, c[1]) > 0 /\ \A i \in 1 .. n : Off(Front, c[1]) <= Off(Front, c[i])
  <2>1. Off(Front, c[0]) < Off(Front, c[1])
    BY <1>6, <1>7 DEF Walk
  <2>2. \A i \in 2 .. n : Off(Front, c[1]) < Off(Front, c[i])
    BY <1>6, <1>7 DEF Walk
  <2>3. \A i \in 0 .. n : c[i] \in Ring /\ Off(Front, c[i]) \in Nat
    BY <1>4, OffFacts
  <2>4. ASSUME NEW i \in 1 .. n PROVE Off(Front, c[1]) <= Off(Front, c[i])
    <3>1. i = 1 \/ i \in 2 .. n
      OBVIOUS
    <3>2. Off(Front, c[1]) \in Nat /\ Off(Front, c[i]) \in Nat
      BY <1>7, <2>3
    <3> QED BY <2>2, <3>1, <3>2
  <2>5. Off(Front, c[0]) = 0 /\ Off(Front, c[1]) \in Nat
    BY <1>4, <1>7, <1>8, OffFacts
  <2> QED BY <2>1, <2>4, <2>5
<1>11. Registers'
  <2>1. Off(Front, c[1]) <= Off(Front, curr)
    <3>1. n \in 1 .. n
      BY <1>7
    <3> QED BY <1>7, <1>10, <3>1
  <2>2. c[1] - 1 # curr
    <3>1. Off(Front, c[1]) > 0
      BY <1>10
    <3> QED BY <1>4, <1>8, <2>1, <3>1, Ne2kAssumption DEF Off, Ring, N
  <2>3. c[1] - 1 \in PSTART - 1 .. PSTOP - 2
    BY <1>8, Ne2kAssumption DEF Ring
  <2> QED BY <1>1, <1>4, <1>8, <2>2, <2>3 DEF Registers
<1>12. Stored' /\ Reading'
  BY <1>1, <1>2 DEF Stored, Reading
<1>13. PICK d \in [0 .. n - 1 -> Ring] : \A i \in 0 .. n - 1 : d[i] = c[i + 1]
  <2> DEFINE e == [i \in 0 .. n - 1 |-> c[i + 1]]
  <2>1. e \in [0 .. n - 1 -> Ring] /\ \A i \in 0 .. n - 1 : e[i] = c[i + 1]
    OBVIOUS
  <2> QED BY <2>1
<1>14. Walk(n - 1, d)'
  <2>1. d[0] = Front' /\ d[n - 1] = curr'
    <3>1. 0 \in 0 .. n - 1 /\ n - 1 \in 0 .. n - 1 /\ 0 + 1 = 1 /\ (n - 1) + 1 = n
      BY <1>7
    <3>2. d[0] = c[1] /\ d[n - 1] = c[n]
      BY <1>13, <3>1
    <3> QED BY <1>1, <1>7, <1>9, <3>2
  <2>2. ASSUME NEW i \in 0 .. (n - 1) - 1 PROVE ring'[d[i]].next = d[i + 1]
    <3>1. /\ i \in 0 .. n - 1 /\ i + 1 \in 0 .. n - 1
      OBVIOUS
    <3>2. d[i] = c[i + 1] /\ d[i + 1] = c[i + 1 + 1]
      BY <1>13, <3>1
    <3> QED BY <1>1, <1>6, <3>1, <3>2 DEF Walk
  <2>3. ASSUME NEW i \in 0 .. n - 1, NEW j \in 0 .. n - 1, i < j
        PROVE  Off(c[1], d[i]) < Off(c[1], d[j])
    <3>1. d[i] = c[i + 1] /\ d[j] = c[j + 1] /\ i + 1 \in 1 .. n /\ j + 1 \in 1 .. n /\ i + 1 < j + 1
      BY <1>13, <2>3
    <3>2. Off(Front, c[i + 1]) < Off(Front, c[j + 1])
      BY <1>6, <3>1 DEF Walk
    <3>3. /\ Off(c[1], c[i + 1]) = Off(Front, c[i + 1]) - Off(Front, c[1])
          /\ Off(c[1], c[j + 1]) = Off(Front, c[j + 1]) - Off(Front, c[1])
      BY <1>4, <1>8, <1>10, <3>1, Rebase
    <3>4. c[i + 1] \in Ring /\ c[j + 1] \in Ring
      BY <3>1
    <3>5. \A x \in Ring : Off(Front, x) \in Nat
      BY <1>4, OffFacts
    <3> QED BY <1>8, <3>1, <3>2, <3>3, <3>4, <3>5
  <2> QED BY <1>9, <2>1, <2>2, <2>3 DEF Walk
<1>15. Holds(n - 1, d)'
  <2>1. Len(got) \in Nat /\ Len(arrived) = Len(got) + n
    <3>1. Len(got) \in Nat
      BY <1>2, LenProperties DEF Stored
    <3> QED BY <1>6, <1>9, <3>1 DEF Holds
  <2>2. \A i \in 1 .. n : arrived[Len(got) + i] = ring[c[i - 1]].pkt
    BY <1>6, <1>9, <2>1 DEF Holds
  <2>3. arrived[Len(got) + 1] = buf
    <3>1. 1 \in 1 .. n /\ 1 - 1 = 0
      BY <1>7
    <3> QED BY <1>3, <1>7, <2>2, <3>1
  <2>4. ASSUME NEW i \in 1 .. n - 1 PROVE arrived[Len(got) + 1 + i] = ring[d[i - 1]].pkt
    <3>1. i - 1 \in 0 .. n - 1 /\ i + 1 \in 1 .. n /\ (i - 1) + 1 = i /\ (i + 1) - 1 = i
      OBVIOUS
    <3>2. d[i - 1] = c[i] /\ arrived[Len(got) + (i + 1)] = ring[c[i]].pkt
      BY <1>13, <2>2, <3>1
    <3>3. Len(got) + 1 + i = Len(got) + (i + 1)
      BY <2>1
    <3> QED BY <3>2, <3>3
  <2>5. \A i \in 1 .. Len(got) : arrived[i] = got[i]
    BY <1>6 DEF Holds
  <2>6. Len(arrived) = Len(got) + 1 + (n - 1)
    BY <2>1
  <2> QED BY <1>1, <1>9, <2>3, <2>4, <2>5, <2>6 DEF Holds
<1>16. Walked'
  BY <1>7, <1>14, <1>15 DEF Walked
<1> QED BY <1>1, <1>3, <1>8, <1>9, <1>11, <1>12, <1>16 DEF Frames

(***************************************************************************)
(* neRecv reads the header and the data of the oldest frame.               *)
(***************************************************************************)
LEMMA FramesRead ==
  ASSUME Frames, RecvHead \/ RecvCopy
  PROVE  Frames' /\ UNCHANGED <<Front, ring, curr>>
<1> USE DEF chip, ghost
<1>1. /\ UNCHANGED <<bnry, curr, ring, arrived, got, nrecv>>
      /\ pcI \in {"recv", "copy"} /\ pcI' \in {"reset", "copy", "advance"}
  BY DEF RecvHead, RecvCopy
<1>2. Front' = Front /\ Bound' = Bound /\ Front = Bound /\ InEth' = 0 /\ InEth = 0
  BY <1>1 DEF Front, Bound, InEth
<1>3. Registers /\ Stored /\ Reading
  BY DEF Frames
<1>4. Bound \in Ring
  BY <1>3, FrontInRing
<1>5. Registers'
  BY <1>1, <1>3 DEF Registers
<1>6. buf' = buf \/ buf' = ring[Bound].pkt
  BY <1>3 DEF RecvHead, RecvCopy, Reading
<1>7. Stored'
  <2>1. ring[Bound].pkt \in 0 .. nrecv
    BY <1>3, <1>4 DEF Stored, Frame
  <2> QED BY <1>1, <1>3, <1>6, <2>1 DEF Stored
<1>8. Reading'
  <2>1. CASE RecvHead
    BY <1>2, <2>1 DEF RecvHead, Reading
  <2>2. CASE RecvCopy
    BY <1>2, <1>3, <2>2 DEF RecvCopy, Reading
  <2> QED BY <2>1, <2>2
<1>9. PICK n \in Nat : \E c \in [0 .. n -> Ring] : Walk(n, c) /\ Holds(n, c)
  BY DEF Frames, Walked
<1>10. PICK c \in [0 .. n -> Ring] : Walk(n, c) /\ Holds(n, c)
  BY <1>9
<1>11. Walk(n, c)' /\ Holds(n, c)'
  BY <1>1, <1>2, <1>10 DEF Walk, Holds
<1>12. Walked'
  BY <1>11 DEF Walked
<1> QED BY <1>1, <1>2, <1>5, <1>7, <1>8, <1>12 DEF Frames

(***************************************************************************)
(* A reset, first step: CURR at the first page, nothing in the ring.       *)
(***************************************************************************)
LEMMA FramesDrop ==
  ASSUME Frames, RecvResetCurr
  PROVE  Frames' /\ Front' = curr'
<1>1. /\ pcI' = "reset2" /\ curr' = PSTART /\ arrived' = got
      /\ UNCHANGED <<bnry, ring, buf, got, nrecv>>
  BY DEF RecvResetCurr
<1>2. Front' = PSTART /\ InEth' = 0 /\ PSTART \in Ring
  BY <1>1, Ne2kAssumption DEF Front, InEth, Ring
<1>3. Registers'
  BY <1>1, <1>2, Ne2kAssumption DEF Frames, Registers
<1>4. Stored' /\ Reading'
  BY <1>1 DEF Frames, Stored, Reading
<1>5. PICK d \in [0 .. 0 -> Ring] : d[0] = PSTART
  <2> DEFINE e == [i \in 0 .. 0 |-> PSTART]
  <2>1. e \in [0 .. 0 -> Ring] /\ e[0] = PSTART
    BY <1>2
  <2> QED BY <2>1
<1>6. Walk(0, d)'
  BY <1>1, <1>2, <1>5 DEF Walk
<1>7. Holds(0, d)'
  <2>1. Len(got) \in Nat
    BY LenProperties DEF Frames, Stored
  <2> QED BY <1>1, <1>2, <2>1 DEF Holds
<1>8. Walked'
  BY <1>6, <1>7 DEF Walked
<1> QED BY <1>1, <1>2, <1>3, <1>4, <1>8 DEF Frames

(***************************************************************************)
(* A reset, second step: the boundary follows, and what the chip stored    *)
(* between the two steps is where neRecv will read.                        *)
(***************************************************************************)
LEMMA FramesRestart ==
  ASSUME Frames, RecvResetBnry
  PROVE  Frames' /\ UNCHANGED <<Front, ring, curr>>
<1>1. /\ pcI = "reset2" /\ pcI' = "ack" /\ bnry' = PSTOP
      /\ UNCHANGED <<curr, ring, arrived, buf, got, nrecv>>
  BY DEF RecvResetBnry, ghost
<1>2. Front' = Front /\ InEth' = InEth
  BY <1>1, Ne2kAssumption DEF Front, Bound, InEth
<1>3. Registers'
  BY <1>1, Ne2kAssumption DEF Frames, Registers, Ring
<1>4. Stored' /\ Reading'
  BY <1>1 DEF Frames, Stored, Reading
<1>5. PICK n \in Nat : \E c \in [0 .. n -> Ring] : Walk(n, c) /\ Holds(n, c)
  BY DEF Frames, Walked
<1>6. PICK c \in [0 .. n -> Ring] : Walk(n, c) /\ Holds(n, c)
  BY <1>5
<1>7. Walk(n, c)' /\ Holds(n, c)'
  BY <1>1, <1>2, <1>6 DEF Walk, Holds
<1>8. Walked'
  BY <1>7 DEF Walked
<1> QED BY <1>1, <1>2, <1>3, <1>4, <1>8 DEF Frames

(***************************************************************************)
(* neISR passes the packet up.                                             *)
(***************************************************************************)
LEMMA FramesUp ==
  ASSUME Frames, IsrDeliver \/ IsrReply
  PROVE  Frames' /\ UNCHANGED <<Front, ring, curr>>
<1> USE DEF chip, ghost
<1>1. /\ pcI = "eth" /\ pcI' \in {"ack", "replying"} /\ got' = Append(got, buf) /\ buf' = 0
      /\ UNCHANGED <<bnry, curr, ring, arrived, nrecv>>
  BY DEF IsrDeliver, IsrReply
<1>2. Front' = Front /\ InEth' = 0 /\ InEth = 1
  BY <1>1 DEF Front, Bound, InEth
<1>3. Registers' /\ Reading'
  BY <1>1 DEF Frames, Registers, Reading
<1>4. got \in Seq(Nat) /\ buf \in Nat /\ nrecv \in Nat
  BY DEF Frames, Stored
<1>5. /\ got' \in Seq(Nat) /\ Len(got) \in Nat /\ Len(got') = Len(got) + 1
      /\ got'[Len(got) + 1] = buf /\ \A i \in 1 .. Len(got) : got'[i] = got[i]
  BY <1>1, <1>4, Grown
<1>6. Stored'
  BY <1>1, <1>4, <1>5 DEF Frames, Stored
<1>7. PICK n \in Nat : \E c \in [0 .. n -> Ring] : Walk(n, c) /\ Holds(n, c)
  BY DEF Frames, Walked
<1>8. PICK c \in [0 .. n -> Ring] : Walk(n, c) /\ Holds(n, c)
  BY <1>7
<1>9. Walk(n, c)'
  BY <1>1, <1>2, <1>8 DEF Walk
<1>10. Holds(n, c)'
  <2>1. Len(arrived) = Len(got) + 1 + n /\ arrived[Len(got) + 1] = buf
    BY <1>2, <1>8 DEF Holds
  <2>2. \A i \in 1 .. Len(got') : arrived[i] = got'[i]
    <3>1. \A i \in 1 .. Len(got') : i \in 1 .. Len(got) \/ i = Len(got) + 1
      BY <1>5
    <3> QED BY <1>5, <1>8, <2>1, <3>1 DEF Holds
  <2>3. ASSUME NEW i \in 1 .. n PROVE arrived[Len(got') + 0 + i] = ring[c[i - 1]].pkt
    <3>1. Len(got') + 0 + i = Len(got) + 1 + i
      BY <1>5
    <3> QED BY <1>2, <1>8, <3>1 DEF Holds
  <2>4. Len(arrived) = Len(got') + 0 + n
    BY <1>5, <2>1
  <2> QED BY <1>1, <1>2, <2>2, <2>3, <2>4 DEF Holds
<1>11. Walked'
  BY <1>9, <1>10 DEF Walked
<1> QED BY <1>1, <1>2, <1>3, <1>6, <1>11 DEF Frames

-----------------------------------------------------------------------------
Marks == PrxStands /\ Backlog

(***************************************************************************)
(* Steps outside neRecv: the bits are set by the chip, read once, and      *)
(* acknowledged.                                                           *)
(***************************************************************************)
LEMMA MarksQuiet ==
  ASSUME Ctl, Marks, UNCHANGED <<Front, ring, curr>>,
         \/ RxOverflow \/ TxDone("PTX") \/ TxDone("TXE") \/ MainSend \/ neSend \/ Interrupt
         \/ IsrRead \/ IsrReplied \/ IsrSend \/ IsrNothingQueued \/ IsrDel
         \/ IsrAck \/ IsrMask \/ IsrEoi \/ IsrUnmask \/ IsrExit \/ UNCHANGED vars
  PROVE  Marks'
<1> USE DEF Marks, PrxStands, Backlog, Due, InEth, AtFrame, Unread, Ctl, chip, cpu, drv, ghost
<1>1. CASE RxOverflow
  BY <1>1 DEF RxOverflow, SetIsr
<1>2. CASE TxDone("PTX") \/ TxDone("TXE")
  BY <1>2 DEF TxDone, SetIsr
<1>3. CASE MainSend
  BY <1>3 DEF MainSend
<1>4. CASE neSend
  BY <1>4 DEF neSend, SendTest, SendQueue, SendCopy, SendStart
<1>5. CASE Interrupt
  BY <1>5 DEF Interrupt
<1>6. CASE IsrRead
  BY <1>6 DEF IsrRead
<1>7. CASE IsrReplied
  BY <1>7 DEF IsrReplied
<1>8. CASE IsrSend \/ IsrNothingQueued \/ IsrDel
  BY <1>8 DEF IsrSend, IsrNothingQueued, IsrDel
<1>9. CASE IsrAck
  BY <1>9 DEF IsrAck, neSetIntState, SetIsr
<1>10. CASE IsrMask
  BY <1>10 DEF IsrMask, neSetIntMask
<1>11. CASE IsrEoi
  BY <1>11 DEF IsrEoi
<1>12. CASE IsrUnmask
  BY <1>12 DEF IsrUnmask, neSetIntMask
<1>13. CASE IsrExit
  BY <1>13 DEF IsrExit, neSetIntState, SetIsr
<1>14. CASE UNCHANGED vars
  BY <1>14 DEF vars
<1> QED BY <1>1, <1>2, <1>3, <1>4, <1>5, <1>6, <1>7, <1>8, <1>9, <1>10, <1>11, <1>12, <1>13, <1>14

(***************************************************************************)
(* RingInv and the driver's control together are inductive.                *)
(***************************************************************************)
LEMMA RingStep == ASSUME RingInv, PktInv, [Next]_vars PROVE RingInv'
<1> SUFFICES Frames' /\ Marks'
  BY DEF RingInv, Frames, Marks
<1>0. Frames /\ Marks /\ Ctl /\ (pcI \in Unread => Front # curr)
  BY DEF RingInv, Frames, Marks, PktInv, PrxStands
<1> USE DEF Marks, PrxStands, Backlog, Due, InEth, AtFrame, Unread, chip, cpu, drv, ghost
<1>1. ASSUME NEW k \in 1 .. 2, NEW bad \in BOOLEAN, RxStore(k, bad)
      PROVE  Frames' /\ Marks'
  <2>1. /\ Frames' /\ Front' = Front /\ Front' # curr'
        /\ Front = curr => ring'[Front].next = curr'
    BY <1>0, <1>1, FramesStore
  <2>2. /\ isr' = isr \cup {"PRX"} /\ UNCHANGED <<pcI, st>>
        /\ behind' = IF "PRX" \in isr \/ Claimed("PRX") THEN behind + 1 ELSE behind
        /\ arrived' = Append(arrived, nrecv + 1) /\ got' = got
    BY <1>1 DEF RxStore, SetIsr
  <2>3. Len(arrived') = Len(arrived) + 1 /\ Len(arrived) \in Nat /\ Len(got) \in Nat
    <3>1. arrived \in Seq(Nat) /\ got \in Seq(Nat) /\ nrecv + 1 \in Nat
      BY <1>0 DEF Frames, Stored
    <3> QED BY <2>2, <3>1, Grown
  <2>4. PrxStands'
    BY <1>0, <2>1, <2>2 DEF Claimed, Ctl
  <2>5. Backlog'
    <3>1. /\ behind \in Nat /\ Len(arrived) = Len(got) + InEth + behind + Due
          /\ InEth' = InEth /\ InEth \in Nat /\ Due \in Nat
      BY <1>0, <2>2
    <3>2. (pcI \in Unread => "PRX" \in st) /\ (pcI \in Unread \/ "PRX" \in st => pcI # "none")
      BY <1>0 DEF Ctl
    <3>3. CASE "PRX" \in isr \/ Claimed("PRX")
      <4>1. Due' = Due /\ behind' = behind + 1
        BY <2>2, <3>2, <3>3 DEF Claimed
      <4> HIDE DEF Due, InEth
      <4> QED BY <2>2, <2>3, <3>1, <4>1
    <3>4. CASE ~("PRX" \in isr \/ Claimed("PRX"))
      <4>1. Due = 0 /\ Due' = 1 /\ behind' = behind
        BY <2>2, <3>2, <3>4 DEF Claimed
      <4> HIDE DEF Due, InEth
      <4> QED BY <2>2, <2>3, <3>1, <4>1
    <3> QED BY <3>3, <3>4
  <2> QED BY <2>1, <2>4, <2>5
<1>2. CASE RecvHead \/ RecvCopy
  <2>1. Frames' /\ UNCHANGED <<Front, ring, curr>>
    BY <1>0, <1>2, FramesRead
  <2> QED BY <1>0, <1>2, <2>1 DEF RecvHead, RecvCopy
<1>3. CASE RecvResetCurr
  <2>1. Frames' /\ Front' = curr'
    BY <1>0, <1>3, FramesDrop
  <2> QED BY <1>0, <1>3, <2>1 DEF RecvResetCurr
<1>4. CASE RecvResetBnry
  <2>1. Frames' /\ UNCHANGED <<Front, ring, curr>>
    BY <1>0, <1>4, FramesRestart
  <2> QED BY <1>0, <1>4, <2>1 DEF RecvResetBnry
<1>5. CASE RecvAdvance
  <2>1. Front # curr
    BY <1>0, <1>5 DEF RecvAdvance
  <2>2. Frames' /\ Front' = ring[Front].next /\ UNCHANGED <<ring, curr>>
    BY <1>0, <1>5, <2>1, FramesAdvance
  <2> QED BY <1>0, <1>5, <2>1, <2>2 DEF RecvAdvance
<1>6. CASE IsrDeliver \/ IsrReply
  <2>1. Frames' /\ UNCHANGED <<Front, ring, curr>>
    BY <1>0, <1>6, FramesUp
  <2>2. /\ pcI = "eth" /\ pcI' \in {"ack", "replying"} /\ got' = Append(got, buf)
        /\ UNCHANGED <<isr, st, arrived, behind>>
    BY <1>6 DEF IsrDeliver, IsrReply
  <2>3. Len(got') = Len(got) + 1 /\ Len(got) \in Nat
    <3>1. got \in Seq(Nat) /\ buf \in Nat
      BY <1>0 DEF Frames, Stored
    <3> QED BY <2>2, <3>1, Grown
  <2>4. PrxStands' /\ InEth = 1 /\ InEth' = 0 /\ Due' = Due
    BY <1>0, <2>1, <2>2
  <2>5. Backlog'
    BY <1>0, <2>2, <2>3, <2>4
  <2> QED BY <2>1, <2>4, <2>5
<1>7. CASE \/ RxOverflow \/ TxDone("PTX") \/ TxDone("TXE") \/ MainSend \/ neSend \/ Interrupt
           \/ IsrRead \/ IsrReplied \/ IsrSend \/ IsrNothingQueued \/ IsrDel
           \/ IsrAck \/ IsrMask \/ IsrEoi \/ IsrUnmask \/ IsrExit \/ UNCHANGED vars
  BY <1>0, <1>7, FramesQuiet, MarksQuiet
<1> QED BY <1>1, <1>2, <1>3, <1>4, <1>5, <1>6, <1>7 DEF Next, Chip, neISR, neRecv

(***************************************************************************)
(* After neInit the ring is empty.                                         *)
(***************************************************************************)
LEMMA RingInit == Init => RingInv
<1> SUFFICES ASSUME Init PROVE RingInv
  OBVIOUS
<1>1. /\ bnry = PSTART /\ curr = PSTART + 1 /\ pcI = "none" /\ st = {} /\ isr = {}
      /\ ring = [p \in Ring |-> [pkt |-> 0, next |-> 0, bad |-> FALSE]]
      /\ nrecv = 0 /\ buf = 0 /\ got = <<>> /\ arrived = <<>>
  BY DEF Init
<1>2. Front = curr /\ curr \in Ring /\ InEth = 0
  BY <1>1, Ne2kAssumption DEF Front, Bound, Ring, InEth
<1>3. Registers
  BY <1>1, <1>2, Ne2kAssumption DEF Registers
<1>4. Stored
  <2>1. [pkt |-> 0, next |-> 0, bad |-> FALSE] \in Frame
    BY DEF Frame
  <2> QED BY <1>1, <2>1, Ne2kAssumption DEF Stored
<1>a. behind = 0 /\ Len(arrived) = 0 /\ Len(got) = 0
  BY <1>1 DEF Init
<1>5. Reading /\ PrxStands /\ Backlog
  BY <1>1, <1>2, <1>a DEF Reading, PrxStands, Backlog, Due, InEth, AtFrame, Unread
<1>6. Walked
  <2> DEFINE e == [i \in 0 .. 0 |-> curr]
  <2>1. e \in [0 .. 0 -> Ring] /\ e[0] = curr
    BY <1>2
  <2> HIDE DEF e
  <2>2. Walk(0, e)
    BY <1>2, <2>1 DEF Walk
  <2>3. Holds(0, e)
    BY <1>1, <1>2 DEF Holds
  <2> QED BY <2>1, <2>2, <2>3 DEF Walked
<1> QED BY <1>3, <1>4, <1>5, <1>6 DEF RingInv

(***************************************************************************)
(* The inductive invariant of the driver.                                  *)
(***************************************************************************)
LEMMA DriverInv == Spec => [](RingInv /\ PktInv)
<1>1. Init => RingInv /\ PktInv
  BY RingInit, PktInit
<1>2. RingInv /\ PktInv /\ [Next]_vars => (RingInv /\ PktInv)'
  BY RingStep, PktStep
<1> QED BY <1>1, <1>2, PTL DEF Spec

(***************************************************************************)
(* neRecv never finds the ring empty: PRX, when neISR reads it, stands for *)
(* a frame that is still there.                                            *)
(***************************************************************************)
THEOREM NeverReadsAnEmptyRing == Spec => []FrameIsThere
<1>1. RingInv => FrameIsThere
  BY DEF RingInv, PrxStands, Unread, Front, FrameIsThere
<1> QED BY <1>1, DriverInv, PTL

(***************************************************************************)
(* The walk of InRing from the page neRecv reads next is the walk of       *)
(* Walked: it meets CURR after n frames, before it has gone round.         *)
(***************************************************************************)
LEMMA InRingIs ==
  ASSUME Registers, pcI # "reset2", NEW n \in Nat, NEW c \in [0 .. n -> Ring], Walk(n, c)
  PROVE  InRing = [i \in 1 .. n |-> ring[c[i - 1]].pkt]
<1>1. /\ Front = Bound /\ Front \in Ring /\ curr \in Ring
      /\ \A i \in 0 .. n : c[i] \in Ring
      /\ \A x \in Ring : Off(Front, x) \in 0 .. N - 1
      /\ N \in Nat
  BY FrontInRing, OffFacts DEF Front, Registers
<1>2. \A i \in 0 .. n : Off(Front, c[i]) >= i
  <2> DEFINE S == {i \in 0 .. n : ~(Off(Front, c[i]) >= i)}
  <2>1. SUFFICES ASSUME S # {} PROVE FALSE
    OBVIOUS
  <2>2. S \in SUBSET Nat
    OBVIOUS
  <2>3. PICK m \in S : \A i \in S : m <= i
    <3> HIDE DEF S
    <3> QED BY <2>1, <2>2, LeastNumber
  <2>4. m \in 0 .. n /\ ~(Off(Front, c[m]) >= m) /\ Off(Front, c[m]) \in 0 .. N - 1
    BY <1>1, <2>3
  <2>5. m - 1 \in 0 .. n /\ m - 1 \notin S
    BY <1>1, <2>3, <2>4
  <2>6. Off(Front, c[m - 1]) >= m - 1 /\ Off(Front, c[m - 1]) \in 0 .. N - 1
    BY <1>1, <2>5
  <2>7. Off(Front, c[m - 1]) < Off(Front, c[m])
    BY <2>4, <2>5 DEF Walk
  <2> QED BY <1>1, <2>4, <2>6, <2>7
<1>3. n <= N
  <2>1. Off(Front, c[n]) >= n /\ Off(Front, c[n]) \in 0 .. N - 1
    BY <1>1, <1>2
  <2> QED BY <1>1, <2>1
<1>4. c[0] = Bound /\ c[n] = curr /\ \A i \in 0 .. n - 1 : c[i] # curr /\ ring[c[i]].next = c[i + 1]
  <2>1. \A i \in 0 .. n - 1 : Off(Front, c[i]) < Off(Front, c[n])
    BY DEF Walk
  <2>2. ASSUME NEW i \in 0 .. n - 1 PROVE c[i] # c[n]
    BY <1>1, <2>1
  <2> QED BY <1>1, <2>2 DEF Walk
<1> DEFINE Goes(h) == [k \in 0 .. N |->
               IF k = 0 THEN Bound
               ELSE IF h[k - 1] \in Ring \ {curr} THEN ring[h[k - 1]].next ELSE h[k - 1]]
           g == [k \in 0 .. N |-> IF k <= n THEN c[k] ELSE curr]
<1>5. \A k \in 0 .. N : (k <= n => g[k] = c[k]) /\ (k >= n => g[k] = curr)
  BY <1>3, <1>4
<1>6. ASSUME NEW k \in 0 .. N PROVE g[k] = Goes(g)[k]
  <2>1. CASE k = 0
    BY <1>3, <1>4, <1>5, <2>1
  <2>2. CASE k # 0 /\ k <= n
    <3>1. k - 1 \in 0 .. n - 1 /\ k - 1 \in 0 .. N /\ (k - 1) + 1 = k
      BY <1>1, <1>3, <2>2
    <3>2. g[k - 1] = c[k - 1] /\ g[k - 1] \in Ring \ {curr} /\ ring[c[k - 1]].next = c[k] /\ g[k] = c[k]
      BY <1>1, <1>4, <1>5, <2>2, <3>1
    <3> HIDE DEF g
    <3> QED BY <2>2, <3>2
  <2>3. CASE k # 0 /\ ~(k <= n)
    <3>1. k - 1 \in 0 .. N /\ k - 1 >= n /\ k >= n
      BY <1>1, <2>3
    <3>2. g[k - 1] = curr /\ g[k] = curr
      BY <1>5, <3>1
    <3> HIDE DEF g
    <3> QED BY <2>3, <3>2
  <2> QED BY <2>1, <2>2, <2>3
<1>7. g = Goes(g)
  <2>1. Goes(g) = [k \in 0 .. N |-> Goes(g)[k]] /\ g = [k \in 0 .. N |-> g[k]]
    OBVIOUS
  <2> HIDE DEF g, Goes
  <2> QED BY <1>6, <2>1
<1>8. ASSUME NEW h, h = Goes(h) PROVE h = g
  <2>1. /\ h = [k \in 0 .. N |-> h[k]] /\ g = [k \in 0 .. N |-> g[k]]
        /\ h[0] = Bound /\ g[0] = Bound
    BY <1>1, <1>3, <1>4, <1>5, <1>8
  <2> DEFINE S == {k \in 0 .. N : h[k] # g[k]}
  <2>2. SUFFICES S = {}
    <3> HIDE DEF g, Goes
    <3> QED BY <2>1
  <2>3. SUFFICES ASSUME S # {} PROVE FALSE
    OBVIOUS
  <2>4. PICK m \in S : \A i \in S : m <= i
    <3>1. S \in SUBSET Nat
      OBVIOUS
    <3> HIDE DEF S
    <3> QED BY <2>3, <3>1, LeastNumber
  <2>5. m \in 0 .. N /\ h[m] # g[m] /\ m # 0
    <3> HIDE DEF g, Goes
    <3> QED BY <2>1, <2>4
  <2>6. m - 1 \in 0 .. N /\ m - 1 \notin S
    <3> HIDE DEF g, Goes
    <3> QED BY <1>1, <2>4, <2>5
  <2>7. h[m - 1] = g[m - 1]
    <3> HIDE DEF g, Goes
    <3> QED BY <2>6
  <2>8. Goes(h)[m] = Goes(g)[m]
    <3> HIDE DEF g
    <3> QED BY <2>5, <2>7
  <2> HIDE DEF g, Goes
  <2> QED BY <1>7, <1>8, <2>5, <2>8
<1> DEFINE upTo == {k \in 0 .. N : g[k] = curr}
           len  == IF upTo = {} THEN 0 ELSE CHOOSE k \in upTo : \A j \in upTo : k <= j
<1>9. InRing = [i \in 1 .. len |-> ring[g[i - 1]].pkt]
  <2> DEFINE at == CHOOSE h : h = Goes(h)
  <2>1. at = g
    <3> HIDE DEF g, Goes
    <3> QED BY <1>7, <1>8, Zenon
  <2>2. InRing = LET u == {k \in 0 .. N : at[k] = curr}
                     l == IF u = {} THEN 0 ELSE CHOOSE k \in u : \A j \in u : k <= j
                 IN  [i \in 1 .. l |-> ring[at[i - 1]].pkt]
    BY Zenon DEF InRing
  <2> HIDE DEF at, g
  <2> QED BY <2>1, <2>2, Zenon
<1>10. len = n
  <2>1. n \in upTo /\ \A j \in upTo : n <= j
    <3>1. n \in 0 .. N
      BY <1>1, <1>3
    <3>2. ASSUME NEW j \in 0 .. N, g[j] = curr PROVE n <= j
      <4>1. CASE ~(n <= j)
        <5>1. j \in 0 .. n - 1 /\ g[j] = c[j]
          BY <1>5, <4>1
        <5> QED BY <1>4, <3>2, <5>1
      <4> QED BY <4>1
    <3>3. g[n] = curr
      BY <1>5, <3>1
    <3> HIDE DEF g
    <3> QED BY <3>1, <3>2, <3>3
  <2>2. \A j \in upTo : j \in Nat
    OBVIOUS
  <2> HIDE DEF upTo
  <2>3. ASSUME NEW k \in upTo, \A j \in upTo : k <= j PROVE k = n
    BY <2>1, <2>2, <2>3
  <2> QED BY <2>1, <2>3
<1>11. ASSUME NEW i \in 1 .. n PROVE g[i - 1] = c[i - 1]
  <2>1. i - 1 \in 0 .. N /\ i - 1 <= n
    BY <1>1, <1>3
  <2> QED BY <1>5, <2>1
<1> HIDE DEF g, len
<1> QED BY <1>9, <1>10, <1>11

(***************************************************************************)
(* The frames in the ring, as a sequence.                                  *)
(***************************************************************************)
LEMMA InRingSeq ==
  ASSUME RingInv, pcI # "reset2", NEW n \in Nat, NEW c \in [0 .. n -> Ring], Walk(n, c)
  PROVE  /\ InRing \in Seq(Nat) /\ Len(InRing) = n
         /\ \A i \in 1 .. n : InRing[i] = ring[c[i - 1]].pkt
<1>1. InRing = [i \in 1 .. n |-> ring[c[i - 1]].pkt]
  BY InRingIs DEF RingInv
<1>2. \A i \in 1 .. n : ring[c[i - 1]].pkt \in Nat
  <2>1. \A q \in Ring : ring[q].pkt \in Nat
    BY DEF RingInv, Stored, Frame
  <2>2. \A i \in 1 .. n : c[i - 1] \in Ring
    OBVIOUS
  <2> QED BY <2>1, <2>2
<1> QED BY <1>1, <1>2

(***************************************************************************)
(* Every frame the chip stored is passed up exactly once and in order, or  *)
(* is in the ring where neRecv will read it, for every size of the ring.   *)
(***************************************************************************)
THEOREM FramesArriveInOrder == Spec => []ReceivedInOrder
<1>1. ASSUME RingInv PROVE ReceivedInOrder
  <2> SUFFICES ASSUME pcI # "reset2"
               PROVE  /\ arrived = got \o (IF pcI = "eth" THEN <<buf>> ELSE <<>>) \o InRing
                      /\ pcI = "advance" => InRing # <<>> /\ buf = Head(InRing)
    BY DEF ReceivedInOrder
  <2>1. PICK n \in Nat : \E c \in [0 .. n -> Ring] : Walk(n, c) /\ Holds(n, c)
    BY <1>1 DEF RingInv, Walked
  <2>2. PICK c \in [0 .. n -> Ring] : Walk(n, c) /\ Holds(n, c)
    BY <2>1
  <2>3. /\ InRing \in Seq(Nat) /\ Len(InRing) = n
        /\ \A i \in 1 .. n : InRing[i] = ring[c[i - 1]].pkt
    BY <1>1, <2>2, InRingSeq
  <2>4. arrived \in Seq(Nat) /\ got \in Seq(Nat) /\ buf \in Nat /\ Len(got) \in Nat
    BY <1>1, LenProperties DEF RingInv, Stored
  <2>5. CASE pcI = "eth"
    <3> DEFINE t == got \o <<buf>>
    <3>1. /\ t \in Seq(Nat) /\ Len(t) = Len(got) + 1 /\ t[Len(got) + 1] = buf
          /\ \A i \in 1 .. Len(got) : t[i] = got[i]
      <4>1. <<buf>> \in Seq(Nat) /\ Len(<<buf>>) = 1 /\ <<buf>>[1] = buf
        BY <2>4
      <4> QED BY <2>4, <4>1, ConcatProperties
    <3> HIDE DEF t
    <3>2. InEth = 1
      BY <2>5 DEF InEth
    <3>3. Len(arrived) = Len(t) + Len(InRing)
      BY <2>2, <2>3, <3>1, <3>2 DEF Holds
    <3>4. \A i \in 1 .. Len(t) : arrived[i] = t[i]
      <4>1. \A i \in 1 .. Len(t) : i \in 1 .. Len(got) \/ i = Len(got) + 1
        BY <2>4, <3>1
      <4> QED BY <2>2, <3>1, <3>2, <4>1 DEF Holds
    <3>5. \A i \in 1 .. Len(InRing) : arrived[Len(t) + i] = InRing[i]
      BY <2>2, <2>3, <3>1, <3>2 DEF Holds
    <3>6. Follows(arrived, t, InRing)
      BY <3>3, <3>4, <3>5 DEF Follows
    <3>7. arrived = t \o InRing
      BY <2>3, <2>4, <3>1, <3>6, Joined
    <3> QED BY <2>5, <3>7 DEF t
  <2>6. CASE pcI # "eth"
    <3>1. InEth = 0
      BY <2>6 DEF InEth
    <3>2. Len(arrived) = Len(got) + Len(InRing)
      BY <2>2, <2>3, <2>4, <3>1 DEF Holds
    <3>3. \A i \in 1 .. Len(got) : arrived[i] = got[i]
      BY <2>2 DEF Holds
    <3>4. ASSUME NEW i \in 1 .. Len(InRing) PROVE arrived[Len(got) + i] = InRing[i]
      <4>1. Len(got) + InEth + i = Len(got) + i /\ i \in 1 .. n
        BY <2>3, <2>4, <3>1
      <4> QED BY <2>2, <2>3, <4>1 DEF Holds
    <3>5. Follows(arrived, got, InRing)
      BY <3>2, <3>3, <3>4 DEF Follows
    <3>6. arrived = got \o InRing
      BY <2>3, <2>4, <3>5, Joined
    <3>7. got \o <<>> = got
      BY <2>4, ConcatEmptySeq
    <3>8. pcI = "advance" => InRing # <<>> /\ buf = Head(InRing)
      <4> SUFFICES ASSUME pcI = "advance" PROVE InRing # <<>> /\ buf = Head(InRing)
        OBVIOUS
      <4>1. Front = Bound /\ Front # curr /\ buf = ring[Front].pkt
        BY <1>1 DEF RingInv, PrxStands, Reading, Unread, Front
      <4>2. c[0] = Front /\ c[n] = curr
        BY <2>2 DEF Walk
      <4>3. 1 \in 1 .. n /\ 1 - 1 = 0
        BY <4>1, <4>2
      <4>4. InRing[1] = buf /\ InRing # <<>>
        BY <2>3, <4>1, <4>2, <4>3
      <4> QED BY <2>3, <4>4, Shrunk
    <3> QED BY <2>6, <3>6, <3>7, <3>8
  <2> QED BY <2>5, <2>6
<1> QED BY <1>1, DriverInv, PTL

(***************************************************************************)
(* Between interrupts, with no PRX pending, exactly as many frames wait in *)
(* the ring as were stored without a PRX of their own since the last       *)
(* reset, for every size of the ring and any number of frames.             *)
(***************************************************************************)
THEOREM BacklogIsExact == Spec => []RxBacklogExact
<1>1. ASSUME RingInv, PktInv PROVE RxBacklogExact
  <2> SUFFICES ASSUME pcI = "none", "PRX" \notin isr PROVE Len(InRing) = behind
    BY DEF RxBacklogExact
  <2>1. PICK n \in Nat : \E c \in [0 .. n -> Ring] : Walk(n, c) /\ Holds(n, c)
    BY <1>1 DEF RingInv, Walked
  <2>2. PICK c \in [0 .. n -> Ring] : Walk(n, c) /\ Holds(n, c)
    BY <2>1
  <2>3. Len(InRing) = n
    BY <1>1, <2>2, InRingSeq
  <2>4. Len(arrived) = Len(got) + InEth + n /\ Len(arrived) = Len(got) + InEth + behind + Due
    BY <1>1, <2>2 DEF RingInv, Holds, Backlog
  <2>5. InEth = 0 /\ Due = 0 /\ behind \in Nat
    BY <1>1 DEF RingInv, Backlog, InEth, Due, Unread
  <2>6. Len(got) \in Nat
    BY <1>1, LenProperties DEF RingInv, Stored
  <2> QED BY <2>3, <2>4, <2>5, <2>6
<1> QED BY <1>1, DriverInv, PTL

-----------------------------------------------------------------------------
Flags ==
    /\ txp \in BOOLEAN /\ imr \in BOOLEAN
    /\ irr \in BOOLEAN /\ inService \in BOOLEAN /\ intOn \in BOOLEAN
    /\ rd \in {"abort", "read", "write"}

(***************************************************************************)
(* A request is latched or it is not.                                      *)
(***************************************************************************)
LEMMA LatchedType == \A s, m : Latched(s, m) \in BOOLEAN
  BY Zenon DEF Latched

(***************************************************************************)
(* The registers and flags keep their types.                               *)
(***************************************************************************)
LEMMA FlagsStep == ASSUME Flags, [Next]_vars PROVE Flags'
<1> USE LatchedType DEF Flags, chip, cpu, drv, ghost, SetIsr
<1>1. CASE Chip
  BY <1>1 DEF Chip, RxStore, RxOverflow, TxDone
<1>2. CASE MainSend \/ neSend
  BY <1>2 DEF MainSend, neSend, SendTest, SendQueue, SendCopy, SendStart
<1>3. CASE neRecv
  BY <1>3 DEF neRecv, RecvHead, RecvResetCurr, RecvResetBnry, RecvCopy, RecvAdvance
<1>4. CASE Interrupt \/ IsrRead
  BY <1>4 DEF Interrupt, IsrRead
<1>5. CASE IsrDeliver \/ IsrReply \/ IsrReplied \/ IsrSend \/ IsrNothingQueued \/ IsrDel
  BY <1>5 DEF IsrDeliver, IsrReply, IsrReplied, IsrSend, IsrNothingQueued, IsrDel
<1>6. CASE IsrAck \/ IsrExit
  BY <1>6 DEF IsrAck, IsrExit, neSetIntState
<1>7. CASE IsrMask
  BY <1>7 DEF IsrMask, neSetIntMask
<1>8. CASE IsrUnmask
  BY <1>8 DEF IsrUnmask, neSetIntMask
<1>9. CASE IsrEoi
  BY <1>9 DEF IsrEoi
<1>10. CASE UNCHANGED vars
  BY <1>10 DEF vars
<1> QED BY <1>1, <1>2, <1>3, <1>4, <1>5, <1>6, <1>7, <1>8, <1>9, <1>10 DEF Next, neISR

(***************************************************************************)
(* The driver's state keeps its types; BNRY is the page before the ring,   *)
(* or PSTOP after a reset, at the most.                                    *)
(***************************************************************************)
THEOREM Ne2kTypes == Spec => []TypeOK
<1>1. Init => Flags
  BY DEF Init, Flags
<1>2. Flags /\ [Next]_vars => Flags'
  BY FlagsStep
<1>3. ASSUME RingInv, PktInv, Flags PROVE TypeOK
  <2>1. bnry \in PSTART - 1 .. PSTOP /\ curr \in Ring
    BY <1>3, Ne2kAssumption DEF RingInv, Registers
  <2>2. DOMAIN ring = Ring /\ buf \in 0 .. MaxRecv
    BY <1>3, Ne2kAssumption DEF RingInv, Stored
  <2>3. /\ send.pkt \in 0 .. MaxSend /\ sendQueue \in Seq(1 .. MaxSend)
    <3>1. nsent \in 0 .. MaxSend /\ send.pkt \in 0 .. nsent /\ sendQueue \in Seq(1 .. nsent)
      BY <1>3 DEF PktInv, Packets
    <3>2. Seq(1 .. nsent) \subseteq Seq(1 .. MaxSend)
      BY <3>1, Ne2kAssumption
    <3> QED BY <3>1, <3>2, Ne2kAssumption
  <2>4. send.at \in SendAt /\ pcI \in PcI /\ isr \subseteq Bits /\ st \subseteq Bits
    BY <1>3 DEF PktInv, Ctl
  <2> QED BY <1>3, <2>1, <2>2, <2>3, <2>4 DEF TypeOK, Flags, SendAt, PcI, Bits
<1>4. Spec => []Flags
  BY <1>1, <1>2, PTL DEF Spec
<1> QED BY <1>3, <1>4, DriverInv, PTL

=============================================================================
