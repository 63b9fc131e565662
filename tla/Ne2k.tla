-------------------------------- MODULE Ne2k --------------------------------
(***************************************************************************)
(* The NE2000 driver, net/ne2k/ne2k.c: neSend, called by the kernel's one  *)
(* thread (main) and by the interrupt handler; neRecv; and neISR, entered  *)
(* through NCI_int (kernel/int.S) on IRQ 3.  The network chip and the 8259 *)
(* interrupt controller run beside them and are modelled from how the      *)
(* driver programs them (setup.S: ICW1 = 0x11, edge triggered; neInit).    *)
(*                                                                         *)
(* A packet is a number.  A frame occupies one or two pages of the receive *)
(* ring.  Between any two register accesses of the driver the chip may     *)
(* receive a frame or finish a transmission.                               *)
(***************************************************************************)
EXTENDS Integers, Sequences, FiniteSets

CONSTANTS
    PSTART,     \* RECV_PAGE
    PSTOP,      \* RECV_PAGE_END; the chip's ring is PSTART .. PSTOP - 1
    MaxSend,    \* bound: packets handed to neSend, by main or by arpReply
    MaxRecv,    \* bound: frames the chip stores
    MaxBad      \* bound: frames whose ring header is damaged

ASSUME Ne2kAssumption ==
    /\ PSTART \in Nat \ {0} /\ PSTOP \in Nat /\ PSTOP >= PSTART + 3
    /\ MaxSend \in Nat /\ MaxRecv \in Nat /\ MaxBad \in Nat

VARIABLES
    \* the chip
    bnry, curr, \* boundary and current page registers
    ring,       \* ring[page]: the frame stored there and where the next one starts
    txp, rd,    \* command register: transmitting; remote DMA bits as last written
    isr,        \* interrupt status bits the mask imr = 0x1b lets through
    imr,        \* TRUE: mask register holds imr; FALSE: 0
    txbuf,      \* packet in the transmit buffer
    \* the 8259 and the processor
    irr, inService, \* request latched; being served
    intOn,      \* the processor's IF flag
    \* the driver
    sendQueue,
    send,       \* the neSend that is running: [pkt, at]
    pcI,        \* where neISR is
    st,         \* neISR's local `state'
    hd,         \* neRecv's local header: [bound, next, bad]
    buf,        \* the packet neRecv has copied
    \* history
    nsent,      \* packets handed to neSend so far: 1 .. nsent
    loaded,     \* packets copied to the transmit buffer, in order
    arrived,    \* frames the chip stored and no reset discarded, in order
    got,        \* packets neISR passed to ethRecv, in order
    nrecv, nbad,\* frames stored; damaged headers
    behind,     \* frames stored since the last reset that raised no PRX of their own
    hidden      \* completions (PTX, TXE) that neISR does not go on with the queue for

chip  == <<bnry, curr, ring, txp, rd, isr, imr, txbuf>>
cpu   == <<irr, inService, intOn>>
drv   == <<sendQueue, send, pcI, st, hd, buf>>
ghost == <<nsent, loaded, arrived, got, nrecv, nbad, behind, hidden>>
vars  == <<chip, cpu, drv, ghost>>

Ring == PSTART .. PSTOP - 1
N    == PSTOP - PSTART

NoSend == [pkt |-> 0, at |-> "none"]
NoHead == [bound |-> 0, next |-> 0, bad |-> FALSE]

(***************************************************************************)
(* After neInit, with interrupts still off (setup.S does cli; the first    *)
(* neSend does sti).                                                       *)
(***************************************************************************)
Init ==
    /\ bnry = PSTART
    /\ curr = PSTART + 1
    /\ ring = [p \in Ring |-> [pkt |-> 0, next |-> 0, bad |-> FALSE]]
    /\ txp = FALSE
    /\ rd = "read"                      \* neInit ends with NICtoPC(mac, ...)
    /\ isr = {}
    /\ imr = TRUE
    /\ txbuf = 0
    /\ irr = FALSE /\ inService = FALSE /\ intOn = FALSE
    /\ sendQueue = <<>>
    /\ send = NoSend
    /\ pcI = "none"
    /\ st = {}
    /\ hd = NoHead
    /\ buf = 0
    /\ nsent = 0 /\ loaded = <<>> /\ arrived = <<>> /\ got = <<>>
    /\ nrecv = 0 /\ nbad = 0 /\ behind = 0 /\ hidden = {}

-----------------------------------------------------------------------------
(***************************************************************************)
(* The chip's interrupt line, and the edge-triggered 8259: a request is    *)
(* latched when the line rises and dropped when it falls before it was     *)
(* acknowledged.                                                           *)
(***************************************************************************)
Line(s, m) == m /\ s # {}

Latched(s, m) == Line(s, m) /\ (irr \/ ~Line(isr, imr))

\* The chip or the driver changes the status register.
SetIsr(s) == isr' = s /\ irr' = Latched(s, imr) /\ UNCHANGED imr

\* The driver writes the mask register: neSetIntMask.
neSetIntMask(m) == imr' = m /\ irr' = Latched(isr, m) /\ UNCHANGED isr

\* Seeded fault: the write does not reach the register.
neSetIntState_Lost(s) == SetIsr(isr)

\* Seeded fault: 0xff is written, every bit is acknowledged.
neSetIntState_All(s) == SetIsr({})

\* neSetIntState(s): writing ones clears.
neSetIntState(s) == SetIsr(isr \ s)

-----------------------------------------------------------------------------
\* The chip.

\* neISR has read bit b and will acknowledge it once more.
Claimed(b) == pcI # "none" /\ b \in st

\* Free pages as the chip counts them from its two registers.
Avail == IF curr < bnry THEN bnry - curr ELSE N - (curr - bnry)

Wrap(p) == IF p >= PSTOP THEN p - N ELSE p

(***************************************************************************)
(* A frame of k pages arrives and fits: it is stored with its header, CURR *)
(* moves behind it, PRX is set.  If PRX was set already, or is the bit a   *)
(* running neISR is going to acknowledge, the frame has none of its own.   *)
(***************************************************************************)
RxStore(k, bad) ==
    /\ nrecv < MaxRecv
    /\ bad => nbad < MaxBad
    /\ Avail > k
    /\ LET p == nrecv + 1
           pages == {Wrap(curr + i) : i \in 0 .. k - 1}
       IN  /\ ring' = [q \in Ring |->
                         IF q = curr THEN [pkt |-> p, next |-> Wrap(curr + k), bad |-> bad]
                         ELSE IF q \in pages THEN [pkt |-> p, next |-> 0, bad |-> FALSE]
                         ELSE ring[q]]
           /\ arrived' = Append(arrived, p)
           /\ nrecv' = p
    /\ nbad' = IF bad THEN nbad + 1 ELSE nbad
    /\ curr' = Wrap(curr + k)
    /\ SetIsr(isr \cup {"PRX"})
    /\ behind' = IF "PRX" \in isr \/ Claimed("PRX") THEN behind + 1 ELSE behind
    /\ UNCHANGED <<bnry, txp, rd, txbuf, inService, intOn, drv, nsent, loaded, got, hidden>>

\* A frame arrives and does not fit.
RxOverflow ==
    /\ nrecv < MaxRecv
    /\ \E k \in 1 .. 2 : Avail <= k
    /\ SetIsr(isr \cup {"OVW"})
    /\ UNCHANGED <<bnry, curr, ring, txp, rd, txbuf, inService, intOn, drv, ghost>>

\* A transmission ends, well (PTX) or after too many collisions (TXE).
TxDone(result) ==
    /\ txp
    /\ txp' = FALSE
    /\ SetIsr(isr \cup {result})
    /\ hidden' = hidden \cup (IF result = "TXE" \/ Claimed("PTX") THEN {result} ELSE {})
    /\ UNCHANGED <<bnry, curr, ring, rd, txbuf, inService, intOn, drv,
                   nsent, loaded, arrived, got, nrecv, nbad, behind>>

Chip ==
    \/ \E k \in 1 .. 2, bad \in BOOLEAN : RxStore(k, bad)
    \/ RxOverflow
    \/ TxDone("PTX")
    \/ TxDone("TXE")

-----------------------------------------------------------------------------
\* Seeded fault: neSend without its cli().
MainSend_NoCli ==
    /\ pcI = "none" /\ send.at = "none"
    /\ nsent < MaxSend
    /\ send' = [pkt |-> nsent + 1, at |-> "test"]
    /\ nsent' = nsent + 1
    /\ UNCHANGED <<chip, cpu, sendQueue, pcI, st, hd, buf, loaded, arrived, got, nrecv, nbad, behind, hidden>>

(***************************************************************************)
(* neSend(buf), from its cli() on.  Main calls it with a new packet.       *)
(***************************************************************************)
MainSend ==
    /\ pcI = "none" /\ send.at = "none"
    /\ nsent < MaxSend
    /\ intOn' = FALSE
    /\ send' = [pkt |-> nsent + 1, at |-> "test"]
    /\ nsent' = nsent + 1
    /\ UNCHANGED <<chip, irr, inService, sendQueue, pcI, st, hd, buf,
                   loaded, arrived, got, nrecv, nbad, behind, hidden>>

\* 0x26 == inb(COMMAND): transmitting, and the DMA bits still as neSendPack
\* (or neGetCurrnet) left them.
Is26 == txp /\ rd = "abort"

SendTest ==
    /\ send.at = "test"
    /\ send' = [send EXCEPT !.at = IF Is26 THEN "queue" ELSE "copy"]
    /\ UNCHANGED <<chip, cpu, sendQueue, pcI, st, hd, buf, ghost>>

SendQueue ==
    /\ send.at = "queue"
    /\ sendQueue' = Append(sendQueue, send.pkt)
    /\ send' = NoSend
    /\ intOn' = TRUE
    /\ UNCHANGED <<chip, irr, inService, pcI, st, hd, buf, ghost>>

\* PCtoNIC for every part of the message: the transmit buffer is rewritten.
SendCopy ==
    /\ send.at = "copy"
    /\ txbuf' = send.pkt
    /\ rd' = "write"
    /\ loaded' = Append(loaded, send.pkt)
    /\ send' = [send EXCEPT !.at = "start"]
    /\ UNCHANGED <<bnry, curr, ring, txp, isr, imr, cpu, sendQueue, pcI, st, hd, buf,
                   nsent, arrived, got, nrecv, nbad, behind, hidden>>

\* neSendPack, sti().
SendStart ==
    /\ send.at = "start"
    /\ txp' = TRUE
    /\ rd' = "abort"
    /\ send' = NoSend
    /\ intOn' = TRUE
    /\ UNCHANGED <<bnry, curr, ring, isr, imr, txbuf, irr, inService,
                   sendQueue, pcI, st, hd, buf, ghost>>

neSend == SendTest \/ SendQueue \/ SendCopy \/ SendStart

-----------------------------------------------------------------------------
(***************************************************************************)
(* The interrupt: the 8259 puts IRQ 3 in service, the interrupt gate       *)
(* clears IF, NCI_int calls neISR, whose cli/sti enable interrupts again   *)
(* (IRQ 3 itself is held back until the EOI).                              *)
(***************************************************************************)
Interrupt ==
    /\ intOn /\ irr /\ ~inService
    /\ irr' = FALSE
    /\ inService' = TRUE
    /\ pcI' = "read"
    /\ UNCHANGED <<chip, intOn, sendQueue, send, st, hd, buf, ghost>>

\* state = neGetIntState() and the dispatch on it: PRX first, else PTX.
IsrRead ==
    /\ pcI = "read"
    /\ st' = isr
    /\ pcI' = CASE "PRX" \in isr                        -> "recv"
                [] "PRX" \notin isr /\ "PTX" \in isr    -> "ptx"
                [] OTHER                                -> "ack"
    /\ hidden' = hidden \cup (IF {"PRX", "PTX"} \subseteq isr THEN {"PTX"} ELSE {})
    /\ UNCHANGED <<chip, cpu, sendQueue, send, hd, buf,
                   nsent, loaded, arrived, got, nrecv, nbad, behind>>

\* The page neRecv reads next.
Bound == IF bnry + 1 > PSTOP THEN PSTART ELSE bnry + 1

\* neRecv: the registers, the header, NICtoPC(&recv, bound<<8, 4), and its
\* checks.  (bound == currnet, an empty ring, is not met: see FrameIsThere.)
RecvHead ==
    /\ pcI = "recv"
    /\ Bound # curr
    /\ hd' = [bound |-> Bound, next |-> ring[Bound].next, bad |-> ring[Bound].bad]
    /\ rd' = "read"
    /\ pcI' = IF ring[Bound].bad THEN "reset" ELSE "copy"
    /\ UNCHANGED <<bnry, curr, ring, txp, isr, imr, txbuf, cpu, sendQueue, send, st, buf, ghost>>

\* neRecv, bad header: all frames are dropped by moving CURR ...
RecvResetCurr ==
    /\ pcI = "reset"
    /\ curr' = PSTART
    /\ rd' = "abort"
    /\ arrived' = got
    /\ behind' = 0
    /\ pcI' = "reset2"
    /\ UNCHANGED <<bnry, ring, txp, isr, imr, txbuf, cpu, sendQueue, send, st, hd, buf,
                   nsent, loaded, got, nrecv, nbad, hidden>>

\* ... and then the boundary.  neRecv returns NULL.
RecvResetBnry ==
    /\ pcI = "reset2"
    /\ bnry' = PSTOP
    /\ hd' = NoHead
    /\ pcI' = "ack"
    /\ UNCHANGED <<curr, ring, txp, rd, isr, imr, txbuf, cpu, sendQueue, send, st, buf, ghost>>

\* neRecv: the data, NICtoPC(buf->msg, ...).
RecvCopy ==
    /\ pcI = "copy"
    /\ buf' = ring[hd.bound].pkt
    /\ pcI' = "advance"
    /\ UNCHANGED <<chip, cpu, sendQueue, send, st, hd, ghost>>

\* Seeded faults: neSetBoundary(recv.next) and neSetBoundary(recv.next - 2).
RecvAdvance_To(page) ==
    /\ pcI = "advance"
    /\ bnry' = page
    /\ hd' = NoHead
    /\ pcI' = "eth"
    /\ UNCHANGED <<curr, ring, txp, rd, isr, imr, txbuf, cpu, sendQueue, send, st, buf, ghost>>
RecvAdvance_Next == RecvAdvance_To(hd.next)
RecvAdvance_TwoBehind == RecvAdvance_To(hd.next - 2)

\* neRecv: neSetBoundary(recv.next - 1).
RecvAdvance ==
    /\ pcI = "advance"
    /\ bnry' = hd.next - 1
    /\ hd' = NoHead
    /\ pcI' = "eth"
    /\ UNCHANGED <<curr, ring, txp, rd, isr, imr, txbuf, cpu, sendQueue, send, st, buf, ghost>>

\* ethRecv(msg): the packet goes up the stack and nothing is sent in return.
IsrDeliver ==
    /\ pcI = "eth"
    /\ got' = Append(got, buf)
    /\ buf' = 0
    /\ pcI' = "ack"
    /\ UNCHANGED <<chip, cpu, sendQueue, send, st, hd, nsent, loaded, arrived, nrecv, nbad, behind, hidden>>

\* ethRecv(msg) ends in arpReply, which calls neSend inside the handler ...
IsrReply ==
    /\ pcI = "eth"
    /\ nsent < MaxSend
    /\ got' = Append(got, buf)
    /\ buf' = 0
    /\ intOn' = FALSE
    /\ send' = [pkt |-> nsent + 1, at |-> "test"]
    /\ nsent' = nsent + 1
    /\ pcI' = "replying"
    /\ UNCHANGED <<chip, irr, inService, sendQueue, st, hd, loaded, arrived, nrecv, nbad, behind, hidden>>

\* ... and returns from it.
IsrReplied ==
    /\ pcI = "replying" /\ send.at = "none"
    /\ pcI' = "ack"
    /\ UNCHANGED <<chip, cpu, sendQueue, send, st, hd, buf, ghost>>

\* PTX with something queued: neSend(queue->msg).
IsrSend ==
    /\ pcI = "ptx"
    /\ sendQueue # <<>>
    /\ intOn' = FALSE
    /\ send' = [pkt |-> Head(sendQueue), at |-> "test"]
    /\ pcI' = "sending"
    /\ UNCHANGED <<chip, irr, inService, sendQueue, st, hd, buf, ghost>>

IsrNothingQueued ==
    /\ pcI = "ptx"
    /\ sendQueue = <<>>
    /\ pcI' = "ack"
    /\ UNCHANGED <<chip, cpu, sendQueue, send, st, hd, buf, ghost>>

\* Seeded fault: the packet that was sent stays at the head of the queue.
IsrDel_Missing ==
    /\ pcI = "sending" /\ send.at = "none"
    /\ pcI' = "ack"
    /\ UNCHANGED <<chip, cpu, sendQueue, send, st, hd, buf, ghost>>

\* sendQueue = del(sendQueue), once that neSend is back.
IsrDel ==
    /\ pcI = "sending" /\ send.at = "none"
    /\ sendQueue' = Tail(sendQueue)
    /\ pcI' = "ack"
    /\ UNCHANGED <<chip, cpu, send, st, hd, buf, ghost>>

\* neSetIntState(state).
IsrAck ==
    /\ pcI = "ack"
    /\ neSetIntState(st)
    /\ pcI' = "mask"
    /\ UNCHANGED <<bnry, curr, ring, txp, rd, txbuf, inService, intOn, sendQueue, send, st, hd, buf, ghost>>

\* Seeded fault: neISR without neSetIntMask(0).
IsrMask_Missing ==
    /\ pcI = "mask"
    /\ intOn' = FALSE
    /\ pcI' = "eoi"
    /\ UNCHANGED <<chip, irr, inService, sendQueue, send, st, hd, buf, ghost>>

\* neSetIntMask(0), cli().
IsrMask ==
    /\ pcI = "mask"
    /\ neSetIntMask(FALSE)
    /\ intOn' = FALSE
    /\ pcI' = "eoi"
    /\ UNCHANGED <<bnry, curr, ring, txp, rd, txbuf, inService, sendQueue, send, st, hd, buf, ghost>>

\* EOI to both 8259s.
IsrEoi ==
    /\ pcI = "eoi"
    /\ inService' = FALSE
    /\ pcI' = "unmask"
    /\ UNCHANGED <<chip, irr, intOn, sendQueue, send, st, hd, buf, ghost>>

\* neSetIntMask(imr).
IsrUnmask ==
    /\ pcI = "unmask"
    /\ neSetIntMask(TRUE)
    /\ pcI' = "ack2"
    /\ UNCHANGED <<bnry, curr, ring, txp, rd, txbuf, inService, intOn, sendQueue, send, st, hd, buf, ghost>>

\* The second neSetIntState(state), sti(), and the return through NCI_int.  (An
\* interrupt between the sti and the iret finds nothing of neISR left to do: the
\* inner handler runs as if after the outer one, on a deeper stack.)
IsrExit ==
    /\ pcI = "ack2"
    /\ neSetIntState(st)
    /\ intOn' = TRUE
    /\ st' = {}
    /\ pcI' = "none"
    /\ UNCHANGED <<bnry, curr, ring, txp, rd, txbuf, inService, sendQueue, send, hd, buf, ghost>>

neRecv == RecvHead \/ RecvResetCurr \/ RecvResetBnry \/ RecvCopy \/ RecvAdvance

neISR ==
    \/ IsrRead \/ neRecv \/ IsrDeliver \/ IsrReply \/ IsrReplied
    \/ IsrSend \/ IsrNothingQueued \/ IsrDel
    \/ IsrAck \/ IsrMask \/ IsrEoi \/ IsrUnmask \/ IsrExit

Next == Chip \/ MainSend \/ neSend \/ Interrupt \/ neISR

(***************************************************************************)
(* The processor executes, and takes an interrupt that stays requested;    *)
(* nothing is assumed of the chip or of main's calls.                      *)
(***************************************************************************)
Spec == Init /\ [][Next]_vars /\ WF_vars(neSend) /\ WF_vars(neISR) /\ WF_vars(Interrupt)

-----------------------------------------------------------------------------
TypeOK ==
    /\ bnry \in PSTART - 1 .. PSTOP
    /\ curr \in Ring
    /\ DOMAIN ring = Ring
    /\ txp \in BOOLEAN /\ imr \in BOOLEAN
    /\ rd \in {"abort", "read", "write"}
    /\ isr \subseteq {"PRX", "PTX", "TXE", "OVW"} /\ st \subseteq {"PRX", "PTX", "TXE", "OVW"}
    /\ irr \in BOOLEAN /\ inService \in BOOLEAN /\ intOn \in BOOLEAN
    /\ send.pkt \in 0 .. MaxSend /\ send.at \in {"none", "test", "queue", "copy", "start"}
    /\ sendQueue \in Seq(1 .. MaxSend)
    /\ buf \in 0 .. MaxRecv
    /\ pcI \in {"none", "read", "recv", "reset", "reset2", "copy", "advance", "eth",
                "replying", "ptx", "sending", "ack", "mask", "eoi", "unmask", "ack2"}

(***************************************************************************)
(* The frames in the ring, from the page neRecv reads next up to CURR; the *)
(* walk that never meets CURR finds none.                                  *)
(***************************************************************************)
InRing ==
    LET at[k \in 0 .. N] ==
            IF k = 0 THEN Bound
            ELSE IF at[k - 1] \in Ring \ {curr} THEN ring[at[k - 1]].next ELSE at[k - 1]
        upTo == {k \in 0 .. N : at[k] = curr}
        len  == IF upTo = {} THEN 0 ELSE CHOOSE k \in upTo : \A j \in upTo : k <= j
    IN  [i \in 1 .. len |-> ring[at[i - 1]].pkt]

(***************************************************************************)
(* Every frame the chip stored is passed up exactly once, in order, or is  *)
(* still in the ring where neRecv's next reads will find it: what was      *)
(* delivered, what neRecv holds and what the ring holds make up what       *)
(* arrived.  It covers the wrap of the ring, BNRY one page behind, a frame *)
(* stored while neRecv copies, and the two-step reset.                     *)
(***************************************************************************)
ReceivedInOrder ==
    pcI # "reset2" =>
        /\ arrived = got \o (IF pcI = "eth" THEN <<buf>> ELSE <<>>) \o InRing
        /\ pcI = "advance" => InRing # <<>> /\ buf = Head(InRing)

(***************************************************************************)
(* neRecv never finds the ring empty: PRX, when neISR reads it, stands for *)
(* a frame that is still there, although frames arrive while earlier ones  *)
(* are handled, status bits are cleared twice and a reset drops frames.    *)
(* So ethRecv gets NULL only after a reset.                                *)
(***************************************************************************)
FrameIsThere == pcI = "recv" => Bound # curr

(***************************************************************************)
(* neISR takes one frame per PRX and acknowledges the bit twice.  So, with *)
(* no handler running and no PRX pending, exactly as many frames wait in   *)
(* the ring as were stored since the last reset without a PRX of their own *)
(* (the bit was still set, or was being handled): each of them leaves the  *)
(* driver one frame late for good, and nothing else does.                  *)
(***************************************************************************)
RxBacklogExact == (pcI = "none" /\ "PRX" \notin isr) => Len(InRing) = behind

(***************************************************************************)
(* The queue stands still (packets in it, the card idle, no completion     *)
(* pending) only when a completion fell under a receive interrupt, under   *)
(* the acknowledgement of an earlier one, or was an error: otherwise every *)
(* completion goes on with the queue.                                      *)
(***************************************************************************)
TxWaitsOnlyIfHidden ==
    (pcI = "none" /\ send.at = "none" /\ ~txp /\ "PTX" \notin isr /\ sendQueue # <<>>)
        => hidden # {}

Count(p, s) == Cardinality({i \in DOMAIN s : s[i] = p})

(***************************************************************************)
(* Every packet handed to neSend is copied into the transmit buffer once   *)
(* or is in the queue once, also when neISR's neSend finds the chip busy   *)
(* again and queues the packet it just took (neISR deletes the head        *)
(* afterwards).                                                            *)
(***************************************************************************)
LoadedOnce ==
    LET waiting == IF pcI = "sending" THEN Tail(sendQueue) ELSE sendQueue
        inHand(p) == IF send.pkt = p /\ send.at # "start" THEN 1 ELSE 0
    IN  \A p \in 1 .. nsent : Count(p, waiting) + Count(p, loaded) + inHand(p) = 1

(***************************************************************************)
(* The handler is entered only when no handler and no neSend is running:   *)
(* the in-service bit keeps neISR, which runs with interrupts enabled,     *)
(* from being re-entered (bugList: BUG_NO_RE_INT), and cli keeps it out    *)
(* of neSend's remote DMA.                                                 *)
(***************************************************************************)
NoReentry ==
    [][pcI' = "read" /\ pcI # "read" => pcI = "none" /\ send.at = "none"]_vars

(***************************************************************************)
(* Outside the handler a pending, enabled status bit always has a latched  *)
(* request: the edge-triggered controller misses none, because neISR       *)
(* lowers the line by masking before its EOI.                              *)
(***************************************************************************)
NoLostEdge == pcI = "none" /\ isr # {} => irr

(***************************************************************************)
(* Once interrupts are enabled the status register does not stay pending   *)
(* for ever: whatever the chip raises, the handler comes to clear it.      *)
(***************************************************************************)
DeviceServed == (intOn /\ isr # {}) ~> (isr = {})

-----------------------------------------------------------------------------
(***************************************************************************)
(* ne2k.c:186: "a packet is being sent: append this one to the send        *)
(* queue", so the buffer the chip is reading is not rewritten.  (The test  *)
(* 0x26 == CR misses a transmission once neRecv's NICtoPC has changed the  *)
(* DMA bits of the command register.)                                      *)
(***************************************************************************)
BusyMeansQueued == send.at = "copy" => ~txp

=============================================================================
