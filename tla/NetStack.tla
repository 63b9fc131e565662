------------------------------ MODULE NetStack ------------------------------
(***************************************************************************)
(* The protocols above the driver: udpSend (net/udp.c), ipSend (net/ip.c), *)
(* ipToMac, arpRequest, arpRecv and arpReply (net/arp.c), ethSend and      *)
(* ethRecv (net/ethernet.c), as cmain (kernel/init.c) uses them.  The one  *)
(* thread sends datagrams; frames that arrive are handled by ethRecv       *)
(* inside the network interrupt, between any two steps of the thread once  *)
(* interrupts are on (the first neSend's sti turns them on).               *)
(*                                                                         *)
(* Numbers that cross the network are tuples of bytes, most significant    *)
(* first, because the code compares some of them in different byte orders. *)
(* The list library behind arpTable (glib/list.h) is external: add puts an *)
(* element at the head, find returns a node that compares equal or NULL.   *)
(*                                                                         *)
(* The words of the IP header are in IpHeader; the UDP header and the data *)
(* are left out.                                                           *)
(***************************************************************************)
EXTENDS IpHeader, FiniteSets

CONSTANTS
    Dests,      \* destination addresses the thread sends to (network order)
    Wire,       \* frames that may arrive: [type, sIP, sHost, dIP, op, protocolType]
    hostIp,     \* hostIp(), in host order
    Garbage,    \* what malloc's memory may hold: [tos, flags, check]
    MaxUdp,     \* bound: datagrams sent
    MaxIn       \* bound: frames received

VARIABLES
    tableUp,    \* arpTable # NULL
    arpTable,   \* IP -> mac, for the entries find can reach
    intOn,      \* interrupts enabled
    pc,         \* "idle", "ipToMac", "request", "wait", "ethSend"
    dip,        \* destination of the running ipSend
    dHost,      \* what ipToMac returned: a mac, or "wild" (read through NULL)
    out,        \* frames handed to neSend
    stray,      \* stores through a NULL item
    \* history
    nin,        \* frames received
    last,       \* IP -> mac of the latest ARP frame from it
    claims,     \* every <<IP, mac>> an ARP frame claimed
    knew        \* an ARP frame from dip had come before ipToMac's last lookup

vars == <<tableUp, arpTable, intOn, pc, dip, dHost, out, stray, nin, last, claims, knew>>

\* Byte order: in.h.
longSwap(x) == <<x[4], x[3], x[2], x[1]>>
shortSwap(x) == <<x[2], x[1]>>

\* A 32-bit number passed through htons keeps its low half, swapped.
htonsOfLong(x) == <<0, 0>> \o shortSwap(<<x[3], x[4]>>)

ETHERTYPE_IP  == <<8, 0>>
ARPOP_REQUEST == <<0, 1>>
ARPOP_REPLY   == <<0, 2>>

\* Addresses are four bytes; no mac is the "wild" read through NULL.
Byte    == 0 .. 255
Address == Byte \X Byte \X Byte \X Byte

ASSUME NetStackAssumption ==
    /\ hostIp \in Address /\ Dests \subseteq Address
    /\ Garbage \subseteq [tos : Byte, flags : 0 .. 7, check : 0 .. Word - 1]
    /\ \A p \in Wire : p.sHost # "wild"
    /\ MaxUdp \in Nat /\ MaxIn \in Nat

NoIp == <<0, 0, 0, 0>>

Init ==
    /\ tableUp = FALSE
    /\ arpTable = [ip \in {} |-> "none"]
    /\ intOn = FALSE
    /\ pc = "idle"
    /\ dip = NoIp
    /\ dHost = "none"
    /\ out = <<>>
    /\ stray = FALSE
    /\ nin = 0
    /\ last = [ip \in {} |-> "none"]
    /\ claims = {}
    /\ knew = FALSE

-----------------------------------------------------------------------------
\* ethSend and neSend: the frame goes out; neSend ends with sti().
ethSend(frame) ==
    /\ out' = Append(out, frame)
    /\ intOn' = TRUE

Datagrams == Cardinality({i \in DOMAIN out : out[i].type = "ip"})

\* udpSend, ipSend up to its call of ipToMac.
UdpSend(d) ==
    /\ pc = "idle"
    /\ Datagrams < MaxUdp
    /\ dip' = d
    /\ pc' = "ipToMac"
    /\ UNCHANGED <<tableUp, arpTable, intOn, dHost, out, stray, nin, last, claims, knew>>

\* ipToMac: create the table if need be, look the address up.
LookupHit ==
    /\ pc = "ipToMac"
    /\ dip \in DOMAIN arpTable
    /\ dHost' = arpTable[dip]
    /\ knew' = (dip \in DOMAIN last)
    /\ pc' = "ethSend"
    /\ UNCHANGED <<tableUp, arpTable, intOn, dip, out, stray, nin, last, claims>>

\* Seeded faults: the table is not created; no query is sent.
LookupMiss_NoTable ==
    /\ pc = "ipToMac"
    /\ dip \notin DOMAIN arpTable
    /\ pc' = "request"
    /\ UNCHANGED <<tableUp, arpTable, intOn, dip, dHost, out, stray, nin, last, claims, knew>>

LookupMiss_NoQuery ==
    /\ pc = "ipToMac"
    /\ dip \notin DOMAIN arpTable
    /\ tableUp' = TRUE
    /\ pc' = "wait"
    /\ UNCHANGED <<arpTable, intOn, dip, dHost, out, stray, nin, last, claims, knew>>

LookupMiss ==
    /\ pc = "ipToMac"
    /\ dip \notin DOMAIN arpTable
    /\ tableUp' = TRUE
    /\ pc' = "request"
    /\ UNCHANGED <<arpTable, intOn, dip, dHost, out, stray, nin, last, claims, knew>>

\* arpRequest(ip): a broadcast query.
ArpRequest ==
    /\ pc = "request"
    /\ ethSend([type |-> "arp", op |-> shortSwap(ARPOP_REQUEST), sIP |-> longSwap(hostIp),
                dIP |-> dip, dHost |-> "broadcast"])
    /\ pc' = "wait"
    /\ UNCHANGED <<tableUp, arpTable, dip, dHost, stray, nin, last, claims, knew>>

\* The node find leaves ipToMac with.  A NULL node is dereferenced: the address
\* comes from whatever lies at the bottom of memory.
\* Seeded fault: the first element of the list, whatever it is for.
Resolved_First(table, ip) ==
    IF DOMAIN table # {} THEN table[CHOOSE i \in DOMAIN table : TRUE] ELSE "wild"

Resolved(table, ip) == IF ip \in DOMAIN table THEN table[ip] ELSE "wild"

\* Seeded fault: ipToMac waits until an answer is there.
WaitOver_ForAnswer ==
    /\ pc = "wait"
    /\ dip \in DOMAIN arpTable
    /\ dHost' = arpTable[dip]
    /\ knew' = TRUE
    /\ pc' = "ethSend"
    /\ UNCHANGED <<tableUp, arpTable, intOn, dip, out, stray, nin, last, claims>>

\* The delay loop ends and the table is searched once more.
WaitOver ==
    /\ pc = "wait"
    /\ dHost' = Resolved(arpTable, dip)
    /\ knew' = (dip \in DOMAIN last)
    /\ pc' = "ethSend"
    /\ UNCHANGED <<tableUp, arpTable, intOn, dip, out, stray, nin, last, claims>>

\* ipSend's ethSend of the header, built in memory that held old.
IpFrame(old) ==
    /\ pc = "ethSend"
    /\ ethSend([type |-> "ip", dIP |-> dip, dHost |-> dHost, knew |-> knew, old |-> old.check,
                words |-> Header(old, longSwap(hostIp), dip)])
    /\ dip' = NoIp
    /\ dHost' = "none"
    /\ knew' = FALSE
    /\ pc' = "idle"
    /\ UNCHANGED <<tableUp, arpTable, stray, nin, last, claims>>

-----------------------------------------------------------------------------
\* Inside the interrupt.

\* arpRecv's test for a reply, as it stands: fields as read from the frame
\* against constants in host order.
Replies(p) == p.dIP = hostIp /\ p.protocolType = ARPOP_REPLY

\* arpReply(p): broadcast too; htons cuts this host's address to its low half.
arpReply(p) ==
    ethSend([type |-> "arp", op |-> shortSwap(ARPOP_REPLY), sIP |-> htonsOfLong(hostIp),
             dIP |-> p.sIP, dHost |-> "broadcast"])

\* The table with an entry for ip put in front of the others.
WithEntry(table, ip, mac) == [i \in DOMAIN table \cup {ip} |-> IF i = ip THEN mac ELSE table[i]]

\* Seeded faults: the list is started afresh; the entry is filed under dIP.
Learned_Only(table, p) == [ip \in {p.sIP} |-> p.sHost]
Learned_Target(table, p) == WithEntry(table, p.dIP, p.sHost)

\* The table after arpRecv: an entry for a sender that had none.
Learned(table, p) == IF p.sIP \in DOMAIN table THEN table ELSE WithEntry(table, p.sIP, p.sHost)

\* arpRecv: an unknown sender becomes an entry; for a known one item is NULL,
\* so the mac is stored at the bottom of memory and a NULL element is added.
arpRecv(p) ==
    /\ arpTable' = Learned(arpTable, p)
    /\ stray' = (stray \/ p.sIP \in DOMAIN arpTable)
    /\ IF Replies(p) THEN arpReply(p) ELSE UNCHANGED <<out, intOn>>
    /\ last' = WithEntry(last, p.sIP, p.sHost)
    /\ claims' = claims \cup {<<p.sIP, p.sHost>>}

\* ethRecv for ARP and RARP.
EthRecvArp(p) ==
    /\ intOn /\ nin < MaxIn
    /\ p.type \in {"arp", "rarp"}
    /\ arpRecv(p)
    /\ nin' = nin + 1
    /\ UNCHANGED <<tableUp, pc, dip, dHost, knew>>

\* ethRecv for IP (ipRecv is empty) and for anything else.
EthRecvOther(p) ==
    /\ intOn /\ nin < MaxIn
    /\ p.type \notin {"arp", "rarp"}
    /\ nin' = nin + 1
    /\ UNCHANGED <<tableUp, arpTable, intOn, pc, dip, dHost, out, stray, last, claims, knew>>

Thread == LookupHit \/ LookupMiss \/ ArpRequest \/ WaitOver \/ \E old \in Garbage : IpFrame(old)

Next ==
    \/ \E d \in Dests : UdpSend(d)
    \/ Thread
    \/ \E p \in Wire : EthRecvArp(p) \/ EthRecvOther(p)

\* The thread goes on with a send it has begun.
Spec == Init /\ [][Next]_vars /\ WF_vars(Thread)

-----------------------------------------------------------------------------
TypeOK ==
    /\ tableUp \in BOOLEAN /\ intOn \in BOOLEAN /\ stray \in BOOLEAN /\ knew \in BOOLEAN
    /\ pc \in {"idle", "ipToMac", "request", "wait", "ethSend"}
    /\ dip \in Dests \cup {NoIp}
    /\ nin \in 0 .. MaxIn
    /\ DOMAIN arpTable \subseteq {p.sIP : p \in Wire}

(***************************************************************************)
(* The interrupt never finds arpTable NULL: arpRecv would call ipToMac,    *)
(* which sends a query and waits, inside the handler, for a reply that the *)
(* handler itself would have to receive.                                   *)
(***************************************************************************)
TableBeforeInterrupts == intOn => tableUp

(***************************************************************************)
(* A datagram never goes to another host's mac: where ipToMac found an     *)
(* entry, its mac was claimed for this destination by some ARP frame (not  *)
(* always its latest one: arpRecv keeps the first), whatever frames of     *)
(* other hosts came in while it waited.                                    *)
(***************************************************************************)
NotToAnotherHost ==
    \A i \in DOMAIN out :
        out[i].type = "ip" =>
            out[i].dHost = "wild" \/ <<out[i].dIP, out[i].dHost>> \in claims

(***************************************************************************)
(* If an ARP frame of the destination came before ipToMac looked for the   *)
(* last time, its answer is found, whatever else came in between.          *)
(***************************************************************************)
AnswerIsFound ==
    \A i \in DOMAIN out : (out[i].type = "ip" /\ out[i].knew) => out[i].dHost # "wild"

IsQueryOf(frame, ip) ==
    frame.type = "arp" /\ frame.op = shortSwap(ARPOP_REQUEST) /\ frame.dIP = ip

(***************************************************************************)
(* A datagram is never the first frame for a destination nobody has heard  *)
(* of: a query for it goes out before it, and a query goes out only when   *)
(* the destination is unknown, so at most one per datagram.                *)
(***************************************************************************)
QueryFirst ==
    /\ \A i \in DOMAIN out :
          out[i].type = "ip" =>
              \/ \E j \in 1 .. i - 1 : IsQueryOf(out[j], out[i].dIP)
              \/ out[i].knew
    /\ \A d \in Dests :
          Cardinality({i \in DOMAIN out : IsQueryOf(out[i], d)})
            <= Cardinality({i \in DOMAIN out : out[i].type = "ip" /\ out[i].dIP = d})
               + (IF dip = d THEN 1 ELSE 0)

(***************************************************************************)
(* A receiver accepts a datagram's header exactly if the memory malloc     *)
(* gave for it held 0 or all ones where the check field is, whatever tos,  *)
(* flags, the addresses and the carries of the sum are: ipSend sums the    *)
(* header before it has set the field.                                     *)
(***************************************************************************)
HeaderSumsUp ==
    \A i \in DOMAIN out :
        out[i].type = "ip" => (Verifies(out[i].words) <=> out[i].old \in {0, Word - 1})

(***************************************************************************)
(* A send that has begun ends, whether or not anybody answers its query:   *)
(* ipToMac's wait is a bounded delay, not a wait for the interrupt.        *)
(***************************************************************************)
SendEnds == (pc # "idle") ~> (pc = "idle")

-----------------------------------------------------------------------------
(***************************************************************************)
(* arp.c:102, arp.h:53: ipToMac returns a pointer to the address, or NULL  *)
(* when it has none.  (It reads node->e without a test.)                   *)
(***************************************************************************)
IpToMacResult == dHost # "wild"

=============================================================================
