--------------------------- MODULE NetStackProofs ---------------------------
(***************************************************************************)
(* Proofs about NetStack, for every set of peers, of frames on the wire    *)
(* and of memory contents, and for any number of datagrams and frames.     *)
(*                                                                         *)
(* The invariants of NetStack speak of the frames in out; they hold        *)
(* because of what the thread carries from ipToMac to ethSend and of what  *)
(* the table holds.  NetInv adds that: Carried for the thread, TableOK for *)
(* the table, and Sent, the form of the frames.                            *)
(***************************************************************************)
EXTENDS NetStack, Counting

-----------------------------------------------------------------------------
\* The words of the header.

\* What the header words but the check field add up to.
Rest(old, sip, ip) ==
    (old.tos * 256 + 69) + 32768 + 256 + old.flags + 4412
      + IpWords(sip)[1] + IpWords(sip)[2] + IpWords(ip)[1] + IpWords(ip)[2]

\* A 16-bit number.  (As a set, 0 .. Word - 1 is taken apart by the provers.)
Is16(n) == n \in Nat /\ n <= 65535

\* A sum of at most nine of them.
IsSum9(n) == n \in Nat /\ n <= 589815

\* n is g short of a positive multiple of 0xffff.
ShortBy(n, g) == \E q \in Nat : q > 0 /\ n = q * 65535 - g

(***************************************************************************)
(* The two words of an address are 16-bit words.                           *)
(***************************************************************************)
LEMMA AddressWords ==
  ASSUME NEW ip \in Address
  PROVE  Is16(IpWords(ip)[1]) /\ Is16(IpWords(ip)[2])
<1>1. \A b \in Byte : b \in Nat /\ b <= 255
  BY SMT DEF Byte
<1>2. ip[1] \in Byte /\ ip[2] \in Byte /\ ip[3] \in Byte /\ ip[4] \in Byte
  BY SMT DEF Address
<1>3. \A a, b \in Byte : Is16(a * 256 + b)
  BY <1>1, SMT DEF Is16
<1> QED BY <1>2, <1>3, SMT DEF IpWords

(***************************************************************************)
(* The sum of the ten words ipSend builds.                                 *)
(***************************************************************************)
LEMMA HeaderSum ==
  ASSUME NEW check, Is16(check), NEW old \in Garbage,
         NEW sip \in Address, NEW ip \in Address
  PROVE  /\ SumOf(HeaderWith(check, old, sip, ip)) = Rest(old, sip, ip) + check
         /\ IsSum9(Rest(old, sip, ip))
<1> DEFINE s1 == IpWords(sip)[1]
           s2 == IpWords(sip)[2]
           d1 == IpWords(ip)[1]
           d2 == IpWords(ip)[2]
           t == old.tos * 256 + 69
           w == HeaderWith(check, old, sip, ip)
<1>1. old.tos \in Byte /\ old.flags \in Nat /\ old.flags <= 7
  BY NetStackAssumption, SMT
<1>2. old.tos \in Nat /\ old.tos <= 255
  BY <1>1, SMT DEF Byte
<1>3. Is16(t) /\ t = old.tos * 256 + 4 * 16 + 5
  BY <1>2, SMT DEF Is16
<1>4. Is16(s1) /\ Is16(s2) /\ Is16(d1) /\ Is16(d2)
  BY AddressWords, SMT
<1>5. (UDP_BYTES % 256) * 256 + (UDP_BYTES \div 256) = 32768 /\ 17 * 256 + 60 = 4412
  BY SMT DEF UDP_BYTES
<1>6. w = << t, 32768, 256, old.flags, 4412, check, s1, s2, d1, d2 >>
  BY <1>3, <1>5, SMT DEF HeaderWith
<1>7. Rest(old, sip, ip) = t + 32768 + 256 + old.flags + 4412 + s1 + s2 + d1 + d2
  BY SMT DEF Rest
<1> HIDE DEF w, s1, s2, d1, d2, t
<1>8. SumOf(w) = t + 32768 + 256 + old.flags + 4412 + check + s1 + s2 + d1 + d2
  BY <1>6, SMT DEF SumOf
<1>9. SumOf(w) = Rest(old, sip, ip) + check
  BY <1>1, <1>3, <1>4, <1>7, <1>8, SMT DEF Is16
<1>10. IsSum9(Rest(old, sip, ip))
  BY <1>1, <1>3, <1>4, <1>7, SMT DEF Is16, IsSum9
<1> QED BY <1>9, <1>10, SMT DEF w

(***************************************************************************)
(* checkSum's two carries, whatever the words are: with g in the check     *)
(* field while it was summed, the sum a receiver takes is short of a       *)
(* multiple of 0xffff by g.                                                *)
(***************************************************************************)
LEMMA Carries ==
  ASSUME NEW r, IsSum9(r), NEW g, Is16(g),
         NEW once, once = Fold(r + g),
         NEW check, check = Not16(once + (once \div Word))
  PROVE  Is16(check) /\ ShortBy(r + check, g)
<1> DEFINE q == (r + g) \div 65536
           m == (r + g) % 65536
<1>1. q \in Nat /\ q <= 9 /\ m \in Nat /\ m <= 65535 /\ r + g = q * 65536 + m
  BY SMT DEF Is16, IsSum9
<1>2. once = m + q
  BY SMT DEF Is16, IsSum9, Fold, Word
<1> HIDE DEF q, m
<1>3. CASE m + q < 65536
  <2>1. once \div 65536 = 0 /\ (m + q) % 65536 = m + q
    BY <1>1, <1>2, <1>3, SMT
  <2>2. check = 65535 - (m + q)
    <3>1. once \div Word = 0
      BY <2>1, SMT DEF Word
    <3>2. once + (once \div Word) = m + q
      BY <1>1, <1>2, <3>1, SMT
    <3> QED BY <1>1, <2>1, <3>2, SMT DEF Not16, Word
  <2>3. r + check = (q + 1) * 65535 - g
    BY <1>1, <2>2, SMT DEF Is16, IsSum9
  <2>4. Is16(check) /\ q + 1 \in Nat /\ q + 1 > 0
    BY <1>1, <1>3, <2>2, SMT DEF Is16
  <2> QED BY <2>3, <2>4, SMT DEF ShortBy
<1>4. CASE m + q >= 65536
  <2>1. once \div 65536 = 1 /\ (m + q + 1) % 65536 = m + q + 1 - 65536
    BY <1>1, <1>2, <1>4, SMT
  <2>2. check = 131070 - (m + q)
    BY <1>1, <1>2, <2>1, SMT DEF Not16, Word
  <2>3. r + check = (q + 2) * 65535 - g
    BY <1>1, <2>2, SMT DEF Is16, IsSum9
  <2>4. Is16(check) /\ q + 2 \in Nat /\ q + 2 > 0
    BY <1>1, <1>4, <2>2, SMT DEF Is16
  <2> QED BY <2>3, <2>4, SMT DEF ShortBy
<1> QED BY <1>1, <1>3, <1>4, SMT

(***************************************************************************)
(* A receiver accepts the header ipSend builds exactly if the check field  *)
(* held 0 or all ones while it was summed.                                 *)
(***************************************************************************)
LEMMA HeaderVerifies ==
  ASSUME NEW old \in Garbage, NEW sip \in Address, NEW ip \in Address
  PROVE  Verifies(Header(old, sip, ip)) <=> old.check \in {0, Word - 1}
<1> DEFINE r == Rest(old, sip, ip)
           g == old.check
           once == Fold(r + g)
           check == Not16(once + (once \div Word))
<1>1. Is16(g)
  <2>1. g \in 0 .. Word - 1
    BY NetStackAssumption, SMT
  <2>2. Word \in Nat /\ Word = 65536
    BY SMT DEF Word
  <2> HIDE DEF g
  <2>3. g \in Nat /\ g <= Word - 1
    BY <2>1, SMT
  <2> QED BY <2>2, <2>3, SMT DEF Is16
<1>2. checkSum(HeaderWith(g, old, sip, ip)) = check /\ IsSum9(r)
  BY <1>1, HeaderSum, SMT DEF checkSum
<1>3. Is16(check) /\ ShortBy(r + check, g)
  <2>1. once = Fold(r + g) /\ check = Not16(once + (once \div Word))
    OBVIOUS
  <2> HIDE DEF r, g, once, check
  <2> QED BY <1>1, <1>2, <2>1, Carries, Zenon
<1>4. SumOf(Header(old, sip, ip)) = r + check
  <2> HIDE DEF r, check
  <2> QED BY <1>2, <1>3, HeaderSum, SMT DEF Header, r
<1>5. PICK q \in Nat : q > 0 /\ r + check = q * 65535 - g
  BY <1>3, SMT DEF ShortBy
<1> HIDE DEF r, g, check
<1>6. CASE g = 0 \/ g = 65535
  BY <1>1, <1>4, <1>5, <1>6, SMT DEF Verifies, Word, g, Is16
<1>7. CASE g > 0 /\ g < 65535
  <2>1. q * 65535 - g = (q - 1) * 65535 + (65535 - g)
    BY <1>1, SMT DEF Is16
  <2>2. (q * 65535 - g) % 65535 = 65535 - g
    BY <1>1, <1>7, <2>1, SMT DEF Is16
  <2> QED BY <1>1, <1>4, <1>5, <1>7, <2>2, SMT DEF Verifies, Word, g, Is16
<1> QED BY <1>1, <1>6, <1>7, SMT DEF Is16

-----------------------------------------------------------------------------
\* The inductive invariant.

Macs == {p.sHost : p \in Wire} \cup {"wild"}

ArpFrames ==
    {[type |-> "arp", op |-> o, sIP |-> s, dIP |-> d, dHost |-> "broadcast"] :
        o \in {shortSwap(ARPOP_REQUEST), shortSwap(ARPOP_REPLY)},
        s \in {longSwap(hostIp), htonsOfLong(hostIp)},
        d \in Dests \cup {p.sIP : p \in Wire}}

IpFrames ==
    {[type |-> "ip", dIP |-> d, dHost |-> m, knew |-> k, old |-> old.check,
      words |-> Header(old, longSwap(hostIp), d)] :
        d \in Dests, m \in Macs, k \in BOOLEAN, old \in Garbage}

\* The frames the stack hands to neSend.
Sent == ArpFrames \cup IpFrames

\* The entries of the table: claimed, real macs, for exactly the senders heard.
TableOK ==
    /\ intOn => tableUp
    /\ DOMAIN arpTable # {} => tableUp
    /\ DOMAIN arpTable \subseteq {p.sIP : p \in Wire}
    /\ DOMAIN last = DOMAIN arpTable
    /\ \A ip \in DOMAIN arpTable :
          /\ <<ip, arpTable[ip]>> \in claims
          /\ arpTable[ip] \in Macs \ {"wild"}

\* What the thread carries from step to step.
Carried ==
    /\ pc # "idle" => dip \in Dests
    /\ pc \in {"request", "wait", "ethSend"} => tableUp
    /\ pc = "ethSend" =>
          /\ dHost \in Macs
          /\ dHost = "wild" \/ <<dip, dHost>> \in claims
          /\ knew => dHost # "wild"
    /\ pc = "wait" => \E j \in DOMAIN out : IsQueryOf(out[j], dip)
    /\ pc = "ethSend" => knew \/ \E j \in DOMAIN out : IsQueryOf(out[j], dip)

QueriesFor(s, d) == {i \in DOMAIN s : IsQueryOf(s[i], d)}
DataFor(s, d)    == {i \in DOMAIN s : s[i].type = "ip" /\ s[i].dIP = d}

\* A query is paid for by a datagram, or by the one on its way.
Paid(d, n) ==
    Cardinality(QueriesFor(out, d)) <= Cardinality(DataFor(out, d)) + n
Owed(d) == IF dip = d /\ pc \in {"wait", "ethSend"} THEN 1 ELSE 0

\* The first conjunct of QueryFirst.
QueryBefore(s) ==
    \A i \in DOMAIN s :
        s[i].type = "ip" => (\E j \in 1 .. i - 1 : IsQueryOf(s[j], s[i].dIP)) \/ s[i].knew

NetInv ==
    /\ TypeOK
    /\ out \in Seq(Sent)
    /\ TableOK
    /\ Carried
    /\ NotToAnotherHost /\ AnswerIsFound
    /\ QueryBefore(out)
    /\ \A d \in Dests : Paid(d, Owed(d))

(***************************************************************************)
(* The two kinds of frames.                                                *)
(***************************************************************************)
LEMMA FrameForms ==
  /\ \A f \in ArpFrames : f.type = "arp" /\ ~(f.type = "ip")
  /\ \A f \in IpFrames :
        /\ f.type = "ip" /\ ~(f.type = "arp")
        /\ Verifies(f.words) <=> f.old \in {0, Word - 1}
<1>1. \A f \in ArpFrames : f.type = "arp" /\ ~(f.type = "ip")
  BY SMT DEF ArpFrames
<1>2. ASSUME NEW f \in IpFrames
      PROVE  f.type = "ip" /\ ~(f.type = "arp") /\ (Verifies(f.words) <=> f.old \in {0, Word - 1})
  <2>1. PICK d \in Dests, m \in Macs, k \in BOOLEAN, old \in Garbage :
            f = [type |-> "ip", dIP |-> d, dHost |-> m, knew |-> k, old |-> old.check,
                 words |-> Header(old, longSwap(hostIp), d)]
    BY <1>2, SMT DEF IpFrames
  <2>2. f.type = "ip" /\ f.old = old.check /\ f.words = Header(old, longSwap(hostIp), d)
    BY <2>1, SMT
  <2>3. longSwap(hostIp) \in Address /\ d \in Address
    BY NetStackAssumption, SMT DEF longSwap, Address
  <2> QED BY <2>2, <2>3, HeaderVerifies
<1> QED BY <1>1, <1>2

(***************************************************************************)
(* A query the thread sends, a reply the interrupt sends and a datagram    *)
(* are frames of these forms; of them only the query is one.               *)
(***************************************************************************)
LEMMA FramesMade ==
  /\ \A d \in Dests :
        LET f == [type |-> "arp", op |-> shortSwap(ARPOP_REQUEST), sIP |-> longSwap(hostIp),
                  dIP |-> d, dHost |-> "broadcast"]
        IN  f \in ArpFrames /\ \A e \in Dests : IsQueryOf(f, e) <=> e = d
  /\ \A p \in Wire :
        LET f == [type |-> "arp", op |-> shortSwap(ARPOP_REPLY), sIP |-> htonsOfLong(hostIp),
                  dIP |-> p.sIP, dHost |-> "broadcast"]
        IN  f \in ArpFrames /\ \A e : ~IsQueryOf(f, e)
  /\ \A f \in IpFrames : \A e : ~IsQueryOf(f, e)
<1>1. shortSwap(ARPOP_REQUEST) # shortSwap(ARPOP_REPLY)
  BY DEF shortSwap, ARPOP_REQUEST, ARPOP_REPLY
<1>2. ASSUME NEW d \in Dests
      PROVE  LET f == [type |-> "arp", op |-> shortSwap(ARPOP_REQUEST), sIP |-> longSwap(hostIp),
                       dIP |-> d, dHost |-> "broadcast"]
             IN  f \in ArpFrames /\ \A e \in Dests : IsQueryOf(f, e) <=> e = d
  BY SMT DEF ArpFrames, IsQueryOf
<1>3. ASSUME NEW p \in Wire
      PROVE  LET f == [type |-> "arp", op |-> shortSwap(ARPOP_REPLY), sIP |-> htonsOfLong(hostIp),
                       dIP |-> p.sIP, dHost |-> "broadcast"]
             IN  f \in ArpFrames /\ \A e : ~IsQueryOf(f, e)
  <2>1. p.sIP \in Dests \cup {r.sIP : r \in Wire}
    OBVIOUS
  <2> QED BY <1>1, <2>1, SMT DEF ArpFrames, IsQueryOf
<1>4. \A f \in IpFrames : \A e : ~IsQueryOf(f, e)
  BY FrameForms DEF IsQueryOf
<1> QED BY <1>2, <1>3, <1>4

(***************************************************************************)
(* What one more frame does to the positions QueryFirst counts.            *)
(***************************************************************************)
LEMMA CountsGrow ==
  ASSUME NEW s \in Seq(Sent), NEW f \in Sent, NEW d
  PROVE  LET q == Cardinality(QueriesFor(s, d))
             i == Cardinality(DataFor(s, d))
         IN  /\ q \in Nat /\ i \in Nat
             /\ Cardinality(QueriesFor(Append(s, f), d)) = IF IsQueryOf(f, d) THEN q + 1 ELSE q
             /\ Cardinality(DataFor(Append(s, f), d)) =
                   IF f.type = "ip" /\ f.dIP = d THEN i + 1 ELSE i
<1> DEFINE t == Append(s, f)
<1>1. /\ Len(s) \in Nat /\ DOMAIN s = 1 .. Len(s) /\ DOMAIN t = 1 .. Len(s) + 1
      /\ t[Len(s) + 1] = f /\ \A j \in 1 .. Len(s) : t[j] = s[j]
  BY Grown
<1>2. 1 .. Len(s) + 1 = (1 .. Len(s)) \cup {Len(s) + 1}
  BY <1>1
<1> HIDE DEF t
<1>3. QueriesFor(t, d) = IF IsQueryOf(f, d) THEN QueriesFor(s, d) \cup {Len(s) + 1}
                                            ELSE QueriesFor(s, d)
  BY <1>1, <1>2 DEF QueriesFor
<1>4. DataFor(t, d) = IF f.type = "ip" /\ f.dIP = d THEN DataFor(s, d) \cup {Len(s) + 1}
                                                    ELSE DataFor(s, d)
  BY <1>1, <1>2 DEF DataFor
<1>5. QueriesFor(s, d) \subseteq 1 .. Len(s) /\ DataFor(s, d) \subseteq 1 .. Len(s)
  BY <1>1 DEF QueriesFor, DataFor
<1> QED BY <1>1, <1>3, <1>4, <1>5, Counted DEF t

(***************************************************************************)
(* One more frame keeps QueryBefore if it is an ARP frame, or a datagram   *)
(* for a known destination or one a query has gone out for.                *)
(***************************************************************************)
LEMMA QueryStaysBefore ==
  ASSUME NEW s \in Seq(Sent), NEW f \in Sent, QueryBefore(s),
         f.type = "ip" => f.knew \/ \E j \in DOMAIN s : IsQueryOf(s[j], f.dIP)
  PROVE  QueryBefore(Append(s, f))
<1> DEFINE t == Append(s, f)
<1>1. /\ Len(s) \in Nat /\ DOMAIN s = 1 .. Len(s) /\ DOMAIN t = 1 .. Len(s) + 1
      /\ t[Len(s) + 1] = f /\ \A j \in 1 .. Len(s) : t[j] = s[j]
  BY Grown
<1> HIDE DEF t
<1> SUFFICES ASSUME NEW i \in DOMAIN t, t[i].type = "ip"
             PROVE  (\E j \in 1 .. i - 1 : IsQueryOf(t[j], t[i].dIP)) \/ t[i].knew
  BY DEF QueryBefore, t
<1>2. CASE i \in 1 .. Len(s)
  <2>1. (\E j \in 1 .. i - 1 : IsQueryOf(s[j], s[i].dIP)) \/ s[i].knew
    BY <1>1, <1>2 DEF QueryBefore
  <2>2. \A j \in 1 .. i - 1 : j \in 1 .. Len(s)
    BY <1>1, <1>2
  <2> QED BY <1>1, <1>2, <2>1, <2>2
<1>3. CASE i = Len(s) + 1
  <2>1. 1 .. i - 1 = 1 .. Len(s)
    BY <1>1, <1>3
  <2> QED BY <1>1, <1>3, <2>1
<1> QED BY <1>1, <1>2, <1>3

(***************************************************************************)
(* A step that sends nothing and forgets no claim keeps what NetInv says   *)
(* of the frames, if it owes no query less.                                *)
(***************************************************************************)
LEMMA NothingSent ==
  ASSUME NetInv, out' = out, claims \subseteq claims',
         \A d \in Dests : Owed(d)' >= Owed(d)
  PROVE  /\ out' \in Seq(Sent) /\ NotToAnotherHost' /\ AnswerIsFound' /\ QueryBefore(out)'
         /\ \A d \in Dests : Paid(d, Owed(d))'
<1>1. out' \in Seq(Sent) /\ QueryBefore(out)'
  BY DEF NetInv, QueryBefore
<1>2. NotToAnotherHost' /\ AnswerIsFound'
  BY DEF NetInv, NotToAnotherHost, AnswerIsFound
<1>3. ASSUME NEW d \in Dests
      PROVE  Paid(d, Owed(d))'
  <2>1. Cardinality(QueriesFor(out, d)) \in Nat /\ Cardinality(DataFor(out, d)) \in Nat
    <3>1. Len(out) \in Nat /\ DOMAIN out = 1 .. Len(out)
      BY DEF NetInv
    <3>2. QueriesFor(out, d) \subseteq 1 .. Len(out) /\ DataFor(out, d) \subseteq 1 .. Len(out)
      BY <3>1 DEF QueriesFor, DataFor
    <3> QED BY <3>1, <3>2, Counted
  <2>2. Owed(d) \in Nat /\ Owed(d)' \in Nat
    BY DEF Owed
  <2>3. Paid(d, Owed(d)) /\ Owed(d)' >= Owed(d)
    BY <1>3 DEF NetInv
  <2> QED BY <2>1, <2>2, <2>3 DEF Paid
<1> QED BY <1>1, <1>2, <1>3

(***************************************************************************)
(* A step that sends one frame keeps what NetInv says of the frames, if    *)
(* the frame itself is as it should be and a query is owed for.            *)
(***************************************************************************)
LEMMA OneSent ==
  ASSUME NetInv, NEW f \in Sent, out' = Append(out, f), claims \subseteq claims',
         f.type = "ip" =>
            /\ f.dHost = "wild" \/ <<f.dIP, f.dHost>> \in claims'
            /\ f.knew => f.dHost # "wild"
            /\ f.knew \/ \E j \in DOMAIN out : IsQueryOf(out[j], f.dIP),
         \A d \in Dests : Owed(d)' + (IF f.type = "ip" /\ f.dIP = d THEN 1 ELSE 0)
                            >= Owed(d) + (IF IsQueryOf(f, d) THEN 1 ELSE 0)
  PROVE  /\ out' \in Seq(Sent) /\ NotToAnotherHost' /\ AnswerIsFound' /\ QueryBefore(out)'
         /\ \A d \in Dests : Paid(d, Owed(d))'
<1>1. out \in Seq(Sent) /\ QueryBefore(out)
  BY DEF NetInv
<1>2. /\ out' \in Seq(Sent) /\ Len(out) \in Nat /\ DOMAIN out = 1 .. Len(out)
      /\ DOMAIN out' = 1 .. Len(out) + 1
      /\ out'[Len(out) + 1] = f /\ \A j \in 1 .. Len(out) : out'[j] = out[j]
  BY <1>1, Grown
<1>3. \A i \in DOMAIN out' : i \in DOMAIN out \/ i = Len(out) + 1
  BY <1>2
<1>4. NotToAnotherHost'
  BY <1>2, <1>3 DEF NetInv, NotToAnotherHost
<1>5. AnswerIsFound'
  BY <1>2, <1>3 DEF NetInv, AnswerIsFound
<1>6. QueryBefore(out)'
  <2>1. QueryBefore(Append(out, f))
    BY <1>1, QueryStaysBefore
  <2> QED BY <2>1 DEF QueryBefore
<1>7. ASSUME NEW d \in Dests
      PROVE  Paid(d, Owed(d))'
  <2> DEFINE q == Cardinality(QueriesFor(out, d))
             i == Cardinality(DataFor(out, d))
             qf == IF IsQueryOf(f, d) THEN 1 ELSE 0
             df == IF f.type = "ip" /\ f.dIP = d THEN 1 ELSE 0
  <2>1. /\ q \in Nat /\ i \in Nat
        /\ Cardinality(QueriesFor(out', d)) = IF IsQueryOf(f, d) THEN q + 1 ELSE q
        /\ Cardinality(DataFor(out', d)) = IF f.type = "ip" /\ f.dIP = d THEN i + 1 ELSE i
    BY <1>1, CountsGrow
  <2>2. Cardinality(QueriesFor(out', d)) = q + qf /\ Cardinality(DataFor(out', d)) = i + df
    BY <2>1
  <2>3. Owed(d) \in Nat /\ Owed(d)' \in Nat /\ qf \in Nat /\ df \in Nat
    BY DEF Owed
  <2>4. q <= i + Owed(d) /\ Owed(d)' + df >= Owed(d) + qf
    BY <1>7 DEF NetInv, Paid
  <2> HIDE DEF q, i, qf, df
  <2>5. q + qf <= i + df + Owed(d)'
    BY <2>1, <2>3, <2>4
  <2> QED BY <2>2, <2>5 DEF Paid
<1> QED BY <1>2, <1>4, <1>5, <1>6, <1>7

-----------------------------------------------------------------------------
(***************************************************************************)
(* Before cmain's first send there is nothing to be wrong.                 *)
(***************************************************************************)
LEMMA NetInit == Init => NetInv
<1> SUFFICES ASSUME Init PROVE NetInv
  OBVIOUS
<1>1. TypeOK
  <2>1. nin \in 0 .. MaxIn
    BY NetStackAssumption, SMT DEF Init
  <2> QED BY <2>1, Zenon DEF Init, TypeOK
<1>2. out \in Seq(Sent) /\ DOMAIN out = {}
  BY DEF Init
<1>3. TableOK
  BY DEF Init, TableOK
<1>4. Carried
  BY DEF Init, Carried
<1>5. NotToAnotherHost /\ AnswerIsFound /\ QueryBefore(out)
  BY <1>2 DEF NotToAnotherHost, AnswerIsFound, QueryBefore
<1>6. ASSUME NEW d \in Dests PROVE Paid(d, Owed(d))
  <2>1. QueriesFor(out, d) = {} /\ DataFor(out, d) = {}
    BY <1>2 DEF QueriesFor, DataFor
  <2>2. Owed(d) = 0
    BY DEF Owed, Init
  <2> QED BY <2>1, <2>2, FS_EmptySet DEF Paid
<1> QED BY <1>1, <1>2, <1>3, <1>4, <1>5, <1>6 DEF NetInv

(***************************************************************************)
(* The thread's lookups send nothing.                                      *)
(***************************************************************************)
LEMMA LookupSteps ==
  ASSUME NetInv, (\E d \in Dests : UdpSend(d)) \/ LookupHit \/ LookupMiss \/ WaitOver
  PROVE  NetInv'
<1> USE DEF UdpSend, LookupHit, LookupMiss, WaitOver
<1>1. TypeOK'
  <2>1. knew' \in BOOLEAN
    <3>1. knew' = knew \/ knew' = TRUE \/ knew' = FALSE
      <4>1. knew' = knew \/ knew' = (dip \in DOMAIN last)
        OBVIOUS
      <4> HIDE DEF UdpSend, LookupHit, LookupMiss, WaitOver
      <4> QED BY <4>1
    <3>2. knew \in BOOLEAN
      BY DEF NetInv, TypeOK
    <3> QED BY <3>1, <3>2
  <2>2. tableUp' \in BOOLEAN /\ UNCHANGED <<intOn, stray, nin, arpTable>>
    BY Zenon DEF NetInv, TypeOK
  <2>3. pc' \in {"ipToMac", "request", "ethSend"} /\ dip' \in Dests \cup {NoIp}
    BY Zenon DEF NetInv, TypeOK
  <2> QED BY <2>1, <2>2, <2>3, Zenon DEF NetInv, TypeOK
<1>2. TableOK'
  BY DEF NetInv, TableOK
<1>3. Carried'
  <2>1. CASE \E d \in Dests : UdpSend(d)
    BY <2>1 DEF Carried
  <2>2. CASE LookupHit
    BY <2>2 DEF NetInv, Carried, TableOK
  <2>3. CASE LookupMiss
    BY <2>3 DEF NetInv, Carried
  <2>4. CASE WaitOver
    <3>1. dHost' = "wild" \/ (dip \in DOMAIN arpTable /\ dHost' = arpTable[dip])
      BY <2>4 DEF Resolved
    <3>2. knew' => dip \in DOMAIN arpTable /\ dHost' = arpTable[dip]
      BY <2>4 DEF NetInv, TableOK, Resolved
    <3>3. "wild" \in Macs
      BY DEF Macs
    <3> QED BY <2>4, <3>1, <3>2, <3>3 DEF NetInv, Carried, TableOK
  <2> QED BY <2>1, <2>2, <2>3, <2>4
<1>4. \A d \in Dests : Owed(d)' >= Owed(d)
  BY DEF Owed
<1>5. out' = out /\ claims \subseteq claims'
  OBVIOUS
<1> QED BY <1>1, <1>2, <1>3, <1>4, <1>5, NothingSent DEF NetInv

(***************************************************************************)
(* arpRequest's query is owed for by the datagram that waits for it.       *)
(***************************************************************************)
LEMMA RequestStep ==
  ASSUME NetInv, ArpRequest
  PROVE  NetInv'
<1> DEFINE f == [type |-> "arp", op |-> shortSwap(ARPOP_REQUEST), sIP |-> longSwap(hostIp),
                 dIP |-> dip, dHost |-> "broadcast"]
<1> USE DEF ArpRequest, ethSend
<1>1. dip \in Dests /\ tableUp
  BY DEF NetInv, Carried
<1>2. f \in ArpFrames /\ \A e \in Dests : IsQueryOf(f, e) <=> e = dip
  BY <1>1, FramesMade
<1>3. f \in Sent /\ f.type # "ip" /\ out' = Append(out, f)
  BY <1>2, FrameForms DEF Sent
<1>4. TypeOK' /\ TableOK'
  BY <1>1 DEF NetInv, TypeOK, TableOK
<1>5. Carried'
  <2>1. out \in Seq(Sent)
    BY DEF NetInv
  <2>2. Len(out) + 1 \in DOMAIN out' /\ out'[Len(out) + 1] = f
    BY <1>3, <2>1, Grown
  <2>3. \E j \in DOMAIN out' : IsQueryOf(out'[j], dip')
    BY <1>1, <1>2, <2>2
  <2> QED BY <1>1, <2>3 DEF Carried
<1>6. \A d \in Dests : Owed(d)' + (IF f.type = "ip" /\ f.dIP = d THEN 1 ELSE 0)
                         >= Owed(d) + (IF IsQueryOf(f, d) THEN 1 ELSE 0)
  BY <1>2, <1>3 DEF Owed
<1>7. claims \subseteq claims'
  OBVIOUS
<1> HIDE DEF f, ArpRequest, ethSend
<1> QED BY <1>3, <1>4, <1>5, <1>6, <1>7, OneSent DEF NetInv

(***************************************************************************)
(* The datagram goes to what the lookup gave, and pays for its query.      *)
(***************************************************************************)
LEMMA DatagramStep ==
  ASSUME NetInv, NEW old \in Garbage, IpFrame(old)
  PROVE  NetInv'
<1> DEFINE f == [type |-> "ip", dIP |-> dip, dHost |-> dHost, knew |-> knew, old |-> old.check,
                 words |-> Header(old, longSwap(hostIp), dip)]
<1> USE DEF IpFrame, ethSend
<1>1. /\ dip \in Dests /\ tableUp /\ dHost \in Macs /\ knew \in BOOLEAN
      /\ dHost = "wild" \/ <<dip, dHost>> \in claims
      /\ knew => dHost # "wild"
      /\ knew \/ \E j \in DOMAIN out : IsQueryOf(out[j], dip)
  BY DEF NetInv, Carried, TypeOK
<1>2. f \in IpFrames
  BY <1>1, SMT DEF IpFrames
<1>3. f \in Sent /\ out' = Append(out, f) /\ \A e : ~IsQueryOf(f, e)
  BY <1>2, FramesMade DEF Sent
<1>4. f.dIP = dip /\ f.dHost = dHost /\ f.knew = knew /\ f.type = "ip"
  OBVIOUS
<1>5. TypeOK' /\ TableOK' /\ Carried'
  BY <1>1 DEF NetInv, TypeOK, TableOK, Carried
<1>6. \A d \in Dests : Owed(d)' + (IF f.type = "ip" /\ f.dIP = d THEN 1 ELSE 0)
                         >= Owed(d) + (IF IsQueryOf(f, d) THEN 1 ELSE 0)
  BY <1>3, <1>4 DEF Owed
<1>7. claims \subseteq claims'
  OBVIOUS
<1> HIDE DEF f, IpFrame, ethSend
<1> QED BY <1>1, <1>3, <1>4, <1>5, <1>6, <1>7, OneSent DEF NetInv

(***************************************************************************)
(* arpRecv, inside the interrupt: the table gets an entry for a sender it  *)
(* did not have; what goes out, if anything, is a reply.                   *)
(***************************************************************************)
LEMMA ArpRecvStep ==
  ASSUME NetInv, NEW p \in Wire, EthRecvArp(p)
  PROVE  NetInv'
<1> DEFINE f == [type |-> "arp", op |-> shortSwap(ARPOP_REPLY), sIP |-> htonsOfLong(hostIp),
                 dIP |-> p.sIP, dHost |-> "broadcast"]
<1>1. /\ intOn /\ nin < MaxIn /\ nin' = nin + 1
      /\ arpTable' = Learned(arpTable, p) /\ last' = WithEntry(last, p.sIP, p.sHost)
      /\ stray' = (stray \/ p.sIP \in DOMAIN arpTable)
      /\ claims' = claims \cup {<<p.sIP, p.sHost>>}
      /\ UNCHANGED <<tableUp, pc, dip, dHost, knew>>
      /\ \/ out' = Append(out, f) /\ intOn' = TRUE
         \/ UNCHANGED <<out, intOn>>
  BY DEF EthRecvArp, arpRecv, arpReply, ethSend
<1>2. /\ DOMAIN arpTable' = DOMAIN arpTable \cup {p.sIP}
      /\ \A ip \in DOMAIN arpTable : arpTable'[ip] = arpTable[ip]
      /\ p.sIP \notin DOMAIN arpTable => arpTable'[p.sIP] = p.sHost
      /\ DOMAIN last' = DOMAIN last \cup {p.sIP}
  BY <1>1 DEF Learned, WithEntry
<1>3. p.sHost \in Macs \ {"wild"} /\ claims \subseteq claims'
  BY <1>1, NetStackAssumption DEF Macs
<1>4. tableUp
  BY <1>1 DEF NetInv, TableOK
<1>5. TypeOK'
  <2>1. stray' \in BOOLEAN /\ intOn' \in BOOLEAN
    BY <1>1, Zenon DEF NetInv, TypeOK
  <2>2. nin' \in 0 .. MaxIn
    BY <1>1, NetStackAssumption, SMT DEF NetInv, TypeOK
  <2>3. DOMAIN arpTable' \subseteq {r.sIP : r \in Wire}
    BY <1>2 DEF NetInv, TypeOK
  <2> QED BY <1>1, <2>1, <2>2, <2>3, Zenon DEF NetInv, TypeOK
<1>6. TableOK'
  BY <1>1, <1>2, <1>3, <1>4 DEF NetInv, TableOK
<1>7. f \in ArpFrames /\ \A e : ~IsQueryOf(f, e)
  BY FramesMade
<1>8. f \in Sent /\ f.type # "ip"
  BY <1>7, FrameForms DEF Sent
<1>9. Carried'
  <2>1. \A d : (\E j \in DOMAIN out : IsQueryOf(out[j], d))
                  => \E j \in DOMAIN out' : IsQueryOf(out'[j], d)
    <3>1. CASE out' = Append(out, f)
      <4>1. out \in Seq(Sent)
        BY DEF NetInv
      <4>2. \A j \in DOMAIN out : j \in DOMAIN out' /\ out'[j] = out[j]
        BY <1>8, <3>1, <4>1, Grown
      <4> QED BY <4>2
    <3>2. CASE out' = out
      BY <3>2
    <3> QED BY <1>1, <3>1, <3>2
  <2> QED BY <1>1, <1>3, <2>1 DEF NetInv, Carried
<1>10. \A d \in Dests : Owed(d)' = Owed(d) /\ Owed(d) \in Nat
  BY <1>1 DEF Owed
<1> HIDE DEF f
<1>11. CASE out' = Append(out, f)
  <2>1. \A d \in Dests : Owed(d)' + (IF f.type = "ip" /\ f.dIP = d THEN 1 ELSE 0)
                           >= Owed(d) + (IF IsQueryOf(f, d) THEN 1 ELSE 0)
    BY <1>7, <1>8, <1>10
  <2> QED BY <1>3, <1>5, <1>6, <1>8, <1>9, <1>11, <2>1, OneSent DEF NetInv
<1>12. CASE out' = out
  <2>1. \A d \in Dests : Owed(d)' >= Owed(d)
    BY <1>10
  <2> QED BY <1>3, <1>5, <1>6, <1>9, <1>12, <2>1, NothingSent DEF NetInv
<1> QED BY <1>1, <1>11, <1>12

(***************************************************************************)
(* Frames that are not ARP change nothing but the count of frames.         *)
(***************************************************************************)
LEMMA OtherRecvStep ==
  ASSUME NetInv, NEW p \in Wire, EthRecvOther(p)
  PROVE  NetInv'
<1> USE DEF EthRecvOther
<1>1. TypeOK'
  <2>1. nin' \in 0 .. MaxIn
    BY NetStackAssumption, SMT DEF NetInv, TypeOK
  <2> QED BY <2>1, Zenon DEF NetInv, TypeOK
<1>2. TableOK' /\ Carried'
  BY DEF NetInv, TableOK, Carried
<1>3. \A d \in Dests : Owed(d)' >= Owed(d)
  BY DEF Owed
<1> QED BY <1>1, <1>2, <1>3, NothingSent DEF NetInv

(***************************************************************************)
(* A step of the specification that changes nothing.                       *)
(***************************************************************************)
LEMMA NetStutter ==
  ASSUME NetInv, UNCHANGED vars
  PROVE  NetInv'
  BY DEF NetInv, vars, TypeOK, TableOK, Carried, NotToAnotherHost, AnswerIsFound,
         QueryBefore, Paid, Owed, QueriesFor, DataFor

(***************************************************************************)
(* NetInv is inductive.                                                    *)
(***************************************************************************)
LEMMA NetInvHolds == Spec => []NetInv
<1>1. Init => NetInv
  BY NetInit
<1>2. NetInv /\ [Next]_vars => NetInv'
  <2> SUFFICES ASSUME NetInv, [Next]_vars PROVE NetInv'
    OBVIOUS
  <2> QED BY LookupSteps, RequestStep, DatagramStep, ArpRecvStep, OtherRecvStep, NetStutter
          DEF Next, Thread
<1> QED BY <1>1, <1>2, PTL DEF Spec

(***************************************************************************)
(* The interrupt never finds arpTable NULL: arpRecv is reached only after  *)
(* a neSend has enabled interrupts, and the first neSend is ipToMac's      *)
(* query, behind the creation of the table.                                *)
(***************************************************************************)
THEOREM TableIsUp == Spec => []TableBeforeInterrupts
<1>1. NetInv => TableBeforeInterrupts
  BY DEF NetInv, TableOK, TableBeforeInterrupts
<1> QED BY <1>1, NetInvHolds, PTL

(***************************************************************************)
(* Every datagram goes to a mac its destination once claimed, or the wild  *)
(* address of a failed lookup, however the interrupt changes the table     *)
(* while ipToMac waits.                                                    *)
(***************************************************************************)
THEOREM NoDatagramToAnotherHost == Spec => []NotToAnotherHost
<1>1. NetInv => NotToAnotherHost
  BY DEF NetInv
<1> QED BY <1>1, NetInvHolds, PTL

(***************************************************************************)
(* An answer that came before ipToMac's last lookup is found by it.        *)
(***************************************************************************)
THEOREM AnswersAreFound == Spec => []AnswerIsFound
<1>1. NetInv => AnswerIsFound
  BY DEF NetInv
<1> QED BY <1>1, NetInvHolds, PTL

(***************************************************************************)
(* No datagram is the first frame for an unknown destination, and no       *)
(* destination is asked for more often than it is sent to.                 *)
(***************************************************************************)
THEOREM QueriesComeFirst == Spec => []QueryFirst
<1>1. NetInv => QueryFirst
  <2> SUFFICES ASSUME NetInv PROVE QueryFirst
    OBVIOUS
  <2>1. QueryBefore(out)
    BY DEF NetInv
  <2>2. ASSUME NEW d \in Dests
        PROVE  Cardinality(QueriesFor(out, d))
                 <= Cardinality(DataFor(out, d)) + (IF dip = d THEN 1 ELSE 0)
    <3>1. Cardinality(QueriesFor(out, d)) \in Nat /\ Cardinality(DataFor(out, d)) \in Nat
      <4>1. Len(out) \in Nat /\ DOMAIN out = 1 .. Len(out)
        BY DEF NetInv
      <4>2. QueriesFor(out, d) \subseteq 1 .. Len(out) /\ DataFor(out, d) \subseteq 1 .. Len(out)
        BY <4>1 DEF QueriesFor, DataFor
      <4> QED BY <4>1, <4>2, Counted
    <3>2. Paid(d, Owed(d))
      BY <2>2 DEF NetInv
    <3> QED BY <3>1, <3>2 DEF Paid, Owed
  <2> QED BY <2>1, <2>2 DEF QueryFirst, QueryBefore, QueriesFor, DataFor
<1> QED BY <1>1, NetInvHolds, PTL

(***************************************************************************)
(* A receiver accepts a datagram's header exactly if the memory malloc     *)
(* gave held 0 or all ones in the check field: for every address, tos,     *)
(* flags and carry.                                                        *)
(***************************************************************************)
THEOREM HeadersSumUp == Spec => []HeaderSumsUp
<1>1. NetInv => HeaderSumsUp
  <2> SUFFICES ASSUME NetInv, NEW i \in DOMAIN out, out[i].type = "ip"
               PROVE  Verifies(out[i].words) <=> out[i].old \in {0, Word - 1}
    BY Zenon DEF HeaderSumsUp
  <2>1. out[i] \in Sent
    BY DEF NetInv
  <2> QED BY <2>1, FrameForms DEF Sent
<1> QED BY <1>1, NetInvHolds, PTL

(***************************************************************************)
(* Type correctness.                                                       *)
(***************************************************************************)
THEOREM NetStackTypes == Spec => []TypeOK
<1>1. NetInv => TypeOK
  BY DEF NetInv
<1> QED BY <1>1, NetInvHolds, PTL

=============================================================================
