------------------------------ MODULE IpHeader ------------------------------
(***************************************************************************)
(* The IP header ipSend (net/ip.c) builds and its checkSum, as the ten     *)
(* 16-bit words a little-endian processor reads.                           *)
(*                                                                         *)
(* ipSend's memset, whose value and length are exchanged, has length 0 and *)
(* is folded away by the compiler (the loop in c/string.c would not stop   *)
(* at 0), so tos, flags and check hold what the memory malloc returned     *)
(* held when the sum is taken.  Addresses are numbers in network order as  *)
(* tuples of bytes, most significant first.                                *)
(***************************************************************************)
EXTENDS Integers, Sequences

Word == 65536    \* 2^16

\* Carries added to the low word, and the complement cut to 16 bits.
Fold(sum) == (sum % Word) + (sum \div Word)
Not16(sum) == Word - 1 - (sum % Word)

\* The loop of checkSum, over the ten words of the one call there is.
SumOf(w) == w[1] + w[2] + w[3] + w[4] + w[5] + w[6] + w[7] + w[8] + w[9] + w[10]

\* Seeded fault: the carry of the second addition is lost.
checkSum_OneFold(words) == Not16(Fold(SumOf(words)))

\* The 32-bit sum of the words, its carries added twice.
checkSum(words) ==
    LET once == Fold(SumOf(words)) IN Not16(once + (once \div Word))

\* The two words of an address in memory.
IpWords(ip) == << ip[3] * 256 + ip[4], ip[1] * 256 + ip[2] >>

UDP_BYTES == 128    \* lenght: headers of 20 and 8 bytes, cmain's 100 bytes of data

\* The header around a check field; old is what the memory held.
HeaderWith(check, old, sip, dip) ==
    << old.tos * 256 + 4 * 16 + 5,          \* headLenght = 4, v = 5: byte 0x45
       (UDP_BYTES % 256) * 256 + (UDP_BYTES \div 256),
       256,                                 \* id = htons(1)
       old.flags,                           \* offset = 0
       17 * 256 + 60,                       \* protocol, ttl
       check,
       IpWords(sip)[1], IpWords(sip)[2], IpWords(dip)[1], IpWords(dip)[2] >>

\* The header ipSend hands to ethSend.
Header(old, sip, dip) ==
    HeaderWith(checkSum(HeaderWith(old.check, old, sip, dip)), old, sip, dip)

\* RFC 791, the receiver: the ones' complement sum of all words is all ones.
Verifies(words) == SumOf(words) % (Word - 1) = 0
=============================================================================
