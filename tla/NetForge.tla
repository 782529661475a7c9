------------------------------ MODULE NetForge ------------------------------
(***************************************************************************)
(* f1g_net_forge.c (and the copies in pksender_v1.c and pksender_v2.c):    *)
(* the Internet checksum and the IP header of a packet, as 16-bit words in *)
(* network order.  The code adds them up in the order of the machine, of   *)
(* which the sum with its carries added back does not depend.              *)
(***************************************************************************)
EXTENDS Integers, Sequences

U16 == 65536
Word == 0 .. (U16 - 1)

WordSum(words) ==
    LET sum[n \in 0 .. Len(words)] == IF n = 0 THEN 0 ELSE sum[n - 1] + words[n]
    IN  sum[Len(words)]

\* Mutant: the carry of the second addition is dropped.
FoldOnce(sum) == (sum \div U16) + (sum % U16)

\* The carries are added back twice; what is left above 16 bits is cut off.
FoldCarries(sum) ==
    LET once == (sum \div U16) + (sum % U16)
    IN  once + (once \div U16)

Complement(sum) == (U16 - 1) - (sum % U16)

\* The words of an odd number of bytes end with one whose other half is 0.
chk_sum(words) == Complement(FoldCarries(WordSum(words)))

IPPROTO_TCP == 6

\* The words of the IP header, with the checksum in the place of the 0 over
\* which it was taken; an address is two words, and htons keeps 16 bits.
create_ip_hdr(saddr, daddr, tot_len, id) ==
    LET words(check) == <<17664, tot_len % U16, id % U16, 0,
                          255 * 256 + IPPROTO_TCP, check,
                          saddr[1], saddr[2], daddr[1], daddr[2]>>
    IN  words(chk_sum(words(0)))

\* A receiver's sum of all words, every carry added back, is all ones: the
\* multiples of 65535.
Verifies(words) == WordSum(words) % (U16 - 1) = 0
=============================================================================
