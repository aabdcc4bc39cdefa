----------------------------- MODULE Checksums -----------------------------
(***************************************************************************)
(* The Internet checksums of dhtest: ipchksum, icmpchksum and l4_sum, and  *)
(* what a receiver makes of them.  Data are bytes; the words the code adds *)
(* are those of a little-endian machine.                                   *)
(***************************************************************************)
EXTENDS Naturals, Sequences

Byte  == 0 .. 255
W     == 65536   \* 2^16

WordAt(bytes, i) == bytes[2 * i - 1] + 256 * bytes[2 * i]

\* sum + *(buff + i) for the words from r[1] to r[2], added in halves.
Sums(bytes) ==
    LET n == Len(bytes) \div 2
        sum[r \in (1 .. n) \X (1 .. n)] ==
          IF r[1] >= r[2] THEN WordAt(bytes, r[1])
          ELSE LET mid == (r[1] + r[2]) \div 2
               IN  sum[<<r[1], mid>>] + sum[<<mid + 1, r[2]>>]
    IN  sum

\* All whole words.
Words(bytes) ==
    LET n == Len(bytes) \div 2 IN IF n = 0 THEN 0 ELSE Sums(bytes)[<<1, n>>]

Odd(bytes) == Len(bytes) % 2 = 1

\* htons takes the low half of its argument and swaps its bytes.
htons(n) == (256 * (n % 256)) + ((n \div 256) % 256)

\* Mutants of LastWord: forgotten, or shifted to the wrong byte.
LastWordForgotten(bytes) == 0
LastWordUnshifted(bytes) == IF Odd(bytes) THEN htons(bytes[Len(bytes)]) ELSE 0

\* last_word = htons(last byte) << 8: a multiple of 2^16, which comes down to
\* the byte itself when the sum is folded.
LastWord(bytes) == IF Odd(bytes) THEN htons(bytes[Len(bytes)]) * 256 ELSE 0

\* Mutant of Fold: the sum is not cut to two bytes.
FoldWide(sum) == sum \div W + sum

\* sum = (sum >> 16) + sum, of which the low half is used.
Fold(sum) == (sum \div W + sum) % W

Complement(word) == W - 1 - word

ipchksum(bytes)   == Complement(Fold(Words(bytes)))
icmpchksum(bytes) == Complement(Fold(Words(bytes) + LastWord(bytes)))

\* The pseudo header: addresses, protocol and length.
Pseudo(saddr, daddr, proto, len) ==
    Words(saddr) + Words(daddr) + htons(proto) + htons(len)

l4_sum(bytes, saddr, daddr, proto) ==
    Complement(Fold(Words(bytes) + LastWord(bytes)
                      + Pseudo(saddr, daddr, proto, Len(bytes))))
-----------------------------------------------------------------------------
(* The receiver *)

\* The sum of everything, an odd byte filled up with a zero byte.
Total(bytes) == Words(bytes) + (IF Odd(bytes) THEN bytes[Len(bytes)] ELSE 0)

\* Ones' complement: carries are added until there are none; for sums of 32
\* bits twice is enough.
EndAround(sum) == (sum \div W) + (sum % W)
Accepts(sum)   == EndAround(EndAround(sum)) = W - 1

\* What the sender's sum should be: an odd last byte in the upper half.
Summed(bytes) == Words(bytes) + (IF Odd(bytes) THEN W * bytes[Len(bytes)] ELSE 0)

\* The sums for which adding the upper half to the lower carries again.
CarriesAgain(sum) == (sum \div W) + (sum % W) >= W
=============================================================================
