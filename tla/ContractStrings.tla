--------------------------- MODULE ContractStrings ----------------------------
(***************************************************************************)
(* The string functions of GovernorContract.sol: the hexadecimal result of *)
(* a job, and the suffix "#proposer=0x..." by which a description reserves *)
(* its proposal for one address.  A string is the sequence of its bytes.   *)
(***************************************************************************)
EXTENDS Integers, Sequences

Byte == 0 .. 255

\* Mutant of TryHexToUint: capital letters are no digits.
TryHexToUintLower(c) ==
    CASE c \in 48 .. 57 -> [isHex |-> TRUE, value |-> c - 48]
      [] c \in 97 .. 102 -> [isHex |-> TRUE, value |-> c - 87]
      [] OTHER -> [isHex |-> FALSE, value |-> 0]

TryHexToUint(c) ==
    CASE c \in 48 .. 57 -> [isHex |-> TRUE, value |-> c - 48]
      [] c \in 65 .. 70 -> [isHex |-> TRUE, value |-> c - 55]
      [] c \in 97 .. 102 -> [isHex |-> TRUE, value |-> c - 87]
      [] OTHER -> [isHex |-> FALSE, value |-> 0]

\* charToUint8 reverts outside of HexChars.
HexChars == 48 .. 57 \cup 65 .. 70 \cup 97 .. 102

CharToUint8(c) ==
    CASE c \in 48 .. 57 -> c - 48
      [] c \in 97 .. 102 -> 10 + c - 97
      [] c \in 65 .. 70 -> 10 + c - 65

-----------------------------------------------------------------------------
Prefixed(s) == Len(s) >= 2 /\ s[1] = 48 /\ s[2] = 120

Offset(s) == IF Prefixed(s) THEN 2 ELSE 0

\* hexStrToBytes does not revert.
Decodable(s) ==
    /\ (Len(s) - Offset(s)) % 2 = 0
    /\ \A i \in Offset(s) + 1 .. Len(s) : s[i] \in HexChars

HexStrToBytes(s) ==
    [k \in 1 .. (Len(s) - Offset(s)) \div 2 |->
        16 * CharToUint8(s[Offset(s) + 2 * k - 1]) + CharToUint8(s[Offset(s) + 2 * k])]

\* What the ABI encoder of ethers makes of the bytes of a report: "0x" and two lower
\* case digits per byte.
HexDigit(v) == IF v < 10 THEN 48 + v ELSE 87 + v

Hexlify(b) ==
    [i \in 1 .. 2 + 2 * Len(b) |->
        IF i = 1 THEN 48
        ELSE IF i = 2 THEN 120
        ELSE IF i % 2 = 1 THEN HexDigit(b[(i - 1) \div 2] \div 16)
        ELSE HexDigit(b[(i - 2) \div 2] % 16)]

-----------------------------------------------------------------------------
\* "#proposer=0x"
Marker == <<35, 112, 114, 111, 112, 111, 115, 101, 114, 61, 48, 120>>

\* The number that the digits spell: an address has 40 of them, a uint160.
Recovered(digits) ==
    LET recovered[n \in 0 .. Len(digits)] ==
          IF n = 0 THEN 0 ELSE 16 * recovered[n - 1] + TryHexToUint(digits[n]).value
    IN recovered[Len(digits)]

\* digits is 40.
IsValidDescriptionForProposer(proposer, description, digits) ==
    LET len == Len(description)
        suffix == SubSeq(description, len - digits + 1, len)
    IN \/ len < Len(Marker) + digits
       \/ SubSeq(description, len - digits - Len(Marker) + 1, len - digits) # Marker
       \/ \E i \in DOMAIN suffix : ~TryHexToUint(suffix[i]).isHex
       \/ Recovered(suffix) = proposer

-----------------------------------------------------------------------------
(* How an address is written, to check the suffix against. *)

\* x without its last k digits, for each k.
Shifted(x, digits) ==
    LET shifted[k \in 0 .. digits] == IF k = 0 THEN x ELSE shifted[k - 1] \div 16
    IN shifted

Fits(x, digits) == Shifted(x, digits)[digits] = 0

\* As many digits, in lower case.
Spelled(x, digits) ==
    [i \in 1 .. digits |-> HexDigit(Shifted(x, digits)[digits - i] % 16)]

ToLower(c) == IF c \in 65 .. 70 THEN c + 32 ELSE c

\* The description ends in "#proposer=0x" and the digits of the address, in whatever
\* case they are written: a wallet shows an address in both.
EndsInProposer(x, description, digits) ==
    LET n == Len(description) - digits
    IN /\ n >= Len(Marker)
       /\ \A i \in 1 .. Len(Marker) : description[n - Len(Marker) + i] = Marker[i]
       /\ \A i \in 1 .. digits : ToLower(description[n + i]) = Spelled(x, digits)[i]
=============================================================================
