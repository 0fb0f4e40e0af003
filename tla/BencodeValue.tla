---------------------------- MODULE BencodeValue ----------------------------
(***************************************************************************)
(* What the codec of bencode.cpp works on: bytes, values, and the outcomes *)
(* of decoding.  The modules that use the codec share it with the one that *)
(* translates it.                                                          *)
(***************************************************************************)
EXTENDS Integers, Sequences, FiniteSets, TLC

CONSTANT
    Bytes  \* the bytes in ascending order, the digits one after the other

Digits == <<"0", "1", "2", "3", "4", "5", "6", "7", "8", "9">>

Digit == [n \in 0 .. 9 |-> Digits[n + 1]]

Syntax == {"-", ":", "d", "e", "i", "l"}

ASSUME BencodeAssumption ==
    /\ Bytes = [k \in 1 .. Len(Bytes) |-> Bytes[k]] /\ Len(Bytes) \in Nat
    /\ \A j, k \in DOMAIN Bytes : Bytes[j] = Bytes[k] => j = k
    /\ \A c \in Syntax : \E k \in DOMAIN Bytes : Bytes[k] = c
    /\ \E k \in 1 .. Len(Bytes) - 9 : \A n \in 0 .. 9 : Bytes[k + n] = Digit[n]

DigitBytes == {"0", "1", "2", "3", "4", "5", "6", "7", "8", "9"}

IsDigit(c) == c \in DigitBytes

Byte == {Bytes[k] : k \in DOMAIN Bytes}

\* The byte after the last one of a text may be read, and is zero.
Text == Seq(Byte \cup {"zero"})

\* A BencodeValue is one of four.  A dictionary is a function from its keys.
BInt(n)  == [int |-> n]
BStr(s)  == [string |-> s]
BList(l) == [list |-> l]
BDict(f) == [dict |-> f]

Is(kind, v) == kind \in DOMAIN v

\* A function: a dictionary is nothing but its keys and their values.
IsDict(f) == f = [k \in DOMAIN f |-> f[k]]

\* Each of the values is of one of the four kinds, and those in it are values
\* that are less deep.
IsForest(values, depth) ==
    \A v \in values :
        LET within(w) == w \in values /\ depth[w] < depth[v]
        IN /\ depth[v] \in Nat
           /\ \/ /\ Is("int", v) /\ v = BInt(v.int)
                 /\ v.int \in Int
              \/ /\ Is("string", v) /\ v = BStr(v.string)
                 /\ v.string \in Seq(Byte)
              \/ /\ Is("list", v) /\ v = BList(v.list)
                 /\ v.list \in Seq(values)
                 /\ \A k \in DOMAIN v.list : within(v.list[k])
              \/ /\ Is("dict", v) /\ v = BDict(v.dict) /\ IsDict(v.dict)
                 /\ IsFiniteSet(DOMAIN v.dict) /\ DOMAIN v.dict \subseteq Seq(Byte)
                 /\ \A k \in DOMAIN v.dict : within(v.dict[k])

\* What a BencodeValue can hold: nothing is in itself.
IsTree(v) == \E values, depth : v \in values /\ IsForest(values, depth)

\* Decoding yields a value and the position after it, or one of the ways in
\* which it fails: an exception, an access past the end of the text, or a loop or
\* recursion that comes back to a position and never ends.
Decoded(v, pos) == [value |-> v, pos |-> pos]

Throws    == [failure |-> "throws"]
Undefined == [failure |-> "undefined"]
Diverges  == [failure |-> "diverges"]

Failed(outcome) == "failure" \in DOMAIN outcome

Beginnings(text) == {SubSeq(text, 1, n) : n \in 0 .. Len(text)}

\* The text, a beginning of the whole, may end inside the length of a string.
Torn(whole, text) ==
    /\ text \notin {whole, <<>>}
    /\ IsDigit(text[Len(text)])
    /\ LET next == whole[Len(text) + 1] IN IsDigit(next) \/ next = ":"
=============================================================================
