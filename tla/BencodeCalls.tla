---------------------------- MODULE BencodeCalls ----------------------------
(***************************************************************************)
(* The functions of bencode.cpp, one call at a time: the calls that a call *)
(* makes are parameters, and Bencode ties the functions together.  Text is *)
(* a sequence of bytes, positions count from 0 as in the code.  A name     *)
(* such as "announce" is one byte here: the decoder treats a name as it    *)
(* treats any contents of a string.                                        *)
(***************************************************************************)
EXTENDS BencodeValue, SequencesExt, FiniteSetsExt

codes == [c \in {Bytes[k] : k \in DOMAIN Bytes} |->
              CHOOSE k \in DOMAIN Bytes : Bytes[k] = c]

Code(c) == IF c \in DOMAIN codes THEN codes[c] ELSE 0

\* c - '0'
Weight(c) == Code(c) - Code("0")

-----------------------------------------------------------------------------
(* encode *)

digits[n \in Nat] == IF n < 10 THEN <<Digit[n]>>
                     ELSE digits[n \div 10] \o <<Digit[n % 10]>>

Decimal(n) == IF n < 0 THEN <<"-">> \o digits[-n] ELSE digits[n]

Sized(s) == Decimal(Len(s)) \o <<":">> \o s

\* The order of std::map<std::string, ...>: n bytes agree.
Before(a, b) ==
    \E n \in 0 .. Len(b) - 1 :
        /\ n <= Len(a) /\ \A i \in 1 .. n : a[i] = b[i]
        /\ n = Len(a) \/ Code(a[n + 1]) < Code(b[n + 1])

Sorted(keys) == [i \in 1 .. Cardinality(keys) |->
                     CHOOSE k \in keys :
                         Cardinality({j \in keys : Before(j, k)}) = i - 1]

\* for (k = 1; k <= n; k++) result += part(k);
Appended(start, n, part(_)) ==
    LET result[k \in 0 .. n] == IF k = 0 THEN start ELSE result[k - 1] \o part(k)
    IN result[n]

EncodeCall(encoded(_), v) ==
    CASE Is("string", v) -> Sized(v.string)
      [] Is("int", v)    -> <<"i">> \o Decimal(v.int) \o <<"e">>
      [] Is("list", v)   ->
             LET item(k) == encoded(v.list[k])
             IN Appended(<<"l">>, Len(v.list), item) \o <<"e">>
      [] Is("dict", v)   ->
             LET keys     == Sorted(DOMAIN v.dict)
                 entry(k) == Sized(keys[k]) \o encoded(v.dict[keys[k]])
             IN Appended(<<"d">>, Len(keys), entry) \o <<"e">>

-----------------------------------------------------------------------------
(* decode *)

\* text[pos] may be read one past the end, where it is the terminating zero.
Readable(text, pos) == pos \in 0 .. Len(text)

At(text, pos) == IF pos = Len(text) THEN "zero" ELSE text[pos + 1]

\* std::string::find.  Npos is the largest size_t, to which adding 1 gives 0.
Npos == -1

Find(text, c, pos) ==
    LET hits == {k \in pos .. Len(text) - 1 : text[k + 1] = c}
    IN IF hits = {} THEN Npos ELSE Min(hits)

\* text.substr(pos, end - pos)
Between(text, pos, end) ==
    SubSeq(text, pos + 1, IF end = Npos THEN Len(text) ELSE end)

\* The digits without the signs; any other character counts as its code says.
Magnitude(s) ==
    LET result[k \in 0 .. Len(s)] ==
            IF k = 0 THEN 0
            ELSE IF s[k] = "-" THEN result[k - 1]
            ELSE 10 * result[k - 1] + Weight(s[k])
    IN result[Len(s)]

Number(s) == IF Contains(s, "-") THEN -Magnitude(s) ELSE Magnitude(s)

\* std::stoi reads the longest number at the start, and throws if there is
\* none.
Unsigned(s) == IF s # <<>> /\ Head(s) = "-" THEN Tail(s) ELSE s

IsNumber(s) == Unsigned(s) # <<>> /\ IsDigit(Head(Unsigned(s)))

Stoi(s) ==
    LET other == SelectInSeq(Unsigned(s), LAMBDA c : ~IsDigit(c))
        number == IF other = 0 THEN Unsigned(s)
                  ELSE SubSeq(Unsigned(s), 1, other - 1)
    IN IF Head(s) = "-" THEN -Magnitude(number) ELSE Magnitude(number)

Taken(text, start, end) == [i \in 1 .. end - start |-> At(text, start + i - 1)]

\* Without a colon the contents are taken from the start of the text.
DecodeString(text, pos) ==
    LET colon  == Find(text, ":", pos)
        number == Between(text, pos, colon)
        start  == colon + 1
        end    == start + Stoi(number)
    IN IF ~IsNumber(number) THEN Throws
       ELSE IF end > Len(text) + 1 THEN Undefined
       ELSE Decoded(BStr(Taken(text, start, end)), end)

\* Mutant: the final e is not consumed.
DecodeIntegerShort(text, pos) ==
    LET end == Find(text, "e", pos + 1)
    IN Decoded(BInt(Number(Between(text, pos + 1, end))), end)

\* Without an e the number is the rest of the text, and the position 0.
DecodeInteger(text, pos) ==
    LET end == Find(text, "e", pos + 1)
    IN Decoded(BInt(Number(Between(text, pos + 1, end))), end + 1)

\* active: the positions of the calls in progress.  What a call does depends on
\* its position only, so one that recurs never ends.
DecodeCall(items(_, _, _, _, _), entries(_, _, _, _, _), text, pos, active) ==
    IF ~Readable(text, pos) THEN Undefined
    ELSE IF pos \in active THEN Diverges
    ELSE LET c == At(text, pos)
         IN CASE IsDigit(c) -> DecodeString(text, pos)
              [] c = "i"    -> DecodeInteger(text, pos)
              [] c = "l"    -> items(text, pos + 1, <<>>, {}, active \cup {pos})
              [] c = "d"    -> entries(text, pos + 1, <<>>, {},
                                       active \cup {pos})
              [] OTHER      -> Throws

\* The loop of decode_list; seen holds the positions of its earlier turns.
ItemsCall(decoded(_, _, _), items(_, _, _, _, _), text, pos, result, seen, active) ==
    IF ~Readable(text, pos) THEN Undefined
    ELSE IF pos \in seen THEN Diverges
    ELSE IF At(text, pos) = "e" THEN Decoded(BList(result), pos + 1)
    ELSE LET item == decoded(text, pos, active)
         IN IF Failed(item) THEN item
            ELSE items(text, item.pos, Append(result, item.value),
                       seen \cup {pos}, active)

\* map[key] = value
Assigned(map, key, value) ==
    [k \in DOMAIN map \cup {key} |-> IF k = key THEN value ELSE map[k]]

\* Mutant: the loop also ends at the end of the text.
Closes(text, pos) == At(text, pos) \in {"e", "zero"}

Closed(text, pos) == At(text, pos) = "e"

\* The loop of decode_dict.
EntriesCall(decoded(_, _, _), entries(_, _, _, _, _), text, pos, result, seen, active) ==
    IF ~Readable(text, pos) THEN Undefined
    ELSE IF pos \in seen THEN Diverges
    ELSE IF Closed(text, pos) THEN Decoded(BDict(result), pos + 1)
    ELSE LET key   == DecodeString(text, pos)
             value == decoded(text, key.pos, active)
         IN IF Failed(key) THEN key
            ELSE IF Failed(value) THEN value
            ELSE entries(text, value.pos,
                         Assigned(result, key.value.string, value.value),
                         seen \cup {pos}, active)
=============================================================================
