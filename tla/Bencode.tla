------------------------------ MODULE Bencode ------------------------------
(***************************************************************************)
(* The codec of bencode.cpp: the calls of BencodeCalls make each other.    *)
(***************************************************************************)
EXTENDS BencodeCalls

RECURSIVE Encode(_)
Encode(v) == EncodeCall(Encode, v)

RECURSIVE Decode(_, _, _), Items(_, _, _, _, _), Entries(_, _, _, _, _)

Decode(text, pos, active) == DecodeCall(Items, Entries, text, pos, active)

Items(text, pos, result, seen, active) ==
    ItemsCall(Decode, Items, text, pos, result, seen, active)

Entries(text, pos, result, seen, active) ==
    EntriesCall(Decode, Entries, text, pos, result, seen, active)

\* decode from the beginning
DecodeText(text) == Decode(text, 0, {})
=============================================================================
