----------------------------- MODULE MCMetainfo -----------------------------
(* Instances of Metainfo for TLC.                                          *)
EXTENDS Metainfo, Bencode

\* Names are bytes that sort where the names do.
ModelBytes == <<"-", "0", "1", "2", "3", "4", "5", "6", "7", "8", "9", ":",
                "announce", "d", "e", "extra", "failure", "files", "i", "info",
                "interval", "l", "length", "name", "peers", "piece length",
                "pieces">>

\* Contents that look like the syntax around them.
Contents == {<<>>, <<"e">>, <<"1", ":">>, <<"i", "1", "e">>}

\* With hashes of three bytes, the last one lacks none, one or two.
Hashes == Contents \cup {<<"d", "1", ":", "l">>, <<"d", "1", ":", "l", "e">>}

InfoOf(name, pieces) ==
    (Name :> BStr(name)) @@ (Length :> BInt(12))
    @@ (PieceLength :> BInt(16)) @@ (PiecesKey :> BStr(pieces))

\* A key that the client does not know.
Extras == {<<>>,
           <<"extra">> :> BList(<<BInt(-1), BList(<<>>), BStr(<<"e">>)>>),
           <<"extra">> :> BDict(<<"e">> :> BDict(<<>>))}

SingleFile == {InfoOf(name, pieces) @@ extra :
                   name \in Contents, pieces \in Hashes, extra \in Extras}

\* A torrent of several files has no length of its own.
MultiFile == {(Name :> BStr(<<"e">>)) @@ (PieceLength :> BInt(16))
              @@ (PiecesKey :> BStr(<<"e", "e">>))
              @@ (<<"files">> :> BList(<<BDict(Length :> BInt(3))>>))}

\* Cut inside the length of its hashes, this one sends the decoder into the URL,
\* where it finds the ends of both dictionaries.
Trap == (Announce :> BStr(<<"e", "e">>))
        @@ (Info :> BDict(InfoOf(<<"e">>, [k \in 1 .. 62 |-> "l"])))

Torrents == {(Announce :> BStr(<<":", "e">>)) @@ (Info :> BDict(info)) :
                 info \in SingleFile \cup MultiFile} \cup {Trap}

\* The values that a value contains.
Inside(v) == CASE Is("list", v) -> {v.list[k] : k \in DOMAIN v.list}
               [] Is("dict", v) -> {v.dict[k] : k \in DOMAIN v.dict}
               [] OTHER -> {}

RECURSIVE AllInside(_), DepthOf(_)
AllInside(v) == {v} \cup UNION {AllInside(w) : w \in Inside(v)}
DepthOf(v)   == 1 + Max({0} \cup {DepthOf(w) : w \in Inside(v)})

\* The proofs about the codec are of values like these.
ASSUME TorrentsAreTrees ==
    LET values == UNION {AllInside(BDict(m)) : m \in Torrents}
    IN IsForest(values, [v \in values |-> DepthOf(v)])

Addresses == {<<"e", "1", ":">>, <<"2", "i", "d">>}

SomePeers == {<<>>} \cup {<<a>> : a \in Addresses}
             \cup {<<a, b>> : a \in Addresses, b \in Addresses}
             \cup {[k \in 1 .. 30 |-> <<"2", "i", "d">>]}
=============================================================================
