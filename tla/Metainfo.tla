------------------------------ MODULE Metainfo ------------------------------
(***************************************************************************)
(* What main does before the download: it parses the torrent file          *)
(* (calc_hash.cpp), asks the tracker and parses its reply (get_peers.cpp). *)
(* Both texts may end early: a file that was copied halfway, a response    *)
(* that http_get returns although the transfer failed.                     *)
(***************************************************************************)
EXTENDS BencodeValue

CONSTANTS
    encode(_), \* the codec of bencode.cpp
    decode(_),
    Authored,  \* the dictionaries that torrents are the encodings of
    PeerLists, \* the lists of peers that trackers reply with
    HashSize,  \* 20 in the code
    PeerSize   \* 6 in the code

Announce    == <<"announce">>
Info        == <<"info">>
Name        == <<"name">>
Length      == <<"length">>
PieceLength == <<"piece length">>
PiecesKey   == <<"pieces">>
PeersKey    == <<"peers">>

\* The dictionary f has a value of the given kind under the key k.
Has(f, k, kind) == k \in DOMAIN f /\ Is(kind, f[k])

\* What a torrent must contain; one of several files has no length.
IsTorrent(m) ==
    /\ IsDict(m)
    /\ Has(m, Announce, "string")
    /\ Has(m, Info, "dict")
    /\ LET info == m[Info].dict
       IN /\ IsDict(info) /\ m[Info] = BDict(info)
          /\ Has(info, Name, "string")
          /\ Has(info, PieceLength, "int")
          /\ Has(info, PiecesKey, "string")
          /\ Length \in DOMAIN info => Is("int", info[Length])

\* Each is one byte here.
Keywords == {"name", "peers", "interval", "failure"}

ASSUME MetainfoAssumption ==
    /\ Keywords \subseteq Byte
    /\ HashSize \in Nat \ {0}
    /\ PeerSize \in Nat \ {0}
    /\ \A m \in Authored : IsTorrent(m)
    /\ PeerLists \subseteq Seq([1 .. PeerSize -> Byte])

VARIABLES
    metainfo,  \* the dictionary the author of the torrent encoded
    file,      \* the bytes of the file that is read
    phase,     \* where the program is, or how it ended
    decoded,   \* what decode returned last, or how it failed
    torrent,   \* the TorrentFile
    hashes,    \* the result of split_piece_hashes
    asked,     \* what the URL asks the tracker for
    tracker,   \* the peers the tracker sent
    response,  \* the bytes of its response
    peers,     \* the result of parse_peers
    metadata   \* the TorrentMetadata that the download is given

authored     == <<metainfo, file>>
fromTracker  == <<asked, tracker, response, peers>>
metainfoVars == <<authored, phase, decoded, torrent, hashes, fromTracker,
                  metadata>>

\* SHA-1 is one to one as far as anyone knows.
Sha1(bytes) == [sha1 |-> bytes]

Init ==
    /\ metainfo \in Authored
    /\ file \in Beginnings(encode(BDict(metainfo)))
    /\ phase = "decode"
    /\ decoded = <<>>
    /\ torrent = <<>>
    /\ hashes = <<>>
    /\ asked = <<>>
    /\ tracker = <<>>
    /\ response = <<>>
    /\ peers = <<>>
    /\ metadata = <<>>

-----------------------------------------------------------------------------
(* parse_torrent and split_piece_hashes *)

\* operator[] of a map enters an integer 0 under a key that is missing.
Accessed(dict, keys) ==
    [k \in DOMAIN dict \cup keys |-> IF k \in DOMAIN dict THEN dict[k]
                                                          ELSE BInt(0)]

\* The exceptions of decode and of std::get are not caught.
Fail(outcome) == phase' = outcome.failure

DecodeFile ==
    /\ phase = "decode"
    /\ decoded' = decode(file)
    /\ phase' = "parse"
    /\ UNCHANGED <<authored, torrent, hashes, fromTracker, metadata>>

FileDict == Accessed(decoded.value.dict, {Announce, Info})

\* Mutant: keys that the client does not know are dropped.
FileInfoKnown ==
    LET keys == {Name, Length, PieceLength, PiecesKey}
    IN [k \in keys |-> Accessed(FileDict[Info].dict, keys)[k]]

FileInfo == Accessed(FileDict[Info].dict, {Name, Length, PieceLength, PiecesKey})

WellTyped == /\ Is("dict", decoded.value)
             /\ Is("string", FileDict[Announce])
             /\ Is("dict", FileDict[Info])
             /\ Is("string", FileInfo[Name])
             /\ Is("int", FileInfo[Length])
             /\ Is("int", FileInfo[PieceLength])
             /\ Is("string", FileInfo[PiecesKey])

ParseTorrent ==
    /\ phase = "parse"
    /\ IF Failed(decoded) THEN Fail(decoded) /\ UNCHANGED torrent
       ELSE IF ~WellTyped THEN Fail(Throws) /\ UNCHANGED torrent
       ELSE /\ phase' = "split"
            /\ torrent' = [announce     |-> FileDict[Announce].string,
                           name         |-> FileInfo[Name].string,
                           length       |-> FileInfo[Length].int,
                           piece_length |-> FileInfo[PieceLength].int,
                           pieces       |-> FileInfo[PiecesKey].string,
                           info_hash    |-> Sha1(encode(BDict(FileInfo)))]
    /\ UNCHANGED <<authored, decoded, hashes, fromTracker, metadata>>

\* s cut into parts of the given size, the last one perhaps shorter.
Cut(s, size) ==
    [i \in 1 .. (Len(s) + size - 1) \div size |->
         SubSeq(s, (i - 1) * size + 1,
                IF i * size < Len(s) THEN i * size ELSE Len(s))]

\* Parts of the given size, the last one perhaps shorter, put together.
Joined(parts, size) ==
    IF parts = <<>> THEN <<>>
    ELSE [k \in 1 .. (Len(parts) - 1) * size + Len(parts[Len(parts)]) |->
              parts[(k - 1) \div size + 1][((k - 1) % size) + 1]]

SplitHashes ==
    /\ phase = "split"
    /\ hashes' = Cut(torrent.pieces, HashSize)
    /\ phase' = "announce"
    /\ UNCHANGED <<authored, decoded, torrent, fromTracker, metadata>>

-----------------------------------------------------------------------------
(* get_peers *)

ReplyDict(list) == [k \in {<<"interval">>, PeersKey} |->
                        IF k = PeersKey THEN BStr(Joined(list, PeerSize))
                                        ELSE BInt(1800)]

\* A tracker that is asked for a torrent it does not know.
RefusalDict == [k \in {<<"failure">>} |-> BStr(Name)]

AnswerDict(list) == IF asked = torrent.info_hash THEN ReplyDict(list)
                                                 ELSE RefusalDict

\* url_encode has no return statement: what it yields may happen to be what it
\* built, or any text, or the call ends the process.
BuildUrl ==
    /\ phase = "announce"
    /\ \/ /\ phase' = "request"
          /\ asked' \in {torrent.info_hash, Sha1(<<>>)}
       \/ Fail(Undefined) /\ UNCHANGED asked
    /\ UNCHANGED <<authored, decoded, torrent, hashes, tracker, response,
                   peers, metadata>>

\* http_get returns what has arrived, whether the transfer failed or not.
HttpGet ==
    /\ phase = "request"
    /\ tracker' \in PeerLists
    /\ response' \in Beginnings(encode(BDict(AnswerDict(tracker'))))
    /\ phase' = "reply"
    /\ UNCHANGED <<authored, decoded, torrent, hashes, asked, peers, metadata>>

DecodeResponse ==
    /\ phase = "reply"
    /\ decoded' = decode(response)
    /\ phase' = "peers"
    /\ UNCHANGED <<authored, torrent, hashes, fromTracker, metadata>>

Listed == Accessed(decoded.value.dict, {PeersKey})[PeersKey]

\* Bytes missing from the last part of s.
Missing(s, size) == (-Len(s)) % size

\* The byte after the last one may be read, and is zero, but no byte beyond.
Padded(s, size) == IF Missing(s, size) = 1 THEN Append(s, "zero") ELSE s

\* Mutant: the first peer is left out.
ParsePeersShort ==
    /\ phase = "peers"
    /\ IF Failed(decoded) THEN Fail(decoded) /\ UNCHANGED peers
       ELSE IF ~Is("dict", decoded.value) \/ ~Is("string", Listed)
       THEN Fail(Throws) /\ UNCHANGED peers
       ELSE /\ phase' = "done"
            /\ peers' = Cut(SubSeq(Listed.string, PeerSize + 1,
                                   Len(Listed.string)), PeerSize)
    /\ UNCHANGED <<authored, decoded, torrent, hashes, asked, tracker, response,
                   metadata>>

ParsePeers ==
    /\ phase = "peers"
    /\ IF Failed(decoded) THEN Fail(decoded) /\ UNCHANGED peers
       ELSE IF ~Is("dict", decoded.value) \/ ~Is("string", Listed)
       THEN Fail(Throws) /\ UNCHANGED peers
       ELSE IF Missing(Listed.string, PeerSize) > 1 THEN Fail(Undefined) /\ UNCHANGED peers
       ELSE /\ phase' = "done"
            /\ peers' = Cut(Padded(Listed.string, PeerSize), PeerSize)
    /\ UNCHANGED <<authored, decoded, torrent, hashes, asked, tracker, response,
                   metadata>>

-----------------------------------------------------------------------------
\* Mutant: what is left of a hash that is cut short is dropped.
BuildMetadataWhole ==
    /\ phase = "done" /\ peers # <<>>
    /\ metadata' = [total_length |-> torrent.length,
                    piece_length |-> torrent.piece_length,
                    num_pieces   |-> Len(hashes),
                    piece_hashes |-> SelectSeq(hashes, LAMBDA h :
                                                   Len(h) = HashSize)]
    /\ phase' = "download"
    /\ UNCHANGED <<authored, decoded, torrent, hashes, fromTracker>>

\* main: the download starts if there is a peer.  HashSize bytes are copied
\* from every string of split_piece_hashes, from one that is cut short as well.
BuildMetadata ==
    /\ phase = "done" /\ peers # <<>>
    /\ IF \E i \in DOMAIN hashes : Missing(hashes[i], HashSize) > 1
       THEN Fail(Undefined) /\ UNCHANGED metadata
       ELSE /\ phase' = "download"
            /\ metadata' = [total_length |-> torrent.length,
                            piece_length |-> torrent.piece_length,
                            num_pieces   |-> Len(hashes),
                            piece_hashes |-> [i \in DOMAIN hashes |->
                                                 Padded(hashes[i], HashSize)]]
    /\ UNCHANGED <<authored, decoded, torrent, hashes, fromTracker>>

Next == \/ DecodeFile \/ ParseTorrent \/ SplitHashes
        \/ BuildUrl \/ HttpGet \/ DecodeResponse \/ ParsePeers
        \/ BuildMetadata

Spec == Init /\ [][Next]_metainfoVars

-----------------------------------------------------------------------------
(* What the codec promises *)

\* decode inverts encode.  The encoding of a dictionary that ends early is not
\* decoded, with one exception: where it ends inside the length of a string,
\* decoding goes on from a position that the digits there happen to name.
InvertsAt(f, text, outcome) ==
    LET whole == encode(BDict(f))
    IN IF text = whole THEN ~Failed(outcome) /\ outcome.value = BDict(f)
       ELSE Torn(whole, text) \/ Failed(outcome)

\* The outcome is of one of the four kinds, and its strings are texts.
Sound(outcome) ==
    IF Failed(outcome) THEN outcome \in {Throws, Undefined, Diverges}
    ELSE Is("dict", outcome.value) =>
             \A k \in DOMAIN outcome.value.dict :
                 LET v == outcome.value.dict[k]
                 IN /\ Is("string", v) => v.string \in Text
                    /\ Is("dict", v) =>
                           \A j \in DOMAIN v.dict :
                               Is("string", v.dict[j]) => v.dict[j].string \in Text

Promised(f, text) ==
    LET outcome == decode(text) IN InvertsAt(f, text, outcome) /\ Sound(outcome)

\* The codec keeps its promise for every torrent and every response that is
\* read, whole or not.
CodecInverts ==
    /\ phase = "decode" => Promised(metainfo, file)
    /\ phase = "reply"  => Promised(AnswerDict(tracker), response)

-----------------------------------------------------------------------------
(* Properties *)

Whole == file = encode(BDict(metainfo))

InfoDict == metainfo[Info].dict

\* The whole file of a torrent of one file is parsed into the fields its author
\* gave, whatever bytes they contain, and the info hash is that of the info
\* dictionary as the author encoded it, keys the client does not know included
\* ("20-byte SHA-1 of bencoded info dict").
TorrentIsTheFiles ==
    phase \notin {"decode", "parse"} /\ Length \in DOMAIN InfoDict /\ Whole =>
        /\ torrent = [announce     |-> metainfo[Announce].string,
                      name         |-> InfoDict[Name].string,
                      length       |-> InfoDict[Length].int,
                      piece_length |-> InfoDict[PieceLength].int,
                      pieces       |-> InfoDict[PiecesKey].string,
                      info_hash    |-> Sha1(encode(metainfo[Info]))]
        /\ phase # "split" => /\ Joined(hashes, HashSize) = torrent.pieces
                              /\ \A i \in DOMAIN hashes : Len(hashes[i]) <= HashSize

\* A file that ends early is not taken for a torrent, although decoding may jump
\* back to its start where a terminator is missing: it ends with an exception, or
\* hangs, or reads past the end.  Only a file that ends inside a length may jump
\* to where decoding can go on.
TruncatedRejected ==
    phase \notin {"decode", "parse", "throws", "undefined", "diverges"} =>
        Whole \/ Torn(encode(BDict(metainfo)), file)

\* The peers are those the tracker sent, in its order; a response that ends
\* early, but not inside a length, gives none, nor does a request for another
\* torrent.
PeersAreTheTrackers ==
    phase \in {"done", "download"} =>
        \/ peers = tracker /\ asked = torrent.info_hash
        \/ Torn(encode(BDict(AnswerDict(tracker))), response)

\* The download queues as many pieces as the torrent has begun to give hashes
\* of, and finds under the index of each the bytes that the torrent gives there,
\* also when the last hash is cut short.
HashForEveryPiece ==
    phase = "download" =>
        LET given == torrent.pieces
        IN /\ metadata.num_pieces = (Len(given) + HashSize - 1) \div HashSize
           /\ Len(metadata.piece_hashes) = metadata.num_pieces
           /\ \A i \in 1 .. metadata.num_pieces :
                  i * HashSize <= Len(given) =>
                      metadata.piece_hashes[i]
                          = SubSeq(given, (i - 1) * HashSize + 1, i * HashSize)
=============================================================================
