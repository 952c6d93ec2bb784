------------------------ MODULE TransferStreamProofs ------------------------
(***************************************************************************)
(* Proofs about the conversation of a transfer, for any contents, buffers  *)
(* and numbers of attempts and changes.  For most of them a channel is the *)
(* set of its packets: it grows by what is sent and shrinks otherwise.     *)
(*                                                                         *)
(* The second part is about the order of the packets: the blocks under way *)
(* are, one after the other, the ones that follow what the receiver has    *)
(* (Blocks, Receiving, Sending), so that no block is skipped or repeated.  *)
(*                                                                         *)
(* The third part is about whose turn it is: what an end waits for is      *)
(* under way or still to be sent by the other one (UploadTurns,            *)
(* DownloadTurns), so that the two never wait for each other, and every    *)
(* step of an end brings it closer to its close.                           *)
(***************************************************************************)
EXTENDS TransferStream, SequenceTheorems, TLAPS

IsSequence(q) == \E S : q \in Seq(S)

-----------------------------------------------------------------------------
(* Channels.                                                               *)

\* The empty one.
LEMMA EmptyChannel == IsSequence(<<>>) /\ Range(<<>>) = {}
<1>1. <<>> \in Seq({}) /\ DOMAIN <<>> = {}
    OBVIOUS
<1>. QED
    BY <1>1, Zenon DEF IsSequence, Range

\* One packet more.
LEMMA AppendChannel ==
    ASSUME NEW q, IsSequence(q), NEW p
    PROVE  IsSequence(Append(q, p)) /\ Range(Append(q, p)) = Range(q) \cup {p}
<1>1. PICK S : q \in Seq(S)
    BY Zenon DEF IsSequence
<1>. DEFINE T == S \cup {p}
<1>2. q \in Seq(T) /\ p \in T
    BY <1>1
<1>. HIDE DEF T
<1>3. /\ Append(q, p) \in Seq(T) /\ Len(Append(q, p)) = Len(q) + 1 /\ Len(q) \in Nat
      /\ \A i \in 1 .. Len(q) : Append(q, p)[i] = q[i]
      /\ Append(q, p)[Len(q) + 1] = p
    BY <1>2, AppendProperties, LenProperties
<1>4. DOMAIN Append(q, p) = 1 .. Len(q) + 1 /\ DOMAIN q = 1 .. Len(q)
    BY <1>2, <1>3, LenProperties, Zenon
<1>5. Range(Append(q, p)) = Range(q) \cup {p}
  <2>1. \A i \in 1 .. Len(q) + 1 : i \in 1 .. Len(q) \/ i = Len(q) + 1
    BY <1>3
  <2>2. 1 .. Len(q) \subseteq 1 .. Len(q) + 1 /\ Len(q) + 1 \in 1 .. Len(q) + 1
    BY <1>3
  <2>. QED
    BY <1>3, <1>4, <2>1, <2>2, Zenon DEF Range
<1>. QED
    BY <1>3, <1>5, Zenon DEF IsSequence

\* One packet less.
LEMMA TailChannel ==
    ASSUME NEW q, IsSequence(q), q # <<>>
    PROVE  IsSequence(Tail(q)) /\ Range(Tail(q)) \subseteq Range(q) /\ Head(q) \in Range(q)
<1>1. PICK S : q \in Seq(S)
    BY Zenon DEF IsSequence
<1>2. /\ Tail(q) \in Seq(S) /\ Len(Tail(q)) = Len(q) - 1
      /\ \A i \in 1 .. Len(Tail(q)) : Tail(q)[i] = q[i + 1]
    BY <1>1, HeadTailProperties, Zenon
<1>3. /\ Len(q) \in Nat /\ Len(q) # 0 /\ Head(q) = q[1] /\ DOMAIN q = 1 .. Len(q)
      /\ DOMAIN Tail(q) = 1 .. Len(q) - 1
    BY <1>1, <1>2, LenProperties, EmptySeq
<1>4. \A i \in DOMAIN Tail(q) : i + 1 \in DOMAIN q /\ Tail(q)[i] = q[i + 1]
    BY <1>2, <1>3
<1>5. 1 \in DOMAIN q
    BY <1>3
<1>. QED
    BY <1>2, <1>3, <1>4, <1>5 DEF IsSequence, Range

\* The last words of an end.
LEMMA ConcatChannel ==
    ASSUME NEW q, IsSequence(q), NEW p
    PROVE  q \o <<>> = q /\ q \o <<p>> = Append(q, p)
<1>1. PICK S : q \in Seq(S)
    BY Zenon DEF IsSequence
<1>2. q \in Seq(S \cup {p}) /\ p \in S \cup {p}
    BY <1>1
<1>3. q \o <<>> = q
    BY <1>1, ConcatEmptySeq, Zenon
<1>4. q \o <<p>> = Append(q, p)
    BY <1>2, AppendIsConcat, Zenon
<1>. QED
    BY <1>3, <1>4, Zenon

-----------------------------------------------------------------------------
(* The inductive invariant.                                                *)

Putting == {"hashing", "puts_resp", "puts_data", "puts_ack"}
Getting == {"gets_resp", "gets_data", "gets_end", "gets_verify", "gets_ack"}
Storing == {"puts_data", "puts_end", "puts_verify"}

\* Of a type only what the arguments need: sizes are numbers, hashes announced are contents.
Shape ==
    /\ c = [at |-> c.at, kind |-> c.kind, hash |-> c.hash, size |-> c.size, pos |-> c.pos,
            final |-> c.final]
    /\ s = [at |-> s.at, hash |-> s.hash, size |-> s.size, pos |-> s.pos, data |-> s.data,
            linked |-> s.linked]
    /\ c.size \in Int /\ s.size \in Int
    /\ c.at \in Putting => c.kind = "puts" /\ c.size \in Nat
    /\ c.at \in Getting => c.kind = "gets"
    /\ IsSequence(c2s) /\ IsSequence(s2c)
    /\ row \in Versions \cup {NoVersion} /\ source \in Versions
    /\ files \in [Versions -> Int] /\ DOMAIN stored = Versions /\ DOMAIN spart = Versions
    /\ \A p \in Range(c2s) : p.type = "puts_req" => p.hash \in Versions /\ p.size \in Nat
    /\ \A p \in Range(s2c) : p.type = "gets_resp" => p.hash \in Versions /\ p.size \in Int

\* The file the server continues is as long as the server believes, and as long as announced
\* when it is verified.
Store ==
    /\ StoreHonest
    /\ \A v \in Versions : spart[v] = NoFile \/ Len(spart[v]) \in Nat
    /\ s.at \in Storing =>
          /\ s.hash \in Versions /\ s.pos \in Nat /\ Len(spart[s.hash]) = s.pos
          /\ IF s.at = "puts_data" THEN s.pos < s.size ELSE s.pos = s.size

\* The target is the announced content as soon as it is verified, or was already there.
Download ==
    /\ DownloadOk
    /\ c.at \in {"gets_data", "gets_end", "gets_verify"} =>
          c.hash \in Versions /\ (c.final => target = Content[c.hash])
    /\ c.at = "gets_ack" => target = Content[c.hash]

\* The server serves the announced content, and its ACK is the last it says.
Upload ==
    /\ c.at = "hashing" =>
          /\ c2s = <<>> /\ s.at \in {"loop", "closed"}
          /\ \A p \in Range(s2c) : p.type # "ack"
    /\ c.kind = "puts" =>
          /\ \A p \in Range(c2s) : p.type = "puts_req" => p.hash = c.hash
          /\ s.at \in Storing \cup {"puts_ack"} => s.hash = c.hash
          /\ s.at = "puts_ack" => s.linked = c.hash
          /\ c.at = "ok" \/ (\E p \in Range(s2c) : p.type = "ack") =>
                s.at = "closed" /\ s.linked = c.hash

StreamInv == Shape /\ Store /\ Download /\ Upload

-----------------------------------------------------------------------------
(* What the ends do to the channels.                                       *)

\* protocol_send_packet adds at most the packet.
LEMMA SentWire ==
    ASSUME NEW q, IsSequence(q), NEW open \in BOOLEAN, NEW p
    PROVE  IsSequence(Sent(open, q, p)) /\ Range(Sent(open, q, p)) \subseteq Range(q) \cup {p}
BY AppendChannel, Zenon DEF Sent

\* close keeps, of what was under way to the peer, at most that and the last words.
LEMMA LastWords ==
    ASSUME NEW q, IsSequence(q), NEW last \in {<<>>, <<Error>>, <<Ack>>}
    PROVE  /\ IsSequence(q \o last) /\ Range(q \o last) \subseteq Range(q) \cup {Error, Ack}
           /\ last # <<Ack>> => Range(q \o last) \subseteq Range(q) \cup {Error}
<1>1. q \o <<>> = q /\ q \o <<Error>> = Append(q, Error) /\ q \o <<Ack>> = Append(q, Ack)
    BY ConcatChannel, Zenon
<1>2. IsSequence(Append(q, Error)) /\ Range(Append(q, Error)) = Range(q) \cup {Error}
    BY AppendChannel, Zenon
<1>3. IsSequence(Append(q, Ack)) /\ Range(Append(q, Ack)) = Range(q) \cup {Ack}
    BY AppendChannel, Zenon
<1>4. CASE last = <<>>
    BY <1>1, <1>4, Zenon
<1>5. CASE last = <<Error>>
    BY <1>1, <1>2, <1>5, Zenon
<1>6. CASE last = <<Ack>>
    BY <1>1, <1>3, <1>6, Zenon
<1>. QED
    BY <1>4, <1>5, <1>6, Zenon

\* The client's end of it.
LEMMA ClientEndsWire ==
    ASSUME Shape, NEW outcome, NEW unread, NEW last \in {<<>>, <<Error>>, <<Ack>>},
           ClientEnds(outcome, unread, last)
    PROVE  /\ c' = [at |-> outcome, kind |-> c.kind, hash |-> c.hash, size |-> c.size,
                    pos |-> c.pos, final |-> c.final]
           /\ IsSequence(c2s') /\ Range(c2s') \subseteq Range(c2s) \cup {Error, Ack}
           /\ IsSequence(s2c') /\ Range(s2c') = {}
<1>1. c' = [c EXCEPT !.at = outcome] /\ s2c' = <<>> /\ (c2s' = c2s \o last \/ c2s' = <<>>)
    BY Zenon DEF ClientEnds
<1>2. c' = [at |-> outcome, kind |-> c.kind, hash |-> c.hash, size |-> c.size,
            pos |-> c.pos, final |-> c.final]
    BY <1>1, Zenon DEF Shape
<1>3. IsSequence(c2s \o last) /\ Range(c2s \o last) \subseteq Range(c2s) \cup {Error, Ack}
    BY LastWords, Zenon DEF Shape
<1>4. IsSequence(c2s') /\ Range(c2s') \subseteq Range(c2s) \cup {Error, Ack}
    BY <1>1, <1>3, EmptyChannel, Zenon
<1>. QED
    BY <1>1, <1>2, <1>4, EmptyChannel, Zenon

\* And the server's.
LEMMA ServerEndsWire ==
    ASSUME Shape, NEW unread, NEW last \in {<<>>, <<Error>>, <<Ack>>}, ServerEnds(unread, last)
    PROVE  /\ s' = [at |-> "closed", hash |-> s.hash, size |-> s.size, pos |-> s.pos,
                    data |-> s.data, linked |-> s.linked]
           /\ IsSequence(s2c') /\ Range(s2c') \subseteq Range(s2c) \cup {Error, Ack}
           /\ last # <<Ack>> => Range(s2c') \subseteq Range(s2c) \cup {Error}
           /\ IsSequence(c2s') /\ Range(c2s') = {} /\ c2s' = <<>>
<1>1. s' = [s EXCEPT !.at = "closed"] /\ c2s' = <<>> /\ (s2c' = s2c \o last \/ s2c' = <<>>)
    BY Zenon DEF ServerEnds
<1>2. s' = [at |-> "closed", hash |-> s.hash, size |-> s.size, pos |-> s.pos,
            data |-> s.data, linked |-> s.linked]
    BY <1>1, Zenon DEF Shape
<1>3. /\ IsSequence(s2c \o last) /\ Range(s2c \o last) \subseteq Range(s2c) \cup {Error, Ack}
      /\ last # <<Ack>> => Range(s2c \o last) \subseteq Range(s2c) \cup {Error}
    BY LastWords, Zenon DEF Shape
<1>4. /\ IsSequence(s2c') /\ Range(s2c') \subseteq Range(s2c) \cup {Error, Ack}
      /\ last # <<Ack>> => Range(s2c') \subseteq Range(s2c) \cup {Error}
    BY <1>1, <1>3, EmptyChannel, Zenon
<1>. QED
    BY <1>1, <1>2, <1>4, EmptyChannel, Zenon

\* The conversion of a number is a number.
LEMMA ConversionInt ==
    ASSUME NEW n \in Int
    PROVE  /\ host_to_net_u64(n) \in Int /\ net_to_host_u64(n) \in Int
           /\ n \in Nat => host_to_net_u64(n) \in Nat /\ net_to_host_u64(n) \in Nat
<1>1. /\ \A i \in Int : Swapped(i) \in Int
      /\ \A i \in Nat : Swapped(i) \in Nat
    BY DEF Swapped, Byte
<1>2. /\ n % Half \in Int /\ n \div Half \in Int /\ Half \in Nat
      /\ n \in Nat => n % Half \in Nat /\ n \div Half \in Nat
    BY DEF Half, Byte
<1>3. \A i, j \in Nat : i * Half + j \in Nat
    BY DEF Half, Byte
<1>. HIDE DEF Half, Swapped
<1>. QED
    BY <1>1, <1>2, <1>3 DEF host_to_net_u64, net_to_host_u64

-----------------------------------------------------------------------------
(* Every step preserves the invariant.                                     *)

\* A task of the client that fails leaves nothing to be wrong about.
LEMMA ClientFailsInv ==
    ASSUME StreamInv, NEW unread, NEW last \in {<<>>, <<Error>>},
           ClientEnds("failed", unread, last), UNCHANGED <<storeVars, source, target, s>>
    PROVE  StreamInv'
<1>. USE DEF StreamInv, storeVars
<1>1. /\ c' = [at |-> "failed", kind |-> c.kind, hash |-> c.hash, size |-> c.size,
               pos |-> c.pos, final |-> c.final]
      /\ IsSequence(c2s') /\ Range(c2s') \subseteq Range(c2s) \cup {Error, Ack}
      /\ IsSequence(s2c') /\ Range(s2c') = {}
    BY ClientEndsWire, Zenon
<1>2. Shape'
    BY <1>1 DEF Shape, Putting, Getting, Error, Ack
<1>3. Store'
    BY Zenon DEF Store, StoreHonest
<1>4. Download'
    BY <1>1, Zenon DEF Download, DownloadOk
<1>5. Upload'
    BY <1>1 DEF Upload, Error, Ack
<1>. QED
    BY <1>2, <1>3, <1>4, <1>5, Zenon

\* Nor does one of the server's.
LEMMA ServerFailsInv ==
    ASSUME StreamInv, NEW unread, NEW last \in {<<>>, <<Error>>},
           ServerEnds(unread, last), UNCHANGED <<storeVars, source, target, c>>
    PROVE  StreamInv'
<1>. USE DEF StreamInv, storeVars
<1>0. last # <<Ack>>
    BY DEF Error, Ack
<1>1. /\ s' = [at |-> "closed", hash |-> s.hash, size |-> s.size, pos |-> s.pos,
               data |-> s.data, linked |-> s.linked]
      /\ IsSequence(s2c') /\ Range(s2c') \subseteq Range(s2c) \cup {Error}
      /\ IsSequence(c2s') /\ Range(c2s') = {} /\ c2s' = <<>>
    BY <1>0, ServerEndsWire, Zenon
<1>2. Shape'
    BY <1>1 DEF Shape, Error
<1>3. Store'
    BY <1>1, Zenon DEF Store, StoreHonest, Storing
<1>4. Download'
    BY Zenon DEF Download, DownloadOk
<1>5. Upload'
    BY <1>1 DEF Upload, Storing, Error
<1>. QED
    BY <1>2, <1>3, <1>4, <1>5, Zenon

\* A new connection.
LEMMA ConnectInv ==
    ASSUME StreamInv, StartUpload \/ StartDownload
    PROVE  StreamInv'
<1>. USE DEF StreamInv
<1>1. PICK kind, at, size, packets :
          /\ Connect(kind, at, size, packets)
          /\ \/ kind = "puts" /\ at = "hashing" /\ size = Len(Content[source]) /\ packets = <<>>
             \/ kind = "gets" /\ at = "gets_resp" /\ size = 0 /\ packets = <<GetsReq>>
    BY Zenon DEF StartUpload, StartDownload
<1>2. Len(Content[source]) \in Nat
    BY StreamAssumption, LenProperties, Zenon DEF Shape
<1>3. /\ c' = [at |-> at, kind |-> kind, hash |-> NoVersion, size |-> size, pos |-> 0,
               final |-> FALSE]
      /\ s' = [at |-> "loop", hash |-> NoVersion, size |-> 0, pos |-> 0, data |-> <<>>,
               linked |-> NoVersion]
      /\ c2s' = packets /\ s2c' = <<>>
      /\ UNCHANGED <<row, files, stored, spart, source, target>>
    BY <1>1, Zenon DEF Connect, storeVars, localVars
<1>4. <<GetsReq>> = Append(<<>>, GetsReq)
    OBVIOUS
<1>5. IsSequence(<<GetsReq>>) /\ Range(<<GetsReq>>) = {GetsReq}
  <2>1. /\ IsSequence(Append(<<>>, GetsReq))
        /\ Range(Append(<<>>, GetsReq)) = {} \cup {GetsReq}
    BY EmptyChannel, AppendChannel, Zenon
  <2>. QED
    BY <1>4, <2>1, Zenon
<1>6. /\ IsSequence(c2s') /\ Range(c2s') \subseteq {GetsReq}
      /\ IsSequence(s2c') /\ Range(s2c') = {}
      /\ kind = "puts" => c2s' = <<>>
    BY <1>1, <1>3, <1>5, EmptyChannel, Zenon
<1>7. Shape'
    BY <1>1, <1>2, <1>3, <1>6 DEF Shape, Putting, Getting, GetsReq
<1>8. Store'
    BY <1>3, Zenon DEF Store, StoreHonest, Storing
<1>9. Download'
    BY <1>1, <1>3, Zenon DEF Download, DownloadOk
<1>10. Upload'
    BY <1>1, <1>3, <1>6, Zenon DEF Upload, Storing, GetsReq
<1>. QED
    BY <1>7, <1>8, <1>9, <1>10, Zenon

-----------------------------------------------------------------------------
(* run_upload.                                                             *)

\* From here on the request names the content the task is about.
LEMMA SendPutsReqInv ==
    ASSUME StreamInv, SendPutsReq
    PROVE  StreamInv'
<1>. USE DEF StreamInv
<1>1. /\ c.at = "hashing" /\ c.kind = "puts" /\ UNCHANGED <<row, files, stored, spart, source, target, s, s2c>>
      /\ c' = [at |-> "puts_resp", kind |-> c.kind, hash |-> source, size |-> c.size,
               pos |-> c.pos, final |-> c.final]
    BY Zenon DEF SendPutsReq, Shape, storeVars, localVars, Putting
<1>2. IsSequence(c2s') /\ Range(c2s') \subseteq {PutsReq(source, c.size)}
  <2>1. c2s = <<>> /\ IsSequence(c2s) /\ Range(c2s) = {}
    BY <1>1, EmptyChannel, Zenon DEF Upload
  <2>2. ServerOpen \in BOOLEAN /\ c2s' = Sent(ServerOpen, c2s, PutsReq(source, c.size))
    BY Zenon DEF SendPutsReq, client_send, ServerOpen
  <2>. QED
    BY <2>1, <2>2, SentWire
<1>3. \A p \in Range(c2s') : p.hash = source /\ p.size \in Nat
    BY <1>1, <1>2, ConversionInt DEF PutsReq, Shape, Putting
<1>4. Shape'
    BY <1>1, <1>2, <1>3, Zenon DEF Shape, Putting, Getting
<1>5. Store'
    BY <1>1, Zenon DEF Store, StoreHonest
<1>6. Download'
    BY <1>1, Zenon DEF Download, DownloadOk
<1>7. Upload'
    BY <1>1, <1>3, Zenon DEF Upload, Storing
<1>. QED
    BY <1>4, <1>5, <1>6, <1>7, Zenon

\* The steps of an upload that is under way: they send no other request.
LEMMA UploadMovesInv ==
    ASSUME StreamInv, c.at \in {"puts_resp", "puts_data"},
           UNCHANGED <<row, files, stored, spart, source, target, s>>,
           c'.at \in {"puts_data", "puts_ack"},
           c' = [at |-> c'.at, kind |-> c.kind, hash |-> c.hash, size |-> c.size,
                 pos |-> c'.pos, final |-> c.final],
           NEW p, p.type # "puts_req",
           IsSequence(c2s'), Range(c2s') \subseteq Range(c2s) \cup {p},
           IsSequence(s2c'), Range(s2c') \subseteq Range(s2c)
    PROVE  StreamInv'
<1>. USE DEF StreamInv
<1>1. Shape'
    BY DEF Shape, Putting, Getting
<1>2. Store'
    BY Zenon DEF Store, StoreHonest
<1>3. Download'
    BY Zenon DEF Download, DownloadOk
<1>4. Upload'
    BY DEF Upload
<1>. QED
    BY <1>1, <1>2, <1>3, <1>4, Zenon

\* The answer to the request.
LEMMA ReceivePutsRespInv ==
    ASSUME StreamInv, ReceivePutsResp
    PROVE  StreamInv'
<1>. USE DEF StreamInv
<1>1. /\ UNCHANGED <<storeVars, row, files, stored, spart, source, target, s>>
      /\ c.at = "puts_resp" /\ s2c # <<>>
    BY Zenon DEF ReceivePutsResp, ClientReads, CanReceive, storeVars, localVars
<1>2. CASE \E last \in {<<>>, <<Error>>} : ClientEnds("failed", Tail(s2c), last)
    BY <1>1, <1>2, ClientFailsInv, Zenon
<1>3. CASE /\ c'.at \in {"puts_ack", "puts_data"} /\ c2s' = c2s /\ s2c' = Tail(s2c)
           /\ c' = [at |-> c'.at, kind |-> c.kind, hash |-> c.hash, size |-> c.size,
                    pos |-> c'.pos, final |-> c.final]
  <2>1. IsSequence(s2c') /\ Range(s2c') \subseteq Range(s2c)
    BY <1>1, <1>3, TailChannel, Zenon DEF Shape
  <2>2. IsSequence(c2s') /\ Range(c2s') \subseteq Range(c2s) \cup {Error} /\ Error.type # "puts_req"
    BY <1>3, Zenon DEF Shape, Error
  <2>. QED
    BY <1>1, <1>3, <2>1, <2>2, UploadMovesInv, Zenon
<1>. QED
    BY <1>2, <1>3, Zenon DEF ReceivePutsResp, Shape

\* A block of the local file, or the file is shorter than it was.
LEMMA SendUploadDataInv ==
    ASSUME StreamInv, SendUploadData
    PROVE  StreamInv'
<1>. USE DEF StreamInv
<1>1. /\ UNCHANGED <<storeVars, row, files, stored, spart, source, target, s>>
      /\ c.at = "puts_data"
    BY Zenon DEF SendUploadData, storeVars, localVars
<1>2. CASE ClientEnds("failed", s2c, <<Error>>)
  <2>1. <<Error>> \in {<<>>, <<Error>>}
    BY Zenon
  <2>. QED
    BY <1>1, <1>2, <2>1, ClientFailsInv, Zenon
<1>3. CASE /\ client_send(FileData(Content[source][c.pos + 1]))
           /\ c' = [c EXCEPT !.pos = @ + 1] /\ s2c' = s2c
  <2>. DEFINE p == FileData(Content[source][c.pos + 1])
  <2>1. p.type # "puts_req"
    BY Zenon DEF FileData
  <2>2. c' = [at |-> "puts_data", kind |-> c.kind, hash |-> c.hash, size |-> c.size,
              pos |-> c.pos + 1, final |-> c.final]
    BY <1>1, <1>3, Zenon DEF Shape
  <2>3. c2s' = Sent(ServerOpen, c2s, p) /\ ServerOpen \in BOOLEAN
    BY <1>3, Zenon DEF client_send, ServerOpen
  <2>. HIDE DEF p
  <2>4. IsSequence(c2s') /\ Range(c2s') \subseteq Range(c2s) \cup {p}
    BY <2>3, SentWire, Zenon DEF Shape
  <2>5. /\ c'.at \in {"puts_data", "puts_ack"}
        /\ c' = [at |-> c'.at, kind |-> c.kind, hash |-> c.hash, size |-> c.size,
                 pos |-> c'.pos, final |-> c.final]
        /\ IsSequence(s2c') /\ Range(s2c') \subseteq Range(s2c)
    BY <1>3, <2>2 DEF Shape
  <2>. QED
    BY <1>1, <2>1, <2>4, <2>5, UploadMovesInv, Zenon
<1>. QED
    BY <1>2, <1>3, Zenon DEF SendUploadData

\* The end of the file.
LEMMA SendUploadEndInv ==
    ASSUME StreamInv, SendUploadEnd
    PROVE  StreamInv'
<1>. USE DEF StreamInv
<1>1. /\ UNCHANGED <<row, files, stored, spart, source, target, s, s2c>> /\ c.at = "puts_data"
      /\ c' = [at |-> "puts_ack", kind |-> c.kind, hash |-> c.hash, size |-> c.size,
               pos |-> c.pos, final |-> c.final]
      /\ c2s' = Sent(ServerOpen, c2s, FileEnd) /\ ServerOpen \in BOOLEAN
    BY Zenon DEF SendUploadEnd, storeVars, localVars, client_send, ServerOpen, Shape
<1>2. IsSequence(c2s') /\ Range(c2s') \subseteq Range(c2s) \cup {FileEnd}
    BY <1>1, SentWire, Zenon DEF Shape
<1>3. FileEnd.type # "puts_req"
    BY Zenon DEF FileEnd
<1>4. /\ c'.at \in {"puts_data", "puts_ack"}
      /\ c' = [at |-> c'.at, kind |-> c.kind, hash |-> c.hash, size |-> c.size,
               pos |-> c'.pos, final |-> c.final]
      /\ IsSequence(s2c') /\ Range(s2c') \subseteq Range(s2c)
    BY <1>1, Zenon DEF Shape
<1>. QED
    BY <1>1, <1>2, <1>3, <1>4, UploadMovesInv, Zenon

\* Only the server's ACK is a success.
LEMMA ReceiveUploadAckInv ==
    ASSUME StreamInv, ReceiveUploadAck
    PROVE  StreamInv'
<1>. USE DEF StreamInv
<1>1. /\ UNCHANGED <<storeVars, row, files, stored, spart, source, target, s>>
      /\ c.at = "puts_ack" /\ c.kind = "puts" /\ s2c # <<>>
    BY Zenon DEF ReceiveUploadAck, ClientReads, CanReceive, storeVars, localVars, Shape, Putting
<1>2. CASE ClientEnds("failed", Tail(s2c), <<>>)
  <2>1. <<>> \in {<<>>, <<Error>>}
    BY Zenon
  <2>. QED
    BY <1>1, <1>2, <2>1, ClientFailsInv, Zenon
<1>3. CASE IsAck(Head(s2c)) /\ ClientEnds("ok", Tail(s2c), <<>>)
  <2>1. Head(s2c) \in Range(s2c) /\ Head(s2c).type = "ack"
    BY <1>1, <1>3, TailChannel, Zenon DEF Shape, IsAck
  <2>2. <<>> \in {<<>>, <<Error>>, <<Ack>>}
    BY Zenon
  <2>3. /\ c' = [at |-> "ok", kind |-> c.kind, hash |-> c.hash, size |-> c.size,
                 pos |-> c.pos, final |-> c.final]
        /\ IsSequence(c2s') /\ Range(c2s') \subseteq Range(c2s) \cup {Error, Ack}
        /\ IsSequence(s2c') /\ Range(s2c') = {}
    BY <1>3, <2>2, ClientEndsWire, Zenon
  <2>4. s.at = "closed" /\ s.linked = c.hash
    BY <1>1, <2>1, Zenon DEF Upload
  <2>5. Shape'
    BY <1>1, <2>3 DEF Shape, Putting, Getting, Error, Ack
  <2>6. Store'
    BY <1>1, Zenon DEF Store, StoreHonest
  <2>7. Download'
    BY <1>1, <2>3, Zenon DEF Download, DownloadOk
  <2>8. Upload'
    BY <1>1, <2>3, <2>4 DEF Upload, Storing, Error, Ack
  <2>. QED
    BY <2>5, <2>6, <2>7, <2>8, Zenon
<1>. QED
    BY <1>2, <1>3, Zenon DEF ReceiveUploadAck

-----------------------------------------------------------------------------
(* run_download.                                                           *)

\* The steps of a download that is under way.
LEMMA DownloadMovesInv ==
    ASSUME StreamInv, c.at \in Getting,
           UNCHANGED <<row, files, stored, spart, source, s>>,
           c'.at \in {"gets_data", "gets_end", "gets_verify", "gets_ack"},
           c' = [at |-> c'.at, kind |-> c.kind, hash |-> c'.hash, size |-> c'.size,
                 pos |-> c'.pos, final |-> c'.final],
           c'.size \in Int, c'.hash \in Versions,
           target' \in {target, Content[c'.hash]},
           c'.final \/ c'.at = "gets_ack" => target' = Content[c'.hash],
           NEW p, p.type # "puts_req",
           IsSequence(c2s'), Range(c2s') \subseteq Range(c2s) \cup {p},
           IsSequence(s2c'), Range(s2c') \subseteq Range(s2c)
    PROVE  StreamInv'
<1>. USE DEF StreamInv
<1>1. c.kind = "gets"
    BY Zenon DEF Shape
<1>2. Shape'
    BY <1>1 DEF Shape, Putting, Getting
<1>3. Store'
    BY Zenon DEF Store, StoreHonest
<1>4. Download'
    BY Zenon DEF Download, DownloadOk
<1>5. Upload'
    BY <1>1 DEF Upload
<1>. QED
    BY <1>2, <1>3, <1>4, <1>5, Zenon

\* A target that is final is the announced content already.
LEMMA ReceiveGetsRespInv ==
    ASSUME StreamInv, ReceiveGetsResp
    PROVE  StreamInv'
<1>. USE DEF StreamInv
<1>. DEFINE packet == Head(s2c)
            size == net_to_host_u64(packet.size)
            final == hash_matches(target, size, packet.hash)
            offset == IF final THEN size ELSE PartOffset(size)
<1>1. /\ UNCHANGED <<storeVars, row, files, stored, spart, source, target, s>>
      /\ c.at = "gets_resp" /\ c.at \in Getting /\ s2c # <<>>
    BY Zenon DEF ReceiveGetsResp, ClientReads, CanReceive, storeVars, Getting
<1>2. ASSUME NEW last \in {<<>>, <<Error>>}, ClientEnds("failed", Tail(s2c), last)
      PROVE  StreamInv'
    BY <1>1, <1>2, ClientFailsInv, Zenon
<1>3. ASSUME packet.type = "gets_resp", client_send(ResumePos(offset)), s2c' = Tail(s2c),
             c' = [c EXCEPT !.at = IF offset < size THEN "gets_data" ELSE "gets_end",
                            !.hash = packet.hash, !.size = size, !.pos = offset,
                            !.final = final]
      PROVE  StreamInv'
  <2>1. IsSequence(s2c') /\ Range(s2c') \subseteq Range(s2c) /\ packet \in Range(s2c)
    BY <1>1, <1>3, TailChannel, Zenon DEF Shape
  <2>2. packet.hash \in Versions /\ size \in Int
    BY <1>3, <2>1, ConversionInt, Zenon DEF Shape
  <2>3. final => target = Content[packet.hash]
    BY Zenon DEF hash_matches
  <2>. HIDE DEF packet, size, final, offset
  <2>4. /\ c'.at \in {"gets_data", "gets_end", "gets_verify", "gets_ack"} /\ c'.at # "gets_ack"
        /\ c' = [at |-> c'.at, kind |-> c.kind, hash |-> c'.hash, size |-> c'.size,
                 pos |-> c'.pos, final |-> c'.final]
        /\ c'.size = size /\ c'.hash = packet.hash /\ c'.final = final
    BY <1>3, Zenon DEF Shape
  <2>5. ResumePos(offset).type # "puts_req"
    BY Zenon DEF ResumePos
  <2>6. c2s' = Sent(ServerOpen, c2s, ResumePos(offset)) /\ ServerOpen \in BOOLEAN
    BY <1>3, Zenon DEF client_send, ServerOpen
  <2>7. IsSequence(c2s') /\ Range(c2s') \subseteq Range(c2s) \cup {ResumePos(offset)}
    BY <2>6, SentWire, Zenon DEF Shape
  <2>8. /\ target' \in {target, Content[c'.hash]} /\ c'.size \in Int /\ c'.hash \in Versions
        /\ c'.final \/ c'.at = "gets_ack" => target' = Content[c'.hash]
    BY <1>1, <2>2, <2>3, <2>4, Zenon
  <2>. QED
    BY <1>1, <2>1, <2>4, <2>5, <2>7, <2>8, DownloadMovesInv, Zenon
<1>4. <<>> \in {<<>>, <<Error>>} /\ <<Error>> \in {<<>>, <<Error>>}
    BY Zenon
<1>. QED
    BY <1>2, <1>3, <1>4, Zenon DEF ReceiveGetsResp

\* A block for the .part file.
LEMMA ReceiveDownloadDataInv ==
    ASSUME StreamInv, ReceiveDownloadData
    PROVE  StreamInv'
<1>. USE DEF StreamInv
<1>1. /\ UNCHANGED <<storeVars, row, files, stored, spart, source, target, s>>
      /\ c.at = "gets_data" /\ c.at \in Getting /\ s2c # <<>>
    BY Zenon DEF ReceiveDownloadData, ClientReads, CanReceive, storeVars, Getting
<1>2. CASE ClientEnds("failed", Tail(s2c), <<Error>>)
  <2>1. <<Error>> \in {<<>>, <<Error>>}
    BY Zenon
  <2>. QED
    BY <1>1, <1>2, <2>1, ClientFailsInv, Zenon
<1>3. CASE /\ c' = [c EXCEPT !.pos = @ + 1,
                             !.at = IF c.pos + 1 < c.size THEN "gets_data" ELSE "gets_end"]
           /\ s2c' = Tail(s2c) /\ c2s' = c2s
  <2>1. /\ IsSequence(s2c') /\ Range(s2c') \subseteq Range(s2c) /\ Error.type # "puts_req"
        /\ IsSequence(c2s') /\ Range(c2s') \subseteq Range(c2s) \cup {Error}
    BY <1>1, <1>3, TailChannel, Zenon DEF Shape, Error
  <2>2. /\ c'.at \in {"gets_data", "gets_end", "gets_verify", "gets_ack"} /\ c'.at # "gets_ack"
        /\ c' = [at |-> c'.at, kind |-> c.kind, hash |-> c'.hash, size |-> c'.size,
                 pos |-> c'.pos, final |-> c'.final]
        /\ c'.size = c.size /\ c'.hash = c.hash /\ c'.final = c.final
    BY <1>3, Zenon DEF Shape
  <2>3. /\ target' \in {target, Content[c'.hash]} /\ c'.size \in Int /\ c'.hash \in Versions
        /\ c'.final \/ c'.at = "gets_ack" => target' = Content[c'.hash]
    BY <1>1, <2>2, Zenon DEF Shape, Download
  <2>. QED
    BY <1>1, <2>1, <2>2, <2>3, DownloadMovesInv, Zenon
<1>. QED
    BY <1>2, <1>3, Zenon DEF ReceiveDownloadData

\* The end of the file.
LEMMA ReceiveDownloadEndInv ==
    ASSUME StreamInv, ReceiveDownloadEnd
    PROVE  StreamInv'
<1>. USE DEF StreamInv
<1>1. /\ UNCHANGED <<storeVars, row, files, stored, spart, source, target, s>>
      /\ c.at = "gets_end" /\ c.at \in Getting /\ s2c # <<>>
    BY Zenon DEF ReceiveDownloadEnd, ClientReads, CanReceive, storeVars, localVars, Getting
<1>2. CASE ClientEnds("failed", Tail(s2c), <<Error>>)
  <2>1. <<Error>> \in {<<>>, <<Error>>}
    BY Zenon
  <2>. QED
    BY <1>1, <1>2, <2>1, ClientFailsInv, Zenon
<1>3. CASE /\ c' = [c EXCEPT !.at = IF c.final THEN "gets_ack" ELSE "gets_verify"]
           /\ s2c' = Tail(s2c) /\ c2s' = c2s
  <2>1. /\ IsSequence(s2c') /\ Range(s2c') \subseteq Range(s2c) /\ Error.type # "puts_req"
        /\ IsSequence(c2s') /\ Range(c2s') \subseteq Range(c2s) \cup {Error}
    BY <1>1, <1>3, TailChannel, Zenon DEF Shape, Error
  <2>2. /\ c'.at \in {"gets_data", "gets_end", "gets_verify", "gets_ack"}
        /\ c'.at = "gets_ack" => c.final
        /\ c' = [at |-> c'.at, kind |-> c.kind, hash |-> c'.hash, size |-> c'.size,
                 pos |-> c'.pos, final |-> c'.final]
        /\ c'.size = c.size /\ c'.hash = c.hash /\ c'.final = c.final
    BY <1>3, Zenon DEF Shape
  <2>3. /\ target' \in {target, Content[c'.hash]} /\ c'.size \in Int /\ c'.hash \in Versions
        /\ c'.final \/ c'.at = "gets_ack" => target' = Content[c'.hash]
    BY <1>1, <2>2, Zenon DEF Shape, Download
  <2>. QED
    BY <1>1, <2>1, <2>2, <2>3, DownloadMovesInv, Zenon
<1>. QED
    BY <1>2, <1>3, Zenon DEF ReceiveDownloadEnd

\* Only the announced content takes the place of the target.
LEMMA VerifyDownloadInv ==
    ASSUME StreamInv, VerifyDownload
    PROVE  StreamInv'
<1>. USE DEF StreamInv
<1>1. /\ UNCHANGED <<storeVars, row, files, stored, spart, source, s>>
      /\ c.at = "gets_verify" /\ c.at \in Getting
    BY Zenon DEF VerifyDownload, storeVars, Getting
<1>2. CASE ClientEnds("failed", s2c, <<Error>>) /\ target' = target
  <2>1. <<Error>> \in {<<>>, <<Error>>}
    BY Zenon
  <2>. QED
    BY <1>1, <1>2, <2>1, ClientFailsInv, Zenon
<1>3. CASE /\ hash_matches(part, c.size, c.hash) /\ target' = part
           /\ c' = [c EXCEPT !.at = "gets_ack"] /\ c2s' = c2s /\ s2c' = s2c
  <2>1. /\ IsSequence(s2c') /\ Range(s2c') \subseteq Range(s2c) /\ Error.type # "puts_req"
        /\ IsSequence(c2s') /\ Range(c2s') \subseteq Range(c2s) \cup {Error}
    BY <1>3, Zenon DEF Shape, Error
  <2>2. /\ c'.at \in {"gets_data", "gets_end", "gets_verify", "gets_ack"}
        /\ c' = [at |-> c'.at, kind |-> c.kind, hash |-> c'.hash, size |-> c'.size,
                 pos |-> c'.pos, final |-> c'.final]
        /\ c'.size = c.size /\ c'.hash = c.hash
    BY <1>3, Zenon DEF Shape
  <2>3. target' = Content[c'.hash] /\ c'.size \in Int /\ c'.hash \in Versions
    BY <1>1, <1>3, <2>2, Zenon DEF Shape, Download, hash_matches
  <2>. QED
    BY <1>1, <2>1, <2>2, <2>3, DownloadMovesInv, Zenon
<1>. QED
    BY <1>2, <1>3, Zenon DEF VerifyDownload, wireVars

\* The task is over.
LEMMA SendDownloadAckInv ==
    ASSUME StreamInv, SendDownloadAck
    PROVE  StreamInv'
<1>. USE DEF StreamInv
<1>1. /\ UNCHANGED <<row, files, stored, spart, source, target, s>>
      /\ c.at = "gets_ack" /\ c.kind = "gets" /\ ClientEnds("ok", s2c, <<Ack>>)
    BY Zenon DEF SendDownloadAck, storeVars, localVars, Shape, Getting
<1>2. <<Ack>> \in {<<>>, <<Error>>, <<Ack>>}
    BY Zenon
<1>3. /\ c' = [at |-> "ok", kind |-> c.kind, hash |-> c.hash, size |-> c.size,
               pos |-> c.pos, final |-> c.final]
      /\ IsSequence(c2s') /\ Range(c2s') \subseteq Range(c2s) \cup {Error, Ack}
      /\ IsSequence(s2c') /\ Range(s2c') = {}
    BY <1>1, <1>2, ClientEndsWire, Zenon
<1>4. Shape'
    BY <1>1, <1>3 DEF Shape, Putting, Getting, Error, Ack
<1>5. Store'
    BY <1>1, Zenon DEF Store, StoreHonest
<1>6. Download'
    BY <1>1, <1>3, Zenon DEF Download, DownloadOk
<1>7. Upload'
    BY <1>1, <1>3, Zenon DEF Upload
<1>. QED
    BY <1>4, <1>5, <1>6, <1>7, Zenon

-----------------------------------------------------------------------------
(* handle_puts.                                                            *)

\* What a request that is served implies.
LEMMA RequestFacts ==
    ASSUME StreamInv, ServerReads("loop"), Head(c2s).type = "puts_req"
    PROVE  /\ s.at = "loop" /\ c2s # <<>> /\ c.at # "hashing"
           /\ Head(c2s).hash \in Versions /\ net_to_host_u64(Head(c2s).size) \in Nat
           /\ c.kind = "puts" => Head(c2s).hash = c.hash
           /\ IsSequence(Tail(c2s)) /\ Range(Tail(c2s)) \subseteq Range(c2s)
           /\ c.kind = "puts" => c.at # "ok" /\ \A p \in Range(s2c) : p.type # "ack"
<1>. USE DEF StreamInv
<1>1. s.at = "loop" /\ c2s # <<>>
    BY Zenon DEF ServerReads, CanReceive
<1>2. Head(c2s) \in Range(c2s) /\ IsSequence(Tail(c2s)) /\ Range(Tail(c2s)) \subseteq Range(c2s)
    BY <1>1, TailChannel, Zenon DEF Shape
<1>3. Head(c2s).hash \in Versions /\ net_to_host_u64(Head(c2s).size) \in Nat
    BY <1>2, ConversionInt DEF Shape
<1>. QED
    BY <1>1, <1>2, <1>3, Zenon DEF Upload

\* protocol_send_packet of a response.
LEMMA ServerSends ==
    ASSUME Shape, NEW p, server_send(p)
    PROVE  IsSequence(s2c') /\ Range(s2c') \subseteq Range(s2c) \cup {p}
<1>1. s2c' = Sent(ClientOpen, s2c, p) /\ ClientOpen \in BOOLEAN
    BY Zenon DEF server_send, ClientOpen
<1>. QED
    BY <1>1, SentWire, Zenon DEF Shape

\* dao_link_existing_file
LEMMA LinkStoredInv ==
    ASSUME StreamInv, LinkStored
    PROVE  StreamInv'
<1>. USE DEF StreamInv
<1>. DEFINE hash == Head(c2s).hash
            size == net_to_host_u64(Head(c2s).size)
<1>1. /\ ServerReads("loop") /\ Head(c2s).type = "puts_req"
      /\ row' = hash /\ server_send(PutsResp(size)) /\ c2s' = Tail(c2s)
      /\ s' = [s EXCEPT !.at = "puts_ack", !.hash = hash, !.size = size, !.linked = hash]
      /\ UNCHANGED <<files, stored, spart, source, target, c>>
    BY Zenon DEF LinkStored, localVars
<1>2. /\ s.at = "loop" /\ c.at # "hashing" /\ hash \in Versions /\ size \in Nat
      /\ c.kind = "puts" => hash = c.hash
      /\ IsSequence(Tail(c2s)) /\ Range(Tail(c2s)) \subseteq Range(c2s)
      /\ c.kind = "puts" => c.at # "ok" /\ \A p \in Range(s2c) : p.type # "ack"
    BY <1>1, RequestFacts, Zenon
<1>size. size \in Int
    BY <1>2
<1>3. IsSequence(s2c') /\ Range(s2c') \subseteq Range(s2c) \cup {PutsResp(size)}
    BY <1>1, ServerSends, Zenon
<1>. HIDE DEF hash, size
<1>4. PutsResp(size).type = "puts_resp"
    BY Zenon DEF PutsResp
<1>5. s' = [at |-> "puts_ack", hash |-> hash, size |-> size, pos |-> s.pos, data |-> s.data,
            linked |-> hash]
    BY <1>1, Zenon DEF Shape
<1>6. Shape'
    BY <1>1, <1>2, <1>size, <1>3, <1>4, <1>5, Zenon DEF Shape
<1>7. Store'
    BY <1>1, <1>5, Zenon DEF Store, StoreHonest, Storing
<1>8. Download'
    BY <1>1, Zenon DEF Download, DownloadOk
<1>9. Upload'
    BY <1>1, <1>2, <1>3, <1>4, <1>5, Zenon DEF Upload, Storing
<1>. QED
    BY <1>6, <1>7, <1>8, <1>9, Zenon

\* The .part file is opened, and its length is where to resume.
LEMMA ResumePutsInv ==
    ASSUME StreamInv, ResumePuts
    PROVE  StreamInv'
<1>. USE DEF StreamInv
<1>. DEFINE hash == Head(c2s).hash
            size == net_to_host_u64(Head(c2s).size)
            old == spart[hash]
            new == IF old = NoFile \/ Len(old) > size THEN <<>> ELSE old
<1>1. /\ ServerReads("loop") /\ Head(c2s).type = "puts_req"
      /\ spart' = [spart EXCEPT ![hash] = new]
      /\ server_send(PutsResp(Len(new))) /\ c2s' = Tail(c2s)
      /\ s' = [s EXCEPT !.at = IF Len(new) < size THEN "puts_data" ELSE "puts_verify",
                        !.hash = hash, !.size = size, !.pos = Len(new)]
      /\ UNCHANGED <<row, files, stored, source, target, c>>
    BY Zenon DEF ResumePuts, localVars
<1>2. /\ s.at = "loop" /\ c.at # "hashing" /\ hash \in Versions /\ size \in Nat
      /\ c.kind = "puts" => hash = c.hash
      /\ IsSequence(Tail(c2s)) /\ Range(Tail(c2s)) \subseteq Range(c2s)
      /\ c.kind = "puts" => c.at # "ok" /\ \A p \in Range(s2c) : p.type # "ack"
    BY <1>1, RequestFacts, Zenon
<1>size. size \in Int
    BY <1>2
<1>3. IsSequence(s2c') /\ Range(s2c') \subseteq Range(s2c) \cup {PutsResp(Len(new))}
    BY <1>1, ServerSends, Zenon
<1>. HIDE DEF hash, size
<1>4. Len(new) \in Nat
  <2>1. CASE old = NoFile \/ Len(old) > size
    BY <2>1, Zenon
  <2>2. CASE ~(old = NoFile \/ Len(old) > size)
    BY <1>2, <2>2, Zenon DEF Store
  <2>. QED
    BY <2>1, <2>2, Zenon
<1>5. ~(Len(new) < size) => Len(new) = size
  <2>1. CASE old = NoFile \/ Len(old) > size
    BY <1>2, <2>1
  <2>2. CASE ~(old = NoFile \/ Len(old) > size)
    BY <1>2, <1>4, <2>2
  <2>. QED
    BY <2>1, <2>2, Zenon
<1>. HIDE DEF new
<1>6. PutsResp(Len(new)).type = "puts_resp"
    BY Zenon DEF PutsResp
<1>7. s' = [at |-> IF Len(new) < size THEN "puts_data" ELSE "puts_verify", hash |-> hash,
            size |-> size, pos |-> Len(new), data |-> s.data, linked |-> s.linked]
    BY <1>1, Zenon DEF Shape
<1>8. DOMAIN spart' = Versions /\ \A v \in Versions : spart'[v] = IF v = hash THEN new ELSE spart[v]
    BY <1>1, <1>2, Zenon DEF Shape
<1>9. Shape'
    BY <1>1, <1>2, <1>size, <1>3, <1>6, <1>7, <1>8, Zenon DEF Shape
<1>10. Store'
    BY <1>1, <1>2, <1>4, <1>5, <1>7, <1>8 DEF Store, StoreHonest, Storing
<1>11. Download'
    BY <1>1, Zenon DEF Download, DownloadOk
<1>12. Upload'
    BY <1>1, <1>2, <1>3, <1>6, <1>7 DEF Upload, Storing
<1>. QED
    BY <1>9, <1>10, <1>11, <1>12, Zenon

\* write_n at the end of a file makes it one block longer.
LEMMA WriteAtEnd ==
    ASSUME NEW file, NEW block, Len(file) \in Nat
    PROVE  Len(write_n(file, Len(file), block)) = Len(file) + 1
<1>1. Longer(Len(file), Len(file) + 1) = Len(file) + 1
    BY DEF Longer
<1>. DEFINE f(i) == IF i = Len(file) + 1 THEN block ELSE IF i <= Len(file) THEN file[i] ELSE 0
<1>2. write_n(file, Len(file), block) = [i \in 1 .. Len(file) + 1 |-> f(i)]
    BY <1>1, Zenon DEF write_n
<1>. HIDE DEF f
<1>3. Len([i \in 1 .. Len(file) + 1 |-> f(i)]) = Len(file) + 1
    OBVIOUS
<1>. QED
    BY <1>2, <1>3, Zenon

\* A block for the server's .part file.
LEMMA ReceiveUploadDataInv ==
    ASSUME StreamInv, ReceiveUploadData
    PROVE  StreamInv'
<1>. USE DEF StreamInv
<1>1. /\ UNCHANGED <<row, files, stored, source, target, c>>
      /\ s.at = "puts_data" /\ c2s # <<>>
    BY Zenon DEF ReceiveUploadData, ServerReads, CanReceive, localVars
<1>2. CASE ServerEnds(Tail(c2s), <<Error>>) /\ spart' = spart
  <2>1. <<Error>> \in {<<>>, <<Error>>} /\ UNCHANGED storeVars
    BY <1>1, <1>2, Zenon DEF storeVars
  <2>. QED
    BY <1>1, <1>2, <2>1, ServerFailsInv, Zenon
<1>3. ASSUME NEW block, spart' = [spart EXCEPT ![s.hash] = write_n(@, s.pos, block)],
             s' = [s EXCEPT !.pos = @ + 1,
                            !.at = IF s.pos + 1 < s.size THEN "puts_data" ELSE "puts_end"],
             c2s' = Tail(c2s), s2c' = s2c
      PROVE  StreamInv'
  <2>1. /\ s.hash \in Versions /\ s.pos \in Nat /\ Len(spart[s.hash]) = s.pos
        /\ s.pos < s.size /\ s.size \in Int
    BY <1>1, Zenon DEF Store, Storing, Shape
  <2>2. Len(write_n(spart[s.hash], s.pos, block)) = s.pos + 1
    BY <2>1, WriteAtEnd, Zenon
  <2>3. s' = [at |-> IF s.pos + 1 < s.size THEN "puts_data" ELSE "puts_end", hash |-> s.hash,
              size |-> s.size, pos |-> s.pos + 1, data |-> s.data, linked |-> s.linked]
    BY <1>3, Zenon DEF Shape
  <2>4. /\ DOMAIN spart' = Versions
        /\ \A v \in Versions : v # s.hash => spart'[v] = spart[v]
        /\ Len(spart'[s.hash]) = s.pos + 1
    BY <1>3, <2>1, <2>2, Zenon DEF Shape
  <2>5. IsSequence(c2s') /\ Range(c2s') \subseteq Range(c2s)
    BY <1>1, <1>3, TailChannel, Zenon DEF Shape
  <2>6. Shape'
    BY <1>1, <1>3, <2>1, <2>3, <2>4, <2>5, Zenon DEF Shape
  <2>7. Store'
    <3>1. StoreHonest'
      BY <1>1, Zenon DEF Store, StoreHonest
    <3>2. \A v \in Versions : spart'[v] = NoFile \/ Len(spart'[v]) \in Nat
      BY <2>1, <2>4 DEF Store
    <3>3. /\ s'.hash \in Versions /\ s'.pos \in Nat /\ Len(spart'[s'.hash]) = s'.pos
          /\ s'.at \in {"puts_data", "puts_end"}
      BY <2>1, <2>3, <2>4
    <3>4. IF s'.at = "puts_data" THEN s'.pos < s'.size ELSE s'.pos = s'.size
      BY <2>1, <2>3
    <3>. QED
      BY <3>1, <3>2, <3>3, <3>4, Zenon DEF Store
  <2>8. Download'
    BY <1>1, Zenon DEF Download, DownloadOk
  <2>9. Upload'
    BY <1>1, <1>3, <2>3, <2>5, Zenon DEF Upload, Storing
  <2>. QED
    BY <2>6, <2>7, <2>8, <2>9, Zenon
<1>. QED
    BY <1>2, <1>3, Zenon DEF ReceiveUploadData

\* The end of the file.
LEMMA ReceiveUploadEndInv ==
    ASSUME StreamInv, ReceiveUploadEnd
    PROVE  StreamInv'
<1>. USE DEF StreamInv
<1>1. /\ UNCHANGED <<storeVars, row, files, stored, spart, source, target, c>>
      /\ s.at = "puts_end" /\ c2s # <<>>
    BY Zenon DEF ReceiveUploadEnd, ServerReads, CanReceive, storeVars, localVars
<1>2. CASE ServerEnds(Tail(c2s), <<Error>>)
  <2>1. <<Error>> \in {<<>>, <<Error>>}
    BY Zenon
  <2>. QED
    BY <1>1, <1>2, <2>1, ServerFailsInv, Zenon
<1>3. CASE s' = [s EXCEPT !.at = "puts_verify"] /\ c2s' = Tail(c2s) /\ s2c' = s2c
  <2>1. s' = [at |-> "puts_verify", hash |-> s.hash, size |-> s.size, pos |-> s.pos,
              data |-> s.data, linked |-> s.linked]
    BY <1>3, Zenon DEF Shape
  <2>2. IsSequence(c2s') /\ Range(c2s') \subseteq Range(c2s)
    BY <1>1, <1>3, TailChannel, Zenon DEF Shape
  <2>3. Shape'
    BY <1>1, <1>3, <2>1, <2>2, Zenon DEF Shape
  <2>4. Store'
    BY <1>1, <2>1, Zenon DEF Store, StoreHonest, Storing
  <2>5. Download'
    BY <1>1, Zenon DEF Download, DownloadOk
  <2>6. Upload'
    BY <1>1, <1>3, <2>1, <2>2, Zenon DEF Upload, Storing
  <2>. QED
    BY <2>3, <2>4, <2>5, <2>6, Zenon
<1>. QED
    BY <1>2, <1>3, Zenon DEF ReceiveUploadEnd

\* What is stored has the announced hash, and the announced size is its length.
LEMMA VerifyUploadInv ==
    ASSUME StreamInv, VerifyUpload
    PROVE  StreamInv'
<1>. USE DEF StreamInv
<1>1. /\ UNCHANGED <<source, target, c>> /\ s.at = "puts_verify"
      /\ spart' = [spart EXCEPT ![s.hash] = NoFile]
    BY Zenon DEF VerifyUpload, localVars
<1>2. s.hash \in Versions /\ Len(spart[s.hash]) = s.size
    BY <1>1, Zenon DEF Store, Storing
<1>3. DOMAIN spart' = Versions /\ \A v \in Versions : spart'[v] \in {NoFile, spart[v]}
    BY <1>1, Zenon DEF Shape
<1>4. /\ DOMAIN stored' = Versions
      /\ \A v \in Versions : stored'[v] = stored[v] \/ stored'[v] = Content[v]
      /\ UploadMatches(s.hash) => stored'[s.hash] = Content[s.hash] /\ s.size = Len(Content[s.hash])
  <2>1. CASE UploadMatches(s.hash)
    BY <1>2, <2>1, Zenon DEF VerifyUpload, UploadMatches, Shape
  <2>2. CASE ~UploadMatches(s.hash)
    BY <2>2, Zenon DEF VerifyUpload, Shape
  <2>. QED
    BY <2>1, <2>2, Zenon
<1>5. Download'
    BY <1>1, Zenon DEF Download, DownloadOk
<1>6. CASE ServerEnds(c2s, <<Error>>) /\ UNCHANGED <<row, files>>
  <2>1. <<Error>> \in {<<>>, <<Error>>, <<Ack>>} /\ <<Error>> # <<Ack>>
    BY Zenon DEF Error, Ack
  <2>2. /\ s' = [at |-> "closed", hash |-> s.hash, size |-> s.size, pos |-> s.pos,
                 data |-> s.data, linked |-> s.linked]
        /\ IsSequence(s2c') /\ Range(s2c') \subseteq Range(s2c) \cup {Error}
        /\ IsSequence(c2s') /\ Range(c2s') = {} /\ c2s' = <<>>
    BY <1>6, <2>1, ServerEndsWire, Zenon
  <2>3. Shape'
    BY <1>1, <1>3, <1>4, <1>6, <2>2, SMTT(30) DEF Shape, Error
  <2>4. Store'
    BY <1>3, <1>4, <1>6, <2>2, StreamAssumption, Zenon DEF Store, StoreHonest, Storing
  <2>5. Upload'
    BY <1>1, <2>2, SMTT(30) DEF Upload, Storing, Error
  <2>. QED
    BY <1>5, <2>3, <2>4, <2>5, Zenon
<1>7. CASE /\ UploadMatches(s.hash) /\ row' = s.hash /\ UNCHANGED wireVars
           /\ files' = [files EXCEPT ![s.hash] = IF @ = NoSize THEN s.size ELSE @]
           /\ s' = [s EXCEPT !.at = "puts_ack", !.linked = s.hash]
  <2>1. /\ s' = [at |-> "puts_ack", hash |-> s.hash, size |-> s.size, pos |-> s.pos,
                 data |-> s.data, linked |-> s.hash]
        /\ c2s' = c2s /\ s2c' = s2c
    BY <1>7, Zenon DEF Shape, wireVars
  <2>2. files' \in [Versions -> Int]
    BY <1>2, <1>7, Zenon DEF Shape
  <2>3. \A v \in Versions : v # s.hash => files'[v] = files[v]
    BY <1>2, <1>7, Zenon DEF Shape
  <2>4. files'[s.hash] = Len(Content[s.hash])
    BY <1>2, <1>4, <1>7, Zenon DEF Shape, Store, StoreHonest
  <2>5. Shape'
    BY <1>1, <1>2, <1>3, <1>4, <1>7, <2>1, <2>2, Zenon DEF Shape
  <2>6. Store'
    <3>1. StoreHonest'
      BY <1>4, <1>7, <2>3, <2>4, StreamAssumption DEF Store, StoreHonest
    <3>. QED
      BY <3>1, <1>3, <2>1, Zenon DEF Store, Storing
  <2>7. Upload'
    BY <1>1, <2>1, Zenon DEF Upload, Storing
  <2>. QED
    BY <1>5, <2>5, <2>6, <2>7, Zenon
<1>. QED
    BY <1>6, <1>7, Zenon DEF VerifyUpload

\* The only ACK of the server says what is linked.
LEMMA SendUploadAckInv ==
    ASSUME StreamInv, SendUploadAck
    PROVE  StreamInv'
<1>. USE DEF StreamInv
<1>1. /\ UNCHANGED <<row, files, stored, spart, source, target, c>>
      /\ s.at = "puts_ack" /\ ServerEnds(c2s, <<Ack>>)
    BY Zenon DEF SendUploadAck, storeVars, localVars
<1>2. <<Ack>> \in {<<>>, <<Error>>, <<Ack>>}
    BY Zenon
<1>3. /\ s' = [at |-> "closed", hash |-> s.hash, size |-> s.size, pos |-> s.pos,
               data |-> s.data, linked |-> s.linked]
      /\ IsSequence(s2c') /\ Range(s2c') \subseteq Range(s2c) \cup {Error, Ack}
      /\ IsSequence(c2s') /\ Range(c2s') = {} /\ c2s' = <<>>
    BY <1>1, <1>2, ServerEndsWire, Zenon
<1>4. Shape'
  <2>1. \A p \in Range(s2c') : p \in Range(s2c) \/ p.type # "gets_resp"
    BY <1>3 DEF Error, Ack
  <2>. QED
    BY <1>1, <1>3, <2>1, Zenon DEF Shape
<1>5. Store'
    BY <1>1, <1>3, Zenon DEF Store, StoreHonest, Storing
<1>6. Download'
    BY <1>1, Zenon DEF Download, DownloadOk
<1>7. Upload'
    BY <1>1, <1>3, Zenon DEF Upload, Storing
<1>. QED
    BY <1>4, <1>5, <1>6, <1>7, Zenon

-----------------------------------------------------------------------------
(* handle_gets.                                                            *)

\* The steps of a download on the server's side: none of them says ACK.
LEMMA ServeMovesInv ==
    ASSUME StreamInv, ServerOpen, c.at # "hashing",
           UNCHANGED <<row, files, stored, spart, source, target, c>>,
           s'.at \in {"gets_resume", "gets_data", "gets_ack"},
           s' = [at |-> s'.at, hash |-> s'.hash, size |-> s.size, pos |-> s'.pos,
                 data |-> s'.data, linked |-> s.linked],
           IsSequence(c2s'), Range(c2s') \subseteq Range(c2s),
           NEW p, p.type # "ack", p.type = "gets_resp" => p.hash \in Versions /\ p.size \in Int,
           IsSequence(s2c'), Range(s2c') \subseteq Range(s2c) \cup {p}
    PROVE  StreamInv'
<1>. USE DEF StreamInv
<1>1. Shape'
    BY DEF Shape
<1>2. Store'
    BY Zenon DEF Store, StoreHonest, Storing
<1>3. Download'
    BY Zenon DEF Download, DownloadOk
<1>4. Upload'
    BY Zenon DEF Upload, Storing, ServerOpen
<1>. QED
    BY <1>1, <1>2, <1>3, <1>4, Zenon

\* dao_get_file_meta gives a content and its size.
LEMMA SendGetsRespInv ==
    ASSUME StreamInv, SendGetsResp
    PROVE  StreamInv'
<1>. USE DEF StreamInv
<1>1. /\ UNCHANGED <<storeVars, row, files, stored, spart, source, target, c>>
      /\ s.at = "loop" /\ ServerOpen /\ c2s # <<>> /\ c.at # "hashing"
    BY Zenon DEF SendGetsResp, ServerReads, CanReceive, storeVars, localVars, ServerOpen, Upload
<1>2. CASE ServerEnds(Tail(c2s), <<Error>>)
  <2>1. <<Error>> \in {<<>>, <<Error>>}
    BY Zenon
  <2>. QED
    BY <1>1, <1>2, <2>1, ServerFailsInv, Zenon
<1>3. CASE /\ row # NoVersion /\ server_send(GetsResp(row, files[row]))
           /\ s' = [s EXCEPT !.at = "gets_resume", !.hash = row] /\ c2s' = Tail(c2s)
  <2>. DEFINE p == GetsResp(row, files[row])
  <2>1. IsSequence(s2c') /\ Range(s2c') \subseteq Range(s2c) \cup {p}
    BY <1>3, ServerSends, Zenon
  <2>2. row \in Versions /\ files[row] \in Int
    BY <1>3, Zenon DEF Shape
  <2>3. p.type = "gets_resp" /\ p.hash \in Versions /\ p.size \in Int
    BY <2>2, ConversionInt, Zenon DEF GetsResp
  <2>4. IsSequence(c2s') /\ Range(c2s') \subseteq Range(c2s)
    BY <1>1, <1>3, TailChannel, Zenon DEF Shape
  <2>5. /\ s'.at \in {"gets_resume", "gets_data", "gets_ack"}
        /\ s' = [at |-> s'.at, hash |-> s'.hash, size |-> s.size, pos |-> s'.pos,
                 data |-> s'.data, linked |-> s.linked]
    BY <1>3, Zenon DEF Shape
  <2>. HIDE DEF p
  <2>. QED
    BY <1>1, <2>1, <2>3, <2>4, <2>5, ServeMovesInv, Zenon
<1>. QED
    BY <1>2, <1>3, Zenon DEF SendGetsResp

\* The file is opened, or is not there.
LEMMA ReceiveResumePosInv ==
    ASSUME StreamInv, ReceiveResumePos
    PROVE  StreamInv'
<1>. USE DEF StreamInv
<1>1. /\ UNCHANGED <<storeVars, row, files, stored, spart, source, target, c>>
      /\ s.at = "gets_resume" /\ ServerOpen /\ c2s # <<>> /\ c.at # "hashing"
    BY Zenon DEF ReceiveResumePos, ServerReads, CanReceive, storeVars, localVars, ServerOpen, Upload
<1>2. ASSUME NEW last \in {<<>>, <<Error>>}, ServerEnds(Tail(c2s), last)
      PROVE  StreamInv'
    BY <1>1, <1>2, ServerFailsInv, Zenon
<1>3. ASSUME NEW offset, NEW file, c2s' = Tail(c2s), s2c' = s2c,
             s' = [s EXCEPT !.at = "gets_data", !.pos = offset, !.data = file]
      PROVE  StreamInv'
  <2>1. /\ IsSequence(c2s') /\ Range(c2s') \subseteq Range(c2s)
        /\ IsSequence(s2c') /\ Range(s2c') \subseteq Range(s2c) \cup {Error}
        /\ Error.type # "ack" /\ Error.type # "gets_resp"
    BY <1>1, <1>3, TailChannel, Zenon DEF Shape, Error
  <2>2. /\ s'.at \in {"gets_resume", "gets_data", "gets_ack"}
        /\ s' = [at |-> s'.at, hash |-> s'.hash, size |-> s.size, pos |-> s'.pos,
                 data |-> s'.data, linked |-> s.linked]
    BY <1>3, Zenon DEF Shape
  <2>. QED
    BY <1>1, <2>1, <2>2, ServeMovesInv, Zenon
<1>4. <<>> \in {<<>>, <<Error>>} /\ <<Error>> \in {<<>>, <<Error>>}
    BY Zenon
<1>. QED
    BY <1>2, <1>3, <1>4, Zenon DEF ReceiveResumePos

\* The blocks and the end of the file.
LEMMA SendDownloadInv ==
    ASSUME StreamInv, SendDownloadData \/ SendDownloadEnd
    PROVE  StreamInv'
<1>. USE DEF StreamInv
<1>1. /\ UNCHANGED <<row, files, stored, spart, source, target, c, c2s>>
      /\ s.at = "gets_data" /\ ServerOpen /\ c.at # "hashing"
    BY Zenon DEF SendDownloadData, SendDownloadEnd, storeVars, localVars, ServerOpen, Upload
<1>2. PICK p : server_send(p) /\ p.type # "ack" /\ p.type # "gets_resp"
    BY DEF SendDownloadData, SendDownloadEnd, FileData, FileEnd
<1>3. /\ s'.at \in {"gets_resume", "gets_data", "gets_ack"}
      /\ s' = [at |-> s'.at, hash |-> s'.hash, size |-> s.size, pos |-> s'.pos,
               data |-> s'.data, linked |-> s.linked]
    BY <1>1, Zenon DEF SendDownloadData, SendDownloadEnd, Shape
<1>4. /\ IsSequence(s2c') /\ Range(s2c') \subseteq Range(s2c) \cup {p}
      /\ IsSequence(c2s') /\ Range(c2s') \subseteq Range(c2s)
    BY <1>1, <1>2, ServerSends, Zenon DEF Shape
<1>. QED
    BY <1>1, <1>2, <1>3, <1>4, ServeMovesInv, Zenon

-----------------------------------------------------------------------------
(* The environment.                                                        *)

\* Others keep the table and the store together, too.
LEMMA EnvironmentInv ==
    ASSUME StreamInv, Environment
    PROVE  StreamInv'
<1>. USE DEF StreamInv
<1>1. UNCHANGED <<spart, target, c, s, c2s, s2c>>
    BY Zenon DEF Environment, Change, wireVars
<1>. DEFINE Typed == /\ row \in Versions \cup {NoVersion} /\ source \in Versions
                     /\ files \in [Versions -> Int] /\ DOMAIN stored = Versions
<1>2. Typed'
  <2>1. \A v \in Versions : Len(Content[v]) \in Int
    BY StreamAssumption, LenProperties
  <2>2. CASE PathRemoved
    BY <2>2 DEF PathRemoved, Shape, NoSize
  <2>3. ASSUME NEW v \in Versions, ContentPublished(v) \/ SourceChanged(v)
        PROVE  Typed'
    BY <2>1, <2>3 DEF ContentPublished, SourceChanged, Shape
  <2>. QED
    BY <2>2, <2>3, Zenon DEF Environment
<1>3. StoreHonest'
  <2>1. CASE PathRemoved
    BY <2>1, Zenon DEF PathRemoved, Shape, Store, StoreHonest
  <2>2. ASSUME NEW v \in Versions, ContentPublished(v) \/ SourceChanged(v)
        PROVE  StoreHonest'
    BY <2>2, StreamAssumption, SMTT(30) DEF ContentPublished, SourceChanged, Shape, Store, StoreHonest
  <2>. QED
    BY <2>1, <2>2, Zenon DEF Environment
<1>4. Shape'
    BY <1>1, <1>2, Zenon DEF Shape
<1>5. Store'
    BY <1>1, <1>3, Zenon DEF Store
<1>6. Download'
    BY <1>1, Zenon DEF Download, DownloadOk
<1>7. Upload'
    BY <1>1, Zenon DEF Upload
<1>. QED
    BY <1>4, <1>5, <1>6, <1>7, Zenon

-----------------------------------------------------------------------------
(* The theorems.                                                           *)

\* The invariant holds at first.
LEMMA InitInv == Init => StreamInv
<1>. SUFFICES ASSUME Init PROVE StreamInv
    BY Zenon
<1>. USE DEF Init
<1>1. Shape
  <2>1. \A v \in Versions : Len(Content[v]) \in Int
    BY StreamAssumption, LenProperties
  <2>2. files \in [Versions -> Int]
    BY <2>1, SMTT(30) DEF NoSize
  <2>3. IsSequence(c2s) /\ IsSequence(s2c) /\ Range(c2s) = {} /\ Range(s2c) = {}
    BY EmptyChannel, Zenon
  <2>. QED
    BY <2>2, <2>3 DEF Shape, Putting, Getting
<1>2. Store
    BY StreamAssumption, Zenon DEF Store, StoreHonest, Storing
<1>3. Download
    BY Zenon DEF Download, DownloadOk
<1>4. Upload
    BY EmptyChannel, Zenon DEF Upload, Storing
<1>. QED
    BY <1>1, <1>2, <1>3, <1>4, Zenon DEF StreamInv

\* And every step keeps it.
LEMMA NextInv == StreamInv /\ [Next]_vars => StreamInv'
<1>. SUFFICES ASSUME StreamInv, [Next]_vars PROVE StreamInv'
    BY Zenon
<1>1. CASE run_upload
    BY <1>1, ConnectInv, SendPutsReqInv, ReceivePutsRespInv, SendUploadDataInv,
       SendUploadEndInv, ReceiveUploadAckInv, Zenon DEF run_upload
<1>2. CASE run_download
    BY <1>2, ConnectInv, ReceiveGetsRespInv, ReceiveDownloadDataInv, ReceiveDownloadEndInv,
       VerifyDownloadInv, SendDownloadAckInv, Zenon DEF run_download
<1>. DEFINE words == {<<>>, <<Error>>}
<1>3. <<>> \in words /\ <<Error>> \in words
    BY Zenon
<1>4. CASE ClientSeesEof \/ ClientFails
  <2>1. /\ \E unread : \E last \in words : ClientEnds("failed", unread, last)
        /\ UNCHANGED <<storeVars, source, target, s>>
    BY <1>3, <1>4, Zenon DEF ClientSeesEof, ClientFails, localVars
  <2>. QED
    BY <2>1, ClientFailsInv, Zenon
<1>5. CASE RefusePuts \/ ReceiveDownloadAck \/ ServerSeesEof \/ ServerFails
  <2>1. /\ \E unread : \E last \in words : ServerEnds(unread, last)
        /\ UNCHANGED <<storeVars, source, target, c>>
    BY <1>3, <1>5, Zenon DEF RefusePuts, ReceiveDownloadAck, ServerSeesEof, ServerFails, localVars
  <2>. QED
    BY <2>1, ServerFailsInv, Zenon
<1>6. CASE handle_puts /\ ~RefusePuts
    BY <1>6, LinkStoredInv, ResumePutsInv, ReceiveUploadDataInv, ReceiveUploadEndInv,
       VerifyUploadInv, SendUploadAckInv, Zenon DEF handle_puts
<1>7. CASE handle_gets /\ ~ReceiveDownloadAck
    BY <1>7, SendGetsRespInv, ReceiveResumePosInv, SendDownloadInv, Zenon DEF handle_gets
<1>8. CASE Environment
    BY <1>8, EnvironmentInv, Zenon
<1>9. CASE UNCHANGED vars
    BY <1>9 DEF vars, storeVars, localVars, wireVars, StreamInv, Shape, Store, StoreHonest,
                Download, DownloadOk, Upload
<1>. QED
    BY <1>1, <1>2, <1>4, <1>5, <1>6, <1>7, <1>8, <1>9, Zenon
       DEF Next, ClientStep, ServerStep, handle_puts, handle_gets

\* Whatever breaks, is resumed, removed or written meanwhile, the store of any server and
\* its table files agree, and hold whole contents only (handle_puts).
THEOREM StoreStaysHonest == Spec => []StoreHonest
<1>1. StreamInv => StoreHonest
    BY Zenon DEF StreamInv, Store
<1>. QED
    BY <1>1, InitInv, NextInv, PTL DEF Spec

\* A download that is reported as done is the announced content, and a target is always the
\* whole of a version (run_download).
THEOREM DownloadsAreWhole == Spec => []DownloadOk
<1>1. StreamInv => DownloadOk
    BY Zenon DEF StreamInv, Download
<1>. QED
    BY <1>1, InitInv, NextInv, PTL DEF Spec

\* An upload that is reported as done is linked at the server, under the content that was
\* announced (run_upload and handle_puts, across the packets between them).
THEOREM UploadsAreLinked == Spec => []UploadOk
<1>1. StreamInv => UploadOk
    BY Zenon DEF StreamInv, Upload, UploadOk
<1>. QED
    BY <1>1, InitInv, NextInv, PTL DEF Spec

-----------------------------------------------------------------------------
(* The order of what is under way: a channel holds the blocks that follow  *)
(* the ones its reader has, and in their order.                            *)

\* A size fits the word it is sent in; the real one has 64 bits.
SizesFit == \A v \in Versions : Len(Content[v]) < Half * Half

IsFile(f) == f = NoFile \/ f \in Seq(Nat)

InOrder(q, pos, v) ==
    \A i \in 1 .. Len(q) : q[i].type = "file_data" =>
        pos + i <= Len(Content[v]) /\ q[i].block = Content[v][pos + i]

\* What files and packets hold, and that a path's content has a row in the table files.
Blocks ==
    /\ IsFile(part) /\ \A v \in Versions : IsFile(spart[v])
    /\ s.at \in Storing => spart[s.hash] \in Seq(Nat)
    /\ row # NoVersion => files[row] # NoSize
    /\ \A p \in Range(c2s) : p.type = "file_data" => p.block \in Nat
    /\ \A p \in Range(s2c) : p.type = "puts_resp" => p.offset \in Nat
    /\ c.at = "puts_data" => c.pos \in Nat

\* A download: both ends mean one content, and the server is ahead of the client by what is
\* under way.
Receiving ==
    /\ c.at = "gets_resp" =>
          /\ s.at \in {"loop", "gets_resume", "closed"}
          /\ s.at = "loop" => s2c = <<>> /\ c2s = <<GetsReq>>
          /\ s.at = "gets_resume" =>
                /\ s.hash \in Versions /\ c2s = <<>>
                /\ s2c = <<GetsResp(s.hash, Len(Content[s.hash]))>>
          /\ \A p \in Range(s2c) :
                /\ p.type # "file_data"
                /\ p.type = "gets_resp" => p.size = host_to_net_u64(Len(Content[p.hash]))
    /\ c.at \in {"gets_data", "gets_end"} =>
          /\ s.at \in {"gets_resume", "gets_data", "gets_ack", "closed"}
          /\ s.at = "gets_resume" =>
                /\ s.hash = c.hash /\ s2c = <<>>
                /\ \A p \in Range(c2s) :
                      p.type = "resume_pos" => p.offset = host_to_net_u64(c.pos)
          /\ s.at = "gets_data" => s.data = Content[c.hash] /\ s.pos = c.pos + Len(s2c)
          /\ InOrder(s2c, c.pos, c.hash)
    /\ c.at \in {"gets_data", "gets_end", "gets_verify"} =>
          /\ c.size = Len(Content[c.hash]) /\ c.pos \in 0 .. c.size
          /\ IF c.at = "gets_data" THEN c.pos < c.size /\ ~c.final /\ part \in Seq(Nat)
                                   ELSE c.pos = c.size
          /\ honest /\ ~c.final => part = SubSeq(Content[c.hash], 1, c.pos)

\* An upload: as long as the local file is the one announced, the client is ahead of the
\* server by what is under way.
Sending ==
    /\ s.at \in Storing => c.kind = "puts" /\ c.at # "hashing"
    /\ s.at = "loop" => \A p \in Range(c2s) : p.type # "file_data"
    /\ c.at \in {"puts_data", "puts_ack"} => s.at # "loop"
    /\ c.at \in {"hashing", "puts_resp"} /\ s.at = "loop" => s2c = <<>>
    /\ c.at = "puts_resp" /\ s.at = "loop" => Tail(c2s) = <<>>
    /\ c.at = "puts_resp" /\ s.at \in Storing => c2s = <<>> /\ s2c = <<PutsResp(s.pos)>>
    /\ \A p \in Range(c2s) : p.type = "puts_req" =>
          c.kind = "puts" /\ (honest => p.size = host_to_net_u64(Len(Content[p.hash])))
    /\ honest /\ c.at \in {"puts_resp", "puts_data"} =>
          source = c.hash /\ c.size = Len(Content[c.hash])
    /\ honest /\ c.at = "puts_data" /\ s.at \in Storing =>
          c.pos = s.pos + Len(c2s) /\ \A p \in Range(c2s) : p.type = "file_data"
    /\ honest /\ s.at \in Storing =>
          /\ s.size = Len(Content[s.hash])
          /\ spart[s.hash] = SubSeq(Content[s.hash], 1, s.pos)
          /\ InOrder(c2s, s.pos, s.hash)

OrderInv == Blocks /\ Receiving /\ Sending

\* A number that fits is read as it was written.
LEMMA RoundTrip ==
    ASSUME NEW n \in Nat, n < Half * Half
    PROVE  net_to_host_u64(host_to_net_u64(n)) = n
<1>1. ASSUME NEW h \in 0 .. 15
      PROVE  Swapped(h) \in 0 .. 15 /\ Swapped(Swapped(h)) = h
    BY DEF Swapped, Byte
<1>2. Half = 16 /\ n < 256
    BY DEF Half, Byte
<1>3. (n % 16) \in 0 .. 15 /\ n \div 16 \in 0 .. 15 /\ n = (n \div 16) * 16 + (n % 16)
    BY <1>2
<1>. DEFINE a == Swapped(n % 16)
            b == Swapped(n \div 16)
<1>4. a \in 0 .. 15 /\ b \in 0 .. 15 /\ Swapped(a) = n % 16 /\ Swapped(b) = n \div 16
    BY <1>1, <1>3, Zenon
<1>5. host_to_net_u64(n) = a * 16 + b
    BY <1>2, Zenon DEF host_to_net_u64
<1>. HIDE DEF a, b
<1>6. (a * 16 + b) % 16 = b /\ (a * 16 + b) \div 16 = a
    BY <1>4
<1>7. net_to_host_u64(a * 16 + b) = Swapped(b) * 16 + Swapped(a)
    BY <1>2, <1>6, Zenon DEF net_to_host_u64
<1>. QED
    BY <1>3, <1>4, <1>5, <1>7, Zenon

\* Lengths and ends of a channel.
LEMMA ChannelLength ==
    ASSUME NEW q, IsSequence(q), NEW p
    PROVE  /\ Len(q) \in Nat /\ Len(Append(q, p)) = Len(q) + 1
           /\ \A i \in 1 .. Len(q) : Append(q, p)[i] = q[i]
           /\ Append(q, p)[Len(q) + 1] = p
           /\ q # <<>> => /\ Len(q) > 0 /\ Len(Tail(q)) = Len(q) - 1 /\ Head(q) = q[1]
                          /\ \A i \in 1 .. Len(q) - 1 : Tail(q)[i] = q[i + 1]
<1>1. PICK S : q \in Seq(S)
    BY Zenon DEF IsSequence
<1>. DEFINE T == S \cup {p}
<1>2. q \in Seq(T) /\ p \in T
    BY <1>1
<1>. HIDE DEF T
<1>3. /\ Len(q) \in Nat /\ Len(Append(q, p)) = Len(q) + 1
      /\ \A i \in 1 .. Len(q) : Append(q, p)[i] = q[i]
      /\ Append(q, p)[Len(q) + 1] = p
    BY <1>2, AppendProperties, LenProperties
<1>4. q # <<>> => /\ Len(q) > 0 /\ Len(Tail(q)) = Len(q) - 1 /\ Head(q) = q[1]
                  /\ \A i \in 1 .. Len(q) - 1 : Tail(q)[i] = q[i + 1]
    BY <1>1, <1>3, HeadTailProperties, LenProperties, EmptySeq
<1>. QED
    BY <1>3, <1>4, Zenon

\* A channel with one packet.
LEMMA SinglePacket ==
    ASSUME NEW p
    PROVE  /\ Append(<<>>, p) = <<p>> /\ Head(<<p>>) = p /\ Tail(<<p>>) = <<>> /\ <<p>> # <<>>
           /\ IsSequence(<<p>>) /\ Range(<<p>>) = {p}
<1>1. Append(<<>>, p) = <<p>> /\ Head(<<p>>) = p /\ Tail(<<p>>) = <<>> /\ <<p>> # <<>>
    OBVIOUS
<1>2. IsSequence(Append(<<>>, p)) /\ Range(Append(<<>>, p)) = {} \cup {p}
    BY EmptyChannel, AppendChannel, Zenon
<1>. QED
    BY <1>1, <1>2, Zenon

-----------------------------------------------------------------------------
(* Blocks that follow each other.                                          *)

\* Nothing under way is in order, and so is what holds no block.
LEMMA NoBlocks ==
    ASSUME NEW q, IsSequence(q), \A p \in Range(q) : p.type # "file_data", NEW pos, NEW v
    PROVE  InOrder(q, pos, v)
<1>1. PICK S : q \in Seq(S)
    BY Zenon DEF IsSequence
<1>2. \A i \in 1 .. Len(q) : q[i] \in Range(q)
    BY <1>1, LenProperties, Zenon DEF Range
<1>. QED
    BY <1>2, Zenon DEF InOrder

\* A packet after the last block.
LEMMA OrderOther ==
    ASSUME NEW q, IsSequence(q), NEW pos, NEW v, InOrder(q, pos, v), NEW p, p.type # "file_data"
    PROVE  InOrder(Append(q, p), pos, v)
<1>1. /\ Len(q) \in Nat /\ Len(Append(q, p)) = Len(q) + 1
      /\ \A i \in 1 .. Len(q) : Append(q, p)[i] = q[i]
      /\ Append(q, p)[Len(q) + 1] = p
    BY ChannelLength
<1>2. \A i \in 1 .. Len(q) + 1 : i \in 1 .. Len(q) \/ i = Len(q) + 1
    BY <1>1
<1>. QED
    BY <1>1, <1>2, Zenon DEF InOrder

\* The next block.
LEMMA OrderBlock ==
    ASSUME NEW q, IsSequence(q), NEW pos \in Nat, NEW v, InOrder(q, pos, v),
           pos + Len(q) < Len(Content[v]), Len(Content[v]) \in Nat
    PROVE  InOrder(Append(q, FileData(Content[v][pos + Len(q) + 1])), pos, v)
<1>. DEFINE p == FileData(Content[v][pos + Len(q) + 1])
<1>1. /\ Len(q) \in Nat /\ Len(Append(q, p)) = Len(q) + 1
      /\ \A i \in 1 .. Len(q) : Append(q, p)[i] = q[i]
      /\ Append(q, p)[Len(q) + 1] = p
    BY ChannelLength
<1>2. p.block = Content[v][pos + (Len(q) + 1)]
    BY <1>1 DEF FileData
<1>. HIDE DEF p
<1>3. \A i \in 1 .. Len(q) + 1 : i \in 1 .. Len(q) \/ i = Len(q) + 1
    BY <1>1
<1>4. pos + (Len(q) + 1) <= Len(Content[v])
    BY <1>1
<1>5. InOrder(Append(q, p), pos, v)
    BY <1>1, <1>2, <1>3, <1>4, Zenon DEF InOrder
<1>. QED
    BY <1>5, Zenon DEF p

\* The first block is read, and the reader is one further.
LEMMA OrderTail ==
    ASSUME NEW q, IsSequence(q), q # <<>>, NEW pos \in Nat, NEW v, InOrder(q, pos, v)
    PROVE  /\ InOrder(Tail(q), pos + 1, v)
           /\ Head(q).type = "file_data" =>
                 pos + 1 <= Len(Content[v]) /\ Head(q).block = Content[v][pos + 1]
<1>1. /\ Len(q) \in Nat /\ Len(q) > 0 /\ Len(Tail(q)) = Len(q) - 1 /\ Head(q) = q[1]
      /\ \A i \in 1 .. Len(q) - 1 : Tail(q)[i] = q[i + 1]
    BY ChannelLength, Zenon
<1>2. \A i \in 1 .. Len(q) - 1 : i + 1 \in 1 .. Len(q) /\ pos + (i + 1) = (pos + 1) + i
    BY <1>1
<1>3. 1 \in 1 .. Len(q)
    BY <1>1
<1>. QED
    BY <1>1, <1>2, <1>3 DEF InOrder

\* write_n makes of blocks blocks.
LEMMA WriteBlocks ==
    ASSUME NEW f \in Seq(Nat), NEW pos \in Nat, NEW b \in Nat
    PROVE  write_n(f, pos, b) \in Seq(Nat)
<1>. DEFINE n == Longer(Len(f), pos + 1)
            g(i) == IF i = pos + 1 THEN b ELSE IF i <= Len(f) THEN f[i] ELSE 0
<1>1. Len(f) \in Nat /\ n \in Nat
    BY DEF Longer
<1>2. write_n(f, pos, b) = [i \in 1 .. n |-> g(i)]
    BY Zenon DEF write_n
<1>3. \A i \in 1 .. n : g(i) \in Nat
    BY <1>1
<1>. HIDE DEF g, n
<1>4. [i \in 1 .. n |-> g(i)] \in Seq(Nat)
    BY <1>1, <1>3
<1>. QED
    BY <1>2, <1>4, Zenon

\* write_n of the next block continues a beginning.
LEMMA WriteBegins ==
    ASSUME NEW d \in Seq(Nat), NEW n \in Nat, n < Len(d)
    PROVE  write_n(SubSeq(d, 1, n), n, d[n + 1]) = SubSeq(d, 1, n + 1)
<1>1. /\ Len(d) \in Nat /\ SubSeq(d, 1, n) \in Seq(Nat) /\ Len(SubSeq(d, 1, n)) = n
      /\ \A i \in 1 .. n : SubSeq(d, 1, n)[i] = d[i]
    BY SubSeqProperties
<1>2. /\ SubSeq(d, 1, n + 1) \in Seq(Nat) /\ Len(SubSeq(d, 1, n + 1)) = n + 1
      /\ \A i \in 1 .. n + 1 : SubSeq(d, 1, n + 1)[i] = d[i]
    BY SubSeqProperties
<1>. DEFINE f == SubSeq(d, 1, n)
            g == SubSeq(d, 1, n + 1)
<1>3. Longer(Len(f), n + 1) = n + 1
    BY <1>1 DEF Longer
<1>. HIDE DEF f, g
<1>4. write_n(f, n, d[n + 1]) =
        [i \in 1 .. n + 1 |-> IF i = n + 1 THEN d[n + 1] ELSE IF i <= n THEN f[i] ELSE 0]
    BY <1>1, <1>3, Zenon DEF write_n, f
<1>5. g = [i \in 1 .. n + 1 |-> g[i]]
    BY <1>2 DEF g
<1>6. \A i \in 1 .. n + 1 :
        g[i] = IF i = n + 1 THEN d[n + 1] ELSE IF i <= n THEN f[i] ELSE 0
    BY <1>1, <1>2 DEF f, g
<1>7. write_n(f, n, d[n + 1]) = g
    BY <1>4, <1>5, <1>6, Zenon
<1>. QED
    BY <1>7, Zenon DEF f, g

\* Last words are no blocks.
LEMMA OrderLast ==
    ASSUME NEW q, IsSequence(q), NEW pos, NEW v, InOrder(q, pos, v),
           NEW last, last \in {<<>>, <<Error>>, <<Ack>>}
    PROVE  InOrder(q \o last, pos, v) /\ InOrder(<<>>, pos, v)
<1>1. q \o <<>> = q /\ q \o <<Error>> = Append(q, Error) /\ q \o <<Ack>> = Append(q, Ack)
    BY ConcatChannel, Zenon
<1>2. InOrder(Append(q, Error), pos, v) /\ InOrder(Append(q, Ack), pos, v)
    BY OrderOther, Zenon DEF Error, Ack
<1>3. InOrder(<<>>, pos, v)
    BY EmptyChannel, NoBlocks, Zenon
<1>. QED
    BY <1>1, <1>2, <1>3, Zenon

-----------------------------------------------------------------------------
(* Every step keeps the order.                                             *)

\* A client that is done leaves its blocks in order.
LEMMA ClientEndsOrder ==
    ASSUME StreamInv, OrderInv, NEW outcome \in {"ok", "failed"}, NEW unread,
           NEW last \in {<<>>, <<Error>>, <<Ack>>}, ClientEnds(outcome, unread, last),
           UNCHANGED <<storeVars, source, part, s, honest>>
    PROVE  OrderInv'
<1>. USE DEF StreamInv, OrderInv, storeVars
<1>1. /\ c' = [at |-> outcome, kind |-> c.kind, hash |-> c.hash, size |-> c.size,
               pos |-> c.pos, final |-> c.final]
      /\ IsSequence(c2s') /\ Range(c2s') \subseteq Range(c2s) \cup {Error, Ack}
      /\ IsSequence(s2c') /\ Range(s2c') = {}
    BY ClientEndsWire, Zenon
<1>2. Blocks'
    BY <1>1 DEF Blocks, Error, Ack
<1>3. Receiving'
    BY <1>1, Zenon DEF Receiving
<1>4. ASSUME honest, s.at \in Storing
      PROVE  InOrder(c2s', s.pos, s.hash)
  <2>1. c2s' \in {c2s \o last, <<>>}
    BY Zenon DEF ClientEnds
  <2>2. IsSequence(c2s) /\ InOrder(c2s, s.pos, s.hash)
    BY <1>4, Zenon DEF Sending, Shape
  <2>3. InOrder(c2s \o last, s.pos, s.hash) /\ InOrder(<<>>, s.pos, s.hash)
    BY <2>2, OrderLast, Zenon
  <2>. QED
    BY <2>1, <2>3, Zenon
<1>5. /\ c'.at \in {"ok", "failed"} /\ c'.kind = c.kind
      /\ \A p \in Range(c2s') : p \in Range(c2s) \/ p.type \in {"error", "ack"}
    BY <1>1 DEF Error, Ack
<1>6. Sending'
    BY <1>4, <1>5 DEF Sending
<1>. QED
    BY <1>2, <1>3, <1>6, Zenon

\* And a server that is done.
LEMMA ServerEndsOrder ==
    ASSUME StreamInv, OrderInv, NEW unread, NEW last \in {<<>>, <<Error>>, <<Ack>>},
           ServerEnds(unread, last), UNCHANGED <<row, files, source, part, c, honest>>,
           \A v \in Versions : IsFile(spart'[v])
    PROVE  OrderInv'
<1>. USE DEF StreamInv, OrderInv
<1>1. /\ s' = [at |-> "closed", hash |-> s.hash, size |-> s.size, pos |-> s.pos,
               data |-> s.data, linked |-> s.linked]
      /\ IsSequence(s2c') /\ Range(s2c') \subseteq Range(s2c) \cup {Error, Ack}
      /\ IsSequence(c2s') /\ Range(c2s') = {} /\ c2s' = <<>>
    BY ServerEndsWire, Zenon
<1>2. /\ s'.at = "closed" /\ s'.hash = s.hash
      /\ \A p \in Range(s2c') : p \in Range(s2c) \/ p.type \in {"error", "ack"}
    BY <1>1 DEF Error, Ack
<1>3. ASSUME c.at \in {"gets_data", "gets_end"}
      PROVE  InOrder(s2c', c.pos, c.hash)
  <2>1. s2c' \in {s2c \o last, <<>>}
    BY Zenon DEF ServerEnds
  <2>2. IsSequence(s2c) /\ InOrder(s2c, c.pos, c.hash)
    BY <1>3, Zenon DEF Receiving, Shape
  <2>3. InOrder(s2c \o last, c.pos, c.hash) /\ InOrder(<<>>, c.pos, c.hash)
    BY <2>2, OrderLast, Zenon
  <2>. QED
    BY <2>1, <2>3, Zenon
<1>4. Blocks'
    BY <1>1, <1>2 DEF Blocks, Storing
<1>5. Receiving'
    BY <1>2, <1>3 DEF Receiving
<1>6. Sending'
    BY <1>1, Zenon DEF Sending, Storing
<1>. QED
    BY <1>4, <1>5, <1>6, Zenon

\* A new connection carries no blocks yet.
LEMMA ConnectOrder ==
    ASSUME StreamInv, OrderInv, StartUpload \/ StartDownload
    PROVE  OrderInv'
<1>. USE DEF StreamInv, OrderInv
<1>1. PICK kind, at, size, packets :
          /\ Connect(kind, at, size, packets)
          /\ \/ kind = "puts" /\ at = "hashing" /\ packets = <<>>
             \/ kind = "gets" /\ at = "gets_resp" /\ packets = <<GetsReq>>
    BY Zenon DEF StartUpload, StartDownload
<1>2. /\ c' = [at |-> at, kind |-> kind, hash |-> NoVersion, size |-> size, pos |-> 0,
               final |-> FALSE]
      /\ s' = [at |-> "loop", hash |-> NoVersion, size |-> 0, pos |-> 0, data |-> <<>>,
               linked |-> NoVersion]
      /\ c2s' = packets /\ s2c' = <<>>
      /\ UNCHANGED <<row, files, stored, spart, part>>
    BY <1>1, Zenon DEF Connect, storeVars, localVars
<1>3. /\ Range(c2s') \subseteq {GetsReq} /\ Range(s2c') = {}
      /\ kind = "gets" => c2s' = <<GetsReq>>
    BY <1>1, <1>2, EmptyChannel, SinglePacket, Zenon
<1>4. /\ c'.at \in {"hashing", "gets_resp"} /\ s'.at = "loop" /\ s2c' = <<>>
      /\ \A p \in Range(c2s') : p.type = "gets_req"
    BY <1>1, <1>2, <1>3 DEF GetsReq
<1>5. Blocks'
    BY <1>2, <1>3, <1>4, Zenon DEF Blocks, Storing
<1>6. Receiving'
    BY <1>1, <1>2, <1>3, Zenon DEF Receiving
<1>7. Sending'
    BY <1>4, Zenon DEF Sending, Storing
<1>. QED
    BY <1>5, <1>6, <1>7, Zenon

\* The blocks of a content are numbers.
LEMMA ContentBlocks ==
    ASSUME NEW v \in Versions
    PROVE  /\ Content[v] \in Seq(Nat) /\ Len(Content[v]) \in Nat
           /\ \A i \in 1 .. Len(Content[v]) : Content[v][i] \in Nat
<1>1. Content[v] \in Seq(Nat \ {0})
    BY StreamAssumption, Zenon
<1>2. Content[v] \in Seq(Nat)
    BY <1>1
<1>. QED
    BY <1>2, LenProperties, ElementOfSeq, Zenon

\* The request is honest when the local file still has the size that is announced.
LEMMA SendPutsReqOrder ==
    ASSUME StreamInv, OrderInv, SendPutsReq
    PROVE  OrderInv'
<1>. USE DEF StreamInv, OrderInv
<1>. DEFINE p == PutsReq(source, c.size)
<1>1. /\ c.at = "hashing" /\ c.kind = "puts" /\ c2s = <<>> /\ s.at \in {"loop", "closed"}
      /\ UNCHANGED <<row, files, stored, spart, source, part, s, s2c>>
      /\ c' = [at |-> "puts_resp", kind |-> c.kind, hash |-> source, size |-> c.size,
               pos |-> c.pos, final |-> c.final]
      /\ honest' = (c.size = Len(Content[source]))
      /\ c2s' = Sent(ServerOpen, c2s, p)
    BY Zenon DEF SendPutsReq, client_send, Shape, Upload, storeVars, localVars, Putting
<1>2. /\ p.type = "puts_req" /\ p.hash = source /\ p.size = host_to_net_u64(c.size)
    BY Zenon DEF PutsReq
<1>. HIDE DEF p
<1>3. c2s' \in {<<>>, <<p>>}
    BY <1>1, SinglePacket, Zenon DEF Sent
<1>4. Tail(<<p>>) = <<>> /\ Range(c2s') \subseteq {p} /\ (s.at = "loop" => c2s' = <<p>>)
    BY <1>1, <1>3, SinglePacket, EmptyChannel, Zenon DEF Sent, ServerOpen
<1>5. Blocks'
    BY <1>1, <1>2, <1>4, Zenon DEF Blocks
<1>6. Receiving'
    BY <1>1, Zenon DEF Receiving
<1>7. Sending'
    BY <1>1, <1>2, <1>4, Zenon DEF Sending, Storing
<1>. QED
    BY <1>5, <1>6, <1>7, Zenon

\* The client continues where the server is.
LEMMA ReceivePutsRespOrder ==
    ASSUME SizesFit, StreamInv, OrderInv, ReceivePutsResp
    PROVE  OrderInv'
<1>. USE DEF StreamInv, OrderInv
<1>. DEFINE offset == net_to_host_u64(Head(s2c).offset)
<1>1. /\ UNCHANGED <<storeVars, row, files, stored, spart, source, part, s, honest>>
      /\ c.at = "puts_resp" /\ c.kind = "puts" /\ s2c # <<>>
    BY Zenon DEF ReceivePutsResp, ClientReads, CanReceive, storeVars, localVars, Shape, Putting
<1>2. CASE \E last \in {<<>>, <<Error>>} : ClientEnds("failed", Tail(s2c), last)
  <2>1. PICK last : last \in {<<>>, <<Error>>, <<Ack>>} /\ ClientEnds("failed", Tail(s2c), last)
    BY <1>2, Zenon
  <2>. QED
    BY <1>1, <2>1, ClientEndsOrder, Zenon
<1>3. CASE /\ Head(s2c).type = "puts_resp" /\ ~(offset > c.size)
           /\ c' = [c EXCEPT !.at = IF offset = c.size THEN "puts_ack" ELSE "puts_data",
                             !.pos = offset]
           /\ s2c' = Tail(s2c) /\ c2s' = c2s
  <2>1. Range(s2c') \subseteq Range(s2c) /\ Head(s2c) \in Range(s2c)
    BY <1>1, <1>3, TailChannel, Zenon DEF Shape
  <2>2. offset \in Nat
    BY <1>3, <2>1, ConversionInt DEF Blocks
  <2>3. ASSUME honest, s.at \in Storing
        PROVE  offset = s.pos /\ c2s = <<>> /\ Len(c2s) = 0
    <3>1. c2s = <<>> /\ s2c = <<PutsResp(s.pos)>>
      BY <1>1, <2>3, Zenon DEF Sending
    <3>2. Head(s2c).offset = host_to_net_u64(s.pos)
      BY <3>1, SinglePacket DEF PutsResp
    <3>3. /\ s.pos \in Nat /\ s.hash \in Versions /\ s.pos <= Len(Content[s.hash])
          /\ Len(Content[s.hash]) \in Nat
      BY <2>3, ContentBlocks DEF Store, Sending, Storing
    <3>4. s.pos < Half * Half /\ Half * Half \in Nat
      BY <3>3 DEF SizesFit, Half, Byte
    <3>5. offset = s.pos
      BY <3>2, <3>3, <3>4, RoundTrip, Zenon
    <3>. QED
      BY <3>1, <3>5, Zenon
  <2>4. /\ c' = [at |-> IF offset = c.size THEN "puts_ack" ELSE "puts_data", kind |-> c.kind,
                 hash |-> c.hash, size |-> c.size, pos |-> offset, final |-> c.final]
        /\ c'.at \in {"puts_ack", "puts_data"}
    BY <1>3, Zenon DEF Shape
  <2>. HIDE DEF offset
  <2>5. Blocks'
    BY <1>1, <1>3, <2>1, <2>2, <2>4, Zenon DEF Blocks
  <2>6. Receiving'
    BY <2>4, Zenon DEF Receiving
  <2>7. s.at # "loop"
    BY <1>1, Zenon DEF Sending
  <2>8. honest /\ s.at \in Storing =>
          c'.pos = s.pos + Len(c2s) /\ \A p \in Range(c2s) : p.type = "file_data"
    BY <2>3, <2>4, EmptyChannel DEF Store
  <2>9. Sending'
    BY <1>1, <1>3, <2>4, <2>7, <2>8, Zenon DEF Sending
  <2>. QED
    BY <2>5, <2>6, <2>9, Zenon
<1>. QED
    BY <1>2, <1>3, Zenon DEF ReceivePutsResp

\* The next block of the local file, which is the one announced if it has not changed.
LEMMA SendUploadDataOrder ==
    ASSUME StreamInv, OrderInv, SendUploadData
    PROVE  OrderInv'
<1>. USE DEF StreamInv, OrderInv
<1>1. /\ UNCHANGED <<storeVars, row, files, stored, spart, source, part, s, honest>>
      /\ c.at = "puts_data" /\ c.kind = "puts" /\ c.pos \in Nat /\ c.size \in Nat
      /\ c.pos < c.size /\ source \in Versions /\ IsSequence(c2s)
    BY Zenon DEF SendUploadData, storeVars, localVars, Shape, Putting, Blocks
<1>2. CASE ClientEnds("failed", s2c, <<Error>>)
  <2>1. <<Error>> \in {<<>>, <<Error>>, <<Ack>>}
    BY Zenon
  <2>. QED
    BY <1>1, <1>2, <2>1, ClientEndsOrder, Zenon
<1>3. CASE /\ c.pos < Len(Content[source])
           /\ client_send(FileData(Content[source][c.pos + 1]))
           /\ c' = [c EXCEPT !.pos = @ + 1] /\ s2c' = s2c
  <2>. DEFINE p == FileData(Content[source][c.pos + 1])
  <2>1. p.type = "file_data" /\ p.block \in Nat
    BY <1>1, <1>3, ContentBlocks DEF FileData
  <2>2. c' = [at |-> "puts_data", kind |-> c.kind, hash |-> c.hash, size |-> c.size,
              pos |-> c.pos + 1, final |-> c.final]
    BY <1>1, <1>3, Zenon DEF Shape
  <2>3. /\ c2s' = Sent(ServerOpen, c2s, p) /\ ServerOpen \in BOOLEAN
        /\ s.at # "closed" => c2s' = Append(c2s, p)
    BY <1>3, Zenon DEF client_send, ServerOpen, Sent
  <2>4. ASSUME honest, s.at \in Storing
        PROVE  /\ c.pos + 1 = s.pos + (Len(c2s) + 1)
               /\ \A q \in Range(c2s) : q.type = "file_data"
               /\ InOrder(Append(c2s, p), s.pos, s.hash)
    <3>1. /\ s.hash = c.hash /\ source = c.hash /\ c.pos = s.pos + Len(c2s) /\ s.pos \in Nat
          /\ \A q \in Range(c2s) : q.type = "file_data"
          /\ InOrder(c2s, s.pos, s.hash)
      BY <1>1, <2>4, Zenon DEF Sending, Upload, Store
    <3>2. Len(c2s) \in Nat /\ Len(Content[source]) \in Nat
      BY <1>1, ChannelLength, ContentBlocks, Zenon
    <3>3. /\ s.pos + Len(c2s) < Len(Content[s.hash])
          /\ p = FileData(Content[s.hash][s.pos + Len(c2s) + 1])
      BY <1>1, <1>3, <3>1, <3>2, Zenon
    <3>. HIDE DEF p
    <3>4. InOrder(Append(c2s, p), s.pos, s.hash)
      BY <1>1, <3>1, <3>2, <3>3, OrderBlock, Zenon
    <3>. QED
      BY <3>1, <3>2, <3>4
  <2>. HIDE DEF p
  <2>5. /\ Range(c2s') \subseteq Range(c2s) \cup {p}
        /\ s.at # "closed" => Len(c2s') = Len(c2s) + 1
    BY <1>1, <2>3, SentWire, ChannelLength
  <2>6. Blocks'
    BY <1>1, <1>3, <2>1, <2>2, <2>5 DEF Blocks
  <2>7. Receiving'
    BY <2>2, Zenon DEF Receiving
  <2>8. Storing \cap {"closed", "loop"} = {}
    BY Zenon DEF Storing
  <2>9. /\ s.at # "loop" /\ s'.at # "loop"
        /\ \A q \in Range(c2s') : q.type = "puts_req" => q \in Range(c2s)
    BY <1>1, <2>1, <2>5, Zenon DEF Sending
  <2>10. honest /\ s.at \in Storing =>
           /\ c'.pos = s.pos + Len(c2s') /\ \A q \in Range(c2s') : q.type = "file_data"
           /\ InOrder(c2s', s.pos, s.hash)
    BY <2>1, <2>2, <2>3, <2>4, <2>5, <2>8, Zenon
  <2>11. Sending'
    BY <1>1, <1>3, <2>2, <2>9, <2>10, Zenon DEF Sending
  <2>. QED
    BY <2>6, <2>7, <2>11, Zenon
<1>. QED
    BY <1>2, <1>3, Zenon DEF SendUploadData

\* The end of the file is no block.
LEMMA SendUploadEndOrder ==
    ASSUME StreamInv, OrderInv, SendUploadEnd
    PROVE  OrderInv'
<1>. USE DEF StreamInv, OrderInv
<1>1. /\ UNCHANGED <<row, files, stored, spart, source, part, s, s2c, honest>>
      /\ c.at = "puts_data" /\ IsSequence(c2s)
      /\ c' = [at |-> "puts_ack", kind |-> c.kind, hash |-> c.hash, size |-> c.size,
               pos |-> c.pos, final |-> c.final]
      /\ c2s' = Sent(ServerOpen, c2s, FileEnd) /\ ServerOpen \in BOOLEAN
    BY Zenon DEF SendUploadEnd, storeVars, localVars, client_send, ServerOpen, Shape
<1>2. Range(c2s') \subseteq Range(c2s) \cup {FileEnd}
    BY <1>1, SentWire, Zenon
<1>3. FileEnd.type = "file_end"
    BY Zenon DEF FileEnd
<1>4. ASSUME honest, s.at \in Storing
      PROVE  InOrder(c2s', s.pos, s.hash)
  <2>1. InOrder(c2s, s.pos, s.hash)
    BY <1>4, Zenon DEF Sending
  <2>2. InOrder(Append(c2s, FileEnd), s.pos, s.hash)
    BY <1>1, <1>3, <2>1, OrderOther, Zenon
  <2>. QED
    BY <1>1, <2>1, <2>2, Zenon DEF Sent
<1>5. Blocks'
    BY <1>1, <1>2, <1>3, Zenon DEF Blocks
<1>6. Receiving'
    BY <1>1, Zenon DEF Receiving
<1>7. Sending'
    BY <1>1, <1>2, <1>3, <1>4, Zenon DEF Sending
<1>. QED
    BY <1>5, <1>6, <1>7, Zenon

\* The client asks for what follows its .part file, or for nothing.
LEMMA ReceiveGetsRespOrder ==
    ASSUME SizesFit, StreamInv, OrderInv, ReceiveGetsResp
    PROVE  OrderInv'
<1>. USE DEF StreamInv, OrderInv
<1>. DEFINE packet == Head(s2c)
            size == net_to_host_u64(packet.size)
            final == hash_matches(target, size, packet.hash)
            offset == IF final THEN size ELSE PartOffset(size)
<1>1. /\ UNCHANGED <<storeVars, row, files, stored, spart, source, target, s>>
      /\ c.at = "gets_resp" /\ c.kind = "gets" /\ s2c # <<>>
    BY Zenon DEF ReceiveGetsResp, ClientReads, CanReceive, storeVars, Shape, Getting
<1>2. ASSUME NEW last, last \in {<<>>, <<Error>>, <<Ack>>},
             ClientEnds("failed", Tail(s2c), last), UNCHANGED <<part, honest>>
      PROVE  OrderInv'
    BY <1>1, <1>2, ClientEndsOrder, Zenon
<1>3. ASSUME packet.type = "gets_resp", client_send(ResumePos(offset)), s2c' = Tail(s2c),
             part' = IF final THEN part ELSE IF offset = 0 THEN <<>> ELSE part,
             c' = [c EXCEPT !.at = IF offset < size THEN "gets_data" ELSE "gets_end",
                            !.hash = packet.hash, !.size = size, !.pos = offset,
                            !.final = final],
             honest' = (final \/ IsPrefixOf(part', packet.hash))
      PROVE  OrderInv'
  <2>1. /\ IsSequence(s2c') /\ Range(s2c') \subseteq Range(s2c) /\ packet \in Range(s2c)
        /\ \A p \in Range(s2c') : p.type # "file_data"
    BY <1>1, <1>3, TailChannel, Zenon DEF Shape, Receiving
  <2>2. packet.hash \in Versions /\ packet.size = host_to_net_u64(Len(Content[packet.hash]))
    BY <1>1, <1>3, <2>1, Zenon DEF Shape, Receiving
  <2>3. /\ Content[packet.hash] \in Seq(Nat) /\ Len(Content[packet.hash]) \in Nat
        /\ Len(Content[packet.hash]) < Half * Half
    BY <2>2, ContentBlocks, Zenon DEF SizesFit
  <2>4. size = Len(Content[packet.hash])
    BY <2>2, <2>3, RoundTrip, Zenon
  <2>5. final \in BOOLEAN /\ IsFile(part)
    BY Zenon DEF hash_matches, Blocks
  <2>. HIDE DEF packet, size, final
  <2>6. /\ offset \in 0 .. size /\ (final => offset = size)
        /\ ~final /\ offset # 0 => part # NoFile /\ part \in Seq(Nat) /\ offset = Len(part)
    BY <2>3, <2>4, <2>5 DEF PartOffset, IsFile
  <2>. HIDE DEF offset
  <2>7. IsFile(part') /\ (~final => part' \in Seq(Nat))
    BY <1>3, <2>5, <2>6 DEF IsFile
  <2>8. /\ c' = [at |-> IF offset < size THEN "gets_data" ELSE "gets_end", kind |-> c.kind,
                 hash |-> packet.hash, size |-> size, pos |-> offset, final |-> final]
        /\ c'.at \in {"gets_data", "gets_end"}
    BY <1>3, Zenon DEF Shape
  <2>9. honest' /\ ~final => part' = SubSeq(Content[packet.hash], 1, offset)
    <3>. SUFFICES ASSUME honest', ~final PROVE part' = SubSeq(Content[packet.hash], 1, offset)
      BY Zenon
    <3>1. CASE offset = 0
      BY <1>3, <2>3, <3>1, SubSeqEmpty
    <3>2. CASE offset # 0
      <4>1. part' = part /\ part = SubSeq(Content[packet.hash], 1, Len(part))
        BY <1>3, <2>6, <3>2, Zenon DEF IsPrefixOf
      <4>. QED
        BY <2>6, <3>2, <4>1, Zenon
    <3>. QED
      BY <3>1, <3>2, Zenon
  <2>10. /\ c2s' = Sent(ServerOpen, c2s, ResumePos(offset)) /\ ServerOpen \in BOOLEAN
    BY <1>3, Zenon DEF client_send, ServerOpen
  <2>11. Range(c2s') \subseteq Range(c2s) \cup {ResumePos(offset)} /\ s.at # "loop"
    BY <1>1, <2>10, SentWire, Zenon DEF Shape, Receiving
  <2>12. ASSUME s.at = "gets_resume"
         PROVE  /\ s.hash = packet.hash /\ s2c' = <<>>
                /\ \A p \in Range(c2s') : p = ResumePos(offset)
    <3>1. c2s = <<>> /\ s2c = <<GetsResp(s.hash, Len(Content[s.hash]))>>
      BY <1>1, <2>12, Zenon DEF Receiving
    <3>2. packet.hash = s.hash
      BY <3>1, SinglePacket DEF packet, GetsResp
    <3>. QED
      BY <1>3, <2>11, <3>1, <3>2, SinglePacket, EmptyChannel, Zenon
  <2>13. InOrder(s2c', offset, packet.hash)
    BY <2>1, NoBlocks, Zenon
  <2>14. s.at \in {"gets_resume", "closed"}
    BY <1>1, <2>11, Zenon DEF Receiving
  <2>15. Blocks'
    BY <1>1, <2>1, <2>7, <2>8, <2>11 DEF Blocks, ResumePos
  <2>16. /\ c'.size = Len(Content[c'.hash]) /\ c'.pos \in 0 .. c'.size
         /\ IF c'.at = "gets_data" THEN c'.pos < c'.size /\ ~c'.final /\ part' \in Seq(Nat)
                                   ELSE c'.pos = c'.size
         /\ honest' /\ ~c'.final => part' = SubSeq(Content[c'.hash], 1, c'.pos)
    BY <2>3, <2>4, <2>6, <2>7, <2>8, <2>9
  <2>17. /\ c'.at \in {"gets_data", "gets_end"} /\ c'.kind = c.kind
         /\ c'.hash = packet.hash /\ c'.pos = offset
         /\ ResumePos(offset).type = "resume_pos"
         /\ ResumePos(offset).offset = host_to_net_u64(offset)
    BY <2>8 DEF ResumePos
  <2>18. Receiving'
    BY <1>1, <2>12, <2>13, <2>14, <2>16, <2>17 DEF Receiving
  <2>19. Sending'
    BY <1>1, <2>11, <2>14, <2>17 DEF Sending, Storing
  <2>. QED
    BY <2>15, <2>18, <2>19, Zenon
<1>4. \A last \in {<<>>, <<Error>>} : last \in {<<>>, <<Error>>, <<Ack>>}
    BY Zenon
<1>. QED
    BY <1>2, <1>3, <1>4, Zenon DEF ReceiveGetsResp

\* The block that comes is the one that follows.
LEMMA ReceiveDownloadDataOrder ==
    ASSUME StreamInv, OrderInv, ReceiveDownloadData
    PROVE  OrderInv'
<1>. USE DEF StreamInv, OrderInv
<1>. DEFINE d == Content[c.hash]
<1>1. /\ UNCHANGED <<storeVars, row, files, stored, spart, source, s, honest>>
      /\ c.at = "gets_data" /\ s2c # <<>>
    BY Zenon DEF ReceiveDownloadData, ClientReads, CanReceive, storeVars
<1>2. CASE ClientEnds("failed", Tail(s2c), <<Error>>) /\ part' = part
  <2>1. <<Error>> \in {<<>>, <<Error>>, <<Ack>>}
    BY Zenon
  <2>. QED
    BY <1>1, <1>2, <2>1, ClientEndsOrder, Zenon
<1>3. CASE /\ Head(s2c).type = "file_data"
           /\ part' = write_n(part, c.pos, Head(s2c).block)
           /\ c' = [c EXCEPT !.pos = @ + 1,
                             !.at = IF c.pos + 1 < c.size THEN "gets_data" ELSE "gets_end"]
           /\ s2c' = Tail(s2c) /\ c2s' = c2s
  <2>1. /\ c.hash \in Versions /\ c.size = Len(d) /\ c.pos \in Nat /\ c.pos < c.size
        /\ ~c.final /\ part \in Seq(Nat) /\ InOrder(s2c, c.pos, c.hash)
        /\ honest => part = SubSeq(d, 1, c.pos)
        /\ s.at \in {"gets_resume", "gets_data", "gets_ack", "closed"}
        /\ s.at = "gets_data" => s.data = d /\ s.pos = c.pos + Len(s2c)
        /\ s.at # "gets_resume"
    BY <1>1, SMTT(30) DEF Receiving, Download
  <2>2. /\ d \in Seq(Nat) /\ Len(d) \in Nat /\ \A i \in 1 .. Len(d) : d[i] \in Nat
    BY <2>1, ContentBlocks, Zenon
  <2>3. /\ IsSequence(s2c) /\ Range(s2c') \subseteq Range(s2c)
        /\ Len(s2c) \in Nat /\ Len(s2c') = Len(s2c) - 1
    BY <1>1, <1>3, TailChannel, ChannelLength, Zenon DEF Shape
  <2>4. InOrder(s2c', c.pos + 1, c.hash) /\ Head(s2c).block = d[c.pos + 1]
    BY <1>1, <1>3, <2>1, <2>3, OrderTail, Zenon
  <2>5. d[c.pos + 1] \in Nat
    BY <2>1, <2>2
  <2>6. c' = [at |-> IF c.pos + 1 < c.size THEN "gets_data" ELSE "gets_end", kind |-> c.kind,
              hash |-> c.hash, size |-> c.size, pos |-> c.pos + 1, final |-> c.final]
    BY <1>3, Zenon DEF Shape
  <2>7. honest => part' = SubSeq(d, 1, c.pos + 1)
    BY <1>3, <2>1, <2>2, <2>4, WriteBegins, Zenon
  <2>8. part' \in Seq(Nat)
    BY <1>3, <2>1, <2>4, <2>5, WriteBlocks, Zenon
  <2>. HIDE DEF d
  <2>9. Blocks'
    BY <1>1, <1>3, <2>3, <2>6, <2>8, Zenon DEF Blocks, IsFile
  <2>10. /\ c'.size = Len(d) /\ c'.pos \in 0 .. c'.size /\ c'.hash = c.hash /\ ~c'.final
         /\ IF c'.at = "gets_data" THEN c'.pos < c'.size ELSE c'.pos = c'.size
         /\ c'.at \in {"gets_data", "gets_end"} /\ c'.pos = c.pos + 1
    BY <2>1, <2>2, <2>6
  <2>11. s.at = "gets_data" => s.pos = c'.pos + Len(s2c')
    BY <2>1, <2>3, <2>10
  <2>12. Receiving'
    BY <1>1, <2>1, <2>4, <2>7, <2>8, <2>10, <2>11, Zenon DEF Receiving, d
  <2>13. Sending'
    BY <1>1, <1>3, <2>1, <2>6, <2>10, Zenon DEF Sending, Storing
  <2>. QED
    BY <2>9, <2>12, <2>13, Zenon
<1>. QED
    BY <1>2, <1>3, Zenon DEF ReceiveDownloadData

\* The end of the stream comes when the file is whole.
LEMMA ReceiveDownloadEndOrder ==
    ASSUME StreamInv, OrderInv, ReceiveDownloadEnd
    PROVE  OrderInv'
<1>. USE DEF StreamInv, OrderInv
<1>1. /\ UNCHANGED <<storeVars, row, files, stored, spart, source, part, s, honest>>
      /\ c.at = "gets_end" /\ s2c # <<>>
    BY Zenon DEF ReceiveDownloadEnd, ClientReads, CanReceive, storeVars, localVars
<1>2. CASE ClientEnds("failed", Tail(s2c), <<Error>>)
  <2>1. <<Error>> \in {<<>>, <<Error>>, <<Ack>>}
    BY Zenon
  <2>. QED
    BY <1>1, <1>2, <2>1, ClientEndsOrder, Zenon
<1>3. CASE /\ c' = [c EXCEPT !.at = IF c.final THEN "gets_ack" ELSE "gets_verify"]
           /\ s2c' = Tail(s2c) /\ c2s' = c2s
  <2>1. Range(s2c') \subseteq Range(s2c)
    BY <1>1, <1>3, TailChannel, Zenon DEF Shape
  <2>2. /\ c' = [at |-> IF c.final THEN "gets_ack" ELSE "gets_verify", kind |-> c.kind,
                 hash |-> c.hash, size |-> c.size, pos |-> c.pos, final |-> c.final]
        /\ c'.at \in {"gets_ack", "gets_verify"}
    BY <1>3, Zenon DEF Shape
  <2>3. Blocks'
    BY <1>1, <1>3, <2>1, <2>2, Zenon DEF Blocks
  <2>4. Receiving'
    BY <1>1, <2>2, Zenon DEF Receiving
  <2>5. Sending'
    BY <1>1, <1>3, <2>2, Zenon DEF Sending
  <2>. QED
    BY <2>3, <2>4, <2>5, Zenon
<1>. QED
    BY <1>2, <1>3, Zenon DEF ReceiveDownloadEnd

\* The file takes its name, and the .part file is gone.
LEMMA VerifyDownloadOrder ==
    ASSUME StreamInv, OrderInv, VerifyDownload
    PROVE  OrderInv'
<1>. USE DEF StreamInv, OrderInv
<1>1. /\ UNCHANGED <<storeVars, row, files, stored, spart, source, s, honest>>
      /\ c.at = "gets_verify"
    BY Zenon DEF VerifyDownload, storeVars
<1>2. CASE ClientEnds("failed", s2c, <<Error>>) /\ part' = part
  <2>1. <<Error>> \in {<<>>, <<Error>>, <<Ack>>}
    BY Zenon
  <2>. QED
    BY <1>1, <1>2, <2>1, ClientEndsOrder, Zenon
<1>3. CASE part' = NoFile /\ c' = [c EXCEPT !.at = "gets_ack"] /\ c2s' = c2s /\ s2c' = s2c
  <2>1. c' = [at |-> "gets_ack", kind |-> c.kind, hash |-> c.hash, size |-> c.size,
              pos |-> c.pos, final |-> c.final]
    BY <1>3, Zenon DEF Shape
  <2>2. Blocks'
    BY <1>1, <1>3, <2>1, Zenon DEF Blocks, IsFile
  <2>3. Receiving'
    BY <2>1, Zenon DEF Receiving
  <2>4. Sending'
    BY <1>1, <1>3, <2>1, Zenon DEF Sending
  <2>. QED
    BY <2>2, <2>3, <2>4, Zenon
<1>. QED
    BY <1>2, <1>3, Zenon DEF VerifyDownload, wireVars

\* A request that is served is of an upload; nothing else is under way.
LEMMA RequestOrder ==
    ASSUME StreamInv, OrderInv, ServerReads("loop"), Head(c2s).type = "puts_req"
    PROVE  /\ c.kind = "puts" /\ c.at \notin Getting /\ c.at \notin {"puts_data", "puts_ack"}
           /\ IsSequence(Tail(c2s)) /\ \A p \in Range(Tail(c2s)) : p.type # "file_data"
           /\ honest => Head(c2s).size = host_to_net_u64(Len(Content[Head(c2s).hash]))
           /\ c.at = "puts_resp" => s2c = <<>> /\ Tail(c2s) = <<>>
<1>. USE DEF StreamInv, OrderInv
<1>1. s.at = "loop" /\ c2s # <<>>
    BY Zenon DEF ServerReads, CanReceive
<1>2. Head(c2s) \in Range(c2s) /\ IsSequence(Tail(c2s)) /\ Range(Tail(c2s)) \subseteq Range(c2s)
    BY <1>1, TailChannel, Zenon DEF Shape
<1>. QED
    BY <1>1, <1>2, Zenon DEF Sending, Shape

\* A stored content is linked: no blocks will follow.
LEMMA LinkStoredOrder ==
    ASSUME StreamInv, OrderInv, LinkStored
    PROVE  OrderInv'
<1>. USE DEF StreamInv, OrderInv
<1>. DEFINE hash == Head(c2s).hash
            size == net_to_host_u64(Head(c2s).size)
<1>1. /\ ServerReads("loop") /\ Head(c2s).type = "puts_req" /\ files[hash] = size
      /\ row' = hash /\ server_send(PutsResp(size)) /\ c2s' = Tail(c2s)
      /\ s' = [s EXCEPT !.at = "puts_ack", !.hash = hash, !.size = size, !.linked = hash]
      /\ UNCHANGED <<files, stored, spart, source, part, c, honest>>
    BY Zenon DEF LinkStored, localVars, IsStored
<1>2. size \in Nat /\ Range(Tail(c2s)) \subseteq Range(c2s)
    BY <1>1, RequestFacts, Zenon
<1>3. c.kind = "puts" /\ c.at \notin Getting
    BY <1>1, RequestOrder, Zenon
<1>4. Range(s2c') \subseteq Range(s2c) \cup {PutsResp(size)}
    BY <1>1, ServerSends, Zenon
<1>. HIDE DEF hash, size
<1>5. PutsResp(size).type = "puts_resp" /\ PutsResp(size).offset \in Nat
    BY <1>2, ConversionInt DEF PutsResp
<1>6. s'.at = "puts_ack"
    BY <1>1, Zenon DEF Shape
<1>7. Blocks'
  <2>1. size # NoSize
    BY <1>2 DEF NoSize
  <2>. QED
    BY <1>1, <1>2, <1>4, <1>5, <1>6, <2>1, Zenon DEF Blocks, Storing
<1>8. Receiving'
    BY <1>1, <1>3, Zenon DEF Receiving, Getting
<1>9. Sending'
    BY <1>1, <1>2, <1>3, <1>6, Zenon DEF Sending, Storing
<1>. QED
    BY <1>7, <1>8, <1>9, Zenon

\* The server says where its file ends, and expects what follows.
LEMMA ResumePutsOrder ==
    ASSUME SizesFit, StreamInv, OrderInv, ResumePuts
    PROVE  OrderInv'
<1>. USE DEF StreamInv, OrderInv
<1>. DEFINE hash == Head(c2s).hash
            size == net_to_host_u64(Head(c2s).size)
            old == spart[hash]
            new == IF old = NoFile \/ Len(old) > size THEN <<>> ELSE old
<1>1. /\ ServerReads("loop") /\ Head(c2s).type = "puts_req"
      /\ spart' = [spart EXCEPT ![hash] = new]
      /\ server_send(PutsResp(Len(new))) /\ c2s' = Tail(c2s)
      /\ s' = [s EXCEPT !.at = IF Len(new) < size THEN "puts_data" ELSE "puts_verify",
                        !.hash = hash, !.size = size, !.pos = Len(new)]
      /\ honest' = (honest /\ IsPrefixOf(new, hash))
      /\ UNCHANGED <<row, files, stored, source, part, c>>
    BY Zenon DEF ResumePuts, localVars
<1>2. /\ s.at = "loop" /\ c.at # "hashing" /\ hash \in Versions /\ size \in Nat
      /\ hash = c.hash /\ Range(Tail(c2s)) \subseteq Range(c2s)
    BY <1>1, RequestFacts, RequestOrder, Zenon
<1>3. /\ c.kind = "puts" /\ c.at \notin Getting /\ c.at \notin {"puts_data", "puts_ack"}
      /\ IsSequence(Tail(c2s)) /\ \A p \in Range(Tail(c2s)) : p.type # "file_data"
      /\ honest => Head(c2s).size = host_to_net_u64(Len(Content[hash]))
      /\ c.at = "puts_resp" => s2c = <<>> /\ Tail(c2s) = <<>>
    BY <1>1, RequestOrder, Zenon
<1>4. /\ Content[hash] \in Seq(Nat) /\ Len(Content[hash]) \in Nat
      /\ Len(Content[hash]) < Half * Half
    BY <1>2, ContentBlocks, Zenon DEF SizesFit
<1>5. honest => size = Len(Content[hash])
    BY <1>3, <1>4, RoundTrip, Zenon
<1>6. Range(s2c') \subseteq Range(s2c) \cup {PutsResp(Len(new))}
    BY <1>1, ServerSends, Zenon
<1>. HIDE DEF hash, size
<1>7. IsFile(old)
    BY <1>2, Zenon DEF Blocks
<1>8. new \in Seq(Nat) /\ Len(new) \in Nat
  <2>1. <<>> \in Seq(Nat)
    OBVIOUS
  <2>2. new \in Seq(Nat)
    BY <1>7, <2>1, Zenon DEF IsFile
  <2>. QED
    BY <2>2, LenProperties, Zenon
<1>9. IsPrefixOf(new, hash) => new = SubSeq(Content[hash], 1, Len(new))
  <2>1. CASE old = NoFile \/ Len(old) > size
    <3>1. new = <<>> /\ Len(new) = 0
      BY <2>1, Zenon
    <3>. HIDE DEF new
    <3>2. SubSeq(Content[hash], 1, 0) = <<>>
      BY SubSeqEmpty
    <3>. QED
      BY <3>1, <3>2, Zenon
  <2>2. CASE ~(old = NoFile \/ Len(old) > size)
    <3>1. new # NoFile
      BY <2>2, Zenon
    <3>. HIDE DEF new
    <3>. QED
      BY <3>1, Zenon DEF IsPrefixOf
  <2>. QED
    BY <2>1, <2>2, Zenon
<1>. HIDE DEF new
<1>10. PutsResp(Len(new)).type = "puts_resp" /\ PutsResp(Len(new)).offset \in Nat
    BY <1>8, ConversionInt DEF PutsResp
<1>11. /\ s' = [at |-> IF Len(new) < size THEN "puts_data" ELSE "puts_verify", hash |-> hash,
                size |-> size, pos |-> Len(new), data |-> s.data, linked |-> s.linked]
       /\ s'.at \in {"puts_data", "puts_verify"}
    BY <1>1, Zenon DEF Shape
<1>12. \A v \in Versions : spart'[v] = IF v = hash THEN new ELSE spart[v]
    BY <1>1, <1>2, Zenon DEF Shape
<1>13. c.at = "puts_resp" => c2s' = <<>> /\ s2c' = <<PutsResp(Len(new))>>
    BY <1>1, <1>3, SinglePacket, Zenon DEF server_send, Sent, ClientOpen, Ended
<1>14. InOrder(c2s', Len(new), hash)
    BY <1>1, <1>3, NoBlocks, Zenon
<1>15. Blocks'
    BY <1>1, <1>2, <1>3, <1>6, <1>8, <1>10, <1>11, <1>12 DEF Blocks, IsFile
<1>16. Receiving'
    BY <1>1, <1>3, Zenon DEF Receiving, Getting
<1>17. honest' => /\ honest /\ s'.size = Len(Content[s'.hash])
                  /\ spart'[s'.hash] = SubSeq(Content[s'.hash], 1, s'.pos)
                  /\ InOrder(c2s', s'.pos, s'.hash)
    BY <1>1, <1>2, <1>5, <1>9, <1>11, <1>12, <1>14, Zenon
<1>18. Sending'
    BY <1>1, <1>2, <1>3, <1>11, <1>13, <1>17, Zenon DEF Sending
<1>. QED
    BY <1>15, <1>16, <1>18, Zenon

\* The block that comes is the one that follows.
LEMMA ReceiveUploadDataOrder ==
    ASSUME StreamInv, OrderInv, ReceiveUploadData
    PROVE  OrderInv'
<1>. USE DEF StreamInv, OrderInv
<1>. DEFINE d == Content[s.hash]
<1>1. /\ UNCHANGED <<row, files, source, part, c, honest>> /\ c2s # <<>>
      /\ s.at = "puts_data" /\ s.at \in Storing /\ c.kind = "puts" /\ c.at # "hashing"
    BY Zenon DEF ReceiveUploadData, ServerReads, CanReceive, localVars, Sending, Storing
<1>2. CASE ServerEnds(Tail(c2s), <<Error>>) /\ spart' = spart
  <2>1. <<Error>> \in {<<>>, <<Error>>, <<Ack>>} /\ \A v \in Versions : IsFile(spart'[v])
    BY <1>2, Zenon DEF Blocks
  <2>. QED
    BY <1>1, <1>2, <2>1, ServerEndsOrder, Zenon
<1>3. CASE /\ Head(c2s).type = "file_data"
           /\ spart' = [spart EXCEPT ![s.hash] = write_n(@, s.pos, Head(c2s).block)]
           /\ s' = [s EXCEPT !.pos = @ + 1,
                             !.at = IF s.pos + 1 < s.size THEN "puts_data" ELSE "puts_end"]
           /\ c2s' = Tail(c2s) /\ s2c' = s2c
  <2>1. /\ s.hash \in Versions /\ s.pos \in Nat /\ s.pos < s.size /\ s.size \in Int
        /\ spart[s.hash] \in Seq(Nat)
    BY <1>1, Zenon DEF Store, Shape, Blocks
  <2>2. d \in Seq(Nat) /\ Len(d) \in Nat
    BY <2>1, ContentBlocks, Zenon
  <2>3. /\ IsSequence(c2s) /\ Range(c2s') \subseteq Range(c2s) /\ Head(c2s) \in Range(c2s)
        /\ Len(c2s) \in Nat /\ Len(c2s') = Len(c2s) - 1
    BY <1>1, <1>3, TailChannel, ChannelLength DEF Shape
  <2>4. Head(c2s).block \in Nat
    BY <1>3, <2>3, Zenon DEF Blocks
  <2>. DEFINE new == write_n(spart[s.hash], s.pos, Head(c2s).block)
  <2>5. new \in Seq(Nat)
    BY <2>1, <2>4, WriteBlocks, Zenon
  <2>6. honest => /\ InOrder(c2s', s.pos + 1, s.hash) /\ s.size = Len(d)
                  /\ new = SubSeq(d, 1, s.pos + 1)
    <3>. SUFFICES ASSUME honest
                  PROVE  /\ InOrder(c2s', s.pos + 1, s.hash) /\ s.size = Len(d)
                         /\ new = SubSeq(d, 1, s.pos + 1)
      BY Zenon
    <3>1. s.size = Len(d) /\ spart[s.hash] = SubSeq(d, 1, s.pos) /\ InOrder(c2s, s.pos, s.hash)
      BY <1>1, Zenon DEF Sending
    <3>2. InOrder(c2s', s.pos + 1, s.hash) /\ Head(c2s).block = d[s.pos + 1]
      BY <1>1, <1>3, <2>1, <2>3, <3>1, OrderTail, Zenon
    <3>. QED
      BY <2>1, <2>2, <3>1, <3>2, WriteBegins, Zenon
  <2>7. /\ s' = [at |-> IF s.pos + 1 < s.size THEN "puts_data" ELSE "puts_end",
                 hash |-> s.hash, size |-> s.size, pos |-> s.pos + 1, data |-> s.data,
                 linked |-> s.linked]
        /\ s'.at \in Storing
    BY <1>3, Zenon DEF Shape, Storing
  <2>8. \A v \in Versions : spart'[v] = IF v = s.hash THEN new ELSE spart[v]
    BY <1>3, <2>1, Zenon DEF Shape
  <2>9. c.at # "puts_resp"
    BY <1>1, Zenon DEF Sending
  <2>. HIDE DEF d, new
  <2>10. Blocks'
    BY <1>1, <1>3, <2>1, <2>3, <2>5, <2>7, <2>8 DEF Blocks, IsFile
  <2>11. Receiving'
    BY <1>1, Zenon DEF Receiving, Shape, Getting
  <2>12. /\ honest => /\ s'.size = Len(Content[s'.hash])
                      /\ spart'[s'.hash] = SubSeq(Content[s'.hash], 1, s'.pos)
                      /\ InOrder(c2s', s'.pos, s'.hash)
    BY <2>1, <2>6, <2>7, <2>8, Zenon DEF d
  <2>13. honest /\ c.at = "puts_data" => c.pos = s'.pos + Len(c2s')
    <3>1. honest /\ c.at = "puts_data" => c.pos = s.pos + Len(c2s)
      BY <1>1, Zenon DEF Sending
    <3>. QED
      BY <2>1, <2>3, <2>7, <3>1
  <2>14. s'.at # "loop"
    BY <2>7, Zenon
  <2>15. Sending'
    BY <1>1, <2>3, <2>7, <2>9, <2>12, <2>13, <2>14, Zenon DEF Sending
  <2>. QED
    BY <2>10, <2>11, <2>15, Zenon
<1>. QED
    BY <1>2, <1>3, Zenon DEF ReceiveUploadData

\* The end of the stream comes when nothing is missing, and no block follows it.
LEMMA ReceiveUploadEndOrder ==
    ASSUME StreamInv, OrderInv, ReceiveUploadEnd
    PROVE  OrderInv'
<1>. USE DEF StreamInv, OrderInv
<1>1. /\ UNCHANGED <<row, files, spart, source, part, c, honest>> /\ c2s # <<>>
      /\ s.at = "puts_end" /\ s.at \in Storing /\ c.kind = "puts" /\ c.at # "hashing"
    BY Zenon DEF ReceiveUploadEnd, ServerReads, CanReceive, storeVars, localVars, Sending, Storing
<1>2. CASE ServerEnds(Tail(c2s), <<Error>>)
  <2>1. <<Error>> \in {<<>>, <<Error>>, <<Ack>>} /\ \A v \in Versions : IsFile(spart'[v])
    BY <1>1, Zenon DEF Blocks
  <2>. QED
    BY <1>1, <1>2, <2>1, ServerEndsOrder, Zenon
<1>3. CASE /\ Head(c2s).type = "file_end" /\ s' = [s EXCEPT !.at = "puts_verify"]
           /\ c2s' = Tail(c2s) /\ s2c' = s2c
  <2>1. /\ IsSequence(c2s) /\ IsSequence(c2s') /\ Range(c2s') \subseteq Range(c2s)
        /\ Head(c2s) \in Range(c2s)
    BY <1>1, <1>3, TailChannel, Zenon DEF Shape
  <2>2. /\ s' = [at |-> "puts_verify", hash |-> s.hash, size |-> s.size, pos |-> s.pos,
                 data |-> s.data, linked |-> s.linked]
        /\ s'.at \in Storing
    BY <1>3, Zenon DEF Shape, Storing
  <2>3. s.hash \in Versions /\ s.pos \in Nat /\ s.pos = s.size
    BY <1>1, Zenon DEF Store
  <2>4. honest => c.at # "puts_data" /\ InOrder(c2s', s.pos, s.hash)
    <3>. SUFFICES ASSUME honest PROVE c.at # "puts_data" /\ InOrder(c2s', s.pos, s.hash)
      BY Zenon
    <3>1. c.at # "puts_data"
      BY <1>1, <1>3, <2>1, Zenon DEF Sending
    <3>2. InOrder(c2s, s.pos, s.hash) /\ s.pos = Len(Content[s.hash])
      BY <1>1, <2>3, Zenon DEF Sending
    <3>3. InOrder(c2s', s.pos + 1, s.hash) /\ Len(c2s') \in Nat
      BY <1>1, <1>3, <2>1, <2>3, <3>2, OrderTail, ChannelLength, Zenon
    <3>4. \A i \in 1 .. Len(c2s') : ~(s.pos + 1 + i <= s.pos)
      BY <2>3, <3>3
    <3>5. InOrder(c2s', s.pos, s.hash)
      BY <3>2, <3>3, <3>4, Zenon DEF InOrder
    <3>. QED
      BY <3>1, <3>5, Zenon
  <2>5. c.at # "puts_resp"
    BY <1>1, Zenon DEF Sending
  <2>6. Blocks'
    BY <1>1, <1>3, <2>1, <2>2, Zenon DEF Blocks
  <2>7. Receiving'
    BY <1>1, Zenon DEF Receiving, Shape, Getting
  <2>8. Sending'
    BY <1>1, <2>1, <2>2, <2>4, <2>5, Zenon DEF Sending
  <2>. QED
    BY <2>6, <2>7, <2>8, Zenon
<1>. QED
    BY <1>2, <1>3, Zenon DEF ReceiveUploadEnd

\* The upload is verified, and the .part file has its final name or is gone.
LEMMA VerifyUploadOrder ==
    ASSUME StreamInv, OrderInv, VerifyUpload
    PROVE  OrderInv'
<1>. USE DEF StreamInv, OrderInv
<1>1. /\ UNCHANGED <<source, part, c, honest>> /\ spart' = [spart EXCEPT ![s.hash] = NoFile]
      /\ s.at \in Storing /\ c.kind = "puts" /\ c.at # "hashing"
      /\ s.hash \in Versions /\ s.size \in Nat
    BY Zenon DEF VerifyUpload, localVars, Sending, Storing, Store
<1>2. \A v \in Versions : IsFile(spart'[v])
    BY <1>1, Zenon DEF Blocks, Shape, IsFile
<1>3. CASE ServerEnds(c2s, <<Error>>) /\ UNCHANGED <<row, files>>
  <2>1. <<Error>> \in {<<>>, <<Error>>, <<Ack>>}
    BY Zenon
  <2>. QED
    BY <1>1, <1>2, <1>3, <2>1, ServerEndsOrder
<1>4. CASE /\ row' = s.hash /\ files' = [files EXCEPT ![s.hash] = IF @ = NoSize THEN s.size ELSE @]
           /\ s' = [s EXCEPT !.at = "puts_ack", !.linked = s.hash] /\ c2s' = c2s /\ s2c' = s2c
  <2>1. s'.at = "puts_ack"
    BY <1>4, Zenon DEF Shape
  <2>2. files'[row'] # NoSize
    BY <1>1, <1>4 DEF Shape, NoSize
  <2>3. Blocks'
    BY <1>1, <1>2, <1>4, <2>1, <2>2, Zenon DEF Blocks, Storing
  <2>4. Receiving'
    BY <1>1, Zenon DEF Receiving, Shape, Getting
  <2>5. Sending'
    BY <1>1, <1>4, <2>1, Zenon DEF Sending, Storing
  <2>. QED
    BY <2>3, <2>4, <2>5, Zenon
<1>. QED
    BY <1>3, <1>4, Zenon DEF VerifyUpload, wireVars

-----------------------------------------------------------------------------
(* The order of a download, at the server.                                 *)

\* The answer holds the content's hash and its length.
LEMMA SendGetsRespOrder ==
    ASSUME StreamInv, OrderInv, SendGetsResp
    PROVE  OrderInv'
<1>. USE DEF StreamInv, OrderInv
<1>1. /\ UNCHANGED <<row, files, spart, source, part, c, honest>>
      /\ s.at = "loop" /\ c2s # <<>>
    BY Zenon DEF SendGetsResp, ServerReads, CanReceive, storeVars, localVars
<1>2. CASE ServerEnds(Tail(c2s), <<Error>>)
  <2>1. <<Error>> \in {<<>>, <<Error>>, <<Ack>>} /\ \A v \in Versions : IsFile(spart'[v])
    BY <1>1, Zenon DEF Blocks
  <2>. QED
    BY <1>1, <1>2, <2>1, ServerEndsOrder, Zenon
<1>3. CASE /\ row # NoVersion /\ server_send(GetsResp(row, files[row]))
           /\ s' = [s EXCEPT !.at = "gets_resume", !.hash = row]
           /\ c2s' = Tail(c2s)
  <2>1. row \in Versions /\ files[row] = Len(Content[row])
    BY <1>3, Zenon DEF Shape, Store, StoreHonest, Blocks
  <2>. DEFINE p == GetsResp(row, Len(Content[row]))
  <2>2. Range(s2c') \subseteq Range(s2c) \cup {p}
    BY <1>3, <2>1, ServerSends, Zenon
  <2>3. p.type = "gets_resp" /\ p.hash = row /\ p.size = host_to_net_u64(Len(Content[row]))
    BY Zenon DEF GetsResp
  <2>4. s'.at = "gets_resume" /\ s'.hash = row
    BY <1>3, Zenon DEF Shape
  <2>5. Range(c2s') \subseteq Range(c2s)
    BY <1>1, <1>3, TailChannel, Zenon DEF Shape
  <2>. HIDE DEF p
  <2>6. c.at = "gets_resp" => c2s' = <<>> /\ s2c' = <<p>>
    BY <1>1, <1>3, <2>1, SinglePacket, Zenon
       DEF server_send, Sent, ClientOpen, Ended, Receiving, p
  <2>7. c.at \notin {"gets_data", "gets_end"}
    BY <1>1, Zenon DEF Receiving
  <2>8. Blocks'
    BY <1>1, <2>2, <2>3, <2>4, <2>5, Zenon DEF Blocks, Storing
  <2>9. \A q \in Range(s2c') : c.at = "gets_resp" => q = p
    BY <2>6, SinglePacket, Zenon
  <2>10. Receiving'
    BY <1>1, <2>1, <2>3, <2>4, <2>6, <2>7, <2>9, Zenon DEF Receiving, p
  <2>11. Sending'
    BY <1>1, <2>4, <2>5, Zenon DEF Sending, Storing
  <2>. QED
    BY <2>8, <2>10, <2>11, Zenon
<1>. QED
    BY <1>2, <1>3, Zenon DEF SendGetsResp

\* The file that is opened is the content announced, at the place the client asked for.
LEMMA ReceiveResumePosOrder ==
    ASSUME SizesFit, StreamInv, OrderInv, ReceiveResumePos
    PROVE  OrderInv'
<1>. USE DEF StreamInv, OrderInv
<1>. DEFINE offset == net_to_host_u64(Head(c2s).offset)
            file == stored[s.hash]
<1>1. /\ UNCHANGED <<row, files, spart, source, part, c, honest>>
      /\ s.at = "gets_resume" /\ c2s # <<>>
    BY Zenon DEF ReceiveResumePos, ServerReads, CanReceive, storeVars, localVars
<1>2. ASSUME NEW last, last \in {<<>>, <<Error>>, <<Ack>>}, ServerEnds(Tail(c2s), last)
      PROVE  OrderInv'
  <2>1. \A v \in Versions : IsFile(spart'[v])
    BY <1>1, Zenon DEF Blocks
  <2>. QED
    BY <1>1, <1>2, <2>1, ServerEndsOrder, Zenon
<1>3. CASE /\ Head(c2s).type = "resume_pos" /\ file # NoFile
           /\ s' = [s EXCEPT !.at = "gets_data", !.pos = offset, !.data = file]
           /\ c2s' = Tail(c2s) /\ s2c' = s2c
  <2>1. Range(c2s') \subseteq Range(c2s) /\ Head(c2s) \in Range(c2s)
    BY <1>1, <1>3, TailChannel, Zenon DEF Shape
  <2>2. s'.at = "gets_data" /\ s'.pos = offset /\ s'.data = file
    BY <1>3, Zenon DEF Shape
  <2>3. c.at # "gets_resp"
    BY <1>1, Zenon DEF Receiving
  <2>4. ASSUME c.at \in {"gets_data", "gets_end"}
        PROVE  /\ file = Content[c.hash] /\ offset = c.pos /\ s2c = <<>> /\ Len(s2c) = 0
               /\ c.pos \in Nat
    <3>1. /\ s.hash = c.hash /\ s2c = <<>> /\ Head(c2s).offset = host_to_net_u64(c.pos)
          /\ c.pos \in 0 .. Len(Content[c.hash]) /\ c.hash \in Versions
      BY <1>1, <1>3, <2>1, <2>4, Zenon DEF Receiving, Download
    <3>2. c.pos \in Nat /\ c.pos < Half * Half
      BY <3>1, ContentBlocks DEF SizesFit, Half, Byte
    <3>3. file = Content[c.hash]
      BY <1>3, <3>1, Zenon DEF Store, StoreHonest
    <3>. QED
      BY <3>1, <3>2, <3>3, RoundTrip, Zenon
  <2>. HIDE DEF offset, file
  <2>5. Blocks'
    BY <1>1, <1>3, <2>1, <2>2, Zenon DEF Blocks, Storing
  <2>6. c.at \in {"gets_data", "gets_end"} => s'.pos = c.pos + Len(s2c)
    BY <2>2, <2>4
  <2>7. Receiving'
    BY <1>1, <1>3, <2>2, <2>3, <2>4, <2>6, Zenon DEF Receiving
  <2>8. Sending'
    BY <1>1, <2>1, <2>2, Zenon DEF Sending, Storing
  <2>. QED
    BY <2>5, <2>7, <2>8, Zenon
<1>4. <<>> \in {<<>>, <<Error>>, <<Ack>>} /\ <<Error>> \in {<<>>, <<Error>>, <<Ack>>}
    BY Zenon
<1>. QED
    BY <1>2, <1>3, <1>4, Zenon DEF ReceiveResumePos

\* The next block of the file.
LEMMA SendDownloadDataOrder ==
    ASSUME StreamInv, OrderInv, SendDownloadData
    PROVE  OrderInv'
<1>. USE DEF StreamInv, OrderInv
<1>. DEFINE p == FileData(s.data[s.pos + 1])
<1>1. /\ UNCHANGED <<row, files, spart, source, part, c, c2s, honest>>
      /\ s.at = "gets_data" /\ s.pos < Len(s.data) /\ server_send(p)
      /\ s' = [s EXCEPT !.pos = @ + 1]
    BY Zenon DEF SendDownloadData, sendfile_exact, storeVars, localVars
<1>2. s'.at = "gets_data" /\ s'.pos = s.pos + 1 /\ s'.data = s.data
    BY <1>1, Zenon DEF Shape
<1>3. p.type = "file_data"
    BY Zenon DEF FileData
<1>4. ASSUME c.at \in {"gets_data", "gets_end"}
      PROVE  s'.pos = c.pos + Len(s2c') /\ InOrder(s2c', c.pos, c.hash)
  <2>1. /\ s.data = Content[c.hash] /\ s.pos = c.pos + Len(s2c) /\ c.pos \in Nat
        /\ c.hash \in Versions /\ IsSequence(s2c) /\ InOrder(s2c, c.pos, c.hash)
    BY <1>1, <1>4 DEF Receiving, Download, Shape
  <2>2. Len(s2c) \in Nat /\ Len(Append(s2c, p)) = Len(s2c) + 1 /\ Len(Content[c.hash]) \in Nat
    BY <2>1, ChannelLength, ContentBlocks, Zenon
  <2>3. s2c' = Append(s2c, p)
    BY <1>1, <1>4, Zenon DEF server_send, Sent, ClientOpen, Ended
  <2>4. /\ p = FileData(Content[c.hash][c.pos + Len(s2c) + 1])
        /\ c.pos + Len(s2c) < Len(Content[c.hash])
    BY <1>1, <2>1, Zenon
  <2>. HIDE DEF p
  <2>5. InOrder(s2c', c.pos, c.hash)
    BY <2>1, <2>2, <2>3, <2>4, OrderBlock, Zenon
  <2>. QED
    BY <1>2, <2>1, <2>2, <2>3, <2>5
<1>5. Range(s2c') \subseteq Range(s2c) \cup {p}
    BY <1>1, ServerSends, Zenon
<1>. HIDE DEF p
<1>6. Blocks'
    BY <1>1, <1>2, <1>3, <1>5, Zenon DEF Blocks, Storing
<1>7. c.at # "gets_resp"
    BY <1>1, Zenon DEF Receiving
<1>8. Receiving'
    BY <1>1, <1>2, <1>4, <1>7, Zenon DEF Receiving
<1>9. Sending'
    BY <1>1, <1>2, Zenon DEF Sending, Storing
<1>. QED
    BY <1>6, <1>8, <1>9, Zenon

\* The end of the stream is no block.
LEMMA SendDownloadEndOrder ==
    ASSUME StreamInv, OrderInv, SendDownloadEnd
    PROVE  OrderInv'
<1>. USE DEF StreamInv, OrderInv
<1>1. /\ UNCHANGED <<row, files, spart, source, part, c, c2s, honest>>
      /\ s.at = "gets_data" /\ server_send(FileEnd) /\ s' = [s EXCEPT !.at = "gets_ack"]
    BY Zenon DEF SendDownloadEnd, storeVars, localVars
<1>2. s'.at = "gets_ack"
    BY <1>1, Zenon DEF Shape
<1>3. FileEnd.type = "file_end"
    BY Zenon DEF FileEnd
<1>4. ASSUME c.at \in {"gets_data", "gets_end"}
      PROVE  InOrder(s2c', c.pos, c.hash)
  <2>1. IsSequence(s2c) /\ InOrder(s2c, c.pos, c.hash)
    BY <1>4, Zenon DEF Receiving, Shape
  <2>2. InOrder(Append(s2c, FileEnd), c.pos, c.hash)
    BY <1>3, <2>1, OrderOther, Zenon
  <2>. QED
    BY <1>1, <2>1, <2>2, Zenon DEF server_send, Sent
<1>5. Range(s2c') \subseteq Range(s2c) \cup {FileEnd}
    BY <1>1, ServerSends, Zenon
<1>6. Blocks'
    BY <1>1, <1>2, <1>3, <1>5, Zenon DEF Blocks, Storing
<1>7. c.at # "gets_resp"
    BY <1>1, Zenon DEF Receiving
<1>8. Receiving'
    BY <1>1, <1>2, <1>4, <1>7, Zenon DEF Receiving
<1>9. Sending'
    BY <1>1, <1>2, Zenon DEF Sending, Storing
<1>. QED
    BY <1>6, <1>8, <1>9, Zenon

\* What others do: a local file that is written to while it is uploaded is honest no more.
LEMMA EnvironmentOrder ==
    ASSUME StreamInv, OrderInv, Environment
    PROVE  OrderInv'
<1>. USE DEF StreamInv, OrderInv
<1>1. UNCHANGED <<spart, part, c, s, c2s, s2c>>
    BY Zenon DEF Environment, Change, wireVars
<1>2. \/ honest' = honest /\ source' = source
      \/ honest' => honest /\ (c.kind = "puts" => ~ClientOpen)
    BY Zenon DEF Environment, PathRemoved, ContentPublished, SourceChanged
<1>3. row' # NoVersion => files'[row'] # NoSize
  <2>1. CASE PathRemoved
    BY <2>1, Zenon DEF PathRemoved
  <2>2. ASSUME NEW v \in Versions, ContentPublished(v)
        PROVE  row' # NoVersion => files'[row'] # NoSize
    <3>1. Len(Content[v]) # NoSize
      BY ContentBlocks DEF NoSize
    <3>2. \A u \in Versions : files'[u] = IF u = v THEN Len(Content[v]) ELSE files[u]
      BY <2>2, Zenon DEF ContentPublished, Shape
    <3>3. row' = v \/ (row' = row /\ row \in Versions \cup {NoVersion})
      BY <2>2, Zenon DEF ContentPublished, Shape
    <3>. QED
      BY <3>1, <3>2, <3>3, Zenon DEF Blocks
  <2>3. ASSUME NEW v \in Versions, SourceChanged(v)
        PROVE  row' # NoVersion => files'[row'] # NoSize
    BY <2>3, Zenon DEF SourceChanged, Blocks
  <2>. QED
    BY <2>1, <2>2, <2>3, Zenon DEF Environment
<1>4. Blocks'
    BY <1>1, <1>3, Zenon DEF Blocks
<1>5. honest' => honest
    BY <1>2, Zenon
<1>6. Receiving'
    BY <1>1, <1>5, Zenon DEF Receiving
<1>7. honest' /\ c.at \in {"puts_resp", "puts_data"} =>
          source' = c.hash /\ c.size = Len(Content[c.hash])
  <2>1. c.at \in {"puts_resp", "puts_data"} => c.kind = "puts" /\ ClientOpen
    BY Zenon DEF Shape, Putting, ClientOpen, Ended
  <2>. QED
    BY <1>2, <2>1, Zenon DEF Sending
<1>8. Sending'
    BY <1>1, <1>5, <1>7, Zenon DEF Sending
<1>. QED
    BY <1>4, <1>6, <1>8, Zenon

\* Nothing is under way at first.
LEMMA InitOrder == Init => OrderInv
<1>. SUFFICES ASSUME Init PROVE OrderInv
    BY Zenon
<1>1. /\ part = NoFile /\ \A v \in Versions : spart[v] = NoFile
      /\ c.at = "none" /\ s.at = "closed" /\ Range(c2s) = {} /\ Range(s2c) = {}
    BY EmptyChannel, Zenon DEF Init
<1>2. row # NoVersion => files[row] # NoSize
  <2>1. \A v \in Versions : Len(Content[v]) # NoSize
    BY ContentBlocks DEF NoSize
  <2>. QED
    BY <2>1, Zenon DEF Init
<1>3. Blocks
    BY <1>1, <1>2, Zenon DEF Blocks, IsFile, Storing
<1>4. Receiving
    BY <1>1, Zenon DEF Receiving
<1>5. Sending
    BY <1>1, Zenon DEF Sending, Storing
<1>. QED
    BY <1>3, <1>4, <1>5, Zenon DEF OrderInv

\* And every step keeps the order, as long as the sizes fit their fields.
LEMMA NextOrder ==
    ASSUME SizesFit
    PROVE  StreamInv /\ OrderInv /\ [Next]_vars => OrderInv'
<1>. SUFFICES ASSUME StreamInv, OrderInv, [Next]_vars PROVE OrderInv'
    BY Zenon
<1>. DEFINE words == {<<>>, <<Error>>, <<Ack>>}
<1>1. <<>> \in words /\ <<Error>> \in words /\ <<Ack>> \in words
    BY Zenon
<1>2. CASE ClientFails \/ ClientSeesEof \/ ReceiveUploadAck \/ SendDownloadAck
  <2>1. /\ \E outcome \in {"ok", "failed"} : \E unread : \E last \in words :
              ClientEnds(outcome, unread, last)
        /\ UNCHANGED <<storeVars, source, part, s, honest>>
    BY <1>1, <1>2, Zenon DEF ClientFails, ClientSeesEof, ReceiveUploadAck, SendDownloadAck, localVars
  <2>. QED
    BY <2>1, ClientEndsOrder, Zenon
<1>3. CASE ServerFails \/ ServerSeesEof \/ RefusePuts \/ SendUploadAck \/ ReceiveDownloadAck
  <2>1. /\ \E unread : \E last \in words : ServerEnds(unread, last)
        /\ UNCHANGED <<row, files, spart, source, part, c, honest>>
    BY <1>1, <1>3, Zenon DEF ServerFails, ServerSeesEof, RefusePuts, SendUploadAck,
                      ReceiveDownloadAck, storeVars, localVars
  <2>2. \A v \in Versions : IsFile(spart'[v])
    BY <2>1, Zenon DEF OrderInv, Blocks
  <2>. QED
    BY <2>1, <2>2, ServerEndsOrder, Zenon
<1>4. CASE run_upload /\ ~ReceiveUploadAck
    BY <1>4, ConnectOrder, SendPutsReqOrder, ReceivePutsRespOrder, SendUploadDataOrder,
       SendUploadEndOrder, Zenon DEF run_upload
<1>5. CASE run_download /\ ~SendDownloadAck
    BY <1>5, ConnectOrder, ReceiveGetsRespOrder, ReceiveDownloadDataOrder,
       ReceiveDownloadEndOrder, VerifyDownloadOrder, Zenon DEF run_download
<1>6. CASE handle_puts /\ ~RefusePuts /\ ~SendUploadAck
    BY <1>6, LinkStoredOrder, ResumePutsOrder, ReceiveUploadDataOrder, ReceiveUploadEndOrder,
       VerifyUploadOrder, Zenon DEF handle_puts
<1>7. CASE handle_gets /\ ~ReceiveDownloadAck
    BY <1>7, SendGetsRespOrder, ReceiveResumePosOrder, SendDownloadDataOrder,
       SendDownloadEndOrder, Zenon DEF handle_gets
<1>8. CASE Environment
    BY <1>8, EnvironmentOrder, Zenon
<1>9. CASE UNCHANGED vars
  <2>1. UNCHANGED <<row, files, spart, source, part, c, s, c2s, s2c, honest>>
    BY <1>9, Zenon DEF vars, storeVars, localVars, wireVars
  <2>2. Blocks'
    BY <2>1, Zenon DEF OrderInv, Blocks
  <2>3. Receiving'
    BY <2>1, Zenon DEF OrderInv, Receiving
  <2>4. Sending'
    BY <2>1, Zenon DEF OrderInv, Sending
  <2>. QED
    BY <2>2, <2>3, <2>4, Zenon DEF OrderInv
<1>. QED
    BY <1>2, <1>3, <1>4, <1>5, <1>6, <1>7, <1>8, <1>9, Zenon DEF Next, ClientStep, ServerStep

\* Whatever breaks and is resumed, as long as the local file is not written to during an
\* upload and no file outgrows the size field, what a resumed transfer has is a beginning of
\* the announced content, and the whole of it when it comes to the hash (task_recv and
\* recvfile_exact at both ends, the PUTS and GETS offsets).
THEOREM ResumesAreSound ==
    ASSUME SizesFit
    PROVE  Spec => []ResumeSound
<1>1. StreamInv /\ OrderInv => ResumeSound
  <2>. SUFFICES ASSUME StreamInv, OrderInv PROVE ResumeSound
    BY Zenon
  <2>1. \A v \in Versions : SubSeq(Content[v], 1, Len(Content[v])) = Content[v]
    BY StreamAssumption
  <2>2. ASSUME honest, c.at \in {"gets_data", "gets_end", "gets_verify"}, ~c.final
        PROVE  /\ part = SubSeq(Content[c.hash], 1, c.pos)
               /\ c.at = "gets_verify" => part = Content[c.hash]
    <3>1. c.hash \in Versions
      BY <2>2, Zenon DEF StreamInv, Download
    <3>2. /\ part = SubSeq(Content[c.hash], 1, c.pos)
          /\ c.at = "gets_verify" => c.pos = Len(Content[c.hash])
      BY <2>2, Zenon DEF OrderInv, Receiving
    <3>. QED
      BY <2>1, <3>1, <3>2, Zenon
  <2>3. ASSUME honest, s.at \in Storing
        PROVE  /\ spart[s.hash] = SubSeq(Content[s.hash], 1, s.pos)
               /\ s.at = "puts_verify" => spart[s.hash] = Content[s.hash]
    <3>1. s.hash \in Versions /\ (s.at = "puts_verify" => s.pos = s.size)
      BY <2>3, Zenon DEF StreamInv, Store
    <3>2. /\ spart[s.hash] = SubSeq(Content[s.hash], 1, s.pos)
          /\ s.size = Len(Content[s.hash])
      BY <2>3, Zenon DEF OrderInv, Sending
    <3>. QED
      BY <2>1, <3>1, <3>2, Zenon
  <2>. QED
    BY <2>2, <2>3, Zenon DEF ResumeSound, Storing
<1>2. Init => StreamInv /\ OrderInv
    BY InitInv, InitOrder, Zenon
<1>3. (StreamInv /\ OrderInv) /\ [Next]_vars => (StreamInv /\ OrderInv)'
    BY NextInv, NextOrder, Zenon
<1>. QED
    BY <1>1, <1>2, <1>3, PTL DEF Spec

-----------------------------------------------------------------------------
(* Whose turn it is.                                                       *)

\* The size that PUTS announces is the one the client counts to, even when the local file
\* has changed since.
Announced ==
    /\ c.at \in Putting => c.size < Half * Half
    /\ c.kind = "puts" =>
          \A p \in Range(c2s) : p.type = "puts_req" => p.size = host_to_net_u64(c.size)

\* The packets that the two ends of an upload still expect are the ones under way and the
\* ones the other end is still to send.
UploadTurns ==
    /\ c.at = "puts_resp" =>
          /\ s.at \in {"loop", "puts_data", "puts_verify", "puts_ack", "closed"}
          /\ s.at = "loop" => c2s # <<>> /\ \A p \in Range(c2s) : p.type = "puts_req"
          /\ s.at \in Storing => s.size = c.size
          /\ s.at = "puts_ack" => c2s = <<>> /\ s2c = <<PutsResp(c.size)>>
    /\ c.at = "puts_data" =>
          /\ s.at \in {"puts_data", "puts_end", "closed"} /\ c.pos <= c.size
          /\ s.at # "closed" => s2c = <<>> /\ s.size = c.size /\ c.pos = s.pos + Len(c2s)
    /\ c.at = "puts_ack" =>
          /\ s.at \in Storing \cup {"puts_ack", "closed"}
          /\ s.at # "closed" => s2c = <<>>
          /\ s.at \in {"puts_data", "puts_end"} => Len(c2s) = s.size - s.pos + 1

\* And those of a download; the client has said nothing after the position to resume from,
\* so there is room for its last word.
DownloadTurns ==
    /\ c.at \in {"gets_data", "gets_end"} =>
          /\ s.at = "gets_resume" => c2s # <<>> /\ Tail(c2s) = <<>>
          /\ s.at \in {"gets_data", "gets_ack"} => c2s = <<>>
          /\ s.at = "gets_ack" => Len(s2c) = c.size - c.pos + 1
    /\ c.at \in {"gets_verify", "gets_ack"} /\ s.at # "closed" => c2s = <<>>

TurnInv == Announced /\ UploadTurns /\ DownloadTurns

\* A client that is done waits for nothing.
LEMMA ClientEndsTurns ==
    ASSUME Shape, Announced, NEW outcome \in {"ok", "failed"}, NEW unread,
           NEW last \in {<<>>, <<Error>>, <<Ack>>}, ClientEnds(outcome, unread, last)
    PROVE  TurnInv'
<1>1. /\ c' = [at |-> outcome, kind |-> c.kind, hash |-> c.hash, size |-> c.size,
               pos |-> c.pos, final |-> c.final]
      /\ Range(c2s') \subseteq Range(c2s) \cup {Error, Ack}
    BY ClientEndsWire, Zenon
<1>2. c'.at = outcome /\ c'.kind = c.kind /\ c'.size = c.size
    BY <1>1, Zenon
<1>3. Error.type = "error" /\ Ack.type = "ack"
    BY Zenon DEF Error, Ack
<1>4. \A p \in Range(c2s') : p.type = "puts_req" => p \in Range(c2s)
    BY <1>1, <1>3, Zenon
<1>5. Announced'
    BY <1>2, <1>4, Zenon DEF Announced, Putting
<1>6. UploadTurns' /\ DownloadTurns'
    BY <1>2, Zenon DEF UploadTurns, DownloadTurns
<1>. QED
    BY <1>5, <1>6, Zenon DEF TurnInv

\* Nor does one whose server is done.
LEMMA ServerEndsTurns ==
    ASSUME Shape, TurnInv, NEW unread, NEW last \in {<<>>, <<Error>>, <<Ack>>},
           ServerEnds(unread, last), c' = c
    PROVE  TurnInv'
<1>1. /\ s' = [at |-> "closed", hash |-> s.hash, size |-> s.size, pos |-> s.pos,
               data |-> s.data, linked |-> s.linked]
      /\ Range(c2s') = {}
    BY ServerEndsWire, Zenon
<1>2. s'.at = "closed"
    BY <1>1, Zenon
<1>3. Announced'
    BY <1>1, Zenon DEF TurnInv, Announced
<1>4. UploadTurns' /\ DownloadTurns'
    BY <1>2, Zenon DEF TurnInv, UploadTurns, DownloadTurns, Storing
<1>. QED
    BY <1>3, <1>4, Zenon DEF TurnInv

\* The one that connects speaks first.
LEMMA ConnectTurns ==
    ASSUME SizesFit, StreamInv, StartUpload \/ StartDownload
    PROVE  TurnInv'
<1>1. CASE StartUpload
  <2>1. /\ c'.at = "hashing" /\ c'.size = Len(Content[source]) /\ c2s' = <<>>
        /\ source \in Versions
    BY <1>1, Zenon DEF StartUpload, Connect, StreamInv, Shape
  <2>. QED
    BY <2>1, EmptyChannel, Zenon DEF SizesFit, TurnInv, Announced, UploadTurns, DownloadTurns
<1>2. CASE StartDownload
  <2>1. c'.at = "gets_resp" /\ c'.kind = "gets"
    BY <1>2, Zenon DEF StartDownload, Connect
  <2>. QED
    BY <2>1, Zenon DEF TurnInv, Announced, UploadTurns, DownloadTurns, Putting
<1>. QED
    BY <1>1, <1>2, Zenon

\* The request is the server's turn.
LEMMA SendPutsReqTurns ==
    ASSUME StreamInv, TurnInv, SendPutsReq
    PROVE  TurnInv'
<1>. USE DEF StreamInv, TurnInv
<1>. DEFINE p == PutsReq(source, c.size)
<1>1. /\ c.at = "hashing" /\ c2s = <<>> /\ s.at \in {"loop", "closed"} /\ s' = s
      /\ c2s' = Sent(ServerOpen, c2s, p)
    BY Zenon DEF SendPutsReq, client_send, Upload
<1>2. c'.at = "puts_resp" /\ c'.size = c.size
    BY Zenon DEF SendPutsReq, Shape
<1>3. p.type = "puts_req" /\ p.size = host_to_net_u64(c.size)
    BY Zenon DEF PutsReq
<1>. HIDE DEF p
<1>4. Range(c2s') \subseteq {p} /\ (s.at = "loop" => c2s' # <<>>)
    BY <1>1, SinglePacket, EmptyChannel, Zenon DEF Sent, ServerOpen
<1>5. Announced'
    BY <1>1, <1>2, <1>3, <1>4, Zenon DEF Announced, Putting
<1>6. UploadTurns' /\ DownloadTurns'
    BY <1>1, <1>2, <1>3, <1>4, Zenon DEF UploadTurns, DownloadTurns, Storing
<1>. QED
    BY <1>5, <1>6, Zenon

\* The response is the client's, and says how many blocks the server expects.
LEMMA ReceivePutsRespTurns ==
    ASSUME StreamInv, OrderInv, TurnInv, ReceivePutsResp
    PROVE  TurnInv'
<1>. USE DEF StreamInv, OrderInv, TurnInv
<1>. DEFINE offset == net_to_host_u64(Head(s2c).offset)
<1>1. /\ c.at = "puts_resp" /\ s2c # <<>> /\ s' = s /\ c.size \in Nat
    BY Zenon DEF ReceivePutsResp, ClientReads, CanReceive, Shape, Putting
<1>2. CASE \E last \in {<<>>, <<Error>>} : ClientEnds("failed", Tail(s2c), last)
  <2>1. PICK last : last \in {<<>>, <<Error>>, <<Ack>>} /\ ClientEnds("failed", Tail(s2c), last)
    BY <1>2, Zenon
  <2>. QED
    BY <2>1, ClientEndsTurns, Zenon
<1>3. CASE /\ Head(s2c).type = "puts_resp" /\ ~(offset > c.size)
           /\ c' = [c EXCEPT !.at = IF offset = c.size THEN "puts_ack" ELSE "puts_data",
                             !.pos = offset]
           /\ s2c' = Tail(s2c) /\ c2s' = c2s
  <2>1. offset \in Nat
    BY <1>1, <1>3, TailChannel, ConversionInt DEF Blocks, Shape
  <2>2. s.at # "loop"
    BY <1>1, Zenon DEF Sending
  <2>3. ASSUME NEW n \in Nat, n <= c.size, s2c = <<PutsResp(n)>>
        PROVE  offset = n /\ s2c' = <<>>
    <3>1. n < Half * Half
      BY <1>1, <2>3 DEF Announced, Putting, Half, Byte
    <3>2. Head(s2c) = PutsResp(n) /\ s2c' = <<>>
      BY <1>3, <2>3, SinglePacket, Zenon
    <3>3. PutsResp(n).offset = host_to_net_u64(n)
      BY Zenon DEF PutsResp
    <3>. QED
      BY <3>1, <3>2, <3>3, RoundTrip, Zenon
  <2>4. s.at = "puts_ack" => offset = c.size /\ s2c' = <<>>
    <3>1. c.size <= c.size
      BY <1>1
    <3>. QED
      BY <1>1, <2>3, <3>1, Zenon DEF UploadTurns
  <2>5. ASSUME s.at \in Storing
        PROVE  /\ offset = s.pos /\ s2c' = <<>> /\ c2s = <<>> /\ s.size = c.size
               /\ s.pos \in Nat
               /\ IF s.at = "puts_data" THEN s.pos < s.size ELSE s.pos = s.size
    <3>1. /\ s.pos \in Nat /\ IF s.at = "puts_data" THEN s.pos < s.size ELSE s.pos = s.size
          /\ c2s = <<>> /\ s2c = <<PutsResp(s.pos)>> /\ s.size = c.size
      BY <1>1, <2>5, Zenon DEF Store, Sending, UploadTurns
    <3>2. s.pos <= c.size
      BY <1>1, <3>1
    <3>. QED
      BY <2>3, <3>1, <3>2, Zenon
  <2>6. /\ c'.at = IF offset = c.size THEN "puts_ack" ELSE "puts_data"
        /\ c'.pos = offset /\ c'.size = c.size /\ c'.kind = c.kind
    BY <1>3, Zenon DEF Shape
  <2>. HIDE DEF offset
  <2>7. Announced'
    BY <1>1, <1>3, <2>6, Zenon DEF Announced, Putting
  <2>8. DownloadTurns'
    BY <2>6, Zenon DEF DownloadTurns
  <2>9. s.at \in {"puts_data", "puts_verify", "puts_ack", "closed"} /\ Len(<<>>) = 0
    BY <1>1, <2>2 DEF UploadTurns
  <2>10. CASE offset = c.size
    <3>1. s.at # "puts_data"
      BY <2>5, <2>10 DEF Storing
    <3>. QED
      BY <1>1, <2>4, <2>5, <2>6, <2>7, <2>8, <2>9, <2>10, <3>1, Zenon DEF UploadTurns, Storing
  <2>11. CASE offset # c.size
    <3>1. s.at \in {"puts_data", "closed"}
      BY <2>4, <2>5, <2>9, <2>11, Zenon DEF Storing
    <3>2. offset <= c.size /\ (s.at = "puts_data" => offset = s.pos + Len(c2s))
      BY <1>1, <1>3, <2>1, <2>5, <2>9 DEF Storing
    <3>. QED
      BY <1>1, <1>3, <2>5, <2>6, <2>7, <2>8, <2>11, <3>1, <3>2, Zenon DEF UploadTurns, Storing
  <2>. QED
    BY <2>10, <2>11, Zenon
<1>. QED
    BY <1>2, <1>3, Zenon DEF ReceivePutsResp

\* A block more that the server has to come, and one less that the client has to send.
LEMMA SendUploadDataTurns ==
    ASSUME StreamInv, OrderInv, TurnInv, SendUploadData
    PROVE  TurnInv'
<1>. USE DEF StreamInv, OrderInv, TurnInv
<1>1. /\ c.at = "puts_data" /\ c.pos \in Nat /\ c.size \in Nat /\ c.pos < c.size
      /\ s' = s /\ IsSequence(c2s)
    BY Zenon DEF SendUploadData, Shape, Putting, Blocks
<1>2. CASE ClientEnds("failed", s2c, <<Error>>)
  <2>1. <<Error>> \in {<<>>, <<Error>>, <<Ack>>}
    BY Zenon
  <2>. QED
    BY <1>2, <2>1, ClientEndsTurns, Zenon
<1>3. CASE /\ client_send(FileData(Content[source][c.pos + 1]))
           /\ c' = [c EXCEPT !.pos = @ + 1] /\ s2c' = s2c
  <2>. DEFINE p == FileData(Content[source][c.pos + 1])
  <2>1. p.type = "file_data"
    BY Zenon DEF FileData
  <2>2. /\ c'.at = "puts_data" /\ c'.kind = c.kind /\ c'.size = c.size /\ c'.pos = c.pos + 1
    BY <1>1, <1>3, Zenon DEF Shape
  <2>3. /\ c2s' = Sent(ServerOpen, c2s, p) /\ ServerOpen \in BOOLEAN
        /\ s.at # "closed" => c2s' = Append(c2s, p)
    BY <1>3, Zenon DEF client_send, ServerOpen, Sent
  <2>. HIDE DEF p
  <2>4. Range(c2s') \subseteq Range(c2s) \cup {p}
    BY <1>1, <2>3, SentWire, Zenon
  <2>5. Announced'
    BY <1>1, <2>1, <2>2, <2>4, Zenon DEF Announced, Putting
  <2>6. s.at # "closed" => c'.pos = s.pos + Len(c2s')
    <3>. SUFFICES ASSUME s.at # "closed" PROVE c'.pos = s.pos + Len(c2s')
      BY Zenon
    <3>1. /\ s.at \in Storing /\ s.pos \in Nat /\ c.pos = s.pos + Len(c2s)
      BY <1>1, Zenon DEF UploadTurns, Store, Storing
    <3>2. Len(c2s) \in Nat /\ Len(Append(c2s, p)) = Len(c2s) + 1
      BY <1>1, ChannelLength, Zenon
    <3>3. Len(c2s') = Len(c2s) + 1
      BY <2>3, <3>2, Zenon
    <3>. QED
      BY <2>2, <3>1, <3>2, <3>3
  <2>7. c'.pos <= c'.size
    BY <1>1, <2>2
  <2>8. UploadTurns' /\ DownloadTurns'
    BY <1>1, <1>3, <2>2, <2>6, <2>7, Zenon DEF UploadTurns, DownloadTurns
  <2>. QED
    BY <2>5, <2>8, Zenon
<1>. QED
    BY <1>2, <1>3, Zenon DEF SendUploadData

\* All that the server still expects is under way: the blocks it has not seen and the end.
LEMMA SendUploadEndTurns ==
    ASSUME StreamInv, TurnInv, SendUploadEnd
    PROVE  TurnInv'
<1>. USE DEF StreamInv, TurnInv
<1>1. /\ c.at = "puts_data" /\ c.size \in Nat /\ c.pos = c.size /\ UNCHANGED <<s, s2c>>
      /\ IsSequence(c2s) /\ c2s' = Sent(ServerOpen, c2s, FileEnd) /\ ServerOpen \in BOOLEAN
      /\ s.at # "closed" => c2s' = Append(c2s, FileEnd)
    BY Zenon DEF SendUploadEnd, client_send, ServerOpen, Sent, Shape, Putting
<1>2. c'.at = "puts_ack" /\ c'.kind = c.kind /\ c'.size = c.size
    BY Zenon DEF SendUploadEnd, Shape
<1>3. FileEnd.type = "file_end"
    BY Zenon DEF FileEnd
<1>4. Range(c2s') \subseteq Range(c2s) \cup {FileEnd}
    BY <1>1, SentWire, Zenon
<1>5. Announced'
    BY <1>1, <1>2, <1>3, <1>4, Zenon DEF Announced, Putting
<1>6. s.at # "closed" => Len(c2s') = s.size - s.pos + 1
  <2>. SUFFICES ASSUME s.at # "closed" PROVE Len(c2s') = s.size - s.pos + 1
    BY Zenon
  <2>1. /\ s.at \in Storing /\ s.pos \in Nat /\ c.size = s.pos + Len(c2s) /\ s.size = c.size
    BY <1>1, Zenon DEF UploadTurns, Store, Storing
  <2>2. Len(c2s) \in Nat /\ Len(Append(c2s, FileEnd)) = Len(c2s) + 1
    BY <1>1, ChannelLength, Zenon
  <2>3. Len(c2s') = Len(c2s) + 1
    BY <1>1, <2>2, Zenon
  <2>. QED
    BY <2>1, <2>2, <2>3
<1>7. UploadTurns' /\ DownloadTurns'
    BY <1>1, <1>2, <1>6, Zenon DEF UploadTurns, DownloadTurns, Storing
<1>. QED
    BY <1>5, <1>7, Zenon

\* The position to resume from is the server's turn.
LEMMA ReceiveGetsRespTurns ==
    ASSUME StreamInv, OrderInv, TurnInv, ReceiveGetsResp
    PROVE  TurnInv'
<1>. USE DEF StreamInv, OrderInv, TurnInv
<1>. DEFINE packet == Head(s2c)
            size == net_to_host_u64(packet.size)
            final == hash_matches(target, size, packet.hash)
            offset == IF final THEN size ELSE PartOffset(size)
            p == ResumePos(offset)
<1>1. c.at = "gets_resp" /\ c.kind = "gets" /\ s' = s /\ IsSequence(c2s)
    BY Zenon DEF ReceiveGetsResp, ClientReads, Shape, Getting
<1>2. ASSUME NEW last, last \in {<<>>, <<Error>>, <<Ack>>}, ClientEnds("failed", Tail(s2c), last)
      PROVE  TurnInv'
    BY <1>2, ClientEndsTurns, Zenon
<1>3. ASSUME client_send(p),
             c' = [c EXCEPT !.at = IF offset < size THEN "gets_data" ELSE "gets_end",
                            !.hash = packet.hash, !.size = size, !.pos = offset,
                            !.final = final]
      PROVE  TurnInv'
  <2>. HIDE DEF packet, size, final, offset, p
  <2>1. c'.at \in {"gets_data", "gets_end"} /\ c'.kind = c.kind
    BY <1>3, Zenon DEF Shape
  <2>2. s.at \notin {"gets_data", "gets_ack"} /\ (s.at = "gets_resume" => c2s = <<>>)
    BY <1>1, Zenon DEF Receiving
  <2>3. s.at # "closed" => c2s' = Append(c2s, p)
    BY <1>3, Zenon DEF client_send, Sent, ServerOpen
  <2>4. Append(<<>>, p) # <<>> /\ Tail(Append(<<>>, p)) = <<>>
    BY SinglePacket, Zenon
  <2>5. s.at = "gets_resume" => c2s' # <<>> /\ Tail(c2s') = <<>>
    BY <2>2, <2>3, <2>4, Zenon
  <2>. QED
    BY <1>1, <1>3, <2>1, <2>2, <2>5, Zenon DEF Announced, Putting, UploadTurns, DownloadTurns
<1>4. \A last \in {<<>>, <<Error>>} : last \in {<<>>, <<Error>>, <<Ack>>}
    BY Zenon
<1>. QED
    BY <1>2, <1>3, <1>4, Zenon DEF ReceiveGetsResp

\* A block less of those the client has to come.
LEMMA ReceiveDownloadDataTurns ==
    ASSUME StreamInv, OrderInv, TurnInv, ReceiveDownloadData
    PROVE  TurnInv'
<1>. USE DEF StreamInv, OrderInv, TurnInv
<1>1. /\ c.at = "gets_data" /\ c.kind = "gets" /\ s2c # <<>> /\ s' = s /\ IsSequence(s2c)
      /\ c.size \in Int
    BY Zenon DEF ReceiveDownloadData, ClientReads, CanReceive, Shape, Getting
<1>2. CASE ClientEnds("failed", Tail(s2c), <<Error>>)
  <2>1. <<Error>> \in {<<>>, <<Error>>, <<Ack>>}
    BY Zenon
  <2>. QED
    BY <1>2, <2>1, ClientEndsTurns, Zenon
<1>3. CASE /\ c' = [c EXCEPT !.pos = @ + 1,
                             !.at = IF c.pos + 1 < c.size THEN "gets_data" ELSE "gets_end"]
           /\ s2c' = Tail(s2c) /\ c2s' = c2s
  <2>1. /\ c'.at \in {"gets_data", "gets_end"} /\ c'.kind = c.kind /\ c'.size = c.size
        /\ c'.pos = c.pos + 1
    BY <1>3, Zenon DEF Shape
  <2>2. s.at # "gets_resume" /\ c.pos \in 0 .. c.size
    BY <1>1, Zenon DEF Receiving
  <2>3. Len(s2c) \in Nat /\ Len(s2c') = Len(s2c) - 1
    BY <1>1, <1>3, ChannelLength, Zenon
  <2>4. s.at = "gets_ack" => Len(s2c') = c'.size - c'.pos + 1
    <3>1. s.at = "gets_ack" => Len(s2c) = c.size - c.pos + 1
      BY <1>1, Zenon DEF DownloadTurns
    <3>. QED
      BY <1>1, <2>1, <2>2, <2>3, <3>1
  <2>. QED
    BY <1>1, <1>3, <2>1, <2>2, <2>4, Zenon DEF Announced, Putting, UploadTurns, DownloadTurns
<1>. QED
    BY <1>2, <1>3, Zenon DEF ReceiveDownloadData

\* Then the client has the file to itself.
LEMMA DownloadEndsTurns ==
    ASSUME StreamInv, OrderInv, TurnInv, ReceiveDownloadEnd \/ VerifyDownload
    PROVE  TurnInv'
<1>. USE DEF StreamInv, OrderInv, TurnInv
<1>1. c.at \in Getting /\ c.kind = "gets" /\ s' = s
    BY Zenon DEF ReceiveDownloadEnd, ClientReads, VerifyDownload, Shape, Getting
<1>2. CASE \E unread : ClientEnds("failed", unread, <<Error>>)
  <2>1. <<Error>> \in {<<>>, <<Error>>, <<Ack>>}
    BY Zenon
  <2>. QED
    BY <1>2, <2>1, ClientEndsTurns, Zenon
<1>3. s.at # "closed" => c2s = <<>>
    BY Zenon DEF ReceiveDownloadEnd, VerifyDownload, ClientReads, CanReceive, Receiving,
             DownloadTurns
<1>4. ASSUME NEW at \in {"gets_ack", "gets_verify"}, c' = [c EXCEPT !.at = at], c2s' = c2s
      PROVE  TurnInv'
  <2>1. c'.at = at /\ c'.kind = c.kind
    BY <1>4, Zenon DEF Shape
  <2>. QED
    BY <1>1, <1>3, <1>4, <2>1, Zenon DEF Announced, Putting, UploadTurns, DownloadTurns
<1>. QED
    BY <1>2, <1>4, Zenon DEF ReceiveDownloadEnd, VerifyDownload, wireVars

\* A request that is served: the client waits for the response, or is gone.
LEMMA RequestTurns ==
    ASSUME StreamInv, OrderInv, TurnInv, ServerReads("loop"), Head(c2s).type = "puts_req"
    PROVE  /\ c.at \notin {"puts_data", "puts_ack"} /\ c.at \notin Getting
           /\ Range(Tail(c2s)) \subseteq Range(c2s)
           /\ c.at = "puts_resp" => /\ s2c = <<>> /\ Tail(c2s) = <<>>
                                    /\ net_to_host_u64(Head(c2s).size) = c.size
<1>1. /\ c.kind = "puts" /\ c.at \notin Getting /\ c.at \notin {"puts_data", "puts_ack"}
      /\ c.at = "puts_resp" => s2c = <<>> /\ Tail(c2s) = <<>>
    BY RequestOrder, Zenon
<1>2. c2s # <<>> /\ IsSequence(c2s)
    BY Zenon DEF ServerReads, CanReceive, StreamInv, Shape
<1>3. Range(Tail(c2s)) \subseteq Range(c2s) /\ Head(c2s) \in Range(c2s)
    BY <1>2, TailChannel, Zenon
<1>4. Head(c2s).size = host_to_net_u64(c.size)
    BY <1>1, <1>3, Zenon DEF TurnInv, Announced
<1>5. c.at = "puts_resp" => c.size \in Nat /\ c.size < Half * Half
    BY Zenon DEF TurnInv, Announced, StreamInv, Shape, Putting
<1>. QED
    BY <1>1, <1>3, <1>4, <1>5, RoundTrip, Zenon

\* A content that is linked leaves nothing to send, which is what the response says.
LEMMA LinkStoredTurns ==
    ASSUME StreamInv, OrderInv, TurnInv, LinkStored
    PROVE  TurnInv'
<1>. USE DEF StreamInv, OrderInv, TurnInv
<1>. DEFINE size == net_to_host_u64(Head(c2s).size)
<1>1. /\ ServerReads("loop") /\ Head(c2s).type = "puts_req" /\ server_send(PutsResp(size))
      /\ c2s' = Tail(c2s) /\ c' = c
    BY Zenon DEF LinkStored
<1>2. /\ c.at \notin {"puts_data", "puts_ack"} /\ c.at \notin Getting
      /\ Range(Tail(c2s)) \subseteq Range(c2s)
      /\ c.at = "puts_resp" => s2c = <<>> /\ Tail(c2s) = <<>> /\ size = c.size
    BY <1>1, RequestTurns, Zenon
<1>. HIDE DEF size
<1>3. s'.at = "puts_ack"
    BY Zenon DEF LinkStored, Shape
<1>4. c.at = "puts_resp" => c2s' = <<>> /\ s2c' = <<PutsResp(c.size)>>
    BY <1>1, <1>2, SinglePacket, Zenon DEF server_send, Sent, ClientOpen, Ended
<1>5. Announced'
    BY <1>1, <1>2, Zenon DEF Announced
<1>6. UploadTurns' /\ DownloadTurns'
    BY <1>1, <1>2, <1>3, <1>4, Zenon DEF UploadTurns, DownloadTurns, Storing, Getting
<1>. QED
    BY <1>5, <1>6, Zenon

\* The server counts to the size that was announced.
LEMMA ResumePutsTurns ==
    ASSUME StreamInv, OrderInv, TurnInv, ResumePuts
    PROVE  TurnInv'
<1>. USE DEF StreamInv, OrderInv, TurnInv
<1>1. /\ ServerReads("loop") /\ Head(c2s).type = "puts_req" /\ c2s' = Tail(c2s) /\ c' = c
    BY Zenon DEF ResumePuts
<1>2. /\ c.at \notin {"puts_data", "puts_ack"} /\ c.at \notin Getting
      /\ Range(Tail(c2s)) \subseteq Range(c2s)
      /\ c.at = "puts_resp" => net_to_host_u64(Head(c2s).size) = c.size
    BY <1>1, RequestTurns, Zenon
<1>3. /\ s'.at \in {"puts_data", "puts_verify"}
      /\ s'.size = net_to_host_u64(Head(c2s).size)
    BY Zenon DEF ResumePuts, Shape
<1>4. Announced'
    BY <1>1, <1>2, Zenon DEF Announced
<1>5. UploadTurns' /\ DownloadTurns'
    BY <1>1, <1>2, <1>3, Zenon DEF UploadTurns, DownloadTurns, Getting
<1>. QED
    BY <1>4, <1>5, Zenon

\* A packet less under way, and one less to come.
LEMMA ReceiveUploadDataTurns ==
    ASSUME StreamInv, OrderInv, TurnInv, ReceiveUploadData
    PROVE  TurnInv'
<1>. USE DEF StreamInv, OrderInv, TurnInv
<1>1. /\ c' = c /\ c2s # <<>> /\ s.at = "puts_data" /\ s.at \in Storing /\ IsSequence(c2s)
    BY Zenon DEF ReceiveUploadData, ServerReads, CanReceive, Storing, Shape
<1>2. CASE ServerEnds(Tail(c2s), <<Error>>)
  <2>1. <<Error>> \in {<<>>, <<Error>>, <<Ack>>}
    BY Zenon
  <2>. QED
    BY <1>1, <1>2, <2>1, ServerEndsTurns, Zenon
<1>3. CASE /\ s' = [s EXCEPT !.pos = @ + 1,
                             !.at = IF s.pos + 1 < s.size THEN "puts_data" ELSE "puts_end"]
           /\ c2s' = Tail(c2s) /\ s2c' = s2c
  <2>1. s'.at \in {"puts_data", "puts_end"} /\ s'.size = s.size /\ s'.pos = s.pos + 1
    BY <1>3, Zenon DEF Shape
  <2>2. s.pos \in Nat /\ s.size \in Int /\ c.at # "puts_resp" /\ c.at \notin Getting
    BY <1>1, Zenon DEF Store, Shape, Sending
  <2>3. Range(c2s') \subseteq Range(c2s) /\ Len(c2s) \in Nat /\ Len(c2s') = Len(c2s) - 1
    BY <1>1, <1>3, TailChannel, ChannelLength
  <2>4. s.pos + Len(c2s) = s'.pos + Len(c2s')
    BY <2>1, <2>2, <2>3
  <2>5. Len(c2s) = s.size - s.pos + 1 => Len(c2s') = s'.size - s'.pos + 1
    BY <2>1, <2>2, <2>3
  <2>6. Announced'
    BY <1>1, <2>3, Zenon DEF Announced
  <2>7. UploadTurns' /\ DownloadTurns'
    BY <1>1, <1>3, <2>1, <2>2, <2>4, <2>5, Zenon DEF UploadTurns, DownloadTurns, Storing, Getting
  <2>. QED
    BY <2>6, <2>7, Zenon
<1>. QED
    BY <1>2, <1>3, Zenon DEF ReceiveUploadData

\* The end comes when the client has sent it, and waits for the ACK.
LEMMA ReceiveUploadEndTurns ==
    ASSUME StreamInv, OrderInv, TurnInv, ReceiveUploadEnd
    PROVE  TurnInv'
<1>. USE DEF StreamInv, OrderInv, TurnInv
<1>1. /\ c' = c /\ c2s # <<>> /\ s.at = "puts_end" /\ s.at \in Storing /\ IsSequence(c2s)
    BY Zenon DEF ReceiveUploadEnd, ServerReads, CanReceive, Storing, Shape
<1>2. CASE ServerEnds(Tail(c2s), <<Error>>)
  <2>1. <<Error>> \in {<<>>, <<Error>>, <<Ack>>}
    BY Zenon
  <2>. QED
    BY <1>1, <1>2, <2>1, ServerEndsTurns, Zenon
<1>3. CASE s' = [s EXCEPT !.at = "puts_verify"] /\ c2s' = Tail(c2s) /\ s2c' = s2c
  <2>1. s'.at = "puts_verify"
    BY <1>3, Zenon DEF Shape
  <2>2. s.pos \in Nat /\ s.pos = s.size /\ c.at # "puts_resp" /\ c.at \notin Getting
    BY <1>1, Zenon DEF Store, UploadTurns, Shape, Sending
  <2>3. Range(c2s') \subseteq Range(c2s) /\ Len(c2s) \in Nat /\ Len(c2s) > 0
    BY <1>1, <1>3, TailChannel, ChannelLength
  <2>4. c.at # "puts_data"
    <3>1. c.at = "puts_data" => c.pos <= c.size /\ s.size = c.size /\ c.pos = s.pos + Len(c2s)
      BY <1>1, Zenon DEF UploadTurns
    <3>. QED
      BY <2>2, <2>3, <3>1
  <2>5. Announced'
    BY <1>1, <2>3, Zenon DEF Announced
  <2>6. UploadTurns' /\ DownloadTurns'
    BY <1>1, <1>3, <2>1, <2>2, <2>4, Zenon DEF UploadTurns, DownloadTurns, Storing, Getting
  <2>. QED
    BY <2>5, <2>6, Zenon
<1>. QED
    BY <1>2, <1>3, Zenon DEF ReceiveUploadEnd

\* The ACK is then the server's turn.
LEMMA VerifyUploadTurns ==
    ASSUME StreamInv, OrderInv, TurnInv, VerifyUpload
    PROVE  TurnInv'
<1>. USE DEF StreamInv, OrderInv, TurnInv
<1>1. c' = c /\ s.at = "puts_verify" /\ s.at \in Storing
    BY Zenon DEF VerifyUpload, Storing
<1>2. CASE ServerEnds(c2s, <<Error>>)
  <2>1. <<Error>> \in {<<>>, <<Error>>, <<Ack>>}
    BY Zenon
  <2>. QED
    BY <1>1, <1>2, <2>1, ServerEndsTurns, Zenon
<1>3. CASE s' = [s EXCEPT !.at = "puts_ack", !.linked = s.hash] /\ UNCHANGED wireVars
  <2>1. s'.at = "puts_ack" /\ c2s' = c2s /\ s2c' = s2c
    BY <1>3, Zenon DEF Shape, wireVars
  <2>2. c.at # "puts_data" /\ c.at \notin Getting
    BY <1>1, Zenon DEF UploadTurns, Shape, Sending
  <2>3. c.at = "puts_resp" => c2s = <<>> /\ s2c = <<PutsResp(c.size)>>
    BY <1>1, Zenon DEF Sending, Store, UploadTurns
  <2>4. Announced'
    BY <1>1, <2>1, Zenon DEF Announced
  <2>5. UploadTurns' /\ DownloadTurns'
    BY <1>1, <2>1, <2>2, <2>3, Zenon DEF UploadTurns, DownloadTurns, Storing, Getting
  <2>. QED
    BY <2>4, <2>5, Zenon
<1>. QED
    BY <1>2, <1>3, Zenon DEF VerifyUpload

\* What the server does for a download before the stream ends.
LEMMA ServeTurns ==
    ASSUME StreamInv, OrderInv, TurnInv, SendGetsResp \/ ReceiveResumePos \/ SendDownloadData
    PROVE  TurnInv'
<1>. USE DEF StreamInv, OrderInv, TurnInv
<1>1. c' = c /\ IsSequence(c2s)
    BY Zenon DEF SendGetsResp, ReceiveResumePos, SendDownloadData, Shape
<1>2. CASE \E unread : \E last \in {<<>>, <<Error>>} : ServerEnds(unread, last)
  <2>1. \A last \in {<<>>, <<Error>>} : last \in {<<>>, <<Error>>, <<Ack>>}
    BY Zenon
  <2>. QED
    BY <1>1, <1>2, <2>1, ServerEndsTurns, Zenon
<1>3. CASE /\ ServerReads("loop") /\ Head(c2s).type = "gets_req" /\ c2s' = Tail(c2s)
           /\ s' = [s EXCEPT !.at = "gets_resume", !.hash = row]
  <2>1. s'.at = "gets_resume" /\ s.at = "loop" /\ c2s # <<>>
    BY <1>3, Zenon DEF Shape, ServerReads, CanReceive
  <2>2. Range(c2s') \subseteq Range(c2s) /\ Head(c2s) \in Range(c2s)
    BY <1>1, <1>3, <2>1, TailChannel, Zenon
  <2>3. /\ c.at \notin {"puts_resp", "puts_data", "puts_ack", "gets_data", "gets_end"}
        /\ c.at \notin {"gets_verify", "gets_ack"}
    BY <1>3, <2>1, <2>2, Zenon DEF UploadTurns, Sending, Receiving, DownloadTurns
  <2>. QED
    BY <1>1, <2>2, <2>3, Zenon DEF Announced, UploadTurns, DownloadTurns
<1>4. CASE /\ \/ s.at = "gets_resume" /\ c2s # <<>> /\ c2s' = Tail(c2s)
              \/ s.at = "gets_data" /\ c2s' = c2s
           /\ Range(c2s') \subseteq Range(c2s) /\ s'.at = "gets_data"
    BY <1>1, <1>4, Zenon DEF Announced, UploadTurns, DownloadTurns, Storing
<1>5. CASE ReceiveResumePos
  <2>1. s.at = "gets_resume" /\ c2s # <<>>
    BY <1>5, Zenon DEF ReceiveResumePos, ServerReads, CanReceive
  <2>2. \/ \E last \in {<<>>, <<Error>>} : ServerEnds(Tail(c2s), last)
        \/ s'.at = "gets_data" /\ c2s' = Tail(c2s)
    BY <1>5, Zenon DEF ReceiveResumePos, Shape
  <2>. QED
    BY <1>1, <1>2, <1>4, <2>1, <2>2, TailChannel, Zenon
<1>6. CASE SendDownloadData
  <2>1. s.at = "gets_data" /\ s'.at = "gets_data" /\ c2s' = c2s
    BY <1>6, Zenon DEF SendDownloadData, Shape
  <2>. QED
    BY <1>4, <2>1, Zenon
<1>. QED
    BY <1>2, <1>3, <1>5, <1>6, Zenon DEF SendGetsResp

\* All that the client still expects is under way: the blocks it has not seen and the end.
LEMMA SendDownloadEndTurns ==
    ASSUME StreamInv, OrderInv, TurnInv, SendDownloadEnd
    PROVE  TurnInv'
<1>. USE DEF StreamInv, OrderInv, TurnInv
<1>1. /\ s.at = "gets_data" /\ s.pos = Len(s.data) /\ c' = c /\ c2s' = c2s /\ IsSequence(s2c)
      /\ s2c' = Sent(ClientOpen, s2c, FileEnd)
    BY Zenon DEF SendDownloadEnd, server_send, Shape
<1>2. s'.at = "gets_ack"
    BY Zenon DEF SendDownloadEnd, Shape
<1>3. ASSUME c.at \in {"gets_data", "gets_end"}
      PROVE  Len(s2c') = c.size - c.pos + 1
  <2>1. /\ c.size = c.pos + Len(s2c) /\ c.pos \in 0 .. c.size /\ s2c' = Append(s2c, FileEnd)
    BY <1>1, <1>3, Zenon DEF Receiving, Sent, ClientOpen, Ended
  <2>2. Len(s2c) \in Nat /\ Len(Append(s2c, FileEnd)) = Len(s2c) + 1
    BY <1>1, ChannelLength, Zenon
  <2>3. Len(s2c') = Len(s2c) + 1
    BY <2>1, <2>2, Zenon
  <2>. QED
    BY <2>1, <2>2, <2>3
<1>4. Announced'
    BY <1>1, Zenon DEF Announced
<1>5. UploadTurns' /\ DownloadTurns'
    BY <1>1, <1>2, <1>3, Zenon DEF UploadTurns, DownloadTurns, Storing
<1>. QED
    BY <1>4, <1>5, Zenon

\* Every step leaves a turn to one of the two.
LEMMA NextTurns ==
    ASSUME SizesFit
    PROVE  StreamInv /\ OrderInv /\ TurnInv /\ [Next]_vars => TurnInv'
<1>. SUFFICES ASSUME StreamInv, OrderInv, TurnInv, [Next]_vars PROVE TurnInv'
    BY Zenon
<1>. DEFINE words == {<<>>, <<Error>>, <<Ack>>}
<1>1. <<>> \in words /\ <<Error>> \in words /\ <<Ack>> \in words
    BY Zenon
<1>2. CASE ClientFails \/ ClientSeesEof \/ ReceiveUploadAck \/ SendDownloadAck
  <2>1. \E outcome \in {"ok", "failed"} : \E unread : \E last \in words :
            ClientEnds(outcome, unread, last)
    BY <1>1, <1>2, Zenon DEF ClientFails, ClientSeesEof, ReceiveUploadAck, SendDownloadAck
  <2>. QED
    BY <2>1, ClientEndsTurns, Zenon DEF StreamInv, TurnInv
<1>3. CASE ServerFails \/ ServerSeesEof \/ RefusePuts \/ SendUploadAck \/ ReceiveDownloadAck
  <2>1. /\ \E unread : \E last \in words : ServerEnds(unread, last)
        /\ c' = c
    BY <1>1, <1>3, Zenon DEF ServerFails, ServerSeesEof, RefusePuts, SendUploadAck,
                      ReceiveDownloadAck
  <2>. QED
    BY <2>1, ServerEndsTurns, Zenon DEF StreamInv
<1>4. CASE run_upload /\ ~ReceiveUploadAck
    BY <1>4, ConnectTurns, SendPutsReqTurns, ReceivePutsRespTurns, SendUploadDataTurns,
       SendUploadEndTurns, Zenon DEF run_upload
<1>5. CASE run_download /\ ~SendDownloadAck
    BY <1>5, ConnectTurns, ReceiveGetsRespTurns, ReceiveDownloadDataTurns,
       DownloadEndsTurns, Zenon DEF run_download
<1>6. CASE handle_puts /\ ~RefusePuts /\ ~SendUploadAck
    BY <1>6, LinkStoredTurns, ResumePutsTurns, ReceiveUploadDataTurns, ReceiveUploadEndTurns,
       VerifyUploadTurns, Zenon DEF handle_puts
<1>7. CASE handle_gets /\ ~ReceiveDownloadAck
    BY <1>7, ServeTurns, SendDownloadEndTurns, Zenon DEF handle_gets
<1>8. CASE Environment \/ UNCHANGED vars
  <2>1. c' = c /\ s' = s /\ c2s' = c2s /\ s2c' = s2c
    BY <1>8, Zenon DEF Environment, Change, vars, wireVars
  <2>. QED
    BY <2>1, Zenon DEF TurnInv, Announced, UploadTurns, DownloadTurns
<1>. QED
    BY <1>2, <1>3, <1>4, <1>5, <1>6, <1>7, <1>8, Zenon DEF Next, ClientStep, ServerStep

\* There is always one end of a transfer that does not wait for the other, whatever the
\* contents, the buffers of the sockets and the changes meanwhile, as long as no file outgrows
\* the size field (send_n and recv_n in task_recv, handle_puts and handle_gets).
THEOREM EndsNeverBothWait ==
    ASSUME SizesFit
    PROVE  Spec => []NeverBothWait
<1>1. StreamInv /\ OrderInv /\ TurnInv => NeverBothWait
  <2>. SUFFICES ASSUME StreamInv, OrderInv, TurnInv, ClientWaits, ServerWaits PROVE FALSE
    BY Zenon DEF NeverBothWait
  <2>. USE DEF StreamInv, OrderInv, TurnInv
  <2>1. /\ \A q : Len(q) >= Cap => q # <<>>
        /\ s.at # "closed"
    BY StreamAssumption DEF ClientWaits, ServerOpen
  <2>2. CASE c.at = "hashing"
    BY <2>1, <2>2, Zenon DEF ClientWaits, Upload
  <2>3. CASE c.at = "puts_resp"
    <3>1. s2c = <<>> \/ c2s # <<>>
      BY <2>1, <2>3, Zenon DEF ClientWaits
    <3>2. \A p : <<p>> # <<>>
      BY SinglePacket, Zenon
    <3>3. s.at \notin Storing /\ s.at # "puts_ack"
      BY <2>3, <3>1, <3>2, Zenon DEF UploadTurns, Sending
    <3>4. s.at = "loop" /\ c2s # <<>> /\ s2c = <<>>
      BY <2>1, <2>3, <3>3, Zenon DEF UploadTurns, Sending, Storing
    <3>. QED
      BY <2>1, <3>4, Zenon DEF ServerWaits
  <2>4. CASE c.at = "puts_data"
    <3>1. s.at \in {"puts_data", "puts_end"} /\ c2s # <<>> /\ s2c = <<>>
      BY <2>1, <2>4, Zenon DEF ClientWaits, UploadTurns
    <3>. QED
      BY <2>1, <3>1, Zenon DEF ServerWaits
  <2>5. CASE c.at = "puts_ack"
    <3>1. s2c = <<>> /\ s.at \in {"puts_data", "puts_end", "puts_verify", "puts_ack"}
      BY <2>1, <2>5, Zenon DEF ClientWaits, UploadTurns, Storing
    <3>2. c2s = <<>> /\ s.at \in {"puts_data", "puts_end"}
      BY <2>1, <3>1, Zenon DEF ServerWaits
    <3>3. /\ Len(c2s) = s.size - s.pos + 1 /\ s.size \in Int /\ s.pos \in Nat
          /\ IF s.at = "puts_data" THEN s.pos < s.size ELSE s.pos = s.size
      BY <2>5, <3>2, Zenon DEF UploadTurns, Store, Storing, Shape
    <3>4. Len(<<>>) = 0
      OBVIOUS
    <3>. QED
      BY <3>2, <3>3, <3>4
  <2>6. CASE c.at = "gets_resp"
    <3>1. CASE s.at = "loop"
      BY <2>1, <2>6, <3>1, SinglePacket, Zenon DEF ServerWaits, Receiving
    <3>2. CASE s.at = "gets_resume"
      BY <2>1, <2>6, <3>2, SinglePacket, Zenon DEF ClientWaits, Receiving
    <3>. QED
      BY <2>1, <2>6, <3>1, <3>2, Zenon DEF Receiving
  <2>7. CASE c.at \in {"gets_data", "gets_end"}
    <3>1. s.at \in {"gets_data", "gets_ack"} /\ c2s = <<>>
      BY <2>1, <2>7, Zenon DEF ServerWaits, Receiving, DownloadTurns
    <3>2. s2c = <<>> /\ s.at = "gets_ack"
      BY <2>1, <2>7, <3>1, Zenon DEF ClientWaits, ServerWaits
    <3>3. Len(s2c) = c.size - c.pos + 1 /\ c.size \in Int /\ c.pos \in 0 .. c.size
      BY <2>7, <3>2, Zenon DEF DownloadTurns, Receiving, Shape
    <3>4. Len(<<>>) = 0
      OBVIOUS
    <3>. QED
      BY <3>2, <3>3, <3>4
  <2>8. CASE c.at \in {"gets_verify", "gets_ack"}
    BY <2>1, <2>8, Zenon DEF ClientWaits, DownloadTurns
  <2>. QED
    BY <2>2, <2>3, <2>4, <2>5, <2>6, <2>7, <2>8, Zenon DEF ClientWaits
<1>2. Init => StreamInv /\ OrderInv /\ TurnInv
  <2>. SUFFICES ASSUME Init PROVE TurnInv
    BY InitInv, InitOrder, Zenon
  <2>1. c.at = "none" /\ Range(c2s) = {}
    BY EmptyChannel, Zenon DEF Init
  <2>. QED
    BY <2>1, Zenon DEF TurnInv, Announced, UploadTurns, DownloadTurns, Putting
<1>3. StreamInv /\ OrderInv /\ TurnInv /\ [Next]_vars => (StreamInv /\ OrderInv /\ TurnInv)'
    BY NextInv, NextOrder, NextTurns, Zenon
<1>. QED
    BY <1>1, <1>2, <1>3, PTL DEF Spec

-----------------------------------------------------------------------------
(* How far the ends are from done.                                         *)

\* The places of run_upload and run_download in the order in which they are passed, and
\* those of handle_puts and handle_gets.
ClientRank == [hashing |-> 6, puts_resp |-> 5, gets_resp |-> 5, puts_data |-> 4,
               gets_data |-> 4, gets_end |-> 3, gets_verify |-> 2, puts_ack |-> 1,
               gets_ack |-> 1]
ServerRank == [loop |-> 5, gets_resume |-> 4, puts_data |-> 4, gets_data |-> 3,
               puts_end |-> 3, puts_verify |-> 2, puts_ack |-> 1, gets_ack |-> 1]

\* Blocks that an end has still to send or to receive.
ClientLeft == c.size - c.pos
ServerLeft == IF s.at = "gets_data" THEN Len(s.data) - s.pos ELSE s.size - s.pos

ClientAdvances ==
    /\ ClientOpen
    /\ \/ ~ClientOpen'
       \/ ClientRank[c'.at] < ClientRank[c.at]
       \/ c'.at = c.at /\ ClientLeft' \in Nat /\ ClientLeft' < ClientLeft

ServerAdvances ==
    /\ ServerOpen
    /\ \/ ~ServerOpen'
       \/ ServerRank[s'.at] < ServerRank[s.at]
       \/ s'.at = s.at /\ ServerLeft' \in Nat /\ ServerLeft' < ServerLeft

Connects == StartUpload \/ StartDownload

\* Until the next connection, a step of an end brings that end closer to its close, and no
\* step takes the other one back: no loop of run_upload, run_download, handle_puts or
\* handle_gets is without end.
StepAdvances ==
    \/ Connects
    \/ /\ c' = c \/ ClientAdvances
       /\ s' = s \/ ServerAdvances
       /\ ClientStep => ClientAdvances
       /\ ServerStep => ServerAdvances

\* The server reads an open file from a position that is a number.
Reading ==
    /\ \A p \in Range(c2s) : p.type = "resume_pos" => p.offset \in Nat
    /\ s.at = "gets_resume" => s.hash \in Versions
    /\ s.at = "gets_data" => s.pos \in Nat /\ Len(s.data) \in Nat

\* A later place has a lower rank.
LEMMA Ranks ==
    /\ ClientRank["puts_resp"] < ClientRank["hashing"]
    /\ ClientRank["puts_data"] < ClientRank["puts_resp"]
    /\ ClientRank["puts_ack"] < ClientRank["puts_resp"]
    /\ ClientRank["puts_ack"] < ClientRank["puts_data"]
    /\ ClientRank["gets_data"] < ClientRank["gets_resp"]
    /\ ClientRank["gets_end"] < ClientRank["gets_resp"]
    /\ ClientRank["gets_end"] < ClientRank["gets_data"]
    /\ ClientRank["gets_verify"] < ClientRank["gets_end"]
    /\ ClientRank["gets_ack"] < ClientRank["gets_end"]
    /\ ClientRank["gets_ack"] < ClientRank["gets_verify"]
    /\ ServerRank["puts_ack"] < ServerRank["loop"]
    /\ ServerRank["puts_data"] < ServerRank["loop"]
    /\ ServerRank["puts_verify"] < ServerRank["loop"]
    /\ ServerRank["puts_end"] < ServerRank["puts_data"]
    /\ ServerRank["puts_verify"] < ServerRank["puts_end"]
    /\ ServerRank["puts_ack"] < ServerRank["puts_verify"]
    /\ ServerRank["gets_resume"] < ServerRank["loop"]
    /\ ServerRank["gets_data"] < ServerRank["gets_resume"]
    /\ ServerRank["gets_ack"] < ServerRank["gets_data"]
BY DEF ClientRank, ServerRank

\* The client, one step per place.
LEMMA ClientStepAdvances ==
    ASSUME StreamInv, OrderInv, ClientStep, ~Connects
    PROVE  ClientAdvances
<1>. USE DEF StreamInv, OrderInv
<1>. DEFINE Goes(from, to) == c.at = from /\ c'.at = to
<1>1. CASE /\ ClientOpen
           /\ \E outcome \in {"ok", "failed"} : \E unread, last :
                  ClientEnds(outcome, unread, last)
  <2>1. c'.at \in {"ok", "failed"}
    BY <1>1, Zenon DEF ClientEnds, Shape
  <2>. QED
    BY <1>1, <2>1, Zenon DEF ClientAdvances, ClientOpen, Ended
<1>2. CASE \/ Goes("hashing", "puts_resp") \/ Goes("puts_resp", "puts_data")
           \/ Goes("puts_resp", "puts_ack") \/ Goes("puts_data", "puts_ack")
           \/ Goes("gets_resp", "gets_data") \/ Goes("gets_resp", "gets_end")
           \/ Goes("gets_data", "gets_end") \/ Goes("gets_end", "gets_verify")
           \/ Goes("gets_end", "gets_ack") \/ Goes("gets_verify", "gets_ack")
    BY <1>2, Ranks, Zenon DEF ClientAdvances, ClientOpen, Ended
<1>3. CASE /\ c.at \in {"puts_data", "gets_data"} /\ c'.at = c.at /\ c'.size = c.size
           /\ c'.pos = c.pos + 1 /\ c.pos < c.size
  <2>1. c.size \in Int /\ c.pos \in Nat
    BY <1>3 DEF Shape, Blocks, Receiving
  <2>2. ClientLeft' \in Nat /\ ClientLeft' < ClientLeft
    BY <1>3, <2>1 DEF ClientLeft
  <2>. QED
    BY <1>3, <2>2, Zenon DEF ClientAdvances, ClientOpen, Ended
<1>4. CASE ClientSeesEof \/ ReceiveUploadAck \/ SendDownloadAck
  <2>1. ClientOpen
    BY <1>4, Zenon DEF ClientSeesEof, ReceiveUploadAck, SendDownloadAck, ClientReads,
                       ClientOpen, Ended
  <2>. QED
    BY <1>1, <1>4, <2>1, Zenon DEF ClientSeesEof, ReceiveUploadAck, SendDownloadAck
<1>5. CASE SendPutsReq
    BY <1>2, <1>5, Zenon DEF SendPutsReq, Shape
<1>6. CASE ReceivePutsResp
  <2>1. c.at = "puts_resp" /\ ClientOpen
    BY <1>6, Zenon DEF ReceivePutsResp, ClientReads, ClientOpen, Ended
  <2>2. \/ \E unread, last : ClientEnds("failed", unread, last)
        \/ c'.at \in {"puts_data", "puts_ack"}
    BY <1>6, Zenon DEF ReceivePutsResp, Shape
  <2>. QED
    BY <1>1, <1>2, <2>1, <2>2, Zenon
<1>7. CASE SendUploadData
  <2>1. c.at = "puts_data" /\ ClientOpen /\ c.pos < c.size
    BY <1>7, Zenon DEF SendUploadData, ClientOpen, Ended
  <2>2. \/ \E unread, last : ClientEnds("failed", unread, last)
        \/ c'.at = c.at /\ c'.size = c.size /\ c'.pos = c.pos + 1
    BY <1>7, Zenon DEF SendUploadData, Shape
  <2>. QED
    BY <1>1, <1>3, <2>1, <2>2, Zenon
<1>8. CASE SendUploadEnd
    BY <1>2, <1>8, Zenon DEF SendUploadEnd, Shape
<1>9. CASE ReceiveGetsResp
  <2>1. c.at = "gets_resp" /\ ClientOpen
    BY <1>9, Zenon DEF ReceiveGetsResp, ClientReads, ClientOpen, Ended
  <2>2. \/ \E unread, last : ClientEnds("failed", unread, last)
        \/ c'.at \in {"gets_data", "gets_end"}
    BY <1>9, Zenon DEF ReceiveGetsResp, Shape
  <2>. QED
    BY <1>1, <1>2, <2>1, <2>2, Zenon
<1>10. CASE ReceiveDownloadData
  <2>1. c.at = "gets_data" /\ ClientOpen /\ c.pos < c.size
    BY <1>10, Zenon DEF ReceiveDownloadData, ClientReads, ClientOpen, Ended, Receiving
  <2>2. \/ \E unread, last : ClientEnds("failed", unread, last)
        \/ /\ c'.at \in {"gets_data", "gets_end"} /\ c'.size = c.size /\ c'.pos = c.pos + 1
    BY <1>10, Zenon DEF ReceiveDownloadData, Shape
  <2>. QED
    BY <1>1, <1>2, <1>3, <2>1, <2>2, Zenon
<1>11. CASE ReceiveDownloadEnd
  <2>1. c.at = "gets_end" /\ ClientOpen
    BY <1>11, Zenon DEF ReceiveDownloadEnd, ClientReads, ClientOpen, Ended
  <2>2. \/ \E unread, last : ClientEnds("failed", unread, last)
        \/ c'.at \in {"gets_verify", "gets_ack"}
    BY <1>11, Zenon DEF ReceiveDownloadEnd, Shape
  <2>. QED
    BY <1>1, <1>2, <2>1, <2>2, Zenon
<1>12. CASE VerifyDownload
  <2>1. c.at = "gets_verify" /\ ClientOpen
    BY <1>12, Zenon DEF VerifyDownload, ClientOpen, Ended
  <2>2. \/ \E unread, last : ClientEnds("failed", unread, last)
        \/ c'.at = "gets_ack"
    BY <1>12, Zenon DEF VerifyDownload, Shape
  <2>. QED
    BY <1>1, <1>2, <2>1, <2>2, Zenon
<1>. QED
    BY <1>4, <1>5, <1>6, <1>7, <1>8, <1>9, <1>10, <1>11, <1>12, Zenon
       DEF ClientStep, run_upload, run_download, Connects

\* The server, likewise.
LEMMA ServerStepAdvances ==
    ASSUME StreamInv, Reading, ServerStep
    PROVE  ServerAdvances
<1>. USE DEF StreamInv
<1>. DEFINE Goes(from, to) == s.at = from /\ s'.at = to
<1>1. CASE ServerOpen /\ \E unread, last : ServerEnds(unread, last)
  <2>1. s'.at = "closed"
    BY <1>1, Zenon DEF ServerEnds, Shape
  <2>. QED
    BY <1>1, <2>1, Zenon DEF ServerAdvances, ServerOpen
<1>2. CASE \/ Goes("loop", "puts_ack") \/ Goes("loop", "puts_data")
           \/ Goes("loop", "puts_verify") \/ Goes("puts_data", "puts_end")
           \/ Goes("puts_end", "puts_verify") \/ Goes("puts_verify", "puts_ack")
           \/ Goes("loop", "gets_resume") \/ Goes("gets_resume", "gets_data")
           \/ Goes("gets_data", "gets_ack")
    BY <1>2, Ranks, Zenon DEF ServerAdvances, ServerOpen
<1>3. ASSUME s'.at = s.at, s.at # "closed", NEW n \in Int, ServerLeft = n - s.pos,
             ServerLeft' = n - s'.pos, s.pos \in Nat, s.pos < n, s'.pos = s.pos + 1
      PROVE  ServerAdvances
  <2>1. ServerLeft' \in Nat /\ ServerLeft' < ServerLeft
    BY <1>3
  <2>. QED
    BY <1>3, <2>1, Zenon DEF ServerAdvances, ServerOpen
<1>4. CASE ServerSeesEof \/ RefusePuts \/ SendUploadAck \/ ReceiveDownloadAck
  <2>1. ServerOpen
    BY <1>4, Zenon DEF ServerSeesEof, RefusePuts, SendUploadAck, ReceiveDownloadAck,
                       ServerReads, ServerOpen
  <2>. QED
    BY <1>1, <1>4, <2>1, Zenon DEF ServerSeesEof, RefusePuts, SendUploadAck, ReceiveDownloadAck
<1>5. CASE LinkStored
    BY <1>2, <1>5, Zenon DEF LinkStored, ServerReads, Shape
<1>6. CASE ResumePuts
  <2>1. s.at = "loop" /\ s'.at \in {"puts_data", "puts_verify"}
    BY <1>6, Zenon DEF ResumePuts, ServerReads, Shape
  <2>. QED
    BY <1>2, <2>1, Zenon
<1>7. CASE ReceiveUploadData
  <2>1. s.at = "puts_data" /\ ServerOpen /\ s.pos \in Nat /\ s.pos < s.size /\ s.size \in Int
    BY <1>7, Zenon DEF ReceiveUploadData, ServerReads, ServerOpen, Store, Storing, Shape
  <2>2. \/ \E unread, last : ServerEnds(unread, last)
        \/ /\ s'.at \in {"puts_data", "puts_end"} /\ s'.size = s.size /\ s'.pos = s.pos + 1
    BY <1>7, Zenon DEF ReceiveUploadData, Shape
  <2>3. s'.at = "puts_data" /\ s'.size = s.size =>
          ServerLeft = s.size - s.pos /\ ServerLeft' = s.size - s'.pos
    BY <2>1, Zenon DEF ServerLeft
  <2>. QED
    BY <1>1, <1>2, <1>3, <2>1, <2>2, <2>3, Zenon
<1>8. CASE ReceiveUploadEnd
  <2>1. s.at = "puts_end" /\ ServerOpen
    BY <1>8, Zenon DEF ReceiveUploadEnd, ServerReads, ServerOpen
  <2>2. (\E unread, last : ServerEnds(unread, last)) \/ s'.at = "puts_verify"
    BY <1>8, Zenon DEF ReceiveUploadEnd, Shape
  <2>. QED
    BY <1>1, <1>2, <2>1, <2>2, Zenon
<1>9. CASE VerifyUpload
  <2>1. s.at = "puts_verify" /\ ServerOpen
    BY <1>9, Zenon DEF VerifyUpload, ServerOpen
  <2>2. (\E unread, last : ServerEnds(unread, last)) \/ s'.at = "puts_ack"
    BY <1>9, Zenon DEF VerifyUpload, Shape
  <2>. QED
    BY <1>1, <1>2, <2>1, <2>2, Zenon
<1>10. CASE SendGetsResp
  <2>1. s.at = "loop" /\ ServerOpen
    BY <1>10, Zenon DEF SendGetsResp, ServerReads, ServerOpen
  <2>2. (\E unread, last : ServerEnds(unread, last)) \/ s'.at = "gets_resume"
    BY <1>10, Zenon DEF SendGetsResp, Shape
  <2>. QED
    BY <1>1, <1>2, <2>1, <2>2, Zenon
<1>11. CASE ReceiveResumePos
  <2>1. s.at = "gets_resume" /\ ServerOpen
    BY <1>11, Zenon DEF ReceiveResumePos, ServerReads, ServerOpen
  <2>2. (\E unread, last : ServerEnds(unread, last)) \/ s'.at = "gets_data"
    BY <1>11, Zenon DEF ReceiveResumePos, Shape
  <2>. QED
    BY <1>1, <1>2, <2>1, <2>2, Zenon
<1>12. CASE SendDownloadData
  <2>1. /\ s.at = "gets_data" /\ s.pos \in Nat /\ s.pos < Len(s.data) /\ Len(s.data) \in Int
    BY <1>12 DEF SendDownloadData, Reading
  <2>2. s'.at = "gets_data" /\ s'.data = s.data /\ s'.pos = s.pos + 1
    BY <1>12, <2>1, Zenon DEF SendDownloadData, Shape
  <2>3. ServerLeft = Len(s.data) - s.pos /\ ServerLeft' = Len(s.data) - s'.pos
    BY <2>1, <2>2, Zenon DEF ServerLeft
  <2>. QED
    BY <1>3, <2>1, <2>2, <2>3, Zenon
<1>13. CASE SendDownloadEnd
    BY <1>2, <1>13, Zenon DEF SendDownloadEnd, Shape
<1>. QED
    BY <1>4, <1>5, <1>6, <1>7, <1>8, <1>9, <1>10, <1>11, <1>12, <1>13, Zenon
       DEF ServerStep, handle_puts, handle_gets

\* The position to resume from is a number, also when the client has gone since.
LEMMA ReceiveGetsRespReading ==
    ASSUME SizesFit, StreamInv, OrderInv, Reading, ReceiveGetsResp
    PROVE  Reading'
<1>. USE DEF StreamInv, OrderInv
<1>. DEFINE packet == Head(s2c)
            size == net_to_host_u64(packet.size)
            final == hash_matches(target, size, packet.hash)
            offset == IF final THEN size ELSE PartOffset(size)
<1>1. c.at = "gets_resp" /\ s2c # <<>> /\ s' = s /\ IsSequence(c2s) /\ IsSequence(s2c)
    BY Zenon DEF ReceiveGetsResp, ClientReads, CanReceive, Shape
<1>2. ASSUME NEW last, last \in {<<>>, <<Error>>, <<Ack>>}, ClientEnds("failed", Tail(s2c), last)
      PROVE  Reading'
  <2>1. Range(c2s') \subseteq Range(c2s) \cup {Error, Ack}
    BY <1>2, ClientEndsWire, Zenon
  <2>2. Error.type = "error" /\ Ack.type = "ack"
    BY Zenon DEF Error, Ack
  <2>. QED
    BY <1>1, <2>1, <2>2, Zenon DEF Reading
<1>3. ASSUME packet.type = "gets_resp", client_send(ResumePos(offset))
      PROVE  Reading'
  <2>1. packet \in Range(s2c)
    BY <1>1, TailChannel, Zenon
  <2>2. packet.hash \in Versions /\ packet.size = host_to_net_u64(Len(Content[packet.hash]))
    BY <1>1, <1>3, <2>1, Zenon DEF Shape, Receiving
  <2>3. Len(Content[packet.hash]) \in Nat /\ Len(Content[packet.hash]) < Half * Half
    BY <2>2, ContentBlocks, Zenon DEF SizesFit
  <2>4. size \in Nat
    BY <2>2, <2>3, RoundTrip, Zenon
  <2>5. part # NoFile => Len(part) \in Nat
    BY LenProperties, Zenon DEF Blocks, IsFile
  <2>. HIDE DEF packet, size, final
  <2>6. offset \in Nat
    BY <2>4, <2>5 DEF PartOffset
  <2>. HIDE DEF offset
  <2>7. host_to_net_u64(offset) \in Nat
    BY <2>6, ConversionInt
  <2>8. ResumePos(offset).offset = host_to_net_u64(offset)
    BY Zenon DEF ResumePos
  <2>9. c2s' = Sent(ServerOpen, c2s, ResumePos(offset)) /\ ServerOpen \in BOOLEAN
    BY <1>3, Zenon DEF client_send, ServerOpen
  <2>10. Range(c2s') \subseteq Range(c2s) \cup {ResumePos(offset)}
    BY <1>1, <2>9, SentWire, Zenon
  <2>. QED
    BY <1>1, <2>7, <2>8, <2>10, Zenon DEF Reading
<1>4. \A last \in {<<>>, <<Error>>} : last \in {<<>>, <<Error>>, <<Ack>>}
    BY Zenon
<1>. QED
    BY <1>2, <1>3, <1>4, Zenon DEF ReceiveGetsResp

\* An open file is one of the store.
LEMMA ServerReading ==
    ASSUME StreamInv, Reading, ServerStep \/ ServerFails
    PROVE  Reading'
<1>. USE DEF StreamInv
<1>1. IsSequence(c2s)
    BY Zenon DEF Shape
<1>2. CASE \E unread, last : ServerEnds(unread, last)
  <2>1. s'.at = "closed" /\ c2s' = <<>>
    BY <1>2, Zenon DEF ServerEnds, Shape
  <2>. QED
    BY <2>1, EmptyChannel, Zenon DEF Reading
<1>3. CASE /\ (c2s # <<>> /\ c2s' = Tail(c2s)) \/ c2s' = c2s
           /\ s'.at \notin {"gets_resume", "gets_data"}
    BY <1>1, <1>3, TailChannel, Zenon DEF Reading
<1>4. CASE handle_puts
  <2>1. \/ \E unread, last : ServerEnds(unread, last)
        \/ /\ (c2s # <<>> /\ c2s' = Tail(c2s)) \/ c2s' = c2s
           /\ s'.at \in {"puts_data", "puts_end", "puts_verify", "puts_ack"}
    BY <1>4, Zenon DEF handle_puts, RefusePuts, LinkStored, ResumePuts, ReceiveUploadData,
                       ReceiveUploadEnd, VerifyUpload, SendUploadAck, ServerReads, CanReceive,
                       Shape, wireVars
  <2>. QED
    BY <1>2, <1>3, <2>1, Zenon
<1>5. CASE SendGetsResp
  <2>1. \/ \E unread, last : ServerEnds(unread, last)
        \/ /\ c2s # <<>> /\ c2s' = Tail(c2s)
           /\ s'.at = "gets_resume" /\ s'.hash \in Versions
    BY <1>5, Zenon DEF SendGetsResp, ServerReads, CanReceive, Shape
  <2>. QED
    BY <1>1, <1>2, <2>1, TailChannel, Zenon DEF Reading
<1>6. CASE ReceiveResumePos
  <2>. DEFINE offset == net_to_host_u64(Head(c2s).offset)
  <2>1. /\ s.at = "gets_resume" /\ c2s # <<>> /\ s.hash \in Versions
        /\ stored[s.hash] # NoFile => stored[s.hash] = Content[s.hash]
    BY <1>6, Zenon DEF ReceiveResumePos, ServerReads, CanReceive, Reading, Store, StoreHonest
  <2>2. Range(Tail(c2s)) \subseteq Range(c2s) /\ Head(c2s) \in Range(c2s)
    BY <1>1, <2>1, TailChannel, Zenon
  <2>3. Head(c2s).type = "resume_pos" => offset \in Nat
    <3>1. \A n \in Nat : net_to_host_u64(n) \in Nat
      BY ConversionInt
    <3>. QED
      BY <2>2, <3>1, Zenon DEF Reading
  <2>4. \/ \E unread, last : ServerEnds(unread, last)
        \/ /\ Head(c2s).type = "resume_pos" /\ stored[s.hash] # NoFile /\ c2s' = Tail(c2s)
           /\ s'.at = "gets_data" /\ s'.pos = offset /\ s'.data = stored[s.hash]
    BY <1>6, Zenon DEF ReceiveResumePos, Shape
  <2>5. Len(Content[s.hash]) \in Nat
    BY <2>1, ContentBlocks, Zenon
  <2>. HIDE DEF offset
  <2>. QED
    BY <1>2, <2>1, <2>2, <2>3, <2>4, <2>5, Zenon DEF Reading
<1>7. CASE SendDownloadData
  <2>1. /\ s.at = "gets_data" /\ c2s' = c2s
        /\ s'.at = "gets_data" /\ s'.pos = s.pos + 1 /\ s'.data = s.data
    BY <1>7, Zenon DEF SendDownloadData, Shape
  <2>2. s.pos \in Nat /\ s.pos + 1 \in Nat /\ Len(s.data) \in Nat
    BY <2>1 DEF Reading
  <2>. QED
    BY <2>1, <2>2, Zenon DEF Reading
<1>8. CASE SendDownloadEnd
    BY <1>3, <1>8, Zenon DEF SendDownloadEnd, Shape
<1>9. CASE ServerSeesEof \/ ServerFails \/ ReceiveDownloadAck
    BY <1>2, <1>9, Zenon DEF ServerSeesEof, ServerFails, ReceiveDownloadAck
<1>. QED
    BY <1>4, <1>5, <1>6, <1>7, <1>8, <1>9, Zenon DEF ServerStep, handle_gets

\* Nothing else is read from, and no other packet holds a position.
LEMMA NextReading ==
    ASSUME SizesFit
    PROVE  StreamInv /\ OrderInv /\ Reading /\ [Next]_vars => Reading'
<1>. SUFFICES ASSUME StreamInv, OrderInv, Reading, [Next]_vars PROVE Reading'
    BY Zenon
<1>. DEFINE words == {<<>>, <<Error>>, <<Ack>>}
<1>1. <<>> \in words /\ <<Error>> \in words /\ <<Ack>> \in words
    BY Zenon
<1>2. Shape
    BY Zenon DEF StreamInv
<1>3. CASE /\ \E outcome \in {"ok", "failed"} : \E unread : \E last \in words :
                  ClientEnds(outcome, unread, last)
           /\ s' = s
  <2>1. Range(c2s') \subseteq Range(c2s) \cup {Error, Ack}
    BY <1>2, <1>3, ClientEndsWire, Zenon
  <2>2. Error.type = "error" /\ Ack.type = "ack"
    BY Zenon DEF Error, Ack
  <2>. QED
    BY <1>3, <2>1, <2>2, Zenon DEF Reading
<1>4. CASE (\E p : p.type # "resume_pos" /\ client_send(p)) /\ s' = s
  <2>1. PICK p : p.type # "resume_pos" /\ client_send(p)
    BY <1>4, Zenon
  <2>2. IsSequence(c2s) /\ c2s' = Sent(ServerOpen, c2s, p) /\ ServerOpen \in BOOLEAN
    BY <1>2, <2>1, Zenon DEF Shape, client_send, ServerOpen
  <2>3. Range(c2s') \subseteq Range(c2s) \cup {p}
    BY <2>2, SentWire, Zenon
  <2>. QED
    BY <1>4, <2>1, <2>3, Zenon DEF Reading
<1>5. CASE c2s' = c2s /\ s' = s
    BY <1>5, Zenon DEF Reading
<1>6. CASE StartUpload \/ StartDownload
  <2>1. /\ s' = [at |-> "loop", hash |-> NoVersion, size |-> 0, pos |-> 0, data |-> <<>>,
                 linked |-> NoVersion]
        /\ c2s' \in {<<>>, <<GetsReq>>}
    BY <1>6, Zenon DEF StartUpload, StartDownload, Connect
  <2>2. s'.at = "loop"
    BY <2>1
  <2>3. Range(c2s') \subseteq {GetsReq}
    BY <2>1, EmptyChannel, SinglePacket, Zenon
  <2>4. GetsReq.type = "gets_req"
    BY Zenon DEF GetsReq
  <2>. QED
    BY <2>2, <2>3, <2>4, Zenon DEF Reading
<1>7. CASE ClientFails \/ ClientSeesEof \/ ReceiveUploadAck \/ SendDownloadAck
    BY <1>1, <1>3, <1>7, Zenon DEF ClientFails, ClientSeesEof, ReceiveUploadAck, SendDownloadAck
<1>8. CASE SendPutsReq \/ SendUploadEnd
  <2>1. PutsReq(source, c.size).type # "resume_pos" /\ FileEnd.type # "resume_pos"
    BY Zenon DEF PutsReq, FileEnd
  <2>. QED
    BY <1>4, <1>8, <2>1, Zenon DEF SendPutsReq, SendUploadEnd
<1>9. CASE SendUploadData
  <2>1. FileData(Content[source][c.pos + 1]).type # "resume_pos"
    BY Zenon DEF FileData
  <2>. QED
    BY <1>1, <1>3, <1>4, <1>9, <2>1, Zenon DEF SendUploadData
<1>10. CASE ReceivePutsResp
    BY <1>1, <1>3, <1>5, <1>10, Zenon DEF ReceivePutsResp
<1>11. CASE ReceiveDownloadData \/ ReceiveDownloadEnd \/ VerifyDownload
    BY <1>1, <1>3, <1>5, <1>11, Zenon DEF ReceiveDownloadData, ReceiveDownloadEnd,
                                       VerifyDownload, wireVars
<1>12. CASE Environment \/ UNCHANGED vars
    BY <1>5, <1>12, Zenon DEF Environment, Change, vars, wireVars
<1>. QED
    BY <1>6, <1>7, <1>8, <1>9, <1>10, <1>11, <1>12, ReceiveGetsRespReading, ServerReading, Zenon
       DEF Next, ClientStep, run_upload, run_download

\* No end goes round in circles: whatever fails or changes meanwhile, a connection is over
\* after boundedly many steps of its two ends, as each step of run_upload, run_download,
\* handle_puts and handle_gets leaves less to do.
THEOREM StepsAdvance ==
    ASSUME SizesFit
    PROVE  Spec => [][StepAdvances]_vars
<1>1. StreamInv /\ OrderInv /\ Reading /\ [Next]_vars => [StepAdvances]_vars
  <2>. SUFFICES ASSUME StreamInv, OrderInv, Reading, Next, ~Connects PROVE StepAdvances
    BY Zenon DEF StepAdvances
  <2>1. ClientStep => ClientAdvances /\ s' = s
    <3>1. ClientStep => s' = s
      BY Zenon DEF ClientStep, run_upload, run_download, Connects, SendPutsReq,
           ReceivePutsResp, SendUploadData, SendUploadEnd, ReceiveUploadAck, ReceiveGetsResp,
           ReceiveDownloadData, ReceiveDownloadEnd, VerifyDownload, SendDownloadAck,
           ClientSeesEof
    <3>. QED
      BY <3>1, ClientStepAdvances, Zenon
  <2>2. ServerStep => ServerAdvances /\ c' = c
    <3>1. ServerStep => c' = c
      BY Zenon DEF ServerStep, handle_puts, handle_gets, RefusePuts, LinkStored, ResumePuts,
           ReceiveUploadData, ReceiveUploadEnd, VerifyUpload, SendUploadAck, SendGetsResp,
           ReceiveResumePos, SendDownloadData, SendDownloadEnd, ReceiveDownloadAck,
           ServerSeesEof
    <3>. QED
      BY <3>1, ServerStepAdvances, Zenon
  <2>3. ClientFails => ClientAdvances /\ s' = s
    <3>. SUFFICES ASSUME ClientFails PROVE ClientAdvances /\ s' = s
      BY Zenon
    <3>1. ClientOpen /\ s' = s /\ c'.at = "failed"
      BY Zenon DEF ClientFails, ClientEnds, StreamInv, Shape
    <3>. QED
      BY <3>1, Zenon DEF ClientAdvances, ClientOpen, Ended
  <2>4. ServerFails => ServerAdvances /\ c' = c
    <3>. SUFFICES ASSUME ServerFails PROVE ServerAdvances /\ c' = c
      BY Zenon
    <3>1. ServerOpen /\ c' = c /\ s'.at = "closed"
      BY Zenon DEF ServerFails, ServerEnds, StreamInv, Shape
    <3>. QED
      BY <3>1, Zenon DEF ServerAdvances, ServerOpen
  <2>5. Environment => c' = c /\ s' = s
    BY Zenon DEF Environment, Change
  <2>. QED
    BY <2>1, <2>2, <2>3, <2>4, <2>5, Zenon DEF Next, StepAdvances
<1>2. Init => StreamInv /\ OrderInv /\ Reading
  <2>. SUFFICES ASSUME Init PROVE Reading
    BY InitInv, InitOrder, Zenon
  <2>1. s.at = "closed" /\ Range(c2s) = {}
    BY EmptyChannel, Zenon DEF Init
  <2>. QED
    BY <2>1, Zenon DEF Reading
<1>3. StreamInv /\ OrderInv /\ Reading /\ [Next]_vars => (StreamInv /\ OrderInv /\ Reading)'
    BY NextInv, NextOrder, NextReading, Zenon
<1>. QED
    BY <1>1, <1>2, <1>3, PTL DEF Spec
=============================================================================
