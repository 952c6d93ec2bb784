--------------------------- MODULE TransferStream ---------------------------
(***************************************************************************)
(* The conversation of one transfer: run_upload and run_download in the    *)
(* client (src/client/transfer.c) with handle_puts and handle_gets in the  *)
(* server (src/server/handler_transfer.c), over one connection that may    *)
(* break anywhere, in several attempts that resume what an earlier one     *)
(* left behind: the client's .part file and the server's.                  *)
(*                                                                         *)
(* A version is a content a file may have, a sequence of blocks, and       *)
(* stands for its SHA-256 too.  A packet of data holds one block.  One     *)
(* local file is uploaded to, and one local target downloaded from, one    *)
(* remote path.  What others do meanwhile is the environment: the path is  *)
(* removed or published again, the local file is changed.  The commands of *)
(* the server are atomic here; ContentStore has their interleavings.  An   *)
(* attempt starts when the server is done with the one before.             *)
(***************************************************************************)
EXTENDS Integers, Sequences, Functions

CONSTANTS
    Versions, Content,     \* contents, and the blocks of each
    NoFile, NoVersion,
    Cap,                   \* packets that a socket's buffers hold
    MaxAttempts, MaxChanges

ASSUME StreamAssumption ==
    /\ Cap \in Nat \ {0}
    /\ \A v \in Versions : Content[v] \in Seq(Nat \ {0}) /\ Content[v] # NoFile
    /\ NoVersion \notin Versions

VARIABLES
    row,                   \* the content of the remote path, if the path exists
    files,                 \* the table files: the size recorded for a content
    stored, spart,         \* storage_root/<hash> and <hash>.part
    source,                \* the content of the local file to upload
    target, part,          \* the local file to download, and its .part
    c, s,                  \* the client's task and the server's
    c2s, s2c,              \* packets under way
    attempts, changes,
    honest                 \* history: what is continued is a beginning of what is sent

storeVars == <<row, files, stored, spart>>
localVars == <<source, target, part>>
wireVars == <<c2s, s2c>>
countVars == <<attempts, changes>>
vars == <<storeVars, localVars, c, s, wireVars, countVars, honest>>

-----------------------------------------------------------------------------
(* Packets.                                                                *)

\* Numbers are words of two halves of two bytes.  A byte has Byte values, the real one 256.
Byte == 4
Half == Byte * Byte

\* htonl and ntohl on a little-endian machine.
Swapped(half) == (half % Byte) * Byte + half \div Byte

host_to_net_u64(value) == Swapped(value % Half) * Half + Swapped(value \div Half)

net_to_host_u64(value) == Swapped(value % Half) * Half + Swapped(value \div Half)

Error == [type |-> "error"]
Ack == [type |-> "ack"]
FileEnd == [type |-> "file_end"]
FileData(block) == [type |-> "file_data", block |-> block]
PutsReq(hash, size) == [type |-> "puts_req", hash |-> hash, size |-> host_to_net_u64(size)]
PutsResp(offset) == [type |-> "puts_resp", offset |-> host_to_net_u64(offset)]
GetsReq == [type |-> "gets_req"]
GetsResp(hash, size) == [type |-> "gets_resp", hash |-> hash, size |-> host_to_net_u64(size)]

ResumePos_Mutant(offset) == [type |-> "resume_pos", offset |-> host_to_net_u64(0)]

ResumePos(offset) == [type |-> "resume_pos", offset |-> host_to_net_u64(offset)]

\* Each end has its socket until its task ends.
Ended == {"none", "ok", "failed"}
ClientOpen == c.at \notin Ended
ServerOpen == s.at # "closed"

\* send_n waits for room in the buffers, as long as the peer is there.
CanSend(peerOpen, channel) == peerOpen => Len(channel) < Cap

\* protocol_send_packet; a peer that is gone gets nothing.
Sent(peerOpen, channel, packet) == IF peerOpen THEN Append(channel, packet) ELSE channel

\* protocol_recv_packet waits for a whole packet.
CanReceive(channel) == channel # <<>>

client_send(packet) == CanSend(ServerOpen, c2s) /\ c2s' = Sent(ServerOpen, c2s, packet)

server_send(packet) == CanSend(ClientOpen, s2c) /\ s2c' = Sent(ClientOpen, s2c, packet)

\* The last packet, if any, waits for room like every other.  A close with packets unread
\* resets the connection, and then the peer may lose what was still on its way.
ClientEnds(outcome, unread, last) ==
    /\ last # <<>> => CanSend(ServerOpen, c2s)
    /\ c' = [c EXCEPT !.at = outcome]
    /\ s2c' = <<>>
    /\ c2s' \in IF ServerOpen THEN {c2s \o last} \cup {<<>> : x \in Range(unread)} ELSE {<<>>}

ServerEnds(unread, last) ==
    /\ last # <<>> => CanSend(ClientOpen, s2c)
    /\ s' = [s EXCEPT !.at = "closed"]
    /\ c2s' = <<>>
    /\ s2c' \in IF ClientOpen THEN {s2c \o last} \cup {<<>> : x \in Range(unread)} ELSE {<<>>}

-----------------------------------------------------------------------------

NoSize == -1

IsPrefixOf(file, v) ==
    file # NoFile =>
        Len(file) <= Len(Content[v]) /\ file = SubSeq(Content[v], 1, Len(file))

Init ==
    /\ row \in Versions \cup {NoVersion}
    /\ files = [v \in Versions |-> IF v = row THEN Len(Content[v]) ELSE NoSize]
    /\ stored = [v \in Versions |-> IF v = row THEN Content[v] ELSE NoFile]
    /\ spart = [v \in Versions |-> NoFile]
    /\ source \in Versions
    /\ target \in {NoFile} \cup {Content[v] : v \in Versions}
    /\ part = NoFile
    /\ c = [at |-> "none", kind |-> "puts", hash |-> NoVersion, size |-> 0, pos |-> 0,
            final |-> FALSE]
    /\ s = [at |-> "closed", hash |-> NoVersion, size |-> 0, pos |-> 0, data |-> <<>>,
            linked |-> NoVersion]
    /\ c2s = <<>> /\ s2c = <<>>
    /\ attempts = 0 /\ changes = 0
    /\ honest = TRUE

\* transfer_worker opens a connection of its own for every task.
Connect(kind, at, size, packets) ==
    /\ ~ClientOpen /\ ~ServerOpen
    /\ attempts < MaxAttempts
    /\ attempts' = attempts + 1
    /\ c' = [at |-> at, kind |-> kind, hash |-> NoVersion, size |-> size, pos |-> 0,
             final |-> FALSE]
    /\ s' = [at |-> "loop", hash |-> NoVersion, size |-> 0, pos |-> 0, data |-> <<>>,
             linked |-> NoVersion]
    /\ c2s' = packets /\ s2c' = <<>>
    /\ honest' = TRUE
    /\ UNCHANGED <<storeVars, localVars, changes>>

\* A lost connection, a timeout, a cancelled task; or a failing file, which is reported.
ClientFails ==
    /\ ClientOpen
    /\ \/ ClientEnds("failed", s2c, <<>>)
       \/ /\ c.at \in {"puts_data", "gets_data", "gets_verify"}
          /\ ClientEnds("failed", s2c, <<Error>>)
    /\ UNCHANGED <<storeVars, localVars, s, countVars, honest>>

\* The peer has closed and nothing is left to read.
ClientSeesEof ==
    /\ c.at \in {"puts_resp", "puts_ack", "gets_resp", "gets_data", "gets_end"}
    /\ s2c = <<>> /\ ~ServerOpen
    /\ ClientEnds("failed", <<>>, <<>>)
    /\ UNCHANGED <<storeVars, localVars, s, countVars, honest>>

\* task_recv: the next packet for a client that waits at the given place.
ClientReads(at) == c.at = at /\ CanReceive(s2c)

-----------------------------------------------------------------------------
(* run_upload.                                                             *)

\* open and fstat
StartUpload == Connect("puts", "hashing", Len(Content[source]), <<>>)

\* The local file may have changed since its size was taken.
SendPutsReq ==
    /\ c.at = "hashing"
    /\ client_send(PutsReq(source, c.size))
    /\ c' = [c EXCEPT !.at = "puts_resp", !.hash = source]
    /\ honest' = (c.size = Len(Content[source]))
    /\ UNCHANGED <<storeVars, localVars, s, s2c, countVars>>

ReceivePutsResp ==
    /\ ClientReads("puts_resp")
    /\ LET packet == Head(s2c)
           offset == net_to_host_u64(packet.offset)
           valid == packet.type = "puts_resp"
           beyond == valid /\ offset > c.size
       IN  \/ /\ ~valid \/ beyond
              /\ ClientEnds("failed", Tail(s2c), IF beyond THEN <<Error>> ELSE <<>>)
           \/ /\ valid /\ ~beyond
              /\ c' = [c EXCEPT !.at = IF offset = c.size THEN "puts_ack" ELSE "puts_data",
                                !.pos = offset]
              /\ s2c' = Tail(s2c)
              /\ UNCHANGED c2s
    /\ UNCHANGED <<storeVars, localVars, s, countVars, honest>>

SendUploadData ==
    /\ c.at = "puts_data" /\ c.pos < c.size
    /\ IF c.pos < Len(Content[source])
       THEN /\ client_send(FileData(Content[source][c.pos + 1]))
            /\ c' = [c EXCEPT !.pos = @ + 1]
            /\ UNCHANGED s2c
       ELSE ClientEnds("failed", s2c, <<Error>>)
    /\ UNCHANGED <<storeVars, localVars, s, countVars, honest>>

SendUploadEnd_Mutant ==
    /\ c.at = "puts_data" /\ c.pos = c.size
    /\ c' = [c EXCEPT !.at = "puts_ack"]
    /\ UNCHANGED <<storeVars, localVars, s, wireVars, countVars, honest>>

SendUploadEnd ==
    /\ c.at = "puts_data" /\ c.pos = c.size
    /\ client_send(FileEnd)
    /\ c' = [c EXCEPT !.at = "puts_ack"]
    /\ UNCHANGED <<storeVars, localVars, s, s2c, countVars, honest>>

IsAck_Mutant(packet) == TRUE

IsAck(packet) == packet.type = "ack"

ReceiveUploadAck ==
    /\ ClientReads("puts_ack")
    /\ ClientEnds(IF IsAck(Head(s2c)) THEN "ok" ELSE "failed", Tail(s2c), <<>>)
    /\ UNCHANGED <<storeVars, localVars, s, countVars, honest>>

run_upload ==
    \/ StartUpload \/ SendPutsReq \/ ReceivePutsResp
    \/ SendUploadData \/ SendUploadEnd \/ ReceiveUploadAck

-----------------------------------------------------------------------------
(* run_download.                                                           *)

StartDownload == Connect("gets", "gets_resp", 0, <<GetsReq>>)

hash_matches_Mutant(file, size, hash) == file # NoFile /\ Len(file) = size

hash_matches(file, size, hash) ==
    file # NoFile /\ Len(file) = size /\ file = Content[hash]

\* The .part file is continued at its end, or emptied when it is too long.
PartOffset(size) == IF part = NoFile \/ Len(part) > size THEN 0 ELSE Len(part)

\* Metadata in hand, the client looks for what it has, and says where to resume.
ReceiveGetsResp ==
    /\ ClientReads("gets_resp")
    /\ LET packet == Head(s2c)
           size == net_to_host_u64(packet.size)
           final == hash_matches(target, size, packet.hash)
           offset == IF final THEN size ELSE PartOffset(size)
       IN  \/ /\ packet.type # "gets_resp"
              /\ ClientEnds("failed", Tail(s2c), <<>>)
              /\ UNCHANGED <<part, honest>>
           \/ /\ packet.type = "gets_resp"     \* no file can be opened
              /\ ClientEnds("failed", Tail(s2c), <<Error>>)
              /\ UNCHANGED <<part, honest>>
           \/ /\ packet.type = "gets_resp"
              /\ client_send(ResumePos(offset))
              /\ s2c' = Tail(s2c)
              /\ part' = IF final THEN part ELSE IF offset = 0 THEN <<>> ELSE part
              /\ c' = [c EXCEPT !.at = IF offset < size THEN "gets_data" ELSE "gets_end",
                                !.hash = packet.hash, !.size = size, !.pos = offset,
                                !.final = final]
              /\ honest' = (final \/ IsPrefixOf(part', packet.hash))
    /\ UNCHANGED <<storeVars, source, target, s, countVars>>

Longer(i, j) == IF i > j THEN i ELSE j

\* write_n at a position; a gap would read as zeros.
write_n(file, pos, block) ==
    [i \in 1 .. Longer(Len(file), pos + 1) |->
        IF i = pos + 1 THEN block ELSE IF i <= Len(file) THEN file[i] ELSE 0]

ReceiveDownloadData ==
    /\ ClientReads("gets_data")
    /\ LET packet == Head(s2c)
       IN  \/ /\ packet.type # "file_data"
              /\ ClientEnds("failed", Tail(s2c), <<Error>>)
              /\ UNCHANGED part
           \/ /\ packet.type = "file_data"
              /\ part' = write_n(part, c.pos, packet.block)
              /\ c' = [c EXCEPT !.pos = @ + 1,
                                !.at = IF c.pos + 1 < c.size THEN "gets_data" ELSE "gets_end"]
              /\ s2c' = Tail(s2c)
              /\ UNCHANGED c2s
    /\ UNCHANGED <<storeVars, source, target, s, countVars, honest>>

ReceiveDownloadEnd ==
    /\ ClientReads("gets_end")
    /\ \/ Head(s2c).type # "file_end" /\ ClientEnds("failed", Tail(s2c), <<Error>>)
       \/ /\ Head(s2c).type = "file_end"
          /\ c' = [c EXCEPT !.at = IF c.final THEN "gets_ack" ELSE "gets_verify"]
          /\ s2c' = Tail(s2c)
          /\ UNCHANGED c2s
    /\ UNCHANGED <<storeVars, localVars, s, countVars, honest>>

\* Only a file with the announced size and hash takes the place of the target; any other
\* one is left as the .part file.
VerifyDownload ==
    /\ c.at = "gets_verify"
    /\ IF hash_matches(part, c.size, c.hash)
       THEN /\ target' = part /\ part' = NoFile
            /\ c' = [c EXCEPT !.at = "gets_ack"]
            /\ UNCHANGED wireVars
       ELSE /\ ClientEnds("failed", s2c, <<Error>>)
            /\ UNCHANGED <<target, part>>
    /\ UNCHANGED <<storeVars, source, s, countVars, honest>>

SendDownloadAck ==
    /\ c.at = "gets_ack"
    /\ ClientEnds("ok", s2c, <<Ack>>)
    /\ UNCHANGED <<storeVars, localVars, s, countVars, honest>>

run_download ==
    \/ StartDownload \/ ReceiveGetsResp \/ ReceiveDownloadData
    \/ ReceiveDownloadEnd \/ VerifyDownload \/ SendDownloadAck

-----------------------------------------------------------------------------
(* The server.                                                             *)

\* A refused request, a database or input error, a lost connection.
ServerFails ==
    /\ ServerOpen
    /\ \E last \in {<<>>, <<Error>>} : ServerEnds(c2s, last)
    /\ UNCHANGED <<storeVars, localVars, c, countVars, honest>>

ServerSeesEof_Mutant == FALSE

ServerSeesEof ==
    /\ s.at \in {"loop", "puts_data", "puts_end", "gets_resume", "gets_ack"}
    /\ c2s = <<>> /\ ~ClientOpen
    /\ ServerEnds(<<>>, <<>>)
    /\ UNCHANGED <<storeVars, localVars, c, countVars, honest>>

ServerReads(at) == s.at = at /\ CanReceive(c2s)

\* A path that exists is not uploaded to.
RefusePuts ==
    /\ ServerReads("loop") /\ Head(c2s).type = "puts_req" /\ row # NoVersion
    /\ ServerEnds(Tail(c2s), <<Error>>)
    /\ UNCHANGED <<storeVars, localVars, c, countVars, honest>>

\* dao_file_find_by_hash
IsStored(hash, size) == files[hash] = size

\* dao_link_existing_file; the client hears that nothing is missing.
LinkStored ==
    /\ ServerReads("loop") /\ Head(c2s).type = "puts_req" /\ row = NoVersion
    /\ LET hash == Head(c2s).hash
           size == net_to_host_u64(Head(c2s).size)
       IN  /\ IsStored(hash, size)
           /\ row' = hash
           /\ s' = [s EXCEPT !.at = "puts_ack", !.hash = hash, !.size = size, !.linked = hash]
           /\ server_send(PutsResp(size))
    /\ c2s' = Tail(c2s)
    /\ UNCHANGED <<files, stored, spart, localVars, c, countVars, honest>>

\* The hash-named .part file is continued at its end, or emptied when it is too long.
ResumePuts ==
    /\ ServerReads("loop") /\ Head(c2s).type = "puts_req" /\ row = NoVersion
    /\ LET hash == Head(c2s).hash
           size == net_to_host_u64(Head(c2s).size)
           old == spart[hash]
           new == IF old = NoFile \/ Len(old) > size THEN <<>> ELSE old
       IN  /\ ~IsStored(hash, size)
           /\ spart' = [spart EXCEPT ![hash] = new]
           /\ s' = [s EXCEPT !.at = IF Len(new) < size THEN "puts_data" ELSE "puts_verify",
                             !.hash = hash, !.size = size, !.pos = Len(new)]
           /\ server_send(PutsResp(Len(new)))
           /\ honest' = (honest /\ IsPrefixOf(new, hash))
    /\ c2s' = Tail(c2s)
    /\ UNCHANGED <<row, files, stored, localVars, c, countVars>>

ReceiveUploadData ==
    /\ ServerReads("puts_data")
    /\ LET packet == Head(c2s)
       IN  \/ /\ packet.type # "file_data"
              /\ ServerEnds(Tail(c2s), <<Error>>)
              /\ UNCHANGED spart
           \/ /\ packet.type = "file_data"
              /\ spart' = [spart EXCEPT ![s.hash] = write_n(@, s.pos, packet.block)]
              /\ s' = [s EXCEPT !.pos = @ + 1,
                                !.at = IF s.pos + 1 < s.size THEN "puts_data" ELSE "puts_end"]
              /\ c2s' = Tail(c2s)
              /\ UNCHANGED s2c
    /\ UNCHANGED <<row, files, stored, localVars, c, countVars, honest>>

ReceiveUploadEnd ==
    /\ ServerReads("puts_end")
    /\ \/ Head(c2s).type # "file_end" /\ ServerEnds(Tail(c2s), <<Error>>)
       \/ /\ Head(c2s).type = "file_end"
          /\ s' = [s EXCEPT !.at = "puts_verify"]
          /\ c2s' = Tail(c2s)
          /\ UNCHANGED s2c
    /\ UNCHANGED <<storeVars, localVars, c, countVars, honest>>

UploadMatches_Mutant(hash) == Len(spart[hash]) = s.size

UploadMatches(hash) == spart[hash] = Content[hash]

\* The verified file takes its name in the store, and the path its row; a file with
\* another hash is unlinked.  The path may exist by now, or the database fail.
VerifyUpload ==
    /\ s.at = "puts_verify"
    /\ spart' = [spart EXCEPT ![s.hash] = NoFile]
    /\ IF UploadMatches(s.hash)
       THEN /\ stored' = [stored EXCEPT ![s.hash] = spart[s.hash]]
            /\ \/ /\ row = NoVersion
                  /\ row' = s.hash
                  /\ files' = [files EXCEPT ![s.hash] = IF @ = NoSize THEN s.size ELSE @]
                  /\ s' = [s EXCEPT !.at = "puts_ack", !.linked = s.hash]
                  /\ UNCHANGED wireVars
               \/ ServerEnds(c2s, <<Error>>) /\ UNCHANGED <<row, files>>
       ELSE /\ ServerEnds(c2s, <<Error>>)
            /\ UNCHANGED <<row, files, stored>>
    /\ UNCHANGED <<localVars, c, countVars, honest>>

SendUploadAck ==
    /\ s.at = "puts_ack"
    /\ ServerEnds(c2s, <<Ack>>)
    /\ UNCHANGED <<storeVars, localVars, c, countVars, honest>>

handle_puts ==
    \/ RefusePuts \/ LinkStored \/ ResumePuts \/ ReceiveUploadData \/ ReceiveUploadEnd
    \/ VerifyUpload \/ SendUploadAck

\* dao_get_file_meta
SendGetsResp ==
    /\ ServerReads("loop") /\ Head(c2s).type = "gets_req"
    /\ \/ row = NoVersion /\ ServerEnds(Tail(c2s), <<Error>>)
       \/ /\ row # NoVersion
          /\ server_send(GetsResp(row, files[row]))
          /\ s' = [s EXCEPT !.at = "gets_resume", !.hash = row]
          /\ c2s' = Tail(c2s)
    /\ UNCHANGED <<storeVars, localVars, c, countVars, honest>>

\* The file is opened only now: it may have been unlinked, and then the connection is
\* closed without a word.  An open file stays readable.
ReceiveResumePos ==
    /\ ServerReads("gets_resume")
    /\ LET packet == Head(c2s)
           offset == net_to_host_u64(packet.offset)
           file == stored[s.hash]
       IN  \/ packet.type # "resume_pos" /\ ServerEnds(Tail(c2s), <<Error>>)
           \/ /\ packet.type = "resume_pos"
              /\ file # NoFile => offset > Len(file)
              /\ ServerEnds(Tail(c2s), <<>>)
           \/ /\ packet.type = "resume_pos"
              /\ file # NoFile /\ offset <= Len(file)
              /\ s' = [s EXCEPT !.at = "gets_data", !.pos = offset, !.data = file]
              /\ c2s' = Tail(c2s)
              /\ UNCHANGED s2c
    /\ UNCHANGED <<storeVars, localVars, c, countVars, honest>>

\* Of the open file; the position is the server's own.
sendfile_exact(file, pos) == file[pos + 1]

\* A FILE_DATA header and the block.
SendDownloadData ==
    /\ s.at = "gets_data" /\ s.pos < Len(s.data)
    /\ server_send(FileData(sendfile_exact(s.data, s.pos)))
    /\ s' = [s EXCEPT !.pos = @ + 1]
    /\ UNCHANGED <<storeVars, localVars, c, c2s, countVars, honest>>

SendDownloadEnd ==
    /\ s.at = "gets_data" /\ s.pos = Len(s.data)
    /\ server_send(FileEnd)
    /\ s' = [s EXCEPT !.at = "gets_ack"]
    /\ UNCHANGED <<storeVars, localVars, c, c2s, countVars, honest>>

\* The last packet ends the task, whatever it is.
ReceiveDownloadAck ==
    /\ ServerReads("gets_ack")
    /\ ServerEnds(Tail(c2s), <<>>)
    /\ UNCHANGED <<storeVars, localVars, c, countVars, honest>>

handle_gets ==
    \/ SendGetsResp \/ ReceiveResumePos \/ SendDownloadData \/ SendDownloadEnd
    \/ ReceiveDownloadAck

-----------------------------------------------------------------------------
(* The environment.                                                        *)

Change ==
    /\ changes < MaxChanges
    /\ changes' = changes + 1
    /\ UNCHANGED <<spart, target, part, c, s, wireVars, attempts>>

\* rm of the path; the content goes with its last reference.
PathRemoved ==
    /\ row # NoVersion
    /\ row' = NoVersion
    /\ \/ UNCHANGED <<files, stored>>
       \/ /\ files' = [files EXCEPT ![row] = NoSize]
          /\ stored' = [stored EXCEPT ![row] = NoFile]
    /\ UNCHANGED <<source, honest>>

\* Another session uploads a content, to this path or to another one.
ContentPublished(v) ==
    /\ \/ row = NoVersion /\ row' = v
       \/ UNCHANGED row
    /\ files' = [files EXCEPT ![v] = Len(Content[v])]
    /\ stored' = [stored EXCEPT ![v] = Content[v]]
    /\ UNCHANGED <<source, honest>>

\* The local file is written to.
SourceChanged(v) ==
    /\ source' = v
    /\ honest' = (honest /\ (c.kind = "puts" => ~ClientOpen))
    /\ UNCHANGED <<row, files, stored>>

Environment ==
    Change /\ (PathRemoved \/ \E v \in Versions : ContentPublished(v) \/ SourceChanged(v))

-----------------------------------------------------------------------------

ClientStep == run_upload \/ run_download \/ ClientSeesEof
ServerStep == handle_puts \/ handle_gets \/ ServerSeesEof

Next == ClientStep \/ ServerStep \/ ClientFails \/ ServerFails \/ Environment

Spec == Init /\ [][Next]_vars

\* Threads are scheduled and TCP delivers or closes; neither timeouts nor errors are
\* needed for a transfer to end.
FairSpec == Spec /\ WF_vars(ClientStep) /\ WF_vars(ServerStep)

-----------------------------------------------------------------------------
(* Properties.                                                             *)

\* run_upload reports success only when handle_puts has linked the path to the content
\* that was announced.
UploadOk == c.at = "ok" /\ c.kind = "puts" => s.linked = c.hash

\* Whatever is announced and however it ends, a content in the table files is on disk,
\* whole, and has the size recorded for it.
StoreHonest ==
    \A v \in Versions :
        /\ stored[v] \in {NoFile, Content[v]}
        /\ files[v] # NoSize => stored[v] # NoFile /\ files[v] = Len(Content[v])

\* run_download reports success only when the target is the announced content; and at all
\* times the target is the whole of one version, never a mixture of two or a part.
DownloadOk ==
    /\ c.at = "ok" /\ c.kind = "gets" => target = Content[c.hash]
    /\ target = NoFile \/ \E v \in Versions : target = Content[v]

\* When the file an attempt continues is the beginning of what is transferred, it is so
\* at every step, and all of it when it is verified: no block is skipped or repeated, on
\* either side and whatever is under way.
ResumeSound ==
    /\ honest /\ c.at \in {"gets_data", "gets_end", "gets_verify"} /\ ~c.final =>
          /\ part = SubSeq(Content[c.hash], 1, c.pos)
          /\ c.at = "gets_verify" => part = Content[c.hash]
    /\ honest /\ s.at \in {"puts_data", "puts_end", "puts_verify"} =>
          /\ spart[s.hash] = SubSeq(Content[s.hash], 1, s.pos)
          /\ s.at = "puts_verify" => spart[s.hash] = Content[s.hash]

\* An end waits, while the other one is there, for a packet or for room for one, an error's
\* included.
ClientWaits ==
    /\ ServerOpen
    /\ \/ /\ c.at \in {"puts_resp", "puts_ack", "gets_resp", "gets_data", "gets_end"}
          /\ s2c = <<>>
       \/ /\ c.at \in {"hashing", "puts_resp", "puts_data", "gets_resp", "gets_data", "gets_end",
                       "gets_verify", "gets_ack"}
          /\ Len(c2s) >= Cap

ServerWaits ==
    /\ ClientOpen
    /\ \/ /\ s.at \in {"loop", "puts_data", "puts_end", "gets_resume", "gets_ack"}
          /\ c2s = <<>>
       \/ /\ s.at \in {"loop", "puts_data", "puts_end", "puts_verify", "puts_ack", "gets_resume",
                       "gets_data"}
          /\ Len(s2c) >= Cap

\* The two ends of a transfer never wait for each other, however little the buffers hold:
\* neither a read in task_recv against a read in handle_puts or handle_gets, nor a full
\* send_n, of data or of an error, against either.
NeverBothWait == ~(ClientWaits /\ ServerWaits)

\* Both tasks of a transfer end, even if no timeout ever fires: never do the ends wait
\* for each other.
TransferEnds == (ClientOpen ~> ~ClientOpen) /\ (ServerOpen ~> ~ServerOpen)

=============================================================================
