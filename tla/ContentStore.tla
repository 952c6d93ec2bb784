---------------------------- MODULE ContentStore ----------------------------
(***************************************************************************)
(* The drive's content: the tables paths and files, the stored file and    *)
(* the partial upload of one content hash, and the commands that change    *)
(* them: mkdir, rmdir and rm (src/server/handler_basic.c), puts            *)
(* (handler_transfer.c), with the statements they send (dao_basic.c,       *)
(* dao_transfer.c).  Workers run commands concurrently; a step is one SQL  *)
(* statement or transaction, or one file-system call.                      *)
(*                                                                         *)
(* files.hash is unique and every name on disk is made of the hash, so two *)
(* contents share only the table of paths: the model follows one content,  *)
(* of Size chunks, and the one row of files it may have.  A path stands    *)
(* for a user with a normalized path.  Files are inodes: an upload writes  *)
(* through its descriptor whatever has become of the name.                 *)
(*                                                                         *)
(* Transactions run under InnoDB's default isolation, REPEATABLE READ.     *)
(* A command may end anywhere (a database or input error, a lost           *)
(* connection, a crash): Abort.  Replies and read-only commands (pwd, cd,  *)
(* ls, gets) are left out.                                                 *)
(***************************************************************************)
EXTENDS Integers, Sequences, FiniteSets, FiniteSetsExt

CONSTANTS
    Workers,
    Paths, Root, Parent,    \* virtual paths, and the directory each one is in
    Commands,               \* the commands that are run
    Size,                   \* chunks of the content
    Sizes,                  \* sizes an upload may claim for it
    Data,                   \* chunks a client may send: "good", or "bad" too
    MaxRows, MaxFiles,      \* bounds: ids the tables hand out
    Inodes

NoInode == 0

ASSUME TreeAssumption == Root \notin Paths /\ Parent \in [Paths -> Paths \cup {Root}]
ASSUME DiskAssumption == NoInode \notin Inodes /\ Size \in Nat

NoFile  == [id |-> 0, refs |-> 0, size |-> 0]
Idle    == [at |-> "idle"]
Good    == [i \in 1 .. Size |-> "good"]

VARIABLES
    rows, last_row,      \* paths, and its last id
    file, last_file,     \* the row of files with the content's hash, and the last id
    part, final,         \* the inodes named <hash>.part and storage_root/<hash>
    content,             \* what each inode holds
    job                  \* what each worker is doing

dbVars == <<rows, last_row, file, last_file>>
diskVars == <<part, final, content>>
vars == <<dbVars, diskVars, job>>

Row(id, path, kind, file_id, parent_id) ==
    [id |-> id, path |-> path, kind |-> kind, file |-> file_id, parent |-> parent_id]

\* A registered user has the row of the root directory and nothing else.
Init ==
    /\ rows = {Row(1, Root, "dir", 0, 0)}
    /\ last_row = 1
    /\ file = NoFile
    /\ last_file = 0
    /\ part = NoInode
    /\ final = NoInode
    /\ content = [i \in Inodes |-> <<>>]
    /\ job = [w \in Workers |-> Idle]

-----------------------------------------------------------------------------

At(w, place) == job[w].at = place
Become(w, j) == job' = [job EXCEPT ![w] = j]
Start(w, command) == At(w, "idle") /\ command \in Commands

\* dao_path_get_node_id: the row of a path, if it has one.
Found(p) == {r \in rows : r.path = p}

IsDir_Mutant(r) == TRUE

IsDir(r) == r.kind = "dir"

\* An INSERT into paths that its unique key allows.
InsertRow(path, kind, file_id, parent_id) ==
    /\ last_row < MaxRows
    /\ last_row' = last_row + 1
    /\ rows' = rows \cup {Row(last_row + 1, path, kind, file_id, parent_id)}

\* The inodes with a name or an open descriptor; the kernel frees the others.
UsedInodes ==
    {part, final}
        \cup {job[w].inode : w \in {v \in Workers : job[v].at \in {"puts_stat", "puts_receive"}}}

Reclaim == content' = [i \in Inodes |-> IF i \in UsedInodes' THEN content[i] ELSE <<>>]

Abort(w) ==
    /\ ~At(w, "idle")
    /\ Become(w, Idle)
    /\ UNCHANGED <<dbVars, part, final>>
    /\ Reclaim

-----------------------------------------------------------------------------
(* mkdir and rmdir.                                                        *)

\* The parent directory of a new entry is looked up in a statement of its own.
MkdirParent(w, p) ==
    /\ Start(w, "mkdir")
    /\ \E r \in Found(Parent[p]) :
          IsDir(r) /\ Become(w, [at |-> "mkdir", path |-> p, parent |-> r.id])
    /\ UNCHANGED <<dbVars, diskVars>>

MkdirInsert(w) ==
    /\ At(w, "mkdir")
    /\ IF Found(job[w].path) = {}
       THEN InsertRow(job[w].path, "dir", 0, job[w].parent)
       ELSE UNCHANGED <<rows, last_row>>
    /\ Become(w, Idle)
    /\ UNCHANGED <<file, last_file, diskVars>>

RmdirLookup(w, p) ==
    /\ Start(w, "rmdir")
    /\ \E r \in Found(p) : IsDir(r) /\ Become(w, [at |-> "rmdir_check", id |-> r.id])
    /\ UNCHANGED <<dbVars, diskVars>>

HasChild_Mutant(id) == FALSE

\* dao_path_dir_has_child
HasChild(id) == \E r \in rows : r.parent = id

RmdirCheck(w) ==
    /\ At(w, "rmdir_check")
    /\ Become(w, IF HasChild(job[w].id) THEN Idle
                 ELSE [at |-> "rmdir_delete", id |-> job[w].id])
    /\ UNCHANGED <<dbVars, diskVars>>

RmdirDelete(w) ==
    /\ At(w, "rmdir_delete")
    /\ rows' = {r \in rows : r.id # job[w].id}
    /\ Become(w, Idle)
    /\ UNCHANGED <<last_row, file, last_file, diskVars>>

-----------------------------------------------------------------------------
(* rm: a lookup, the transaction of dao_rm_file, and an unlink.            *)

RmLookup(w, p) ==
    /\ Start(w, "rm")
    /\ \E r \in Found(p) : r.kind = "file" /\ Become(w, [at |-> "rm_select", id |-> r.id])
    /\ UNCHANGED <<dbVars, diskVars>>

\* The transaction's first SELECT, which takes its snapshot: the path's file_id, and
\* whether that file has a row.
RmSelect(w) ==
    /\ At(w, "rm_select")
    /\ LET found == {r \in rows : r.id = job[w].id /\ r.kind = "file"}
       IN  \/ found = {} /\ Become(w, Idle)
           \/ \E r \in found :
                 Become(w, [at |-> "rm_write", id |-> r.id, file |-> r.file,
                            seen |-> r.file = file.id])
    /\ UNCHANGED <<dbVars, diskVars>>

\* refs - 1; at 0 the row is deleted.
Unreferenced(f) == IF f.refs = 1 THEN NoFile ELSE [f EXCEPT !.refs = @ - 1]

DeletesPhysical_Mutant(f) == TRUE

\* DAO_SHOULD_DELETE_PHYSICAL: the file's row was deleted.
DeletesPhysical(f) == f = NoFile

\* The DELETE and UPDATE see the present rows and need not affect any; a refs that the
\* UPDATE did not write is read from the snapshot, where it is not 0.  No row in the
\* snapshot either is an error, and rolled back.
RmWrite(w) ==
    LET j == job[w]
        present == j.file = file.id
    IN  /\ At(w, "rm_write")
        /\ rows' = IF present \/ j.seen THEN {r \in rows : r.id # j.id} ELSE rows
        /\ file' = IF present THEN Unreferenced(file) ELSE file
        /\ Become(w, IF present /\ DeletesPhysical(file') THEN [at |-> "rm_unlink"] ELSE Idle)
        /\ UNCHANGED <<last_row, last_file, diskVars>>

RmUnlink(w) ==
    /\ At(w, "rm_unlink")
    /\ final' = NoInode
    /\ Become(w, Idle)
    /\ UNCHANGED <<dbVars, part>>
    /\ Reclaim

-----------------------------------------------------------------------------
(* puts.                                                                   *)

PutsParent(w, p, size) ==
    /\ Start(w, "puts")
    /\ \E r \in Found(Parent[p]) :
          IsDir(r)
          /\ Become(w, [at |-> "puts_target", path |-> p, parent |-> r.id, size |-> size])
    /\ UNCHANGED <<dbVars, diskVars>>

PutsTarget(w) ==
    /\ At(w, "puts_target")
    /\ Become(w, IF Found(job[w].path) # {} THEN Idle ELSE [job[w] EXCEPT !.at = "puts_find"])
    /\ UNCHANGED <<dbVars, diskVars>>

\* dao_file_find_by_hash: a stored file is linked, any other one is uploaded.
PutsFind(w) ==
    LET j == job[w]
    IN  /\ At(w, "puts_find")
        /\ Become(w, IF file # NoFile /\ file.size = j.size
                     THEN [at |-> "puts_link", path |-> j.path, parent |-> j.parent,
                           file |-> file.id]
                     ELSE [j EXCEPT !.at = "puts_open"])
        /\ UNCHANGED <<dbVars, diskVars>>

Linked_Mutant(f) == f

\* UPDATE files SET refs = refs + 1
Linked(f) == [f EXCEPT !.refs = @ + 1]

PutsLink_Mutant(w) ==
    LET j == job[w]
    IN  /\ At(w, "puts_link")
        /\ IF Found(j.path) = {}
           THEN InsertRow(j.path, "file", j.file, j.parent)
           ELSE UNCHANGED <<rows, last_row>>
        /\ file' = IF file.id = j.file THEN Linked(file) ELSE file
        /\ Become(w, Idle)
        /\ UNCHANGED <<last_file, diskVars>>

\* dao_link_existing_file: no row to update is no error; a duplicate path rolls back.
PutsLink(w) ==
    LET j == job[w]
    IN  /\ At(w, "puts_link")
        /\ IF Found(j.path) = {}
           THEN /\ InsertRow(j.path, "file", j.file, j.parent)
                /\ file' = IF file.id = j.file THEN Linked(file) ELSE file
           ELSE UNCHANGED <<rows, last_row, file>>
        /\ Become(w, Idle)
        /\ UNCHANGED <<last_file, diskVars>>

\* An upload resumes at the end of the partial file, or at 0 when that is too long.
ResumeAt(i, size) == IF Len(content[i]) > size THEN 0 ELSE Len(content[i])

FreeInodes == Inodes \ UsedInodes

\* open(O_CREAT): the name's inode, or a new one.
PutsOpen(w) ==
    LET j == job[w]
    IN  /\ At(w, "puts_open")
        /\ part # NoInode \/ FreeInodes # {}
        /\ part' = IF part = NoInode THEN CHOOSE i \in FreeInodes : TRUE ELSE part
        /\ Become(w, [at |-> "puts_stat", path |-> j.path, parent |-> j.parent,
                      size |-> j.size, inode |-> part'])
        /\ UNCHANGED <<dbVars, final, content>>

\* fstat, ftruncate and the answer to the client.
PutsStat(w) ==
    LET j == job[w]
    IN  /\ At(w, "puts_stat")
        /\ content' = [content EXCEPT ![j.inode] = IF Len(@) > j.size THEN <<>> ELSE @]
        /\ Become(w, [at |-> "puts_receive", path |-> j.path, parent |-> j.parent,
                      size |-> j.size, inode |-> j.inode, pos |-> ResumeAt(j.inode, j.size)])
        /\ UNCHANGED <<dbVars, part, final>>

Written_Mutant(c, pos, d) == Append(c, d)

\* What a file holds once chunk d is written at pos; a gap reads as zeros.
Written(c, pos, d) ==
    [i \in 1 .. Max({Len(c), pos + 1}) |->
        IF i = pos + 1 THEN d ELSE IF i <= Len(c) THEN c[i] ELSE "bad"]

\* One CMD_FILE_DATA packet.
PutsReceive(w) ==
    LET j == job[w]
    IN  /\ At(w, "puts_receive")
        /\ j.pos < j.size
        /\ \E d \in Data : content' = [content EXCEPT ![j.inode] = Written(@, j.pos, d)]
        /\ Become(w, [j EXCEPT !.pos = @ + 1])
        /\ UNCHANGED <<dbVars, part, final>>

HashMatches_Mutant(i) == Len(content[i]) = Size

HashMatches(i) == content[i] = Good

\* After CMD_FILE_END, or at once when nothing was missing: a file with another hash is
\* unlinked.
PutsVerify(w) ==
    LET j == job[w]
    IN  /\ At(w, "puts_receive")
        /\ j.pos = j.size
        /\ IF HashMatches(j.inode)
           THEN /\ Become(w, [at |-> "puts_rename", path |-> j.path, parent |-> j.parent,
                              size |-> j.size])
                /\ UNCHANGED part
           ELSE Become(w, Idle) /\ part' = NoInode
        /\ UNCHANGED <<dbVars, final>>
        /\ Reclaim

\* rename(part, final), which fails when there is no part.
PutsRename(w) ==
    /\ At(w, "puts_rename")
    /\ IF part # NoInode
       THEN final' = part /\ part' = NoInode /\ Become(w, [job[w] EXCEPT !.at = "puts_create"])
       ELSE UNCHANGED <<part, final>> /\ Become(w, [job[w] EXCEPT !.at = "puts_discard"])
    /\ UNCHANGED dbVars
    /\ Reclaim

\* The rename failed: a stored file is as good, and whatever is named part is unlinked.
PutsDiscard(w) ==
    /\ At(w, "puts_discard")
    /\ IF final # NoInode
       THEN part' = NoInode /\ Become(w, [job[w] EXCEPT !.at = "puts_create"])
       ELSE UNCHANGED part /\ Become(w, Idle)
    /\ UNCHANGED <<dbVars, final>>
    /\ Reclaim

\* dao_create_file_with_path: INSERT ... ON DUPLICATE KEY UPDATE refs = refs + 1, and the
\* path; a duplicate path rolls back.
PutsCreate(w) ==
    LET j == job[w]
        f == IF file = NoFile THEN [id |-> last_file + 1, refs |-> 1, size |-> j.size]
             ELSE [file EXCEPT !.refs = @ + 1]
    IN  /\ At(w, "puts_create")
        /\ IF Found(j.path) = {}
           THEN /\ f.id <= MaxFiles
                /\ InsertRow(j.path, "file", f.id, j.parent)
                /\ file' = f
                /\ last_file' = Max({last_file, f.id})
           ELSE UNCHANGED dbVars
        /\ Become(w, Idle)
        /\ UNCHANGED diskVars

-----------------------------------------------------------------------------

mkdir(w) == (\E p \in Paths : MkdirParent(w, p)) \/ MkdirInsert(w)

rmdir(w) == (\E p \in Paths : RmdirLookup(w, p)) \/ RmdirCheck(w) \/ RmdirDelete(w)

rm(w) == (\E p \in Paths : RmLookup(w, p)) \/ RmSelect(w) \/ RmWrite(w) \/ RmUnlink(w)

puts(w) ==
    \/ \E p \in Paths, size \in Sizes : PutsParent(w, p, size)
    \/ PutsTarget(w) \/ PutsFind(w) \/ PutsLink(w) \/ PutsOpen(w)
    \/ PutsStat(w) \/ PutsReceive(w) \/ PutsVerify(w) \/ PutsRename(w) \/ PutsDiscard(w)
    \/ PutsCreate(w)

Next == \E w \in Workers : mkdir(w) \/ rmdir(w) \/ rm(w) \/ puts(w) \/ Abort(w)

Spec == Init /\ [][Next]_vars

-----------------------------------------------------------------------------
(* Properties.                                                             *)

FileRows == {r \in rows : r.kind = "file"}

\* files.refs is the number of paths that lead to the file, and no path leads to a file
\* that has no row.
RefsExact ==
    /\ file.refs = Cardinality(FileRows)
    /\ \A r \in FileRows : r.file = file.id

\* A file with a row is on disk: gets of a listed file can be served.
ContentPresent == file # NoFile => final # NoInode

\* What is stored under a hash has that hash, whatever was uploaded and however it ended.
PublishedVerified == final # NoInode => content[final] = Good

\* The paths form a tree: every entry's parent is the row of the directory it is in.
TreeConnected ==
    \A r \in rows :
        r.path # Root =>
            \E d \in rows : d.id = r.parent /\ d.kind = "dir" /\ d.path = Parent[r.path]

\* Even when commands race, a reference is never counted twice: no content is kept for
\* paths that are gone.
RefsBounded == file.refs <= Cardinality({r \in FileRows : r.file = file.id})

\* Even when uploads race, a partial upload is a prefix of the content, so resuming at its
\* size is right (clients that send what they announced).
ResumePrefix ==
    part # NoInode =>
        Len(content[part]) <= Size /\ \A k \in 1 .. Len(content[part]) : content[part][k] = "good"

\* Even when commands race, no entry is inside a file.
NoChildOfFile == \A r, c \in rows : c.parent = r.id => r.kind = "dir"

\* Stored content is removed only when nothing references it.
RemovedUnreferenced == [][final # NoInode /\ final' = NoInode => file = NoFile]_vars

=============================================================================
