------------------------- MODULE ContentStoreProofs -------------------------
(***************************************************************************)
(* Proofs about the drive's content.  First what the tables and the        *)
(* partial upload keep of their consistency when any number of commands    *)
(* race, although each acts, step by step, on what it looked up earlier;   *)
(* then what they keep when the command that would spoil it has no company *)
(* (RmAlone, RmdirAlone, OneWorker).                                       *)
(***************************************************************************)
EXTENDS ContentStore, FiniteSetTheorems, SequenceTheorems, TLAPS

-----------------------------------------------------------------------------
(* The tables.                                                             *)

\* An id that is, or was, that of a directory: ids are not given out twice.
DirId(id) == id \in 0 .. last_row /\ \A r \in rows : r.id = id => r.kind = "dir"

Tables ==
    /\ IsFiniteSet(rows) /\ last_row \in Nat /\ last_file \in Nat
    /\ \A r \in rows : r.id \in 1 .. last_row /\ DirId(r.parent)
    /\ \A r \in rows : r.kind = "file" => r.file \in Nat \ {0}
    /\ \A r, s \in rows : r.id = s.id => r = s
    /\ file = [id |-> file.id, refs |-> file.refs, size |-> file.size]
    /\ file.id \in Nat /\ file.refs \in Nat
    /\ IF file.id = 0 THEN file = NoFile ELSE file.refs # 0

\* What a command has looked up stays true enough: the parent is no file, the directory
\* to delete is no file, and the path to remove leads to the file it led to.
Remembered(j) ==
    /\ j.at \in {"mkdir", "puts_target", "puts_find", "puts_link", "puts_open", "puts_stat",
                 "puts_receive", "puts_rename", "puts_discard", "puts_create"} => DirId(j.parent)
    /\ j.at \in {"rmdir_check", "rmdir_delete"} => DirId(j.id)
    /\ j.at = "puts_link" => j.file \in Nat \ {0}
    /\ j.at = "rm_write" =>
          /\ j.file \in Nat \ {0} /\ j.id \in 1 .. last_row
          /\ \A r \in rows : r.id = j.id => r.kind = "file" /\ r.file = j.file

\* The records of the uploads before they open the partial file.
Shapes ==
    /\ job = [w \in Workers |-> job[w]]
    /\ \A w \in Workers :
          LET j == job[w]
          IN  /\ j.at \in {"puts_target", "puts_find", "puts_open", "puts_rename", "puts_discard"}
                    => j = [at |-> j.at, path |-> j.path, parent |-> j.parent, size |-> j.size]
              /\ j.at = "puts_receive"
                    => j = [at |-> j.at, path |-> j.path, parent |-> j.parent, size |-> j.size,
                            inode |-> j.inode, pos |-> j.pos]

StoreInv == Tables /\ RefsBounded /\ Shapes /\ \A w \in Workers : Remembered(job[w])

\* One worker's record changes.
LEMMA BecomeFacts ==
    ASSUME Shapes, NEW w \in Workers, NEW j, Become(w, j)
    PROVE  /\ job' = [v \in Workers |-> job'[v]] /\ job'[w] = j
           /\ \A v \in Workers \ {w} : job'[v] = job[v]
BY Zenon DEF Shapes, Become

\* Where the steps of mkdir, rmdir and rm lead.
LEMMA CommandPlaces ==
    ASSUME Shapes, NEW w \in Workers
    PROVE  /\ mkdir(w) => job'[w].at \in {"mkdir", "idle"}
           /\ rmdir(w) => job'[w].at \in {"rmdir_check", "rmdir_delete", "idle"}
           /\ rm(w) => job'[w].at \in {"rm_select", "rm_write", "rm_unlink", "idle"}
           /\ mkdir(w) \/ rmdir(w) \/ rm(w) => \A v \in Workers \ {w} : job'[v] = job[v]
<1>1. ASSUME mkdir(w)
      PROVE  \E j : Become(w, j) /\ j.at \in {"mkdir", "idle"}
  <2>1. ASSUME NEW p \in Paths, MkdirParent(w, p)
        PROVE  \E j : Become(w, j) /\ j.at = "mkdir"
    BY <2>1 DEF MkdirParent
  <2>2. CASE MkdirInsert(w)
    BY <2>2 DEF MkdirInsert, Idle
  <2>. QED
    BY <1>1, <2>1, <2>2, Zenon DEF mkdir
<1>2. ASSUME rmdir(w)
      PROVE  \E j : Become(w, j) /\ j.at \in {"rmdir_check", "rmdir_delete", "idle"}
  <2>1. ASSUME NEW p \in Paths, RmdirLookup(w, p)
        PROVE  \E j : Become(w, j) /\ j.at = "rmdir_check"
    BY <2>1 DEF RmdirLookup
  <2>2. CASE RmdirCheck(w)
    BY <2>2 DEF RmdirCheck, Idle
  <2>3. CASE RmdirDelete(w)
    BY <2>3 DEF RmdirDelete, Idle
  <2>. QED
    BY <1>2, <2>1, <2>2, <2>3, Zenon DEF rmdir
<1>3. ASSUME rm(w)
      PROVE  \E j : Become(w, j) /\ j.at \in {"rm_select", "rm_write", "rm_unlink", "idle"}
  <2>1. ASSUME NEW p \in Paths, RmLookup(w, p)
        PROVE  \E j : Become(w, j) /\ j.at = "rm_select"
    BY <2>1 DEF RmLookup
  <2>2. CASE RmSelect(w)
    <3>. DEFINE Selected(r) == [at |-> "rm_write", id |-> r.id, file |-> r.file,
                                seen |-> r.file = file.id]
    <3>1. Become(w, Idle) \/ \E r : Become(w, Selected(r))
      BY <2>2, Zenon DEF RmSelect
    <3>2. Idle.at = "idle" /\ \A r : Selected(r).at = "rm_write"
      BY Zenon DEF Idle
    <3>. HIDE DEF Selected
    <3>. QED
      BY <3>1, <3>2, Zenon
  <2>3. CASE RmWrite(w)
    BY <2>3 DEF RmWrite, Idle
  <2>4. CASE RmUnlink(w)
    BY <2>4 DEF RmUnlink, Idle
  <2>. QED
    BY <1>3, <2>1, <2>2, <2>3, <2>4, Zenon DEF rm
<1>. QED
    BY <1>1, <1>2, <1>3, BecomeFacts, Zenon

\* A step that only reads the tables.
LEMMA ReadInv ==
    ASSUME StoreInv, NEW w \in Workers, UNCHANGED dbVars,
           job' = [v \in Workers |-> job'[v]],
           \A v \in Workers \ {w} : job'[v] = job[v],
           Remembered(job[w])',
           job'[w].at \in {"puts_target", "puts_find", "puts_open", "puts_rename", "puts_discard"}
               => job'[w] = [at |-> job'[w].at, path |-> job'[w].path,
                             parent |-> job'[w].parent, size |-> job'[w].size],
           job'[w].at = "puts_receive" =>
               job'[w] = [at |-> job'[w].at, path |-> job'[w].path,
                          parent |-> job'[w].parent, size |-> job'[w].size,
                          inode |-> job'[w].inode, pos |-> job'[w].pos]
    PROVE  StoreInv'
<1>1. rows' = rows /\ last_row' = last_row /\ file' = file /\ last_file' = last_file
    BY Zenon DEF dbVars
<1>2. Tables' /\ RefsBounded'
    BY <1>1, Zenon DEF StoreInv, Tables, RefsBounded, FileRows, DirId
<1>3. \A v \in Workers : Remembered(job[v])'
    BY <1>1 DEF StoreInv, Remembered, DirId
<1>4. Shapes'
    BY Zenon DEF StoreInv, Shapes
<1>. QED
    BY <1>2, <1>3, <1>4, Zenon DEF StoreInv

\* The lookups of the four commands.
LEMMA LookupInv ==
    ASSUME StoreInv, NEW w \in Workers,
           \/ \E p \in Paths : MkdirParent(w, p) \/ RmdirLookup(w, p) \/ RmLookup(w, p)
           \/ \E p \in Paths, size \in Sizes : PutsParent(w, p, size)
    PROVE  StoreInv'
<1>1. UNCHANGED dbVars
    BY Zenon DEF MkdirParent, RmdirLookup, RmLookup, PutsParent
<1>2. rows' = rows /\ last_row' = last_row
    BY <1>1, Zenon DEF dbVars
<1>3. \A r \in rows : r.kind = "dir" => DirId(r.id)'
    BY <1>2 DEF StoreInv, Tables, DirId
<1>4. ASSUME NEW p \in Paths, MkdirParent(w, p) PROVE StoreInv'
  <2>1. PICK r \in rows : /\ r.kind = "dir"
                          /\ Become(w, [at |-> "mkdir", path |-> p, parent |-> r.id])
    BY <1>4, Zenon DEF MkdirParent, Found, IsDir
  <2>2. /\ job' = [v \in Workers |-> job'[v]]
        /\ job'[w] = [at |-> "mkdir", path |-> p, parent |-> r.id]
        /\ \A v \in Workers \ {w} : job'[v] = job[v]
    BY <2>1, BecomeFacts, Zenon DEF StoreInv
  <2>3. Remembered(job[w])'
    BY <1>3, <2>1, <2>2 DEF Remembered
  <2>. QED
    BY <1>1, <2>2, <2>3, ReadInv
<1>5. ASSUME NEW p \in Paths, RmdirLookup(w, p) PROVE StoreInv'
  <2>1. PICK r \in rows : r.kind = "dir" /\ Become(w, [at |-> "rmdir_check", id |-> r.id])
    BY <1>5, Zenon DEF RmdirLookup, Found, IsDir
  <2>2. /\ job' = [v \in Workers |-> job'[v]] /\ job'[w] = [at |-> "rmdir_check", id |-> r.id]
        /\ \A v \in Workers \ {w} : job'[v] = job[v]
    BY <2>1, BecomeFacts, Zenon DEF StoreInv
  <2>3. Remembered(job[w])'
    BY <1>3, <2>1, <2>2 DEF Remembered
  <2>. QED
    BY <1>1, <2>2, <2>3, ReadInv
<1>6. ASSUME NEW p \in Paths, RmLookup(w, p) PROVE StoreInv'
  <2>1. PICK r \in rows : Become(w, [at |-> "rm_select", id |-> r.id])
    BY <1>6, Zenon DEF RmLookup, Found
  <2>2. /\ job' = [v \in Workers |-> job'[v]] /\ job'[w] = [at |-> "rm_select", id |-> r.id]
        /\ \A v \in Workers \ {w} : job'[v] = job[v]
    BY <2>1, BecomeFacts, Zenon DEF StoreInv
  <2>3. Remembered(job[w])'
    BY <2>2 DEF Remembered
  <2>. QED
    BY <1>1, <2>2, <2>3, ReadInv
<1>7. ASSUME NEW p \in Paths, NEW size \in Sizes, PutsParent(w, p, size) PROVE StoreInv'
  <2>1. PICK r \in rows : /\ r.kind = "dir"
                          /\ Become(w, [at |-> "puts_target", path |-> p, parent |-> r.id,
                                        size |-> size])
    BY <1>7, Zenon DEF PutsParent, Found, IsDir
  <2>2. /\ job' = [v \in Workers |-> job'[v]]
        /\ job'[w] = [at |-> "puts_target", path |-> p, parent |-> r.id, size |-> size]
        /\ \A v \in Workers \ {w} : job'[v] = job[v]
    BY <2>1, BecomeFacts, Zenon DEF StoreInv
  <2>3. Remembered(job[w])'
    BY <1>3, <2>1, <2>2 DEF Remembered
  <2>. QED
    BY <1>1, <2>2, <2>3, ReadInv
<1>. QED
    BY <1>4, <1>5, <1>6, <1>7, Zenon

\* A command ends.
LEMMA EndInv ==
    ASSUME StoreInv, NEW w \in Workers, UNCHANGED dbVars,
           job' = [job EXCEPT ![w] = Idle] \/ job' = [job EXCEPT ![w] = [at |-> "rm_unlink"]]
    PROVE  StoreInv'
<1>1. /\ job' = [v \in Workers |-> job'[v]]
      /\ job'[w].at \in {"idle", "rm_unlink"}
      /\ \A v \in Workers \ {w} : job'[v] = job[v]
    BY DEF StoreInv, Shapes, Idle
<1>2. Remembered(job[w])'
    BY <1>1, Zenon DEF Remembered
<1>. QED
    BY <1>1, <1>2, ReadInv, Zenon

\* The steps of rmdir and rm before they write.
LEMMA CheckInv ==
    ASSUME StoreInv, NEW w \in Workers, RmdirCheck(w) \/ RmSelect(w)
    PROVE  StoreInv'
<1>1. UNCHANGED dbVars
    BY Zenon DEF RmdirCheck, RmSelect
<1>2. rows' = rows /\ last_row' = last_row
    BY <1>1, Zenon DEF dbVars
<1>3. CASE Become(w, Idle)
    BY <1>1, <1>3, EndInv, Zenon DEF Become
<1>4. CASE RmdirCheck(w) /\ ~Become(w, Idle)
  <2>1. job[w].at = "rmdir_check" /\ Become(w, [at |-> "rmdir_delete", id |-> job[w].id])
    BY <1>4, Zenon DEF RmdirCheck, At
  <2>2. /\ job' = [v \in Workers |-> job'[v]]
        /\ job'[w] = [at |-> "rmdir_delete", id |-> job[w].id]
        /\ \A v \in Workers \ {w} : job'[v] = job[v]
    BY <2>1, Zenon DEF StoreInv, Shapes, Become
  <2>3. Remembered(job[w])'
    BY <1>2, <2>1, <2>2 DEF StoreInv, Remembered, DirId
  <2>. QED
    BY <1>1, <2>2, <2>3, ReadInv
<1>5. CASE RmSelect(w) /\ ~Become(w, Idle)
  <2>1. PICK r \in rows : /\ r.id = job[w].id /\ r.kind = "file"
                          /\ Become(w, [at |-> "rm_write", id |-> r.id, file |-> r.file,
                                        seen |-> r.file = file.id])
    BY <1>5, Zenon DEF RmSelect
  <2>2. /\ job' = [v \in Workers |-> job'[v]]
        /\ job'[w].at = "rm_write" /\ job'[w].id = r.id /\ job'[w].file = r.file
        /\ \A v \in Workers \ {w} : job'[v] = job[v]
    BY <2>1, Zenon DEF StoreInv, Shapes, Become
  <2>3. /\ r.file \in Nat \ {0} /\ r.id \in 1 .. last_row
        /\ \A s \in rows : s.id = r.id => s = r
    BY <2>1, Zenon DEF StoreInv, Tables
  <2>4. Remembered(job[w])'
    BY <1>2, <2>1, <2>2, <2>3, Zenon DEF Remembered
  <2>. QED
    BY <1>1, <2>2, <2>4, ReadInv, Zenon
<1>. QED
    BY <1>3, <1>4, <1>5, Zenon

Uploading == {"puts_target", "puts_find", "puts_open", "puts_stat", "puts_receive",
              "puts_rename", "puts_discard", "puts_create"}

\* What an upload remembers, as a record.
UploadShape(j) ==
    /\ j.at \in {"puts_target", "puts_find", "puts_open", "puts_rename", "puts_discard"} =>
           j = [at |-> j.at, path |-> j.path, parent |-> j.parent, size |-> j.size]
    /\ j.at = "puts_receive" =>
           j = [at |-> j.at, path |-> j.path, parent |-> j.parent, size |-> j.size,
                inode |-> j.inode, pos |-> j.pos]

\* An upload goes on with the parent it looked up.
LEMMA UploadGoesOn ==
    ASSUME StoreInv, NEW w \in Workers, UNCHANGED dbVars,
           job' = [v \in Workers |-> job'[v]],
           \A v \in Workers \ {w} : job'[v] = job[v],
           job[w].at \in Uploading, job'[w].at \in Uploading,
           job'[w].parent = job[w].parent,
           UploadShape(job'[w])
    PROVE  StoreInv'
<1>1. rows' = rows /\ last_row' = last_row
    BY Zenon DEF dbVars
<1>2. Remembered(job[w])'
    BY <1>1 DEF StoreInv, Remembered, DirId, Uploading
<1>. QED
    BY <1>2, ReadInv, Zenon DEF Uploading, UploadShape

\* The steps of an upload before it writes the tables.
LEMMA UploadInv ==
    ASSUME StoreInv, NEW w \in Workers,
           \/ PutsTarget(w) \/ PutsFind(w) \/ PutsOpen(w) \/ PutsStat(w) \/ PutsReceive(w)
           \/ PutsVerify(w) \/ PutsRename(w) \/ PutsDiscard(w)
    PROVE  StoreInv'
<1>1. UNCHANGED dbVars
    BY Zenon DEF PutsTarget, PutsFind, PutsOpen, PutsStat, PutsReceive, PutsVerify, PutsRename,
           PutsDiscard
<1>2. job = [v \in Workers |-> job[v]]
    BY Zenon DEF StoreInv, Shapes
<1>3. CASE Become(w, Idle)
    BY <1>1, <1>3, EndInv, Zenon DEF Become
<1>4. CASE PutsTarget(w) /\ ~Become(w, Idle)
  <2>1. job[w].at = "puts_target" /\ job' = [job EXCEPT ![w] = [job[w] EXCEPT !.at = "puts_find"]]
    BY <1>4, Zenon DEF PutsTarget, At, Become
  <2>2. job[w] = [at |-> job[w].at, path |-> job[w].path, parent |-> job[w].parent,
                  size |-> job[w].size]
    BY <2>1, Zenon DEF StoreInv, Shapes
  <2>3. job'[w] = [at |-> "puts_find", path |-> job[w].path, parent |-> job[w].parent,
                   size |-> job[w].size]
    BY <1>2, <2>1, <2>2, Zenon
  <2>4. job' = [v \in Workers |-> job'[v]] /\ \A v \in Workers \ {w} : job'[v] = job[v]
    BY <1>2, <2>1, Zenon
  <2>5. /\ job[w].at \in Uploading /\ job'[w].at \in Uploading
        /\ job'[w].parent = job[w].parent /\ UploadShape(job'[w])
    BY <2>1, <2>3, <2>4 DEF Uploading, UploadShape
  <2>. QED
    BY <1>1, <2>3, <2>4, <2>5, UploadGoesOn, Zenon
<1>5. CASE PutsFind(w)
  <2>1. CASE file # NoFile /\ file.size = job[w].size
    <3>1. /\ job[w].at = "puts_find"
          /\ job' = [job EXCEPT ![w] = [at |-> "puts_link", path |-> job[w].path,
                                        parent |-> job[w].parent, file |-> file.id]]
        BY <1>5, <2>1, Zenon DEF PutsFind, At, Become
    <3>2. /\ job'[w].at = "puts_link" /\ job'[w].parent = job[w].parent
          /\ job'[w].file = file.id
          /\ job' = [v \in Workers |-> job'[v]] /\ \A v \in Workers \ {w} : job'[v] = job[v]
        BY <1>2, <3>1, Zenon
    <3>3. file.id \in Nat \ {0}
        BY <2>1, Zenon DEF StoreInv, Tables
    <3>4. DirId(job[w].parent)
        BY <3>1, Zenon DEF StoreInv, Remembered
    <3>5. Remembered(job[w])'
        BY <1>1, <3>2, <3>3, <3>4, Zenon DEF Remembered, DirId, dbVars
    <3>. QED
        BY <1>1, <3>2, <3>5, ReadInv, Zenon
  <2>2. CASE ~(file # NoFile /\ file.size = job[w].size)
    <3>1. job[w].at = "puts_find" /\ job' = [job EXCEPT ![w] = [job[w] EXCEPT !.at = "puts_open"]]
        BY <1>5, <2>2, Zenon DEF PutsFind, At, Become
    <3>2. job[w] = [at |-> job[w].at, path |-> job[w].path, parent |-> job[w].parent,
                    size |-> job[w].size]
        BY <3>1, Zenon DEF StoreInv, Shapes
    <3>3. job'[w] = [at |-> "puts_open", path |-> job[w].path, parent |-> job[w].parent,
                     size |-> job[w].size]
        BY <1>2, <3>1, <3>2, Zenon
    <3>4. job' = [v \in Workers |-> job'[v]] /\ \A v \in Workers \ {w} : job'[v] = job[v]
        BY <1>2, <3>1, Zenon
    <3>5. /\ job[w].at \in Uploading /\ job'[w].at \in Uploading
          /\ job'[w].parent = job[w].parent /\ UploadShape(job'[w])
      BY <3>1, <3>3, <3>4 DEF Uploading, UploadShape
    <3>. QED
      BY <1>1, <3>3, <3>4, <3>5, UploadGoesOn, Zenon
  <2>. QED
    BY <2>1, <2>2, Zenon
<1>6. CASE PutsOpen(w)
  <2>1. /\ job[w].at = "puts_open"
        /\ job' = [job EXCEPT ![w] = [at |-> "puts_stat", path |-> job[w].path,
                      parent |-> job[w].parent, size |-> job[w].size, inode |-> part']]
    BY <1>6, Zenon DEF PutsOpen, At, Become
  <2>2. /\ job'[w].at = "puts_stat" /\ job'[w].parent = job[w].parent
        /\ job' = [v \in Workers |-> job'[v]] /\ \A v \in Workers \ {w} : job'[v] = job[v]
    BY <1>2, <2>1, Zenon
  <2>3. /\ job[w].at \in Uploading /\ job'[w].at \in Uploading
        /\ job'[w].parent = job[w].parent /\ UploadShape(job'[w])
    BY <2>1, <2>2, Zenon DEF Uploading, UploadShape
  <2>. QED
    BY <1>1, <2>2, <2>3, UploadGoesOn, Zenon
<1>7. CASE PutsStat(w)
  <2>1. /\ job[w].at = "puts_stat"
        /\ job' = [job EXCEPT ![w] = [at |-> "puts_receive", path |-> job[w].path,
                      parent |-> job[w].parent, size |-> job[w].size, inode |-> job[w].inode,
                      pos |-> ResumeAt(job[w].inode, job[w].size)]]
    BY <1>7, Zenon DEF PutsStat, At, Become
  <2>2. /\ job'[w] = [at |-> "puts_receive", path |-> job[w].path, parent |-> job[w].parent,
                      size |-> job[w].size, inode |-> job[w].inode,
                      pos |-> ResumeAt(job[w].inode, job[w].size)]
        /\ job' = [v \in Workers |-> job'[v]] /\ \A v \in Workers \ {w} : job'[v] = job[v]
    BY <1>2, <2>1, Zenon
  <2>3. /\ job[w].at \in Uploading /\ job'[w].at \in Uploading
        /\ job'[w].parent = job[w].parent /\ UploadShape(job'[w])
    BY <2>1, <2>2, Zenon DEF Uploading, UploadShape
  <2>. QED
    BY <1>1, <2>2, <2>3, UploadGoesOn, Zenon
<1>8. CASE PutsReceive(w)
  <2>1. /\ job[w].at = "puts_receive"
        /\ job' = [job EXCEPT ![w] = [job[w] EXCEPT !.pos = @ + 1]]
    BY <1>8, Zenon DEF PutsReceive, At, Become
  <2>2. job[w] = [at |-> job[w].at, path |-> job[w].path, parent |-> job[w].parent,
                  size |-> job[w].size, inode |-> job[w].inode, pos |-> job[w].pos]
    BY <2>1, Zenon DEF StoreInv, Shapes
  <2>3. /\ job'[w] = [at |-> "puts_receive", path |-> job[w].path, parent |-> job[w].parent,
                      size |-> job[w].size, inode |-> job[w].inode, pos |-> job[w].pos + 1]
        /\ job' = [v \in Workers |-> job'[v]] /\ \A v \in Workers \ {w} : job'[v] = job[v]
    BY <1>2, <2>1, <2>2, Zenon
  <2>4. /\ job[w].at \in Uploading /\ job'[w].at \in Uploading
        /\ job'[w].parent = job[w].parent /\ UploadShape(job'[w])
    BY <2>1, <2>3 DEF Uploading, UploadShape
  <2>. QED
    BY <1>1, <2>3, <2>4, UploadGoesOn, Zenon
<1>9. CASE PutsVerify(w) /\ ~Become(w, Idle)
  <2>1. /\ job[w].at = "puts_receive"
        /\ job' = [job EXCEPT ![w] = [at |-> "puts_rename", path |-> job[w].path,
                                      parent |-> job[w].parent, size |-> job[w].size]]
    BY <1>9, Zenon DEF PutsVerify, At, Become
  <2>2. /\ job'[w] = [at |-> "puts_rename", path |-> job[w].path, parent |-> job[w].parent,
                      size |-> job[w].size]
        /\ job' = [v \in Workers |-> job'[v]] /\ \A v \in Workers \ {w} : job'[v] = job[v]
    BY <1>2, <2>1, Zenon
  <2>3. /\ job[w].at \in Uploading /\ job'[w].at \in Uploading
        /\ job'[w].parent = job[w].parent /\ UploadShape(job'[w])
    BY <2>1, <2>2, Zenon DEF Uploading, UploadShape
  <2>. QED
    BY <1>1, <2>2, <2>3, UploadGoesOn, Zenon
<1>10. CASE (PutsRename(w) \/ PutsDiscard(w)) /\ ~Become(w, Idle)
  <2>1. PICK place \in {"puts_create", "puts_discard"} :
            /\ job[w].at \in {"puts_rename", "puts_discard"}
            /\ job' = [job EXCEPT ![w] = [job[w] EXCEPT !.at = place]]
    BY <1>10, Zenon DEF PutsRename, PutsDiscard, At, Become
  <2>2. job[w] = [at |-> job[w].at, path |-> job[w].path, parent |-> job[w].parent,
                  size |-> job[w].size]
    BY <2>1, Zenon DEF StoreInv, Shapes
  <2>3. /\ job'[w] = [at |-> place, path |-> job[w].path, parent |-> job[w].parent,
                      size |-> job[w].size]
        /\ job' = [v \in Workers |-> job'[v]] /\ \A v \in Workers \ {w} : job'[v] = job[v]
    BY <1>2, <2>1, <2>2, Zenon
  <2>4. /\ job[w].at \in Uploading /\ job'[w].at \in Uploading
        /\ job'[w].parent = job[w].parent /\ UploadShape(job'[w])
    BY <2>1, <2>3 DEF Uploading, UploadShape
  <2>. QED
    BY <1>1, <2>3, <2>4, UploadGoesOn, Zenon
<1>. QED
    BY <1>3, <1>4, <1>5, <1>6, <1>7, <1>8, <1>9, <1>10, Zenon

\* What a command remembers survives the writes of the others: a new row has a new id.
LEMMA RowsMove ==
    ASSUME StoreInv, NEW w \in Workers, job' = [job EXCEPT ![w] = Idle]
                                        \/ job' = [job EXCEPT ![w] = [at |-> "rm_unlink"]],
           last_row' \in Nat, last_row <= last_row',
           \A r \in rows' : r \in rows \/ r.id \notin 0 .. last_row
    PROVE  /\ \A id : DirId(id) => DirId(id)'
           /\ Shapes' /\ \A v \in Workers : Remembered(job[v])'
<1>1. /\ job' = [v \in Workers |-> job'[v]] /\ job'[w].at \in {"idle", "rm_unlink"}
      /\ \A v \in Workers \ {w} : job'[v] = job[v]
    BY DEF StoreInv, Shapes, Idle
<1>2. last_row \in Nat
    BY Zenon DEF StoreInv, Tables
<1>3. \A id : DirId(id) => DirId(id)'
    BY <1>2 DEF DirId
<1>4. Shapes'
    BY <1>1, Zenon DEF StoreInv, Shapes
<1>5. ASSUME NEW v \in Workers PROVE Remembered(job[v])'
  <2>1. CASE v = w
    BY <1>1, <2>1, Zenon DEF Remembered
  <2>2. CASE v # w
    <3>1. job'[v] = job[v] /\ Remembered(job[v])
        BY <1>1, <2>2, Zenon DEF StoreInv
    <3>. QED
        BY <1>2, <1>3, <3>1 DEF Remembered
  <2>. QED
    BY <2>1, <2>2, Zenon
<1>. QED
    BY <1>3, <1>4, <1>5, Zenon

\* An INSERT into paths keeps what the rows are.
LEMMA InsertFacts ==
    ASSUME StoreInv, NEW w \in Workers, job' = [job EXCEPT ![w] = Idle],
           NEW path, NEW kind \in {"dir", "file"}, NEW file_id, NEW parent_id,
           InsertRow(path, kind, file_id, parent_id), DirId(parent_id),
           kind = "file" => file_id \in Nat \ {0}
    PROVE  /\ rows' = rows \cup {Row(last_row + 1, path, kind, file_id, parent_id)}
           /\ Row(last_row + 1, path, kind, file_id, parent_id) \notin rows
           /\ IsFiniteSet(rows') /\ last_row' \in Nat
           /\ \A r \in rows' : r.id \in 1 .. last_row' /\ DirId(r.parent)'
           /\ \A r \in rows' : r.kind = "file" => r.file \in Nat \ {0}
           /\ \A r, s \in rows' : r.id = s.id => r = s
           /\ Shapes' /\ \A v \in Workers : Remembered(job[v])'
<1>. DEFINE new == Row(last_row + 1, path, kind, file_id, parent_id)
<1>1. /\ rows' = rows \cup {new} /\ last_row' = last_row + 1 /\ last_row \in Nat
      /\ new.id = last_row + 1 /\ new.kind = kind /\ new.file = file_id
      /\ new.parent = parent_id
    BY Zenon DEF InsertRow, Row, StoreInv, Tables
<1>2. /\ IsFiniteSet(rows) /\ \A r \in rows : r.id \in 1 .. last_row /\ DirId(r.parent)
      /\ \A r \in rows : r.kind = "file" => r.file \in Nat \ {0}
      /\ \A r, s \in rows : r.id = s.id => r = s
    BY Zenon DEF StoreInv, Tables
<1>. HIDE DEF new
<1>3. new \notin rows
    BY <1>1, <1>2
<1>4. IsFiniteSet(rows')
    BY <1>1, <1>2, FS_AddElement, Zenon
<1>5. /\ last_row' \in Nat /\ last_row <= last_row'
      /\ \A r \in rows' : r \in rows \/ r.id \notin 0 .. last_row
    BY <1>1
<1>6. /\ \A id : DirId(id) => DirId(id)'
      /\ Shapes' /\ \A v \in Workers : Remembered(job[v])'
    BY <1>5, RowsMove, Zenon
<1>7. \A r \in rows' : r.id \in 1 .. last_row' /\ DirId(r.parent)'
  <2>1. \A r \in rows' : DirId(r.parent)
    BY <1>1, <1>2, Zenon
  <2>2. \A r \in rows' : r.id \in 1 .. last_row'
    BY <1>1, <1>2
  <2>. QED
    BY <1>6, <2>1, <2>2, Zenon
<1>8. /\ \A r \in rows' : r.kind = "file" => r.file \in Nat \ {0}
      /\ \A r, s \in rows' : r.id = s.id => r = s
    BY <1>1, <1>2
<1>. QED
    BY <1>1, <1>3, <1>4, <1>6, <1>7, <1>8 DEF new

\* The insertion of a directory.
LEMMA MkdirInv ==
    ASSUME StoreInv, NEW w \in Workers, MkdirInsert(w)
    PROVE  StoreInv'
<1>1. /\ job[w].at = "mkdir" /\ job' = [job EXCEPT ![w] = Idle]
      /\ file' = file /\ last_file' = last_file
      /\ \/ InsertRow(job[w].path, "dir", 0, job[w].parent)
         \/ UNCHANGED <<rows, last_row>>
    BY Zenon DEF MkdirInsert, At, Become
<1>2. CASE UNCHANGED <<rows, last_row>>
    BY <1>1, <1>2, EndInv, Zenon DEF dbVars
<1>3. CASE InsertRow(job[w].path, "dir", 0, job[w].parent)
  <2>. DEFINE new == Row(last_row + 1, job[w].path, "dir", 0, job[w].parent)
  <2>1. DirId(job[w].parent)
    BY <1>1, Zenon DEF StoreInv, Remembered
  <2>2. /\ rows' = rows \cup {new} /\ IsFiniteSet(rows') /\ last_row' \in Nat
        /\ \A r \in rows' : r.id \in 1 .. last_row' /\ DirId(r.parent)'
        /\ \A r \in rows' : r.kind = "file" => r.file \in Nat \ {0}
        /\ \A r, s \in rows' : r.id = s.id => r = s
        /\ Shapes' /\ \A v \in Workers : Remembered(job[v])'
    BY <1>1, <1>3, <2>1, InsertFacts, Zenon
  <2>3. new.kind = "dir"
    BY Zenon DEF Row
  <2>. HIDE DEF new
  <2>4. {r \in FileRows' : r.file = file'.id} = {r \in FileRows : r.file = file.id}
    BY <1>1, <2>2, <2>3, Zenon DEF FileRows
  <2>5. Tables'
    BY <1>1, <2>2, Zenon DEF StoreInv, Tables
  <2>6. RefsBounded'
    BY <1>1, <2>4, Zenon DEF StoreInv, RefsBounded
  <2>. QED
    BY <2>2, <2>5, <2>6, Zenon DEF StoreInv
<1>. QED
    BY <1>1, <1>2, <1>3, Zenon

\* A DELETE from paths keeps what the rows are.
LEMMA DeleteFacts ==
    ASSUME StoreInv, NEW w \in Workers, job' = [job EXCEPT ![w] = Idle]
                                        \/ job' = [job EXCEPT ![w] = [at |-> "rm_unlink"]],
           rows' \subseteq rows, last_row' = last_row
    PROVE  /\ IsFiniteSet(rows') /\ last_row' \in Nat
           /\ \A r \in rows' : r.id \in 1 .. last_row' /\ DirId(r.parent)'
           /\ \A r \in rows' : r.kind = "file" => r.file \in Nat \ {0}
           /\ \A r, s \in rows' : r.id = s.id => r = s
           /\ Shapes' /\ \A v \in Workers : Remembered(job[v])'
<1>1. /\ IsFiniteSet(rows) /\ last_row \in Nat
      /\ \A r \in rows : r.id \in 1 .. last_row /\ DirId(r.parent)
      /\ \A r \in rows : r.kind = "file" => r.file \in Nat \ {0}
      /\ \A r, s \in rows : r.id = s.id => r = s
    BY Zenon DEF StoreInv, Tables
<1>2. IsFiniteSet(rows')
    BY <1>1, FS_Subset, Zenon
<1>3. /\ \A id : DirId(id) => DirId(id)'
      /\ Shapes' /\ \A v \in Workers : Remembered(job[v])'
    BY <1>1, RowsMove
<1>. QED
    BY <1>1, <1>2, <1>3, Zenon

\* The deletion of a directory.
LEMMA RmdirInv ==
    ASSUME StoreInv, NEW w \in Workers, RmdirDelete(w)
    PROVE  StoreInv'
<1>1. /\ job[w].at = "rmdir_delete" /\ job' = [job EXCEPT ![w] = Idle]
      /\ rows' = {r \in rows : r.id # job[w].id}
      /\ last_row' = last_row /\ file' = file /\ last_file' = last_file
    BY Zenon DEF RmdirDelete, At, Become
<1>2. /\ IsFiniteSet(rows') /\ last_row' \in Nat
      /\ \A r \in rows' : r.id \in 1 .. last_row' /\ DirId(r.parent)'
      /\ \A r \in rows' : r.kind = "file" => r.file \in Nat \ {0}
      /\ \A r, s \in rows' : r.id = s.id => r = s
      /\ Shapes' /\ \A v \in Workers : Remembered(job[v])'
    BY <1>1, DeleteFacts, Zenon
<1>3. \A r \in rows : r.id = job[w].id => r.kind = "dir"
    BY <1>1, Zenon DEF StoreInv, Remembered, DirId
<1>4. {r \in FileRows' : r.file = file'.id} = {r \in FileRows : r.file = file.id}
    BY <1>1, <1>3, Zenon DEF FileRows
<1>5. Tables'
    BY <1>1, <1>2, Zenon DEF StoreInv, Tables
<1>6. RefsBounded'
    BY <1>1, <1>4, Zenon DEF StoreInv, RefsBounded
<1>. QED
    BY <1>2, <1>5, <1>6, Zenon DEF StoreInv

\* The DELETE and UPDATE of dao_rm_file: a reference goes with the path that led to it.
LEMMA RmInv ==
    ASSUME StoreInv, NEW w \in Workers, RmWrite(w)
    PROVE  StoreInv'
<1>. DEFINE j == job[w]
            Gone == {r \in rows : r.id = j.id}
            Led == {r \in FileRows : r.file = file.id}
<1>1. /\ j.at = "rm_write" /\ last_row' = last_row /\ last_file' = last_file
      /\ rows' \in {rows, rows \ Gone} /\ (j.file = file.id => rows' = rows \ Gone)
      /\ file' = IF j.file = file.id THEN Unreferenced(file) ELSE file
      /\ job' = [job EXCEPT ![w] = Idle] \/ job' = [job EXCEPT ![w] = [at |-> "rm_unlink"]]
    BY Zenon DEF RmWrite, At, Become
<1>2. /\ j.file \in Nat \ {0}
      /\ \A r \in Gone : r.kind = "file" /\ r.file = j.file
      /\ \A r, s \in Gone : r = s
    BY <1>1 DEF StoreInv, Remembered, Tables
<1>3. /\ file = [id |-> file.id, refs |-> file.refs, size |-> file.size]
      /\ file.id \in Nat /\ file.refs \in Nat
      /\ IF file.id = 0 THEN file = NoFile ELSE file.refs # 0
      /\ IsFiniteSet(rows) /\ last_file \in Nat
    BY Zenon DEF StoreInv, Tables
<1>4. IsFiniteSet(Led) /\ Cardinality(Led) \in Nat /\ file.refs <= Cardinality(Led)
  <2>1. Led \subseteq rows
    BY Zenon DEF FileRows
  <2>. QED
    BY <1>3, <2>1, FS_Subset, FS_CardinalityType, Zenon DEF StoreInv, RefsBounded
<1>5. /\ IsFiniteSet(rows') /\ last_row' \in Nat
      /\ \A r \in rows' : r.id \in 1 .. last_row' /\ DirId(r.parent)'
      /\ \A r \in rows' : r.kind = "file" => r.file \in Nat \ {0}
      /\ \A r, s \in rows' : r.id = s.id => r = s
      /\ Shapes' /\ \A v \in Workers : Remembered(job[v])'
  <2>1. rows' \subseteq rows
    BY <1>1, Zenon
  <2>. QED
    BY <1>1, <2>1, DeleteFacts, Zenon
<1>6. CASE j.file # file.id
  <2>1. file' = file
    BY <1>1, <1>6, Zenon
  <2>2. {r \in FileRows' : r.file = file'.id} = Led
    BY <1>1, <1>2, <1>6, <2>1, Zenon DEF FileRows
  <2>3. Tables'
    BY <1>1, <1>3, <1>5, <2>1, Zenon DEF Tables
  <2>4. RefsBounded'
    BY <1>4, <2>1, <2>2, Zenon DEF RefsBounded
  <2>. QED
    BY <1>5, <2>3, <2>4, Zenon DEF StoreInv
<1>7. CASE j.file = file.id
  <2>1. file.id # 0 /\ file.refs \in Nat \ {0}
    BY <1>2, <1>3, <1>7, Zenon
  <2>2. CASE file.refs = 1
    <3>1. file' = NoFile
        BY <1>1, <1>7, <2>2, Zenon DEF Unreferenced
    <3>2. /\ file'.id = 0 /\ file'.refs = 0
          /\ file' = [id |-> file'.id, refs |-> file'.refs, size |-> file'.size]
        BY <3>1, Zenon DEF NoFile
    <3>3. Tables'
        BY <1>1, <1>3, <1>5, <3>1, <3>2 DEF Tables, NoFile
    <3>4. IsFiniteSet({r \in FileRows' : r.file = file'.id})
      <4>1. {r \in FileRows' : r.file = file'.id} \subseteq rows'
        BY Zenon DEF FileRows
      <4>. QED
        BY <1>5, <4>1, FS_Subset, Zenon
    <3>5. RefsBounded'
        BY <3>2, <3>4, FS_CardinalityType DEF RefsBounded
    <3>. QED
        BY <1>5, <3>3, <3>5, Zenon DEF StoreInv
  <2>3. CASE file.refs # 1
    <3>1. file' = [id |-> file.id, refs |-> file.refs - 1, size |-> file.size]
        BY <1>1, <1>3, <1>7, <2>3, Zenon DEF Unreferenced
    <3>2. /\ file'.id = file.id /\ file'.refs = file.refs - 1 /\ file'.refs \in Nat \ {0}
          /\ file' = [id |-> file'.id, refs |-> file'.refs, size |-> file'.size]
        BY <2>1, <2>3, <3>1
    <3>3. Tables'
        BY <1>1, <1>3, <1>5, <2>1, <3>2, Zenon DEF Tables
    <3>4. {r \in FileRows' : r.file = file'.id} = Led \ Gone
        BY <1>1, <1>7, <3>2, Zenon DEF FileRows
    <3>. HIDE DEF Led, Gone
    <3>5. Cardinality(Led) - 1 <= Cardinality(Led \ Gone)
      <4>1. CASE Gone = {}
        <5>1. Led \ Gone = Led
            BY <4>1, Zenon
        <5>. QED
            BY <1>4, <5>1
      <4>2. CASE Gone # {}
        <5>1. PICK g \in Gone : Gone = {g}
            BY <1>2, <4>2, Zenon
        <5>2. Led \ Gone = Led \ {g}
            BY <5>1, Zenon
        <5>3. Cardinality(Led \ {g}) = IF g \in Led THEN Cardinality(Led) - 1
                                       ELSE Cardinality(Led)
            BY <1>4, FS_RemoveElement, Zenon
        <5>. QED
            BY <1>4, <5>2, <5>3
      <4>. QED
        BY <4>1, <4>2, Zenon
    <3>6. Cardinality(Led \ Gone) \in Nat
        BY <1>4, FS_Subset, FS_CardinalityType, Zenon
    <3>7. RefsBounded'
      <4>1. file'.refs <= Cardinality(Led \ Gone)
        BY <1>3, <1>4, <3>2, <3>5, <3>6
      <4>. QED
        BY <3>4, <4>1, Zenon DEF RefsBounded
    <3>. QED
        BY <1>5, <3>3, <3>7, Zenon DEF StoreInv
  <2>. QED
    BY <2>2, <2>3, Zenon
<1>. QED
    BY <1>6, <1>7, Zenon

\* A path to a file is inserted, and the file gains a reference or is another one.
LEMMA LinkInv ==
    ASSUME StoreInv, NEW w \in Workers, job' = [job EXCEPT ![w] = Idle],
           NEW path, NEW parent_id, NEW file_id \in Nat \ {0},
           InsertRow(path, "file", file_id, parent_id), DirId(parent_id), last_file' \in Nat,
           \/ file' = file /\ file.id # file_id
           \/ file' = [id |-> file.id, refs |-> file.refs + 1, size |-> file.size] /\ file.id = file_id
           \/ \E size : file' = [id |-> file_id, refs |-> 1, size |-> size]
    PROVE  StoreInv'
<1>. DEFINE new == Row(last_row + 1, path, "file", file_id, parent_id)
            Led == {r \in FileRows : r.file = file.id}
<1>1. /\ rows' = rows \cup {new} /\ new \notin rows
      /\ IsFiniteSet(rows') /\ last_row' \in Nat
      /\ \A r \in rows' : r.id \in 1 .. last_row' /\ DirId(r.parent)'
      /\ \A r \in rows' : r.kind = "file" => r.file \in Nat \ {0}
      /\ \A r, s \in rows' : r.id = s.id => r = s
      /\ Shapes' /\ \A v \in Workers : Remembered(job[v])'
    BY InsertFacts, Zenon
<1>2. new.kind = "file" /\ new.file = file_id
    BY Zenon DEF Row
<1>. HIDE DEF new
<1>3. /\ file = [id |-> file.id, refs |-> file.refs, size |-> file.size]
      /\ file.id \in Nat /\ file.refs \in Nat
      /\ IF file.id = 0 THEN file = NoFile ELSE file.refs # 0
      /\ IsFiniteSet(rows) /\ last_file \in Nat
    BY Zenon DEF StoreInv, Tables
<1>4. /\ IsFiniteSet(Led) /\ Cardinality(Led) \in Nat /\ file.refs <= Cardinality(Led)
      /\ new \notin Led
  <2>1. Led \subseteq rows
    BY Zenon DEF FileRows
  <2>. QED
    BY <1>1, <1>3, <2>1, FS_Subset, FS_CardinalityType, Zenon DEF StoreInv, RefsBounded
<1>5. CASE file' = file /\ file.id # file_id
  <2>1. {r \in FileRows' : r.file = file'.id} = Led
    BY <1>1, <1>2, <1>5, Zenon DEF FileRows
  <2>2. Tables'
    BY <1>1, <1>3, <1>5, Zenon DEF Tables
  <2>3. RefsBounded'
    BY <1>4, <1>5, <2>1, Zenon DEF RefsBounded
  <2>. QED
    BY <1>1, <2>2, <2>3, Zenon DEF StoreInv
<1>6. CASE /\ file' = [id |-> file.id, refs |-> file.refs + 1, size |-> file.size]
           /\ file.id = file_id
  <2>1. /\ file'.id = file.id /\ file'.refs = file.refs + 1 /\ file'.refs \in Nat \ {0}
        /\ file' = [id |-> file'.id, refs |-> file'.refs, size |-> file'.size]
    BY <1>3, <1>6
  <2>2. {r \in FileRows' : r.file = file'.id} = Led \cup {new}
    BY <1>1, <1>2, <1>6, <2>1, Zenon DEF FileRows
  <2>3. Cardinality(Led \cup {new}) = Cardinality(Led) + 1
    BY <1>4, FS_AddElement, Zenon
  <2>4. Tables'
    BY <1>1, <1>3, <1>6, <2>1, Zenon DEF Tables
  <2>5. RefsBounded'
    BY <1>3, <1>4, <2>1, <2>2, <2>3 DEF RefsBounded
  <2>. QED
    BY <1>1, <2>4, <2>5, Zenon DEF StoreInv
<1>7. CASE \E size : file' = [id |-> file_id, refs |-> 1, size |-> size]
  <2>1. /\ file'.id = file_id /\ file'.refs = 1
        /\ file' = [id |-> file'.id, refs |-> file'.refs, size |-> file'.size]
    BY <1>7
  <2>. DEFINE Now == {r \in FileRows' : r.file = file'.id}
  <2>2. IsFiniteSet(Now) /\ new \in Now
    <3>1. Now \subseteq rows'
        BY Zenon DEF FileRows
    <3>2. new \in Now
        BY <1>1, <1>2, <2>1, Zenon DEF FileRows
    <3>. QED
        BY <1>1, <3>1, <3>2, FS_Subset, Zenon
  <2>3. Cardinality(Now) \in Nat /\ Cardinality(Now) # 0
    BY <2>2, FS_CardinalityType, FS_EmptySet, Zenon
  <2>4. Tables'
    BY <1>1, <2>1 DEF Tables
  <2>5. RefsBounded'
    BY <2>1, <2>3 DEF RefsBounded
  <2>. QED
    BY <1>1, <2>4, <2>5, Zenon DEF StoreInv
<1>. QED
    BY <1>5, <1>6, <1>7, Zenon

\* dao_link_existing_file and dao_create_file_with_path.
LEMMA RecordInv ==
    ASSUME StoreInv, NEW w \in Workers, PutsLink(w) \/ PutsCreate(w)
    PROVE  StoreInv'
<1>1. /\ job' = [job EXCEPT ![w] = Idle] /\ job[w].at \in {"puts_link", "puts_create"}
    BY Zenon DEF PutsLink, PutsCreate, Become, At
<1>2. DirId(job[w].parent) /\ (job[w].at = "puts_link" => job[w].file \in Nat \ {0})
    BY <1>1, Zenon DEF StoreInv, Remembered
<1>3. /\ file = [id |-> file.id, refs |-> file.refs, size |-> file.size]
      /\ file.id \in Nat /\ last_file \in Nat /\ (file.id = 0 => file = NoFile)
    BY Zenon DEF StoreInv, Tables
<1>4. CASE UNCHANGED dbVars
    BY <1>1, <1>4, EndInv, Zenon
<1>5. CASE PutsLink(w) /\ ~UNCHANGED dbVars
  <2>1. /\ job[w].at = "puts_link" /\ last_file' = last_file
        /\ InsertRow(job[w].path, "file", job[w].file, job[w].parent)
        /\ file' = IF file.id = job[w].file THEN Linked(file) ELSE file
    BY <1>5, Zenon DEF PutsLink, At, dbVars
  <2>2. Linked(file) = [id |-> file.id, refs |-> file.refs + 1, size |-> file.size]
    BY <1>3 DEF Linked
  <2>. QED
    BY <1>1, <1>2, <1>3, <2>1, <2>2, LinkInv, Zenon
<1>6. CASE PutsCreate(w) /\ ~UNCHANGED dbVars
  <2>. DEFINE f == IF file = NoFile THEN [id |-> last_file + 1, refs |-> 1, size |-> job[w].size]
                   ELSE [file EXCEPT !.refs = @ + 1]
  <2>1. /\ InsertRow(job[w].path, "file", f.id, job[w].parent)
        /\ file' = f /\ last_file' = Max({last_file, f.id})
    BY <1>6, Zenon DEF PutsCreate
  <2>2. f.id \in Nat \ {0}
    BY <1>3
  <2>3. \/ f = [id |-> file.id, refs |-> file.refs + 1, size |-> file.size] /\ file.id = f.id
        \/ \E size : f = [id |-> f.id, refs |-> 1, size |-> size]
    BY <1>3, Zenon
  <2>. HIDE DEF f
  <2>4. last_file' \in Nat
    <3>1. \E x \in {last_file, f.id} : \A y \in {last_file, f.id} : x >= y
        BY <1>3, <2>2
    <3>. QED
        BY <1>3, <2>1, <2>2, <3>1, Zenon DEF Max
  <2>. QED
    BY <1>1, <1>2, <2>1, <2>2, <2>3, <2>4, LinkInv, Zenon
<1>. QED
    BY <1>4, <1>5, <1>6, Zenon

\* The invariant of the tables holds before any command.
LEMMA StoreInit == Init => StoreInv
<1>. SUFFICES ASSUME Init PROVE StoreInv
    BY Zenon
<1>1. /\ rows = {Row(1, Root, "dir", 0, 0)} /\ last_row = 1 /\ last_file = 0
      /\ file = NoFile /\ job = [w \in Workers |-> Idle]
    BY Zenon DEF Init
<1>2. \A r \in rows : r.id = 1 /\ r.kind = "dir" /\ r.parent = 0
    BY <1>1 DEF Row
<1>3. IsFiniteSet(rows)
    BY <1>1, FS_Singleton, Zenon
<1>4. Tables
    BY <1>1, <1>2, <1>3 DEF Tables, DirId, NoFile
<1>5. RefsBounded
  <2>1. {r \in FileRows : r.file = file.id} = {}
    BY <1>2, Zenon DEF FileRows
  <2>. QED
    BY <1>1, <2>1, FS_EmptySet DEF RefsBounded, NoFile
<1>6. Shapes /\ \A w \in Workers : Remembered(job[w])
    BY <1>1, Zenon DEF Shapes, Remembered, Idle
<1>. QED
    BY <1>4, <1>5, <1>6, Zenon DEF StoreInv

\* Every step of every command preserves it.
LEMMA StoreNext == StoreInv /\ [Next]_vars => StoreInv'
<1>. SUFFICES ASSUME StoreInv, [Next]_vars PROVE StoreInv'
    BY Zenon
<1>1. ASSUME NEW w \in Workers, mkdir(w) \/ rmdir(w) \/ rm(w) PROVE StoreInv'
  <2>1. CASE RmUnlink(w)
    BY <2>1, EndInv, Zenon DEF RmUnlink, Become
  <2>. QED
    BY <1>1, <2>1, LookupInv, CheckInv, MkdirInv, RmdirInv, RmInv, Zenon DEF mkdir, rmdir, rm
<1>2. ASSUME NEW w \in Workers, puts(w) PROVE StoreInv'
    BY <1>2, LookupInv, UploadInv, RecordInv, Zenon DEF puts
<1>3. ASSUME NEW w \in Workers, Abort(w) PROVE StoreInv'
    BY <1>3, EndInv, Zenon DEF Abort, Become
<1>4. CASE UNCHANGED vars
  <2>1. UNCHANGED <<rows, last_row, file, last_file, job>>
    BY <1>4, Zenon DEF vars, dbVars
  <2>2. Tables' /\ RefsBounded'
    BY <2>1, Zenon DEF StoreInv, Tables, DirId, RefsBounded, FileRows
  <2>3. Shapes'
    BY <2>1, Zenon DEF StoreInv, Shapes
  <2>4. \A w \in Workers : Remembered(job[w])'
    BY <2>1 DEF StoreInv, Remembered, DirId
  <2>. QED
    BY <2>2, <2>3, <2>4, Zenon DEF StoreInv
<1>. QED
    BY <1>1, <1>2, <1>3, <1>4, Zenon DEF Next

\* The invariant of the tables holds however the commands interleave.
THEOREM StoreInvariant == Spec => []StoreInv
BY StoreInit, StoreNext, PTL DEF Spec

\* However many commands race, no entry is inside a file: a command inserts under a parent
\* it has only looked up, but ids are not given out twice.
THEOREM NothingInsideFiles == Spec => []NoChildOfFile
<1>1. StoreInv => NoChildOfFile
    BY Zenon DEF StoreInv, Tables, DirId, NoChildOfFile
<1>. QED
    BY <1>1, StoreInvariant, PTL

\* However many commands race, files.refs never counts a path that is gone, so no content
\* is kept for ever.
THEOREM RefsNeverOvercount == Spec => []RefsBounded
<1>1. StoreInv => RefsBounded
    BY Zenon DEF StoreInv
<1>. QED
    BY <1>1, StoreInvariant, PTL

-----------------------------------------------------------------------------
(* The partial upload, when clients send the content they announce.        *)

HonestClients == Data = {"good"} /\ Sizes = {Size}

\* A prefix of the content.
Prefix(c) == c \in Seq({"good"}) /\ Len(c) <= Size

\* Every inode has a prefix, and an upload writes at its end or before it.
Disk ==
    /\ content = [i \in Inodes |-> content[i]]
    /\ part \in Inodes \cup {NoInode}
    /\ \A i \in Inodes : Prefix(content[i])
    /\ \A w \in Workers :
          LET j == job[w]
          IN  /\ j.at \in {"puts_target", "puts_find", "puts_open", "puts_stat", "puts_receive"}
                    => j.size = Size
              /\ j.at \in {"puts_stat", "puts_receive"} => j.inode \in Inodes
              /\ j.at = "puts_receive" => j.pos \in Nat /\ j.pos <= Len(content[j.inode])

\* A step that leaves alone what inodes in use hold.
LEMMA DiskQuiet ==
    ASSUME Disk, NEW w \in Workers, \A v \in Workers \ {w} : job'[v] = job[v],
           part' \in Inodes \cup {NoInode}, content' = content \/ Reclaim,
           job'[w].at \in {"puts_target", "puts_find", "puts_open", "puts_stat"}
               => job'[w].size = Size,
           job'[w].at = "puts_stat" => job'[w].inode \in Inodes,
           job'[w].at # "puts_receive"
    PROVE  Disk'
<1>1. content' = [i \in Inodes |-> content'[i]]
    BY Zenon DEF Disk, Reclaim
<1>2. \A v \in Workers \ {w} : job'[v].at = "puts_receive" =>
          content'[job'[v].inode] = content[job'[v].inode]
    BY DEF Disk, Reclaim, UsedInodes
<1>3. \A i \in Inodes : Prefix(content[i])'
  <2>1. Prefix(<<>>)
    BY DiskAssumption DEF Prefix
  <2>. QED
    BY <2>1, Zenon DEF Disk, Reclaim, Prefix
<1>. QED
    BY <1>1, <1>2, <1>3 DEF Disk

\* One packet is written: never beyond the end, so there is no gap.
LEMMA WrittenIsPrefix ==
    ASSUME NEW c, Prefix(c), NEW pos \in Nat, pos <= Len(c), pos < Size
    PROVE  Prefix(Written(c, pos, "good")) /\ pos + 1 <= Len(Written(c, pos, "good"))
           /\ Len(c) <= Len(Written(c, pos, "good"))
<1>. DEFINE n == Max({Len(c), pos + 1})
<1>1. Len(c) \in Nat /\ \A i \in 1 .. Len(c) : c[i] = "good"
    BY LenProperties, ElementOfSeq DEF Prefix
<1>2. n \in {Len(c), pos + 1} /\ n >= Len(c) /\ n >= pos + 1
  <2>1. \E x \in {Len(c), pos + 1} : \A y \in {Len(c), pos + 1} : x >= y
    BY <1>1
  <2>. QED
    BY <2>1, Zenon DEF Max
<1>3. Written(c, pos, "good") = [i \in 1 .. n |->
          IF i = pos + 1 THEN "good" ELSE IF i <= Len(c) THEN c[i] ELSE "bad"]
    BY Zenon DEF Written
<1>. HIDE DEF n
<1>4. n \in Nat /\ n <= Size
    BY <1>1, <1>2, DiskAssumption DEF Prefix
<1>5. \A i \in 1 .. n : i = pos + 1 \/ i <= Len(c)
    BY <1>1, <1>2, <1>4
<1>6. Written(c, pos, "good") \in [1 .. n -> {"good"}]
    BY <1>1, <1>3, <1>4, <1>5
<1>7. Written(c, pos, "good") \in Seq({"good"}) /\ Len(Written(c, pos, "good")) = n
    BY <1>4, <1>6, LenProperties, SeqDef
<1>. QED
    BY <1>1, <1>2, <1>4, <1>7, Zenon DEF Prefix

\* A step after which the worker has no partial file open and has announced no size, or
\* the size it had.
LEMMA DiskOther ==
    ASSUME Shapes, Disk, HonestClients, NEW w \in Workers,
           \/ mkdir(w) \/ rmdir(w) \/ rm(w) \/ Abort(w)
           \/ \E p \in Paths, size \in Sizes : PutsParent(w, p, size)
           \/ PutsTarget(w) \/ PutsFind(w) \/ PutsLink(w) \/ PutsVerify(w)
           \/ PutsRename(w) \/ PutsDiscard(w) \/ PutsCreate(w)
    PROVE  Disk'
<1>1. job = [v \in Workers |-> job[v]] /\ part \in Inodes \cup {NoInode}
    BY Zenon DEF Shapes, Disk
<1>2. part' \in Inodes \cup {NoInode} /\ (content' = content \/ Reclaim)
    BY <1>1, Zenon DEF mkdir, rmdir, rm, MkdirParent, MkdirInsert, RmdirLookup, RmdirCheck, RmdirDelete,
           RmLookup, RmSelect, RmWrite, RmUnlink, Abort, PutsParent, PutsTarget, PutsFind,
           PutsLink, PutsVerify, PutsRename, PutsDiscard, PutsCreate, diskVars
<1>3. CASE mkdir(w) \/ rmdir(w) \/ rm(w) \/ Abort(w) \/ PutsLink(w) \/ PutsCreate(w)
  <2>. DEFINE Ends == /\ \A v \in Workers \ {w} : job'[v] = job[v]
                      /\ job'[w].at \in {"mkdir", "rmdir_check", "rmdir_delete", "rm_select",
                                         "rm_write", "rm_unlink", "idle"}
  <2>1. mkdir(w) \/ rmdir(w) \/ rm(w) => Ends
    BY CommandPlaces, Zenon
  <2>2. Abort(w) \/ PutsLink(w) \/ PutsCreate(w) => Ends
    BY <1>1 DEF Abort, PutsLink, PutsCreate, Become, Idle
  <2>. QED
    BY <1>2, <1>3, <2>1, <2>2, DiskQuiet, Zenon
<1>4. ASSUME NEW p \in Paths, NEW size \in Sizes, PutsParent(w, p, size) PROVE Disk'
  <2>1. \E id : job' = [job EXCEPT ![w] = [at |-> "puts_target", path |-> p, parent |-> id,
                                          size |-> size]]
    BY <1>4, Zenon DEF PutsParent, Become
  <2>2. /\ job'[w].at = "puts_target" /\ job'[w].size = Size
        /\ \A v \in Workers \ {w} : job'[v] = job[v]
    BY <1>1, <2>1 DEF HonestClients
  <2>. QED
    BY <1>2, <2>2, DiskQuiet, Zenon
<1>5. CASE PutsTarget(w) \/ PutsFind(w)
  <2>1. job[w].at \in {"puts_target", "puts_find"}
    BY <1>5, Zenon DEF PutsTarget, PutsFind, At
  <2>2. /\ job[w] = [at |-> job[w].at, path |-> job[w].path, parent |-> job[w].parent,
                     size |-> job[w].size]
        /\ job[w].size = Size
    BY <2>1, Zenon DEF Shapes, Disk
  <2>3. /\ \A v \in Workers \ {w} : job'[v] = job[v]
        /\ \/ job'[w].at \in {"idle", "puts_link"}
           \/ job'[w] = [job[w] EXCEPT !.at = "puts_find"]
           \/ job'[w] = [job[w] EXCEPT !.at = "puts_open"]
    BY <1>1, <1>5 DEF PutsTarget, PutsFind, Become, Idle
  <2>4. /\ job'[w].at \in {"idle", "puts_link"}
             \/ (job'[w].at \in {"puts_find", "puts_open"} /\ job'[w].size = Size)
        /\ \A v \in Workers \ {w} : job'[v] = job[v]
    BY <1>1, <2>2, <2>3, Zenon
  <2>. QED
    BY <1>2, <2>4, DiskQuiet, Zenon
<1>6. CASE PutsVerify(w) \/ PutsRename(w) \/ PutsDiscard(w)
  <2>1. /\ \A v \in Workers \ {w} : job'[v] = job[v]
        /\ \/ job'[w].at \in {"idle", "puts_rename"}
           \/ /\ job[w].at \in {"puts_rename", "puts_discard"}
              /\ \/ job'[w] = [job[w] EXCEPT !.at = "puts_create"]
                 \/ job'[w] = [job[w] EXCEPT !.at = "puts_discard"]
    BY <1>1, <1>6 DEF PutsVerify, PutsRename, PutsDiscard, Become, Idle, At
  <2>2. job[w].at \in {"puts_rename", "puts_discard"} =>
            job[w] = [at |-> job[w].at, path |-> job[w].path, parent |-> job[w].parent,
                      size |-> job[w].size]
    BY Zenon DEF Shapes
  <2>3. /\ job'[w].at \in {"idle", "puts_rename", "puts_create", "puts_discard"}
        /\ \A v \in Workers \ {w} : job'[v] = job[v]
    BY <1>1, <2>1, <2>2, Zenon
  <2>. QED
    BY <1>2, <2>3, DiskQuiet, Zenon
<1>. QED
    BY <1>3, <1>4, <1>5, <1>6, Zenon

\* The steps of an upload that has the partial file open.
LEMMA DiskOpen ==
    ASSUME Shapes, Disk, HonestClients, NEW w \in Workers,
           PutsOpen(w) \/ PutsStat(w) \/ PutsReceive(w)
    PROVE  Disk'
<1>1. job = [v \in Workers |-> job[v]] /\ content = [i \in Inodes |-> content[i]]
    BY Zenon DEF Shapes, Disk
<1>2. CASE PutsOpen(w)
  <2>1. /\ job[w].at = "puts_open" /\ content' = content
        /\ part' = IF part = NoInode THEN CHOOSE i \in FreeInodes : TRUE ELSE part
        /\ part # NoInode \/ FreeInodes # {}
        /\ job' = [job EXCEPT ![w] = [at |-> "puts_stat", path |-> job[w].path,
                      parent |-> job[w].parent, size |-> job[w].size, inode |-> part']]
    BY <1>2, Zenon DEF PutsOpen, At, Become
  <2>2. part' \in Inodes
    BY <2>1, Zenon DEF Disk, FreeInodes
  <2>3. /\ job'[w].at = "puts_stat" /\ job'[w].size = Size /\ job'[w].inode = part'
        /\ \A v \in Workers \ {w} : job'[v] = job[v]
    BY <1>1, <2>1, Zenon DEF Disk
  <2>. QED
    BY <2>1, <2>2, <2>3, DiskQuiet, Zenon
<1>3. CASE PutsStat(w)
  <2>1. /\ job[w].at = "puts_stat" /\ part' = part
        /\ content' = [content EXCEPT ![job[w].inode] = IF Len(@) > job[w].size THEN <<>> ELSE @]
        /\ job' = [job EXCEPT ![w] = [at |-> "puts_receive", path |-> job[w].path,
                      parent |-> job[w].parent, size |-> job[w].size, inode |-> job[w].inode,
                      pos |-> ResumeAt(job[w].inode, job[w].size)]]
    BY <1>3, Zenon DEF PutsStat, At, Become
  <2>2. job[w].inode \in Inodes /\ job[w].size = Size
    BY <2>1, Zenon DEF Disk
  <2>3. Len(content[job[w].inode]) \in Nat /\ ~(Len(content[job[w].inode]) > Size)
    BY <2>2, LenProperties, DiskAssumption DEF Disk, Prefix
  <2>4. content' = content /\ ResumeAt(job[w].inode, job[w].size) = Len(content[job[w].inode])
    BY <1>1, <2>1, <2>2, <2>3, Zenon DEF ResumeAt
  <2>5. /\ job'[w].at = "puts_receive" /\ job'[w].size = Size /\ job'[w].inode = job[w].inode
        /\ job'[w].pos = Len(content[job[w].inode])
        /\ \A v \in Workers \ {w} : job'[v] = job[v]
    BY <1>1, <2>1, <2>2, <2>4, Zenon
  <2>6. /\ content' = [i \in Inodes |-> content'[i]] /\ part' \in Inodes \cup {NoInode}
        /\ \A i \in Inodes : Prefix(content[i])'
    BY <2>1, <2>4, Zenon DEF Disk, Prefix
  <2>7. \A v \in Workers \ {w} :
           LET j == job'[v]
           IN  /\ j.at \in {"puts_target", "puts_find", "puts_open", "puts_stat", "puts_receive"}
                     => j.size = Size
               /\ j.at \in {"puts_stat", "puts_receive"} => j.inode \in Inodes
               /\ j.at = "puts_receive" => j.pos \in Nat /\ j.pos <= Len(content'[j.inode])
    BY <2>4, <2>5, Zenon DEF Disk
  <2>8. /\ job'[w].at = "puts_receive" /\ job'[w].size = Size /\ job'[w].inode \in Inodes
        /\ job'[w].pos \in Nat /\ job'[w].pos <= Len(content'[job'[w].inode])
    <3>. DEFINE n == Len(content[job[w].inode])
    <3>1. n \in Nat /\ job'[w].pos = n
      BY <2>3, <2>5, Zenon
    <3>2. Len(content'[job'[w].inode]) = n
      BY <2>4, <2>5, Zenon
    <3>. HIDE DEF n
    <3>3. job'[w].pos \in Nat /\ job'[w].pos <= Len(content'[job'[w].inode])
      BY <3>1, <3>2
    <3>. QED
      BY <2>2, <2>5, <3>3, Zenon
  <2>. QED
    BY <2>6, <2>7, <2>8, Zenon DEF Disk
<1>4. CASE PutsReceive(w)
  <2>. DEFINE i == job[w].inode
              c == content[i]
              pos == job[w].pos
              new == Written(c, pos, "good")
  <2>1. /\ job[w].at = "puts_receive" /\ pos < job[w].size /\ part' = part
        /\ content' = [content EXCEPT ![i] = new]
        /\ job' = [job EXCEPT ![w] = [job[w] EXCEPT !.pos = @ + 1]]
    BY <1>4, Zenon DEF PutsReceive, At, Become, HonestClients
  <2>2. i \in Inodes /\ job[w].size = Size /\ pos \in Nat /\ pos <= Len(c) /\ Prefix(c)
    BY <2>1, Zenon DEF Disk
  <2>3. Prefix(new) /\ pos + 1 <= Len(new) /\ Len(c) <= Len(new)
    BY <2>1, <2>2, WrittenIsPrefix, Zenon
  <2>4. job[w] = [at |-> job[w].at, path |-> job[w].path, parent |-> job[w].parent,
                  size |-> job[w].size, inode |-> i, pos |-> pos]
    BY <2>1, Zenon DEF Shapes
  <2>5. /\ job'[w].at = "puts_receive" /\ job'[w].size = Size /\ job'[w].inode = i
        /\ job'[w].pos = pos + 1
        /\ \A v \in Workers \ {w} : job'[v] = job[v]
    BY <1>1, <2>1, <2>2, <2>4, Zenon
  <2>6. Len(c) \in Nat /\ Len(new) \in Nat
    BY <2>2, <2>3, LenProperties, Zenon DEF Prefix
  <2>. HIDE DEF new, c, i, pos
  <2>7. /\ content' = [k \in Inodes |-> content'[k]] /\ content'[i] = new
        /\ \A k \in Inodes \ {i} : content'[k] = content[k]
    BY <1>1, <2>1, <2>2, Zenon
  <2>8. \A k \in Inodes : Prefix(content[k])'
    BY <2>3, <2>7, Zenon DEF Disk, Prefix
  <2>9. \A v \in Workers \ {w} : job[v].at = "puts_receive" =>
            job[v].pos \in Nat /\ job[v].pos <= Len(content'[job[v].inode])
    <3>1. \A v \in Workers : job[v].at = "puts_receive" =>
              /\ job[v].inode \in Inodes /\ job[v].pos \in Nat
              /\ job[v].pos <= Len(content[job[v].inode])
        BY Zenon DEF Disk
    <3>. QED
        BY <2>3, <2>6, <2>7, <3>1 DEF c
  <2>. QED
    BY <2>1, <2>2, <2>3, <2>5, <2>7, <2>8, <2>9 DEF Disk
<1>. QED
    BY <1>2, <1>3, <1>4, Zenon

\* An empty disk is in order.
LEMMA DiskInit == Init => Disk
<1>1. Prefix(<<>>)
    BY DiskAssumption DEF Prefix
<1>. QED
    BY <1>1 DEF Init, Disk, Idle

\* With honest clients every step keeps it in order.
LEMMA DiskNext == HonestClients /\ StoreInv /\ Disk /\ [Next]_vars => Disk'
<1>. SUFFICES ASSUME HonestClients, StoreInv, Disk, [Next]_vars PROVE Disk'
    BY Zenon
<1>1. Shapes
    BY Zenon DEF StoreInv
<1>2. ASSUME NEW w \in Workers, mkdir(w) \/ rmdir(w) \/ rm(w) \/ puts(w) \/ Abort(w)
      PROVE  Disk'
    BY <1>1, <1>2, DiskOther, DiskOpen, Zenon DEF puts
<1>3. CASE UNCHANGED vars
  <2>1. UNCHANGED <<part, content, job>>
    BY <1>3, Zenon DEF vars, diskVars
  <2>. QED
    BY <2>1, Zenon DEF Disk, Prefix
<1>. QED
    BY <1>2, <1>3, Zenon DEF Next

\* When clients send the content they announce, the partial file is a prefix of it however
\* many uploads write to it at once and wherever they end: resuming at its size is right.
THEOREM PartIsPrefix ==
    ASSUME HonestClients
    PROVE  Spec => []ResumePrefix
<1>1. Disk => ResumePrefix
  <2>. SUFFICES ASSUME Disk, part # NoInode PROVE ResumePrefix
    BY Zenon DEF ResumePrefix
  <2>1. content[part] \in Seq({"good"}) /\ Len(content[part]) <= Size
    BY Zenon DEF Disk, Prefix
  <2>2. \A k \in 1 .. Len(content[part]) : content[part][k] \in {"good"}
    BY <2>1, ElementOfSeq, Zenon
  <2>. QED
    BY <2>1, <2>2, Zenon DEF ResumePrefix
<1>2. StoreInv /\ Disk /\ [Next]_vars => Disk'
    BY DiskNext, Zenon
<1>. QED
    BY <1>1, <1>2, DiskInit, StoreInvariant, PTL DEF Spec

-----------------------------------------------------------------------------
(* References and stored content, when no other command runs beside an rm. *)

OneWorker == \E w : Workers = {w}

RmAlone == OneWorker \/ "rm" \notin Commands

\* What a command that counts on the file has looked up still is so.
JobCounts(j) ==
    /\ j.at \in {"rm_select", "rm_write", "rm_unlink"} => "rm" \in Commands
    /\ j.at = "puts_link" => j.file = file.id
    /\ j.at = "puts_create" => final # NoInode
    /\ j.at = "rm_write" => j.file = file.id /\ \E r \in FileRows : r.id = j.id
    /\ j.at = "rm_unlink" => file = NoFile

Counted == RefsExact /\ ContentPresent /\ \A w \in Workers : JobCounts(job[w])

\* Beside another command there is no rm.
LEMMA NoRmBeside ==
    ASSUME RmAlone, Counted, NEW w \in Workers, NEW v \in Workers \ {w}
    PROVE  job[v].at \notin {"rm_select", "rm_write", "rm_unlink"}
BY Zenon DEF RmAlone, OneWorker, Counted, JobCounts

\* A step that leaves the tables alone and the stored file in its place.
LEMMA CountedQuiet ==
    ASSUME Counted, NEW w \in Workers, UNCHANGED dbVars,
           final # NoInode => final' # NoInode,
           \A v \in Workers \ {w} : job'[v] = job[v], JobCounts(job[w])'
    PROVE  Counted'
<1>1. rows' = rows /\ file' = file
    BY Zenon DEF dbVars
<1>2. RefsExact' /\ ContentPresent'
    BY <1>1, Zenon DEF Counted, RefsExact, ContentPresent, FileRows
<1>3. \A v \in Workers \ {w} : JobCounts(job[v])'
    BY <1>1 DEF Counted, JobCounts, FileRows
<1>. QED
    BY <1>2, <1>3, Zenon DEF Counted

\* Most places of a command count on nothing.
LEMMA CountedElsewhere ==
    ASSUME Counted, NEW w \in Workers, UNCHANGED dbVars,
           final # NoInode => final' # NoInode,
           \A v \in Workers \ {w} : job'[v] = job[v],
           job'[w].at \notin {"puts_link", "puts_create", "rm_select", "rm_write", "rm_unlink"}
    PROVE  Counted'
<1>1. JobCounts(job[w])'
    BY Zenon DEF JobCounts
<1>. QED
    BY <1>1, CountedQuiet, Zenon

\* The steps of mkdir, rmdir and rm that only read, and the end of any command.
LEMMA CountedReads ==
    ASSUME StoreInv, Counted, NEW w \in Workers,
           \/ \E p \in Paths : MkdirParent(w, p) \/ RmdirLookup(w, p) \/ RmLookup(w, p)
           \/ RmdirCheck(w) \/ RmSelect(w) \/ Abort(w)
    PROVE  Counted'
<1>1. job = [v \in Workers |-> job[v]]
    BY Zenon DEF StoreInv, Shapes
<1>2. UNCHANGED dbVars /\ final' = final
    BY Zenon DEF MkdirParent, RmdirLookup, RmLookup, RmdirCheck, RmSelect, Abort, diskVars
<1>3. CASE RmSelect(w) /\ ~Become(w, Idle)
  <2>1. PICK r \in rows : /\ r.id = job[w].id /\ r.kind = "file"
                          /\ Become(w, [at |-> "rm_write", id |-> r.id, file |-> r.file,
                                        seen |-> r.file = file.id])
    BY <1>3, Zenon DEF RmSelect
  <2>2. /\ job'[w].at = "rm_write" /\ job'[w].id = r.id /\ job'[w].file = r.file
        /\ \A v \in Workers \ {w} : job'[v] = job[v]
    BY <1>1, <2>1, Zenon DEF Become
  <2>3. "rm" \in Commands
    BY <1>3, Zenon DEF RmSelect, At, Counted, JobCounts
  <2>4. r \in FileRows /\ r.file = file.id
    BY <2>1, Zenon DEF FileRows, Counted, RefsExact
  <2>5. rows' = rows /\ file' = file
    BY <1>2, Zenon DEF dbVars
  <2>6. JobCounts(job[w])'
    BY <2>2, <2>3, <2>4, <2>5, Zenon DEF JobCounts, FileRows
  <2>. QED
    BY <1>2, <2>2, <2>6, CountedQuiet, Zenon
<1>4. ASSUME NEW p \in Paths, RmLookup(w, p) PROVE Counted'
  <2>1. PICK r : Become(w, [at |-> "rm_select", id |-> r])
    BY <1>4, Zenon DEF RmLookup
  <2>2. job'[w].at = "rm_select" /\ \A v \in Workers \ {w} : job'[v] = job[v]
    BY <1>1, <2>1, Zenon DEF Become
  <2>3. JobCounts(job[w])'
    BY <1>4, <2>2, Zenon DEF JobCounts, RmLookup, Start
  <2>. QED
    BY <1>2, <2>2, <2>3, CountedQuiet, Zenon
<1>5. CASE Become(w, Idle)
  <2>1. job'[w].at = "idle" /\ \A v \in Workers \ {w} : job'[v] = job[v]
    BY <1>1, <1>5, Zenon DEF Become, Idle
  <2>. QED
    BY <1>2, <2>1, CountedElsewhere, Zenon
<1>6. CASE \/ \E p \in Paths : MkdirParent(w, p) \/ RmdirLookup(w, p)
           \/ RmdirCheck(w) /\ ~Become(w, Idle)
  <2>1. /\ job'[w].at \in {"idle", "mkdir", "rmdir_check", "rmdir_delete"}
        /\ \A v \in Workers \ {w} : job'[v] = job[v]
    <3>. DEFINE Moved == /\ job'[w].at \in {"idle", "mkdir", "rmdir_check", "rmdir_delete"}
                         /\ \A v \in Workers \ {w} : job'[v] = job[v]
    <3>1. ASSUME NEW p \in Paths, MkdirParent(w, p) PROVE Moved
      <4>1. PICK r : Become(w, [at |-> "mkdir", path |-> p, parent |-> r.id])
        BY <3>1, Zenon DEF MkdirParent
      <4>. QED
        BY <1>1, <4>1, Zenon DEF Become
    <3>2. ASSUME NEW p \in Paths, RmdirLookup(w, p) PROVE Moved
      <4>1. PICK r : Become(w, [at |-> "rmdir_check", id |-> r.id])
        BY <3>2, Zenon DEF RmdirLookup
      <4>. QED
        BY <1>1, <4>1, Zenon DEF Become
    <3>3. ASSUME RmdirCheck(w) PROVE Moved
      BY <1>1, <3>3, Zenon DEF RmdirCheck, Become, Idle
    <3>. QED
      BY <1>6, <3>1, <3>2, <3>3, Zenon
  <2>. QED
    BY <1>2, <2>1, CountedElsewhere, Zenon
<1>. QED
    BY <1>3, <1>4, <1>5, <1>6, Zenon DEF Abort

\* The steps of an upload before it writes the tables: a file that is found has a row, and
\* the row is created only once the stored file is in its place.
LEMMA CountedUpload ==
    ASSUME StoreInv, Counted, NEW w \in Workers,
           \/ \E p \in Paths, size \in Sizes : PutsParent(w, p, size)
           \/ PutsTarget(w) \/ PutsFind(w) \/ PutsOpen(w) \/ PutsStat(w) \/ PutsReceive(w)
           \/ PutsVerify(w) \/ PutsRename(w) \/ PutsDiscard(w)
    PROVE  Counted'
<1>1. job = [v \in Workers |-> job[v]]
    BY Zenon DEF StoreInv, Shapes
<1>2. UNCHANGED dbVars /\ (final # NoInode => final' # NoInode)
    BY Zenon DEF PutsParent, PutsTarget, PutsFind, PutsOpen, PutsStat, PutsReceive, PutsVerify,
           PutsRename, PutsDiscard, diskVars
<1>3. rows' = rows /\ file' = file
    BY <1>2, Zenon DEF dbVars
<1>4. CASE Become(w, Idle)
  <2>1. job'[w].at = "idle" /\ \A v \in Workers \ {w} : job'[v] = job[v]
    BY <1>1, <1>4, Zenon DEF Become, Idle
  <2>. QED
    BY <1>2, <2>1, CountedElsewhere, Zenon
<1>5. CASE \/ \E p \in Paths, size \in Sizes : PutsParent(w, p, size)
           \/ PutsOpen(w) \/ PutsStat(w) \/ (PutsVerify(w) /\ ~Become(w, Idle))
  <2>1. /\ job'[w].at \in {"puts_target", "puts_stat", "puts_receive", "puts_rename"}
        /\ \A v \in Workers \ {w} : job'[v] = job[v]
    <3>1. \E j : /\ Become(w, j)
                 /\ j.at \in {"puts_target", "puts_stat", "puts_receive", "puts_rename"}
      <4>1. CASE \E p \in Paths, size \in Sizes : PutsParent(w, p, size)
        BY <4>1 DEF PutsParent
      <4>2. CASE PutsOpen(w)
        <5>1. Become(w, [at |-> "puts_stat", path |-> job[w].path, parent |-> job[w].parent,
                         size |-> job[w].size, inode |-> part'])
          BY <4>2, Zenon DEF PutsOpen
        <5>. QED
          BY <5>1
      <4>3. CASE PutsStat(w)
        <5>1. Become(w, [at |-> "puts_receive", path |-> job[w].path, parent |-> job[w].parent,
                         size |-> job[w].size, inode |-> job[w].inode,
                         pos |-> ResumeAt(job[w].inode, job[w].size)])
          BY <4>3, Zenon DEF PutsStat
        <5>. QED
          BY <5>1
      <4>4. CASE PutsVerify(w) /\ ~Become(w, Idle)
        <5>1. Become(w, [at |-> "puts_rename", path |-> job[w].path, parent |-> job[w].parent,
                         size |-> job[w].size])
          BY <4>4, Zenon DEF PutsVerify
        <5>. QED
          BY <5>1
      <4>. QED
        BY <1>5, <4>1, <4>2, <4>3, <4>4, Zenon
    <3>. QED
      BY <3>1, BecomeFacts, Zenon DEF StoreInv
  <2>. QED
    BY <1>2, <2>1, CountedElsewhere, Zenon
<1>6. CASE PutsTarget(w) /\ ~Become(w, Idle)
  <2>1. job[w].at = "puts_target" /\ job' = [job EXCEPT ![w] = [job[w] EXCEPT !.at = "puts_find"]]
    BY <1>6, Zenon DEF PutsTarget, At, Become
  <2>2. job[w] = [at |-> job[w].at, path |-> job[w].path, parent |-> job[w].parent,
                  size |-> job[w].size]
    BY <2>1, Zenon DEF StoreInv, Shapes
  <2>3. job'[w].at = "puts_find" /\ \A v \in Workers \ {w} : job'[v] = job[v]
    BY <1>1, <2>1, <2>2, Zenon
  <2>. QED
    BY <1>2, <2>3, CountedElsewhere, Zenon
<1>7. CASE PutsFind(w)
  <2>1. CASE file # NoFile /\ file.size = job[w].size
    <3>1. /\ job'[w].at = "puts_link" /\ job'[w].file = file.id
          /\ \A v \in Workers \ {w} : job'[v] = job[v]
        BY <1>1, <1>7, <2>1, Zenon DEF PutsFind, Become
    <3>2. JobCounts(job[w])'
        BY <1>3, <3>1, Zenon DEF JobCounts
    <3>. QED
        BY <1>2, <3>1, <3>2, CountedQuiet, Zenon
  <2>2. CASE ~(file # NoFile /\ file.size = job[w].size)
    <3>1. job[w].at = "puts_find" /\ job' = [job EXCEPT ![w] = [job[w] EXCEPT !.at = "puts_open"]]
        BY <1>7, <2>2, Zenon DEF PutsFind, At, Become
    <3>2. job[w] = [at |-> job[w].at, path |-> job[w].path, parent |-> job[w].parent,
                    size |-> job[w].size]
        BY <3>1, Zenon DEF StoreInv, Shapes
    <3>3. job'[w].at = "puts_open" /\ \A v \in Workers \ {w} : job'[v] = job[v]
        BY <1>1, <3>1, <3>2, Zenon
    <3>. QED
        BY <1>2, <3>3, CountedElsewhere, Zenon
  <2>. QED
    BY <2>1, <2>2, Zenon
<1>8. CASE PutsReceive(w)
  <2>1. /\ job[w].at = "puts_receive"
        /\ job' = [job EXCEPT ![w] = [job[w] EXCEPT !.pos = @ + 1]]
    BY <1>8, Zenon DEF PutsReceive, At, Become
  <2>2. job[w] = [at |-> job[w].at, path |-> job[w].path, parent |-> job[w].parent,
                  size |-> job[w].size, inode |-> job[w].inode, pos |-> job[w].pos]
    BY <2>1, Zenon DEF StoreInv, Shapes
  <2>3. job'[w].at = "puts_receive" /\ \A v \in Workers \ {w} : job'[v] = job[v]
    BY <1>1, <2>1, <2>2, Zenon
  <2>. QED
    BY <1>2, <2>3, CountedElsewhere, Zenon
<1>9. CASE (PutsRename(w) \/ PutsDiscard(w)) /\ ~Become(w, Idle)
  <2>1. PICK place \in {"puts_create", "puts_discard"} :
            /\ job[w].at \in {"puts_rename", "puts_discard"}
            /\ job' = [job EXCEPT ![w] = [job[w] EXCEPT !.at = place]]
            /\ place = "puts_create" => final' # NoInode
    BY <1>9, Zenon DEF PutsRename, PutsDiscard, At, Become
  <2>2. job[w] = [at |-> job[w].at, path |-> job[w].path, parent |-> job[w].parent,
                  size |-> job[w].size]
    BY <2>1, Zenon DEF StoreInv, Shapes
  <2>3. job'[w].at = place /\ \A v \in Workers \ {w} : job'[v] = job[v]
    BY <1>1, <2>1, <2>2, Zenon
  <2>4. JobCounts(job[w])'
    BY <2>1, <2>3, Zenon DEF JobCounts
  <2>. QED
    BY <1>2, <2>3, <2>4, CountedQuiet, Zenon
<1>. QED
    BY <1>4, <1>5, <1>6, <1>7, <1>8, <1>9, Zenon

\* The writes of mkdir and rmdir are about directories.
LEMMA CountedDirs ==
    ASSUME StoreInv, Counted, NEW w \in Workers, MkdirInsert(w) \/ RmdirDelete(w)
    PROVE  Counted'
<1>1. job = [v \in Workers |-> job[v]]
    BY Zenon DEF StoreInv, Shapes
<1>2. job' = [job EXCEPT ![w] = Idle] /\ file' = file /\ final' = final
    BY Zenon DEF MkdirInsert, RmdirDelete, Become, diskVars
<1>3. job'[w].at = "idle" /\ \A v \in Workers \ {w} : job'[v] = job[v]
    BY <1>1, <1>2, Zenon DEF Idle
<1>4. FileRows' = FileRows
  <2>1. CASE MkdirInsert(w)
    <3>1. rows' = rows \/ \E n, p, q : rows' = rows \cup {Row(n, p, "dir", 0, q)}
        BY <2>1, Zenon DEF MkdirInsert, InsertRow
    <3>2. \A n, p, q : Row(n, p, "dir", 0, q).kind = "dir"
        BY Zenon DEF Row
    <3>. QED
        BY <3>1, <3>2, Zenon DEF FileRows
  <2>2. CASE RmdirDelete(w)
    <3>1. rows' = {r \in rows : r.id # job[w].id} /\ job[w].at = "rmdir_delete"
        BY <2>2, Zenon DEF RmdirDelete, At
    <3>2. \A r \in rows : r.id = job[w].id => r.kind = "dir"
        BY <3>1, Zenon DEF StoreInv, Remembered, DirId
    <3>. QED
        BY <3>1, <3>2, Zenon DEF FileRows
  <2>. QED
    BY <2>1, <2>2, Zenon
<1>5. RefsExact' /\ ContentPresent'
    BY <1>2, <1>4, Zenon DEF Counted, RefsExact, ContentPresent
<1>6. \A v \in Workers : JobCounts(job[v])'
    BY <1>2, <1>3, <1>4, Zenon DEF Counted, JobCounts
<1>. QED
    BY <1>5, <1>6, Zenon DEF Counted

\* rm takes one path and one reference; the last one takes the row of the file, and only
\* then is the stored file unlinked.
LEMMA CountedRm ==
    ASSUME RmAlone, StoreInv, Counted, NEW w \in Workers, RmWrite(w) \/ RmUnlink(w)
    PROVE  Counted'
<1>1. job = [v \in Workers |-> job[v]]
    BY Zenon DEF StoreInv, Shapes
<1>2. \A v \in Workers : v = w
  <2>1. "rm" \in Commands
    BY Zenon DEF RmWrite, RmUnlink, At, Counted, JobCounts
  <2>. QED
    BY <2>1 DEF RmAlone, OneWorker
<1>3. CASE RmUnlink(w)
  <2>1. job' = [job EXCEPT ![w] = Idle] /\ file = NoFile /\ file' = file /\ rows' = rows
    BY <1>3, Zenon DEF RmUnlink, Become, dbVars, At, Counted, JobCounts
  <2>2. job'[w].at = "idle"
    BY <1>1, <2>1, Zenon DEF Idle
  <2>3. RefsExact' /\ ContentPresent'
    BY <2>1, Zenon DEF Counted, RefsExact, ContentPresent, FileRows
  <2>. QED
    BY <1>2, <2>2, <2>3, Zenon DEF Counted, JobCounts
<1>4. CASE RmWrite(w)
  <2>1. PICK g \in FileRows : g.id = job[w].id
    BY <1>4, Zenon DEF RmWrite, At, Counted, JobCounts
  <2>2. /\ rows' = {r \in rows : r.id # job[w].id} /\ file' = Unreferenced(file)
        /\ final' = final
        /\ IF file' = NoFile THEN job' = [job EXCEPT ![w] = [at |-> "rm_unlink"]]
           ELSE job' = [job EXCEPT ![w] = Idle]
    BY <1>4, Zenon DEF RmWrite, At, Become, Counted, JobCounts, DeletesPhysical, diskVars
  <2>3. FileRows' = FileRows \ {g}
    BY <2>1, <2>2, Zenon DEF FileRows, StoreInv, Tables
  <2>4. /\ file = [id |-> file.id, refs |-> file.refs, size |-> file.size]
        /\ file.refs \in Nat /\ IsFiniteSet(FileRows) /\ file.refs = Cardinality(FileRows)
        /\ \A r \in FileRows : r.file = file.id
    <3>1. FileRows \subseteq rows /\ IsFiniteSet(rows)
        BY Zenon DEF FileRows, StoreInv, Tables
    <3>. QED
        BY <3>1, FS_Subset, Zenon DEF StoreInv, Tables, Counted, RefsExact
  <2>5. Cardinality(FileRows \ {g}) = Cardinality(FileRows) - 1 /\ IsFiniteSet(FileRows \ {g})
    BY <2>1, <2>4, FS_RemoveElement, Zenon
  <2>6. CASE file.refs = 1
    <3>1. file' = NoFile /\ FileRows' = {}
      <4>1. Cardinality(FileRows \ {g}) = 0
        BY <2>4, <2>5, <2>6
      <4>. QED
        BY <2>2, <2>3, <2>5, <2>6, <4>1, FS_EmptySet, Zenon DEF Unreferenced
    <3>2. RefsExact' /\ ContentPresent'
        BY <3>1, FS_EmptySet, Zenon DEF RefsExact, ContentPresent, NoFile
    <3>3. job'[w].at = "rm_unlink" /\ "rm" \in Commands
        BY <1>1, <1>4, <2>2, <3>1 DEF RmWrite, At, Counted, JobCounts
    <3>. QED
        BY <1>2, <3>1, <3>2, <3>3, Zenon DEF Counted, JobCounts
  <2>7. CASE file.refs # 1
    <3>1. file' = [id |-> file.id, refs |-> file.refs - 1, size |-> file.size]
        BY <2>2, <2>4, <2>7, Zenon DEF Unreferenced
    <3>2. file'.id = file.id /\ file'.refs = file.refs - 1
        BY <3>1, Zenon
    <3>3. RefsExact'
        BY <2>3, <2>4, <2>5, <3>2, Zenon DEF RefsExact
    <3>4. file # NoFile
        BY <1>4, <2>1, <2>4 DEF NoFile, StoreInv, Tables, FileRows
    <3>5. ContentPresent'
        BY <2>2, <3>4, Zenon DEF Counted, ContentPresent
    <3>6. JobCounts(job[w])'
      <4>1. job'[w].at = "idle"
        <5>1. file' # NoFile
          BY <1>4, <2>1, <3>2 DEF NoFile, StoreInv, Tables, FileRows
        <5>2. Become(w, Idle)
          BY <1>4, <5>1, Zenon DEF RmWrite, DeletesPhysical
        <5>. QED
          BY <1>1, <5>2, Zenon DEF Become, Idle
      <4>. QED
        BY <4>1, Zenon DEF JobCounts
    <3>. QED
        BY <1>2, <3>3, <3>5, <3>6, Zenon DEF Counted
  <2>. QED
    BY <2>6, <2>7, Zenon
<1>. QED
    BY <1>3, <1>4, Zenon

\* An upload that ends inserts its path and counts it, in one transaction.
LEMMA CountedRecord ==
    ASSUME RmAlone, StoreInv, Counted, NEW w \in Workers, PutsLink(w) \/ PutsCreate(w)
    PROVE  Counted'
<1>1. job = [v \in Workers |-> job[v]]
    BY Zenon DEF StoreInv, Shapes
<1>2. job' = [job EXCEPT ![w] = Idle] /\ final' = final
    BY Zenon DEF PutsLink, PutsCreate, Become, diskVars
<1>3. job'[w].at = "idle" /\ \A v \in Workers \ {w} : job'[v] = job[v]
    BY <1>1, <1>2, Zenon DEF Idle
<1>4. CASE UNCHANGED dbVars
    BY <1>2, <1>3, <1>4, CountedElsewhere, Zenon
<1>5. CASE ~UNCHANGED dbVars
  <2>1. PICK n, path, id, parent :
            /\ rows' = rows \cup {Row(n, path, "file", id, parent)} /\ n = last_row + 1
            /\ id = file'.id /\ file'.refs = file.refs + 1
            /\ file = NoFile \/ file'.id = file.id
            /\ final # NoInode
    <3>1. /\ file = [id |-> file.id, refs |-> file.refs, size |-> file.size]
          /\ file.refs \in Nat
        BY Zenon DEF StoreInv, Tables
    <3>2. CASE PutsLink(w)
      <4>1. /\ InsertRow(job[w].path, "file", job[w].file, job[w].parent)
            /\ file' = IF file.id = job[w].file THEN Linked(file) ELSE file
            /\ job[w].at = "puts_link"
        BY <1>5, <3>2, Zenon DEF PutsLink, dbVars, At
      <4>2. job[w].file = file.id /\ job[w].file # 0
        BY <4>1, Zenon DEF Counted, JobCounts, StoreInv, Remembered
      <4>3. file' = [id |-> file.id, refs |-> file.refs + 1, size |-> file.size]
        BY <3>1, <4>1, <4>2, Zenon DEF Linked
      <4>4. file # NoFile /\ final # NoInode
        BY <4>2 DEF NoFile, Counted, ContentPresent
      <4>. QED
        BY <4>1, <4>2, <4>3, <4>4 DEF InsertRow
    <3>3. CASE PutsCreate(w)
      <4>. DEFINE f == IF file = NoFile
                       THEN [id |-> last_file + 1, refs |-> 1, size |-> job[w].size]
                       ELSE [file EXCEPT !.refs = @ + 1]
      <4>1. /\ InsertRow(job[w].path, "file", f.id, job[w].parent) /\ file' = f
            /\ job[w].at = "puts_create"
        BY <1>5, <3>3, Zenon DEF PutsCreate, dbVars, At
      <4>2. f.refs = file.refs + 1 /\ (file = NoFile \/ f.id = file.id)
        BY <3>1 DEF NoFile
      <4>3. final # NoInode
        BY <4>1, Zenon DEF Counted, JobCounts
      <4>. HIDE DEF f
      <4>. QED
        BY <4>1, <4>2, <4>3, Zenon DEF InsertRow
    <3>. QED
        BY <3>2, <3>3, Zenon
  <2>. DEFINE new == Row(n, path, "file", id, parent)
  <2>2. new.kind = "file" /\ new.file = id /\ new.id = last_row + 1
    BY <2>1, Zenon DEF Row
  <2>. HIDE DEF new
  <2>3. rows' = rows \cup {new}
    BY <2>1, Zenon DEF new
  <2>4. FileRows' = FileRows \cup {new} /\ new \notin FileRows
    BY <2>2, <2>3 DEF FileRows, StoreInv, Tables
  <2>5. /\ IsFiniteSet(FileRows) /\ file.refs = Cardinality(FileRows)
        /\ \A r \in FileRows : r.file = file.id
    <3>1. FileRows \subseteq rows /\ IsFiniteSet(rows)
        BY Zenon DEF FileRows, StoreInv, Tables
    <3>. QED
        BY <3>1, FS_Subset, Zenon DEF Counted, RefsExact
  <2>6. file = NoFile => FileRows = {}
    BY <2>5, FS_EmptySet DEF NoFile
  <2>7. Cardinality(FileRows \cup {new}) = Cardinality(FileRows) + 1
    BY <2>4, <2>5, FS_AddElement, Zenon
  <2>8. RefsExact'
    BY <2>1, <2>2, <2>4, <2>5, <2>6, <2>7, Zenon DEF RefsExact
  <2>9. ContentPresent'
    BY <1>2, <2>1, Zenon DEF ContentPresent
  <2>10. ASSUME NEW v \in Workers \ {w} PROVE JobCounts(job[v])'
    <3>1. job[v].at \notin {"rm_select", "rm_write", "rm_unlink"}
        BY NoRmBeside, Zenon
    <3>2. job[v].at = "puts_link" => job[v].file = file.id /\ file.id # 0
        BY Zenon DEF Counted, JobCounts, StoreInv, Remembered
    <3>3. file = NoFile => file.id = 0
        BY DEF NoFile
    <3>. QED
        BY <1>2, <1>3, <2>1, <3>1, <3>2, <3>3, Zenon DEF JobCounts, Counted
  <2>11. JobCounts(job[w])'
    BY <1>3, Zenon DEF JobCounts
  <2>. QED
    BY <2>8, <2>9, <2>10, <2>11, Zenon DEF Counted
<1>. QED
    BY <1>4, <1>5, Zenon

\* Nothing is stored at first, and nothing references it.
LEMMA CountedInit == Init => Counted
<1>. SUFFICES ASSUME Init PROVE Counted
    BY Zenon
<1>1. FileRows = {}
    BY DEF Init, FileRows, Row
<1>. QED
    BY <1>1, FS_EmptySet, Zenon DEF Init, Counted, RefsExact, ContentPresent, JobCounts, NoFile, Idle

\* Every step keeps the count.
LEMMA CountedNext == RmAlone /\ StoreInv /\ Counted /\ [Next]_vars => Counted'
<1>. SUFFICES ASSUME RmAlone, StoreInv, Counted, [Next]_vars PROVE Counted'
    BY Zenon
<1>1. ASSUME NEW w \in Workers, mkdir(w) \/ rmdir(w) \/ rm(w) PROVE Counted'
    BY <1>1, CountedReads, CountedDirs, CountedRm, Zenon DEF mkdir, rmdir, rm
<1>2. ASSUME NEW w \in Workers, puts(w) PROVE Counted'
    BY <1>2, CountedUpload, CountedRecord, Zenon DEF puts
<1>3. ASSUME NEW w \in Workers, Abort(w) PROVE Counted'
    BY <1>3, CountedReads, Zenon
<1>4. CASE UNCHANGED vars
  <2>1. UNCHANGED <<rows, file, final, job>>
    BY <1>4, Zenon DEF vars, dbVars, diskVars
  <2>2. RefsExact' /\ ContentPresent'
    BY <2>1, Zenon DEF Counted, RefsExact, ContentPresent, FileRows
  <2>. QED
    BY <2>1, <2>2, Zenon DEF Counted, JobCounts, FileRows
<1>. QED
    BY <1>1, <1>2, <1>3, <1>4, Zenon DEF Next

\* Where nothing runs beside an rm (one worker, or no rm at all, and then any number of
\* uploads and directory commands at once), the count is kept.
THEOREM CountedInvariant ==
    ASSUME RmAlone
    PROVE  Spec => []Counted
<1>1. StoreInv /\ Counted /\ [Next]_vars => Counted'
    BY CountedNext, Zenon
<1>. QED
    BY <1>1, CountedInit, StoreInvariant, PTL DEF Spec

\* Then files.refs is exactly the number of the paths that lead to the file: the counting of
\* dao_create_file_with_path and dao_link_existing_file is right however they interleave,
\* and dao_rm_file undoes it.
THEOREM RefsStayExact ==
    ASSUME RmAlone
    PROVE  Spec => []RefsExact
<1>1. Counted => RefsExact
    BY Zenon DEF Counted
<1>. QED
    BY <1>1, CountedInvariant, PTL

\* Then a file with a row is on disk: handle_puts writes the row only after the rename, or
\* when the renamed file of another upload is there.
THEOREM ContentStaysPresent ==
    ASSUME RmAlone
    PROVE  Spec => []ContentPresent
<1>1. Counted => ContentPresent
    BY Zenon DEF Counted
<1>. QED
    BY <1>1, CountedInvariant, PTL

\* Then the unlink of handle_rm finds no row that counts on the file.
THEOREM UnlinksOnlyUnreferenced ==
    ASSUME RmAlone
    PROVE  Spec => RemovedUnreferenced
<1>1. Counted /\ [Next]_vars => [final # NoInode /\ final' = NoInode => file = NoFile]_vars
  <2>. SUFFICES ASSUME Counted, Next, final # NoInode, final' = NoInode PROVE file = NoFile
    BY Zenon DEF vars
  <2>1. PICK w \in Workers : mkdir(w) \/ rmdir(w) \/ rm(w) \/ puts(w) \/ Abort(w)
    BY Zenon DEF Next
  <2>2. ~mkdir(w) /\ ~rmdir(w) /\ ~Abort(w)
    BY Zenon DEF mkdir, rmdir, MkdirParent, MkdirInsert, RmdirLookup, RmdirCheck, RmdirDelete, Abort,
           diskVars
  <2>3. ~puts(w)
    BY Zenon DEF puts, PutsParent, PutsTarget, PutsFind, PutsLink, PutsOpen, PutsStat, PutsReceive,
           PutsVerify, PutsRename, PutsDiscard, PutsCreate, diskVars
  <2>4. RmUnlink(w)
    BY <2>1, <2>2, <2>3, Zenon DEF rm, RmLookup, RmSelect, RmWrite, diskVars
  <2>. QED
    BY <2>4, Zenon DEF RmUnlink, At, Counted, JobCounts
<1>. QED
    BY <1>1, CountedInvariant, PTL DEF Spec, RemovedUnreferenced

-----------------------------------------------------------------------------
(* The tree, when no other command runs beside an rmdir.                   *)

RmdirAlone == OneWorker \/ "rmdir" \notin Commands

Inserting == Uploading \cup {"mkdir", "puts_link"}

\* A command inserts in the directory it looked up, which is still there, and deletes a
\* directory that still is empty.
JobRooted(j) ==
    /\ j.at \in {"rmdir_check", "rmdir_delete"} => "rmdir" \in Commands
    /\ j.at \in Inserting =>
          \E d \in rows : d.id = j.parent /\ d.kind = "dir" /\ d.path = Parent[j.path]
    /\ j.at = "rmdir_delete" => ~HasChild(j.id)

Rooted == TreeConnected /\ \A w \in Workers : JobRooted(job[w])

\* A step that leaves the rows alone.
LEMMA RootedQuiet ==
    ASSUME Rooted, NEW w \in Workers, rows' = rows,
           \A v \in Workers \ {w} : job'[v] = job[v], JobRooted(job[w])'
    PROVE  Rooted'
<1>1. TreeConnected'
    BY Zenon DEF Rooted, TreeConnected
<1>2. ASSUME NEW v \in Workers \ {w}
      PROVE  JobRooted(job[v])'
  <2>1. job'[v] = job[v] /\ JobRooted(job[v])
    BY Zenon DEF Rooted
  <2>. QED
    BY <2>1, Zenon DEF JobRooted, HasChild
<1>. QED
    BY <1>1, <1>2, Zenon DEF Rooted

\* A command that inserts goes on with the path and the directory it has.
LEMMA RootedGoesOn ==
    ASSUME Rooted, NEW w \in Workers, rows' = rows,
           \A v \in Workers \ {w} : job'[v] = job[v],
           job[w].at \in Inserting, job'[w].at \in Inserting,
           job'[w].path = job[w].path, job'[w].parent = job[w].parent
    PROVE  Rooted'
<1>1. JobRooted(job[w])'
    BY Zenon DEF Rooted, JobRooted, Inserting, Uploading
<1>. QED
    BY <1>1, RootedQuiet, Zenon

\* The lookups of a parent, and the check of rmdir.
LEMMA RootedLookup ==
    ASSUME StoreInv, Rooted, NEW w \in Workers,
           \/ \E p \in Paths : MkdirParent(w, p) \/ RmdirLookup(w, p) \/ RmLookup(w, p)
           \/ \E p \in Paths, size \in Sizes : PutsParent(w, p, size)
           \/ RmdirCheck(w) \/ RmSelect(w) \/ RmUnlink(w) \/ Abort(w)
    PROVE  Rooted'
<1>1. job = [v \in Workers |-> job[v]]
    BY Zenon DEF StoreInv, Shapes
<1>2. rows' = rows
    BY Zenon DEF MkdirParent, RmdirLookup, RmLookup, PutsParent, RmdirCheck, RmSelect, RmUnlink, Abort,
           dbVars
<1>3. ASSUME NEW p \in Paths, MkdirParent(w, p) PROVE Rooted'
  <2>1. PICK r \in rows : /\ r.path = Parent[p] /\ r.kind = "dir"
                          /\ Become(w, [at |-> "mkdir", path |-> p, parent |-> r.id])
    BY <1>3, Zenon DEF MkdirParent, Found, IsDir
  <2>2. /\ job'[w].at = "mkdir" /\ job'[w].path = p /\ job'[w].parent = r.id
        /\ \A v \in Workers \ {w} : job'[v] = job[v]
    BY <1>1, <2>1, Zenon DEF Become
  <2>3. JobRooted(job[w])'
    BY <1>2, <2>1, <2>2, Zenon DEF JobRooted
  <2>. QED
    BY <1>2, <2>2, <2>3, RootedQuiet, Zenon
<1>4. ASSUME NEW p \in Paths, NEW size \in Sizes, PutsParent(w, p, size) PROVE Rooted'
  <2>1. PICK r \in rows : /\ r.path = Parent[p] /\ r.kind = "dir"
                          /\ Become(w, [at |-> "puts_target", path |-> p, parent |-> r.id,
                                        size |-> size])
    BY <1>4, Zenon DEF PutsParent, Found, IsDir
  <2>2. /\ job'[w].at = "puts_target" /\ job'[w].path = p /\ job'[w].parent = r.id
        /\ \A v \in Workers \ {w} : job'[v] = job[v]
    BY <1>1, <2>1, Zenon DEF Become
  <2>3. JobRooted(job[w])'
    BY <1>2, <2>1, <2>2, Zenon DEF JobRooted
  <2>. QED
    BY <1>2, <2>2, <2>3, RootedQuiet, Zenon
<1>5. ASSUME NEW p \in Paths, RmdirLookup(w, p) PROVE Rooted'
  <2>1. job'[w].at = "rmdir_check" /\ \A v \in Workers \ {w} : job'[v] = job[v]
    BY <1>1, <1>5 DEF RmdirLookup, Become
  <2>2. JobRooted(job[w])'
    BY <1>5, <2>1, Zenon DEF JobRooted, RmdirLookup, Start, Inserting, Uploading
  <2>. QED
    BY <1>2, <2>1, <2>2, RootedQuiet, Zenon
<1>6. CASE RmdirCheck(w) /\ ~Become(w, Idle)
  <2>1. /\ job[w].at = "rmdir_check" /\ ~HasChild(job[w].id)
        /\ job' = [job EXCEPT ![w] = [at |-> "rmdir_delete", id |-> job[w].id]]
    BY <1>6, Zenon DEF RmdirCheck, At, Become
  <2>2. /\ job'[w].at = "rmdir_delete" /\ job'[w].id = job[w].id
        /\ \A v \in Workers \ {w} : job'[v] = job[v]
    BY <1>1, <2>1, Zenon
  <2>3. JobRooted(job[w])'
    BY <1>2, <2>1, <2>2, Zenon DEF Rooted, JobRooted, HasChild, Inserting, Uploading
  <2>. QED
    BY <1>2, <2>2, <2>3, RootedQuiet, Zenon
<1>7. CASE \/ Become(w, Idle) \/ RmSelect(w) \/ RmUnlink(w) \/ Abort(w)
           \/ \E p \in Paths : RmLookup(w, p)
  <2>1. /\ job'[w].at \in {"idle", "rm_select", "rm_write", "rm_unlink"}
        /\ \A v \in Workers \ {w} : job'[v] = job[v]
    <3>1. CASE Become(w, Idle) \/ RmUnlink(w) \/ Abort(w)
      BY <1>1, <3>1 DEF RmUnlink, Abort, Become, Idle
    <3>2. CASE RmSelect(w) \/ \E p \in Paths : RmLookup(w, p)
      BY <3>2, CommandPlaces, Zenon DEF StoreInv, rm
    <3>. QED
      BY <1>7, <3>1, <3>2, Zenon
  <2>2. JobRooted(job[w])'
    BY <2>1, Zenon DEF JobRooted, Inserting, Uploading
  <2>. QED
    BY <1>2, <2>1, <2>2, RootedQuiet, Zenon
<1>. QED
    BY <1>3, <1>4, <1>5, <1>6, <1>7, Zenon

\* The steps of an upload before it writes the tables.
LEMMA RootedUpload ==
    ASSUME StoreInv, Rooted, NEW w \in Workers,
           \/ PutsTarget(w) \/ PutsFind(w) \/ PutsOpen(w) \/ PutsStat(w) \/ PutsReceive(w)
           \/ PutsVerify(w) \/ PutsRename(w) \/ PutsDiscard(w)
    PROVE  Rooted'
<1>1. job = [v \in Workers |-> job[v]]
    BY Zenon DEF StoreInv, Shapes
<1>2. rows' = rows
    BY Zenon DEF PutsTarget, PutsFind, PutsOpen, PutsStat, PutsReceive, PutsVerify, PutsRename,
           PutsDiscard, dbVars
<1>3. CASE Become(w, Idle)
  <2>1. job'[w].at = "idle" /\ \A v \in Workers \ {w} : job'[v] = job[v]
    BY <1>1, <1>3, Zenon DEF Become, Idle
  <2>2. JobRooted(job[w])'
    BY <2>1, Zenon DEF JobRooted, Inserting, Uploading
  <2>. QED
    BY <1>2, <2>1, <2>2, RootedQuiet, Zenon
<1>4. CASE \/ PutsOpen(w) \/ PutsStat(w) \/ (PutsVerify(w) /\ ~Become(w, Idle))
           \/ (PutsFind(w) /\ file # NoFile /\ file.size = job[w].size)
  <2>1. /\ job[w].at \in {"puts_open", "puts_stat", "puts_receive", "puts_find"}
        /\ job'[w].at \in {"puts_stat", "puts_receive", "puts_rename", "puts_link"}
        /\ job'[w].path = job[w].path /\ job'[w].parent = job[w].parent
        /\ \A v \in Workers \ {w} : job'[v] = job[v]
    BY <1>1, <1>4 DEF PutsOpen, PutsStat, PutsVerify, PutsFind, Become, At
  <2>. QED
    BY <1>2, <2>1, RootedGoesOn, Zenon DEF Inserting, Uploading
<1>5. CASE \/ PutsTarget(w) /\ ~Become(w, Idle)
           \/ PutsFind(w) /\ ~(file # NoFile /\ file.size = job[w].size)
           \/ (PutsRename(w) \/ PutsDiscard(w)) /\ ~Become(w, Idle)
  <2>1. PICK place \in {"puts_find", "puts_open", "puts_create", "puts_discard"} :
            /\ job[w].at \in {"puts_target", "puts_find", "puts_rename", "puts_discard"}
            /\ job' = [job EXCEPT ![w] = [job[w] EXCEPT !.at = place]]
    BY <1>5, Zenon DEF PutsTarget, PutsFind, PutsRename, PutsDiscard, At, Become
  <2>2. job[w] = [at |-> job[w].at, path |-> job[w].path, parent |-> job[w].parent,
                  size |-> job[w].size]
    BY <2>1, Zenon DEF StoreInv, Shapes
  <2>3. /\ job'[w] = [at |-> place, path |-> job[w].path, parent |-> job[w].parent,
                      size |-> job[w].size]
        /\ \A v \in Workers \ {w} : job'[v] = job[v]
    BY <1>1, <2>1, <2>2, Zenon
  <2>. QED
    BY <1>2, <2>1, <2>3, RootedGoesOn DEF Inserting, Uploading
<1>6. CASE PutsReceive(w)
  <2>1. /\ job[w].at = "puts_receive"
        /\ job' = [job EXCEPT ![w] = [job[w] EXCEPT !.pos = @ + 1]]
    BY <1>6, Zenon DEF PutsReceive, At, Become
  <2>2. job[w] = [at |-> job[w].at, path |-> job[w].path, parent |-> job[w].parent,
                  size |-> job[w].size, inode |-> job[w].inode, pos |-> job[w].pos]
    BY <2>1, Zenon DEF StoreInv, Shapes
  <2>3. /\ job'[w] = [at |-> "puts_receive", path |-> job[w].path, parent |-> job[w].parent,
                      size |-> job[w].size, inode |-> job[w].inode, pos |-> job[w].pos + 1]
        /\ \A v \in Workers \ {w} : job'[v] = job[v]
    BY <1>1, <2>1, <2>2, Zenon
  <2>. QED
    BY <1>2, <2>1, <2>3, RootedGoesOn DEF Inserting, Uploading
<1>. QED
    BY <1>3, <1>4, <1>5, <1>6, Zenon

\* The writes: a new row is in a directory, and only an empty directory or a file goes.
LEMMA RootedWrites ==
    ASSUME RmdirAlone, StoreInv, Rooted, NEW w \in Workers,
           MkdirInsert(w) \/ PutsLink(w) \/ PutsCreate(w) \/ RmdirDelete(w) \/ RmWrite(w)
    PROVE  Rooted'
<1>1. job = [v \in Workers |-> job[v]]
    BY Zenon DEF StoreInv, Shapes
<1>2. /\ job'[w].at \in {"idle", "rm_unlink"} /\ \A v \in Workers \ {w} : job'[v] = job[v]
    BY <1>1 DEF MkdirInsert, PutsLink, PutsCreate, RmdirDelete, RmWrite, Become, Idle
<1>3. JobRooted(job[w])'
    BY <1>2, Zenon DEF JobRooted, Inserting, Uploading
<1>4. \A v \in Workers \ {w} : job[v].at \notin {"rmdir_check", "rmdir_delete"}
    BY Zenon DEF RmdirAlone, OneWorker, Rooted, JobRooted
<1>5. CASE rows' = rows
    BY <1>2, <1>3, <1>5, RootedQuiet, Zenon
<1>6. CASE (MkdirInsert(w) \/ PutsLink(w) \/ PutsCreate(w)) /\ rows' # rows
  <2>1. PICK n, kind, id : rows' = rows \cup {Row(n, job[w].path, kind, id, job[w].parent)}
    BY <1>6, Zenon DEF MkdirInsert, PutsLink, PutsCreate, InsertRow, dbVars
  <2>. DEFINE new == Row(n, job[w].path, kind, id, job[w].parent)
  <2>2. new.path = job[w].path /\ new.parent = job[w].parent
    BY Zenon DEF Row
  <2>3. \E d \in rows : d.id = job[w].parent /\ d.kind = "dir" /\ d.path = Parent[job[w].path]
    BY <1>6, Zenon DEF MkdirInsert, PutsLink, PutsCreate, At, Rooted, JobRooted, Inserting, Uploading
  <2>4. rows' = rows \cup {new}
    BY <2>1, Zenon
  <2>. HIDE DEF new
  <2>5. TreeConnected'
    BY <2>2, <2>3, <2>4 DEF Rooted, TreeConnected
  <2>6. ASSUME NEW v \in Workers \ {w}
        PROVE  JobRooted(job[v])'
    <3>1. /\ job'[v] = job[v] /\ JobRooted(job[v]) /\ rows \subseteq rows'
          /\ job[v].at \notin {"rmdir_check", "rmdir_delete"}
      BY <1>2, <1>4, <2>4, Zenon DEF Rooted
    <3>. QED
      BY <3>1, Zenon DEF JobRooted
  <2>. QED
    BY <1>3, <2>5, <2>6, Zenon DEF Rooted
<1>7. CASE RmdirDelete(w)
  <2>1. job[w].at = "rmdir_delete" /\ rows' = {r \in rows : r.id # job[w].id}
    BY <1>7, Zenon DEF RmdirDelete, At
  <2>2. \A r \in rows : r.parent # job[w].id
    BY <2>1, Zenon DEF Rooted, JobRooted, HasChild
  <2>3. TreeConnected'
    BY <2>1, <2>2, Zenon DEF Rooted, TreeConnected
  <2>4. \A v \in Workers : v = w
    <3>1. "rmdir" \in Commands
      BY <2>1, Zenon DEF Rooted, JobRooted
    <3>. QED
      BY <3>1 DEF RmdirAlone, OneWorker
  <2>. QED
    BY <1>3, <2>3, <2>4, Zenon DEF Rooted
<1>8. CASE RmWrite(w) /\ rows' # rows
  <2>1. job[w].at = "rm_write" /\ rows' = {r \in rows : r.id # job[w].id}
    BY <1>8, Zenon DEF RmWrite, At
  <2>2. \A r \in rows : r.id = job[w].id => r.kind = "file"
    BY <2>1, Zenon DEF StoreInv, Remembered
  <2>3. \A d \in rows : d.kind = "dir" => d \in rows'
    BY <2>1, <2>2, Zenon
  <2>4. TreeConnected'
    BY <2>1, <2>3, Zenon DEF Rooted, TreeConnected
  <2>5. ASSUME NEW v \in Workers \ {w}
        PROVE  JobRooted(job[v])'
    <3>1. /\ job'[v] = job[v] /\ JobRooted(job[v])
          /\ job[v].at \notin {"rmdir_check", "rmdir_delete"}
      BY <1>2, <1>4, Zenon DEF Rooted
    <3>. QED
      BY <2>3, <3>1, Zenon DEF JobRooted
  <2>. QED
    BY <1>3, <2>4, <2>5, Zenon DEF Rooted
<1>. QED
    BY <1>5, <1>6, <1>7, <1>8, Zenon

\* Where nothing runs beside an rmdir (one worker, or no rmdir at all, and then any number
\* of other commands at once), every entry is in the directory that its path names.
THEOREM TreeStaysConnected ==
    ASSUME RmdirAlone
    PROVE  Spec => []TreeConnected
<1>1. Init => Rooted
  <2>. SUFFICES ASSUME Init PROVE Rooted
    BY Zenon
  <2>1. TreeConnected
    <3>1. \A r \in rows : r.path = Root
      BY DEF Init, Row
    <3>. QED
      BY <3>1, Zenon DEF TreeConnected
  <2>2. \A w \in Workers : job[w].at = "idle"
    BY Zenon DEF Init, Idle
  <2>. QED
    BY <2>1, <2>2, Zenon DEF Rooted, JobRooted, Inserting, Uploading
<1>2. StoreInv /\ Rooted /\ [Next]_vars => Rooted'
  <2>. SUFFICES ASSUME StoreInv, Rooted, [Next]_vars PROVE Rooted'
    BY Zenon
  <2>1. ASSUME NEW w \in Workers, mkdir(w) \/ rmdir(w) \/ rm(w) \/ Abort(w) PROVE Rooted'
    BY <2>1, RootedLookup, RootedWrites, Zenon DEF mkdir, rmdir, rm
  <2>2. ASSUME NEW w \in Workers, puts(w) PROVE Rooted'
    BY <2>2, RootedLookup, RootedUpload, RootedWrites, Zenon DEF puts
  <2>3. CASE UNCHANGED vars
    <3>1. UNCHANGED <<rows, job>>
        BY <2>3, Zenon DEF vars, dbVars
    <3>. QED
        BY <3>1, Zenon DEF Rooted, TreeConnected, JobRooted, HasChild
  <2>. QED
    BY <2>1, <2>2, <2>3, Zenon DEF Next
<1>3. Rooted => TreeConnected
    BY Zenon DEF Rooted
<1>. QED
    BY <1>1, <1>2, <1>3, StoreInvariant, PTL DEF Spec

-----------------------------------------------------------------------------
(* What is stored, when commands run one at a time.                        *)

\* The partial file is never the stored one, and is still the one an upload has open or
\* has verified, whatever was sent.
Solo ==
    /\ content = [i \in Inodes |-> content[i]]
    /\ part \in Inodes \cup {NoInode} /\ final \in Inodes \cup {NoInode}
    /\ part = final => part = NoInode
    /\ PublishedVerified
    /\ \A w \in Workers :
          /\ job[w].at \in {"puts_stat", "puts_receive"} => job[w].inode = part /\ part # NoInode
          /\ job[w].at = "puts_rename" => part # NoInode /\ content[part] = Good

\* A step that leaves the stored file, or unlinks it.
LEMMA SoloQuiet ==
    ASSUME Solo, NEW w, Workers = {w}, content' = content \/ Reclaim,
           part' \in {part, NoInode}, final' \in {final, NoInode},
           job'[w].at \notin {"puts_stat", "puts_receive", "puts_rename"}
    PROVE  Solo'
<1>1. /\ content' = [i \in Inodes |-> content'[i]]
      /\ part' \in Inodes \cup {NoInode} /\ final' \in Inodes \cup {NoInode}
    BY Zenon DEF Solo, Reclaim
<1>2. part' = final' => part' = NoInode
    BY Zenon DEF Solo
<1>3. PublishedVerified'
  <2>. SUFFICES ASSUME final' # NoInode PROVE content'[final'] = Good'
    BY Zenon DEF PublishedVerified
  <2>1. final' = final /\ final \in Inodes /\ content[final] = Good
    BY Zenon DEF Solo, PublishedVerified
  <2>2. content'[final] = content[final]
    BY <2>1, Zenon DEF Reclaim, UsedInodes
  <2>. QED
    BY <2>1, <2>2, Zenon DEF Good
<1>. QED
    BY <1>1, <1>2, <1>3, Zenon DEF Solo

\* The steps that neither open, write nor publish the partial file.
LEMMA SoloOther ==
    ASSUME StoreInv, Solo, NEW w, Workers = {w},
           \/ mkdir(w) \/ rmdir(w) \/ rm(w) \/ Abort(w)
           \/ \E p \in Paths, size \in Sizes : PutsParent(w, p, size)
           \/ PutsTarget(w) \/ PutsFind(w) \/ PutsLink(w) \/ PutsDiscard(w) \/ PutsCreate(w)
    PROVE  Solo'
<1>1. job = [v \in Workers |-> job[v]] /\ w \in Workers
    BY Zenon DEF StoreInv, Shapes
<1>2. content' = content \/ Reclaim
    BY Zenon DEF mkdir, rmdir, rm, MkdirParent, MkdirInsert, RmdirLookup, RmdirCheck, RmdirDelete,
           RmLookup, RmSelect, RmWrite, RmUnlink, Abort, PutsParent, PutsTarget, PutsFind,
           PutsLink, PutsDiscard, PutsCreate, diskVars
<1>3. part' \in {part, NoInode} /\ final' \in {final, NoInode}
    BY Zenon DEF mkdir, rmdir, rm, MkdirParent, MkdirInsert, RmdirLookup, RmdirCheck, RmdirDelete,
           RmLookup, RmSelect, RmWrite, RmUnlink, Abort, PutsParent, PutsTarget, PutsFind,
           PutsLink, PutsDiscard, PutsCreate, diskVars
<1>. DEFINE Quiet == job'[w].at \notin {"puts_stat", "puts_receive", "puts_rename"}
<1>4. mkdir(w) \/ rmdir(w) \/ rm(w) => Quiet
    BY <1>1, CommandPlaces, Zenon DEF StoreInv
<1>5. Abort(w) => Quiet
    BY <1>1 DEF Abort, Become, Idle
<1>6. /\ PutsLink(w) \/ PutsCreate(w) => Quiet
      /\ \A p \in Paths, size \in Sizes : PutsParent(w, p, size) => Quiet
    BY <1>1 DEF PutsLink, PutsCreate, PutsParent, Become, Idle
<1>7. PutsTarget(w) \/ PutsFind(w) \/ PutsDiscard(w) => Quiet
  <2>. SUFFICES ASSUME PutsTarget(w) \/ PutsFind(w) \/ PutsDiscard(w) PROVE Quiet
    BY Zenon
  <2>1. /\ job[w].at \in {"puts_target", "puts_find", "puts_discard"}
        /\ \/ job'[w].at \in {"idle", "puts_link"}
           \/ \E place \in {"puts_find", "puts_open", "puts_create"} :
                 job'[w] = [job[w] EXCEPT !.at = place]
    BY <1>1 DEF PutsTarget, PutsFind, PutsDiscard, Become, Idle, At
  <2>2. job[w] = [at |-> job[w].at, path |-> job[w].path, parent |-> job[w].parent,
                  size |-> job[w].size]
    BY <1>1, <2>1, Zenon DEF StoreInv, Shapes
  <2>. QED
    BY <2>1, <2>2, Zenon
<1>. QED
    BY <1>2, <1>3, <1>4, <1>5, <1>6, <1>7, SoloQuiet, Zenon

\* The steps of an upload that has the partial file open: they write nothing else.
LEMMA SoloOpen ==
    ASSUME StoreInv, Solo, NEW w, Workers = {w}, PutsOpen(w) \/ PutsStat(w) \/ PutsReceive(w)
    PROVE  Solo'
<1>1. job = [v \in Workers |-> job[v]] /\ w \in Workers
    BY Zenon DEF StoreInv, Shapes
<1>2. final' = final /\ Good' = Good
    BY Zenon DEF PutsOpen, PutsStat, PutsReceive, Good
<1>3. CASE PutsOpen(w)
  <2>1. /\ content' = content
        /\ part' = IF part = NoInode THEN CHOOSE i \in FreeInodes : TRUE ELSE part
        /\ part # NoInode \/ FreeInodes # {}
        /\ job'[w].at = "puts_stat" /\ job'[w].inode = part'
    BY <1>1, <1>3, Zenon DEF PutsOpen, Become
  <2>2. part' \in Inodes /\ part' # final
    BY <2>1, DiskAssumption, Zenon DEF FreeInodes, UsedInodes, Solo
  <2>3. PublishedVerified'
    BY <1>2, <2>1, Zenon DEF Solo, PublishedVerified
  <2>. QED
    BY <1>2, <2>1, <2>2, <2>3, DiskAssumption, Zenon DEF Solo
<1>4. CASE PutsStat(w) \/ PutsReceive(w)
  <2>1. job[w].inode = part /\ part # NoInode /\ part \in Inodes
    BY <1>1, <1>4, Zenon DEF PutsStat, PutsReceive, At, Solo
  <2>2. part' = part /\ \E new : content' = [content EXCEPT ![part] = new]
    <3>1. CASE PutsStat(w)
      <4>1. content' = [content EXCEPT ![job[w].inode] =
                            IF Len(@) > job[w].size THEN <<>> ELSE @]
        BY <3>1, Zenon DEF PutsStat
      <4>2. content' = [content EXCEPT ![part] =
                            IF Len(content[part]) > job[w].size THEN <<>> ELSE content[part]]
        BY <2>1, <4>1, Zenon
      <4>. QED
        BY <3>1, <4>2, Zenon DEF PutsStat
    <3>2. CASE PutsReceive(w)
      <4>1. PICK d : content' = [content EXCEPT ![job[w].inode] = Written(@, job[w].pos, d)]
        BY <3>2, Zenon DEF PutsReceive
      <4>2. content' = [content EXCEPT ![part] = Written(content[part], job[w].pos, d)]
        BY <2>1, <4>1, Zenon
      <4>. QED
        BY <3>2, <4>2, Zenon DEF PutsReceive
    <3>. QED
        BY <1>4, <3>1, <3>2, Zenon
  <2>3. job'[w].at = "puts_receive" /\ job'[w].inode = part
    <3>1. CASE PutsStat(w)
        BY <1>1, <2>1, <3>1, Zenon DEF PutsStat, Become
    <3>2. CASE PutsReceive(w)
      <4>1. /\ job[w].at = "puts_receive"
            /\ job' = [job EXCEPT ![w] = [job[w] EXCEPT !.pos = @ + 1]]
        BY <3>2, Zenon DEF PutsReceive, At, Become
      <4>2. job[w] = [at |-> job[w].at, path |-> job[w].path, parent |-> job[w].parent,
                      size |-> job[w].size, inode |-> job[w].inode, pos |-> job[w].pos]
        BY <1>1, <4>1, Zenon DEF StoreInv, Shapes
      <4>. QED
        BY <1>1, <2>1, <4>1, <4>2, Zenon
    <3>. QED
        BY <1>4, <3>1, <3>2, Zenon
  <2>4. /\ content' = [i \in Inodes |-> content'[i]]
        /\ \A i \in Inodes \ {part} : content'[i] = content[i]
    BY <2>1, <2>2, Zenon DEF Solo
  <2>5. PublishedVerified'
    BY <1>2, <2>1, <2>4, Zenon DEF Solo, PublishedVerified
  <2>. QED
    BY <1>2, <2>1, <2>2, <2>3, <2>4, <2>5, Zenon DEF Solo
<1>. QED
    BY <1>3, <1>4, Zenon

\* A file is renamed when it has been verified, and it is the one that was.
LEMMA SoloPublish ==
    ASSUME StoreInv, Solo, NEW w, Workers = {w}, PutsVerify(w) \/ PutsRename(w)
    PROVE  Solo'
<1>1. job = [v \in Workers |-> job[v]] /\ w \in Workers
    BY Zenon DEF StoreInv, Shapes
<1>2. /\ content' = [i \in Inodes |-> content'[i]] /\ Good' = Good
      /\ \A i \in Inodes : i \in {part', final'} => content'[i] = content[i]
    BY Zenon DEF PutsVerify, PutsRename, Reclaim, UsedInodes, Good
<1>3. CASE PutsVerify(w)
  <2>1. /\ job[w].inode = part /\ part \in Inodes /\ final' = final
        /\ \/ content[part] = Good /\ part' = part /\ job'[w].at = "puts_rename"
           \/ part' = NoInode /\ job'[w].at = "idle"
    <3>1. /\ job[w].at = "puts_receive" /\ final' = final
          /\ \/ /\ HashMatches(job[w].inode) /\ part' = part
                /\ Become(w, [at |-> "puts_rename", path |-> job[w].path,
                              parent |-> job[w].parent, size |-> job[w].size])
             \/ part' = NoInode /\ Become(w, Idle)
      BY <1>3, Zenon DEF PutsVerify, At
    <3>2. job[w].inode = part /\ part \in Inodes
      BY <1>1, <3>1, Zenon DEF Solo
    <3>3. CASE part' = NoInode /\ Become(w, Idle)
      BY <1>1, <3>1, <3>2, <3>3, Zenon DEF Become, Idle
    <3>4. CASE HashMatches(job[w].inode) /\ part' = part
               /\ Become(w, [at |-> "puts_rename", path |-> job[w].path,
                             parent |-> job[w].parent, size |-> job[w].size])
      BY <1>1, <3>1, <3>2, <3>4, Zenon DEF Become, HashMatches
    <3>. QED
      BY <3>1, <3>3, <3>4, Zenon
  <2>2. PublishedVerified'
    BY <1>2, <2>1, Zenon DEF Solo, PublishedVerified
  <2>. QED
    BY <1>2, <2>1, <2>2, DiskAssumption, Zenon DEF Solo
<1>4. CASE PutsRename(w)
  <2>1. /\ job[w].at = "puts_rename" /\ part \in Inodes /\ content[part] = Good
        /\ final' = part /\ part' = NoInode
        /\ job' = [job EXCEPT ![w] = [job[w] EXCEPT !.at = "puts_create"]]
    BY <1>1, <1>4, Zenon DEF PutsRename, At, Become, Solo
  <2>2. job[w] = [at |-> job[w].at, path |-> job[w].path, parent |-> job[w].parent,
                  size |-> job[w].size]
    BY <1>1, <2>1, Zenon DEF StoreInv, Shapes
  <2>3. job'[w].at = "puts_create"
    BY <1>1, <2>1, <2>2, Zenon
  <2>4. PublishedVerified'
    BY <1>2, <2>1, Zenon DEF PublishedVerified
  <2>. QED
    BY <1>2, <2>1, <2>3, <2>4, Zenon DEF Solo
<1>. QED
    BY <1>3, <1>4, Zenon

\* When commands run one at a time, what is stored under a hash has that hash, whatever
\* clients announce and send, and wherever uploads are cut off, resumed or removed.
THEOREM StoredIsVerified ==
    ASSUME OneWorker
    PROVE  Spec => []PublishedVerified
<1>. PICK w : Workers = {w}
    BY Zenon DEF OneWorker
<1>1. Init => Solo
    BY DEF Init, Solo, PublishedVerified, Idle
<1>2. StoreInv /\ Solo /\ [Next]_vars => Solo'
  <2>. SUFFICES ASSUME StoreInv, Solo, [Next]_vars PROVE Solo'
    BY Zenon
  <2>1. CASE Next
    <3>1. mkdir(w) \/ rmdir(w) \/ rm(w) \/ puts(w) \/ Abort(w)
        BY <2>1, Zenon DEF Next
    <3>. QED
        BY <3>1, SoloOther, SoloOpen, SoloPublish, Zenon DEF puts
  <2>2. CASE UNCHANGED vars
    <3>1. UNCHANGED <<content, part, final, job>>
        BY <2>2, Zenon DEF vars, diskVars
    <3>. QED
        BY <3>1, Zenon DEF Solo, PublishedVerified, Good
  <2>. QED
    BY <2>1, <2>2, Zenon
<1>3. Solo => PublishedVerified
    BY Zenon DEF Solo
<1>. QED
    BY <1>1, <1>2, <1>3, StoreInvariant, PTL DEF Spec
=============================================================================
