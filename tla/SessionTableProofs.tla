------------------------- MODULE SessionTableProofs -------------------------
(***************************************************************************)
(* The invariants of SessionTable hold for any set of descriptors and ids. *)
(*                                                                         *)
(* None of the three is inductive alone: session_detach_fd frees a session *)
(* by its counter, so the counter must be exact (CountExact), which in     *)
(* turn needs the two indexes to agree when a binding goes (IndexesAgree); *)
(* and session_create overwrites the list of a fresh id, which must be     *)
(* empty (FreshIds).                                                       *)
(***************************************************************************)
EXTENDS SessionTable, FiniteSetTheorems, TLAPS

\* An id never drawn has no session.
FreshIds == live \subseteq issued

\* The inductive invariant.
TableInv == TableTypeOK /\ IndexesAgree /\ CountExact /\ LiveIffBound /\ FreshIds

-----------------------------------------------------------------------------

\* An empty table satisfies the invariant.
LEMMA TableInitInv == TableInit => TableInv
<1>. SUFFICES ASSUME TableInit PROVE TableInv
    OBVIOUS
<1>1. TableTypeOK /\ IndexesAgree /\ LiveIffBound /\ FreshIds
    BY RootAssumption, IdAssumption
    DEF TableInit, TableTypeOK, IndexesAgree, LiveIffBound, FreshIds
<1>2. CountExact
    BY FS_EmptySet DEF TableInit, CountExact
<1>. QED
    BY <1>1, <1>2 DEF TableInv

\* A login keeps it.
LEMMA CreateInv ==
    ASSUME NEW fd \in Fds, NEW id \in Ids, TableInv, session_create(fd, id)
    PROVE  TableInv'
<1>. USE DEF TableInv
<1>1. TableTypeOK' /\ FreshIds'
    BY RootAssumption DEF session_create, TableTypeOK, FreshIds
<1>2. connections[id] = {}
    BY DEF session_create, FreshIds, LiveIffBound
<1>3. IndexesAgree'
    BY <1>2, IdAssumption DEF session_create, IndexesAgree, TableTypeOK
<1>4. LiveIffBound'
    BY DEF session_create, LiveIffBound, TableTypeOK
<1>5. CountExact'
    <2>. SUFFICES ASSUME NEW j \in Ids
                  PROVE  /\ IsFiniteSet(connections'[j])
                         /\ connection_count'[j] = Cardinality(connections'[j])
        BY DEF CountExact
    <2>1. CASE j = id
        <3>1. connections'[j] = {fd} /\ connection_count'[j] = 1
            BY <2>1 DEF session_create, TableTypeOK
        <3>. QED
            BY <3>1, FS_Singleton
    <2>2. CASE j # id
        BY <2>2 DEF session_create, TableTypeOK, CountExact
    <2>. QED
        BY <2>1, <2>2
<1>. QED
    BY <1>1, <1>3, <1>4, <1>5

\* Authorizing a request keeps it, whether or not the fd gets a new binding.
LEMMA AuthorizeInv ==
    ASSUME NEW fd \in Fds, NEW id \in Ids, TableInv, session_authorize(fd, id)
    PROVE  TableInv'
<1>. USE DEF TableInv
<1>1. CASE binding[fd] # NoSession
    BY <1>1 DEF session_authorize, BindNew, TableTypeOK, IndexesAgree, CountExact,
                LiveIffBound, FreshIds
<1>2. CASE binding[fd] = NoSession
    <2>1. /\ binding' = [binding EXCEPT ![fd] = id]
          /\ connections' = [connections EXCEPT ![id] = @ \cup {fd}]
          /\ connection_count' = [connection_count EXCEPT ![id] = @ + 1]
          /\ id \in live
          /\ UNCHANGED <<live, issued, cwd>>
        BY <1>2 DEF session_authorize, BindNew, MayUse
    <2>2. fd \notin connections[id]
        BY <1>2, IdAssumption DEF IndexesAgree
    <2>3. TableTypeOK' /\ FreshIds'
        BY <2>1 DEF TableTypeOK, FreshIds
    <2>4. IndexesAgree'
        BY <1>2, <2>1, IdAssumption DEF IndexesAgree, TableTypeOK
    <2>5. LiveIffBound'
        BY <2>1 DEF LiveIffBound, TableTypeOK
    <2>6. CountExact'
        <3>. SUFFICES ASSUME NEW j \in Ids
                      PROVE  /\ IsFiniteSet(connections'[j])
                             /\ connection_count'[j] = Cardinality(connections'[j])
            BY DEF CountExact
        <3>1. CASE j = id
            <4>1. /\ connections'[j] = connections[j] \cup {fd}
                  /\ connection_count'[j] = connection_count[j] + 1
                BY <2>1, <3>1 DEF TableTypeOK
            <4>2. /\ IsFiniteSet(connections[j])
                  /\ connection_count[j] = Cardinality(connections[j])
                BY DEF CountExact
            <4>. QED
                BY <2>2, <3>1, <4>1, <4>2, FS_AddElement
        <3>2. CASE j # id
            BY <2>1, <3>2 DEF TableTypeOK, CountExact
        <3>. QED
            BY <3>1, <3>2
    <2>. QED
        BY <2>3, <2>4, <2>5, <2>6
<1>. QED
    BY <1>1, <1>2

\* Changing a working directory touches none of the indexes.
LEMMA UpdateCwdInv ==
    ASSUME NEW fd \in Fds, NEW id \in Ids, NEW dir \in Dirs, TableInv,
           session_update_cwd(fd, id, dir)
    PROVE  TableInv'
BY DEF session_update_cwd, TableInv, TableTypeOK, IndexesAgree, CountExact,
       LiveIffBound, FreshIds

\* Detaching keeps it: the counter is 1 exactly when the fd was the last connection.
LEMMA DetachInv ==
    ASSUME NEW fd \in Fds, TableInv, session_detach_fd(fd)
    PROVE  TableInv'
<1>. USE DEF TableInv
<1>1. CASE binding[fd] = NoSession
    BY <1>1 DEF session_detach_fd, tableVars, TableTypeOK, IndexesAgree, CountExact,
                LiveIffBound, FreshIds
<1>2. CASE binding[fd] # NoSession
    <2>. DEFINE id == binding[fd]
                rest == connections[id] \ {fd}
    <2>1. id \in Ids /\ fd \in connections[id]
        BY <1>2 DEF TableTypeOK, IndexesAgree
    <2>2. /\ binding' = [binding EXCEPT ![fd] = NoSession]
          /\ connections' = [connections EXCEPT ![id] = rest]
          /\ connection_count' = [connection_count EXCEPT ![id] = @ - 1]
          /\ live' = IF connection_count[id] = 1 THEN live \ {id} ELSE live
          /\ UNCHANGED <<issued, cwd>>
        BY <1>2 DEF session_detach_fd, Survivors
    <2>3. /\ IsFiniteSet(connections[id])
          /\ connection_count[id] = Cardinality(connections[id])
          /\ connection_count[id] \in Nat
        BY <2>1 DEF CountExact, TableTypeOK
    <2>4. /\ IsFiniteSet(rest)
          /\ Cardinality(rest) = connection_count[id] - 1
          /\ Cardinality(rest) \in Nat
        BY <2>1, <2>3, FS_RemoveElement, FS_CardinalityType
    <2>5. connection_count[id] = 1 <=> rest = {}
        BY <2>3, <2>4, FS_EmptySet
    <2>. HIDE DEF id, rest
    <2>6. TableTypeOK'
        BY <2>1, <2>2, <2>3, <2>4 DEF TableTypeOK, rest
    <2>7. FreshIds'
        BY <2>2 DEF FreshIds
    <2>8. IndexesAgree'
        BY <2>1, <2>2, IdAssumption DEF IndexesAgree, TableTypeOK, id, rest
    <2>9. LiveIffBound'
        BY <2>1, <2>2, <2>5 DEF LiveIffBound, TableTypeOK
    <2>10. CountExact'
        BY <2>1, <2>2, <2>4 DEF CountExact, TableTypeOK
    <2>. QED
        BY <2>6, <2>7, <2>8, <2>9, <2>10
<1>. QED
    BY <1>1, <1>2

\* Every operation keeps the invariant.
LEMMA TableNextInv == TableInv /\ [TableNext]_tableVars => TableInv'
<1>. SUFFICES ASSUME TableInv, [TableNext]_tableVars PROVE TableInv'
    OBVIOUS
<1>1. CASE UNCHANGED tableVars
    BY <1>1 DEF tableVars, TableInv, TableTypeOK, IndexesAgree, CountExact,
                LiveIffBound, FreshIds
<1>2. CASE TableNext
    BY <1>2, CreateInv, AuthorizeInv, UpdateCwdInv, DetachInv DEF TableNext
<1>. QED
    BY <1>1, <1>2

-----------------------------------------------------------------------------

\* The inductive invariant holds in every reachable state of the table.
THEOREM TableInvariant == TableSpec => []TableInv
BY TableInitInv, TableNextInv, PTL DEF TableSpec

\* The table's variables keep their types.
THEOREM TableTypeCorrect == TableSpec => []TableTypeOK
<1>1. TableInv => TableTypeOK
    BY DEF TableInv
<1>. QED
    BY <1>1, TableInvariant, PTL

\* The fd index and the sessions' connection lists never disagree.
THEOREM IndexesAlwaysAgree == TableSpec => []IndexesAgree
<1>1. TableInv => IndexesAgree
    BY DEF TableInv
<1>. QED
    BY <1>1, TableInvariant, PTL

\* connection_count always counts the bound connections.
THEOREM CountAlwaysExact == TableSpec => []CountExact
<1>1. TableInv => CountExact
    BY DEF TableInv
<1>. QED
    BY <1>1, TableInvariant, PTL

\* A session lives exactly as long as some connection is bound to it.
THEOREM LifetimeIsConnections == TableSpec => []LiveIffBound
<1>1. TableInv => LiveIffBound
    BY DEF TableInv
<1>. QED
    BY <1>1, TableInvariant, PTL

\* No operation moves a connection from one session to another.
THEOREM SessionsNeverSwitch == TableSpec => NoSwitch
<1>1. TableInv /\ [TableNext]_tableVars =>
        [\A fd \in Fds :
            binding[fd] # NoSession => binding'[fd] \in {binding[fd], NoSession}]_tableVars
    BY DEF TableInv, TableTypeOK, TableNext, session_create, session_authorize, MayUse,
           BindNew, session_update_cwd, session_detach_fd, tableVars
<1>. QED
    BY <1>1, TableInvariant, PTL DEF TableSpec, NoSwitch

=============================================================================
