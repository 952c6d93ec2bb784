-------------------------- MODULE TimerWheelProofs --------------------------
(***************************************************************************)
(* The invariants of TimerWheel hold for every set of descriptors, every   *)
(* timeout and every clock.                                                *)
(*                                                                         *)
(* NoneOverdue is not inductive: a walk frees the nodes of one slot, so it *)
(* must be known that a node due at the cursor is IN that slot             *)
(* (SlotsMatch), and a node linked now must lie ahead of the cursor, which *)
(* needs the cursor not to run ahead of the clock (ClockAhead).            *)
(***************************************************************************)
EXTENDS TimerWheel, TLAPS

\* Every clock reading held by a thread is in the past, a touch reading by at most
\* MaxLag seconds; the cursor is not ahead of the clock; no deadline is more than the
\* timeout, rounded up, away.
ClockAhead ==
    /\ current_second <= now.sec
    /\ AtOrBefore(walk_now, now)
    /\ \A t \in touches : AtOrBefore(t.now, now) /\ now.sec <= t.now.sec + MaxLag
    /\ \A fd \in tracked : deadline_tick(deadline[fd]) <= now.sec + SlotCount

\* The inductive invariant.
WheelInv == TypeOK /\ SlotsMatch /\ NoneOverdue /\ ClockAhead

-----------------------------------------------------------------------------

\* A slot number is an index of the slot table.
LEMMA SlotInRange ==
    ASSUME NEW tick \in Nat
    PROVE  SlotOf(tick) \in 0 .. SlotCount - 1
BY TimeoutAssumption DEF SlotOf, SlotCount

\* The tick of a time is a natural number, its seconds rounded up.
LEMMA TickType ==
    ASSUME NEW d \in Time
    PROVE  /\ deadline_tick(d) \in Nat
           /\ d.sec <= deadline_tick(d)
           /\ deadline_tick(d) <= d.sec + 1
BY DEF deadline_tick, Time

\* The deadline of a clock reading is a time, and its tick lies between the timeout
\* and the number of slots ahead of the reading.
LEMMA DeadlineType ==
    ASSUME NEW t \in Time
    PROVE  /\ DeadlineAfter(t) \in Time
           /\ t.sec + Timeout <= deadline_tick(DeadlineAfter(t))
           /\ deadline_tick(DeadlineAfter(t)) <= t.sec + SlotCount
<1>1. DeadlineAfter(t) = [sec |-> t.sec + Timeout, nsec |-> t.nsec]
    BY DEF DeadlineAfter, Time
<1>2. DeadlineAfter(t) \in Time
    BY <1>1, TimeoutAssumption DEF Time
<1>3. DeadlineAfter(t).sec = t.sec + Timeout
    BY <1>1
<1>. QED
    BY <1>2, <1>3, TimeoutAssumption, TickType DEF SlotCount, Time

\* A deadline whose tick a walk has reached is not after the walk's clock reading.
LEMMA ReachedTick ==
    ASSUME NEW d \in Time, NEW t \in Time, deadline_tick(d) <= t.sec
    PROVE  AtOrBefore(d, t)
BY DEF deadline_tick, Time, AtOrBefore

\* Readings of a monotonic clock are ordered.
LEMMA AtOrBeforeTrans ==
    ASSUME NEW r \in Time, NEW s \in Time, NEW t \in Time,
           AtOrBefore(r, s), AtOrBefore(s, t)
    PROVE  AtOrBefore(r, t)
BY DEF AtOrBefore, Time

-----------------------------------------------------------------------------

\* A new wheel satisfies the invariant.
LEMMA InitInv == Init => WheelInv
<1>. SUFFICES ASSUME Init PROVE WheelInv
    OBVIOUS
<1>1. now \in Time /\ Zero \in Time /\ now.sec = 0
    BY NanosAssumption DEF Init, Time, Zero
<1>2. TypeOK
    BY <1>1 DEF Init, TypeOK
<1>3. SlotsMatch /\ NoneOverdue
    BY DEF Init, SlotsMatch, NoneOverdue
<1>4. AtOrBefore(Zero, now)
    BY <1>1 DEF AtOrBefore, Zero, Time
<1>5. ClockAhead
    BY <1>1, <1>4 DEF Init, ClockAhead
<1>. QED
    BY <1>2, <1>3, <1>5 DEF WheelInv

\* The passing of time keeps it.
LEMMA ClockTickInv == WheelInv /\ ClockTick => WheelInv'
<1>. SUFFICES ASSUME WheelInv, ClockTick PROVE WheelInv'
    OBVIOUS
<1>. USE DEF WheelInv
<1>1. now' \in Time /\ AtOrBefore(now, now') /\ now.sec <= now'.sec
    <2>1. CASE now.nsec + 1 < NanosPerSecond
        <3>1. now' = [sec |-> now.sec, nsec |-> now.nsec + 1]
            BY <2>1 DEF ClockTick, TypeOK, Time
        <3>. QED
            BY <2>1, <3>1, NanosAssumption DEF TypeOK, Time, AtOrBefore
    <2>2. CASE ~(now.nsec + 1 < NanosPerSecond)
        BY <2>2, NanosAssumption DEF ClockTick, TypeOK, Time, AtOrBefore
    <2>. QED
        BY <2>1, <2>2
<1>2. TypeOK'
    BY <1>1 DEF TypeOK, ClockTick, wheelVars
<1>3. SlotsMatch' /\ NoneOverdue'
    BY DEF ClockTick, wheelVars, SlotsMatch, NoneOverdue
<1>4. ClockAhead'
    <2>1. current_second' <= now'.sec
        BY <1>1 DEF ClockTick, wheelVars, ClockAhead, TypeOK, Time
    <2>2. AtOrBefore(walk_now', now')
        BY <1>1, AtOrBeforeTrans DEF ClockTick, ClockAhead, TypeOK
    <2>3. ASSUME NEW t \in touches'
          PROVE  AtOrBefore(t.now, now') /\ now'.sec <= t.now.sec + MaxLag
        <3>1. t \in touches /\ t.now \in Time
            BY <2>3 DEF ClockTick, TypeOK
        <3>. QED
            BY <1>1, <3>1, AtOrBeforeTrans DEF ClockTick, ClockAhead, TypeOK
    <2>4. ASSUME NEW fd \in tracked'
          PROVE  deadline_tick(deadline'[fd]) <= now'.sec + SlotCount
        <3>1. deadline' = deadline /\ fd \in tracked /\ deadline[fd] \in Time
            BY <2>4 DEF ClockTick, wheelVars, TypeOK
        <3>2. deadline_tick(deadline[fd]) <= now.sec + SlotCount
            BY <3>1 DEF ClockAhead
        <3>3. deadline_tick(deadline[fd]) \in Nat
            BY <3>1, TickType
        <3>4. SlotCount \in Nat /\ now.sec \in Nat /\ now'.sec \in Nat
            BY <1>1, TimeoutAssumption DEF TypeOK, Time, SlotCount
        <3>. QED
            BY <1>1, <3>1, <3>2, <3>3, <3>4
    <2>. QED
        BY <2>1, <2>2, <2>3, <2>4 DEF ClockAhead
<1>. QED
    BY <1>2, <1>3, <1>4

\* Linking an fd with no node keeps it: the new deadline is ahead of the clock, so of
\* the cursor.
LEMMA TrackInv ==
    ASSUME NEW fd \in Fds, WheelInv, Track(fd)
    PROVE  WheelInv'
<1>. USE DEF WheelInv
<1>. DEFINE d == DeadlineAfter(now)
            k == SlotOf(deadline_tick(d))
<1>1. /\ d \in Time
      /\ deadline_tick(d) \in Nat
      /\ now.sec + Timeout <= deadline_tick(d)
      /\ deadline_tick(d) <= now.sec + SlotCount
    BY DeadlineType, TickType DEF TypeOK
<1>2. k \in 0 .. SlotCount - 1
    BY <1>1, SlotInRange
<1>. HIDE DEF d
<1>3. /\ tracked' = tracked \cup {fd}
      /\ deadline' = [deadline EXCEPT ![fd] = d]
      /\ slots' = [slots EXCEPT ![k] = @ \cup {fd}]
      /\ fd \notin tracked
      /\ UNCHANGED <<now, current_second, walk, walk_now, touches>>
    BY DEF Track, link_slot, d
<1>. HIDE DEF k
<1>4. TypeOK'
    BY <1>1, <1>2, <1>3 DEF TypeOK
<1>5. \A g \in Fds : deadline'[g] = IF g = fd THEN d ELSE deadline[g]
    BY <1>3 DEF TypeOK
<1>6. SlotsMatch'
    <2>. SUFFICES ASSUME NEW s \in 0 .. SlotCount - 1, NEW g \in Fds
                  PROVE  g \in slots'[s] <=>
                            /\ g \in tracked'
                            /\ s = SlotOf(deadline_tick(deadline'[g]))
        BY DEF SlotsMatch
    <2>1. g \in slots'[s] <=> g \in slots[s] \/ (s = k /\ g = fd)
        BY <1>2, <1>3 DEF TypeOK
    <2>2. g \in slots[s] <=> g \in tracked /\ s = SlotOf(deadline_tick(deadline[g]))
        BY DEF SlotsMatch
    <2>. QED
        BY <1>3, <1>5, <2>1, <2>2 DEF k
<1>7. ASSUME NEW g \in tracked'
      PROVE  /\ deadline_tick(deadline'[g]) > current_second'
             /\ deadline_tick(deadline'[g]) <= now'.sec + SlotCount
    <2>1. CASE g = fd
        <3>1. /\ now.sec \in Nat /\ current_second \in Nat
              /\ current_second <= now.sec
            BY DEF TypeOK, Time, ClockAhead
        <3>2. deadline'[g] = d
            BY <2>1, <1>5
        <3>. QED
            BY <1>1, <1>3, <3>1, <3>2, TimeoutAssumption
    <2>2. CASE g # fd
        BY <2>2, <1>3, <1>5 DEF TypeOK, NoneOverdue, ClockAhead
    <2>. QED
        BY <2>1, <2>2
<1>8. NoneOverdue'
    BY <1>7 DEF NoneOverdue
<1>9. ClockAhead'
    BY <1>3, <1>7 DEF ClockAhead
<1>. QED
    BY <1>4, <1>6, <1>8, <1>9

\* Refreshing a deadline with a clock reading up to MaxLag seconds old keeps it:
\* MaxLag < Timeout, so the new deadline is still ahead of the cursor.
LEMMA TouchApplyInv ==
    ASSUME NEW t \in touches, WheelInv, TouchApply(t)
    PROVE  WheelInv'
<1>. USE DEF WheelInv
<1>1. CASE t.fd \notin tracked
    <2>1. touches' \subseteq touches /\ UNCHANGED <<now, wheelVars, walk, walk_now>>
        BY <1>1 DEF TouchApply, wheelVars
    <2>. QED
        BY <2>1 DEF wheelVars, TypeOK, SlotsMatch, NoneOverdue, ClockAhead
<1>2. CASE t.fd \in tracked
    <2>. DEFINE fd == t.fd
                d == DeadlineAfter(t.now)
                k == SlotOf(deadline_tick(d))
    <2>1. fd \in Fds /\ t.now \in Time
        BY DEF TypeOK
    <2>2. /\ d \in Time
          /\ deadline_tick(d) \in Nat
          /\ t.now.sec + Timeout <= deadline_tick(d)
          /\ deadline_tick(d) <= t.now.sec + SlotCount
        BY <2>1, DeadlineType, TickType
    <2>3. k \in 0 .. SlotCount - 1
        BY <2>2, SlotInRange
    <2>. HIDE DEF d
    <2>4. /\ deadline' = [deadline EXCEPT ![fd] = d]
          /\ slots' = [[s \in DOMAIN slots |-> slots[s] \ {fd}]
                            EXCEPT ![k] = @ \cup {fd}]
          /\ touches' \subseteq touches
          /\ UNCHANGED <<now, current_second, tracked, walk, walk_now>>
        BY <1>2 DEF TouchApply, link_slot, unlink_slot, d
    <2>. HIDE DEF fd, k
    <2>5. TypeOK'
        BY <2>1, <2>2, <2>3, <2>4 DEF TypeOK
    <2>6. \A g \in Fds : deadline'[g] = IF g = fd THEN d ELSE deadline[g]
        BY <2>4 DEF TypeOK
    <2>7. SlotsMatch'
        <3>. SUFFICES ASSUME NEW s \in 0 .. SlotCount - 1, NEW g \in Fds
                      PROVE  g \in slots'[s] <=>
                                /\ g \in tracked'
                                /\ s = SlotOf(deadline_tick(deadline'[g]))
            BY DEF SlotsMatch
        <3>1. g \in slots'[s] <=> IF g = fd THEN s = k ELSE g \in slots[s]
            BY <2>3, <2>4 DEF TypeOK
        <3>2. g \in slots[s] <=>
                 g \in tracked /\ s = SlotOf(deadline_tick(deadline[g]))
            BY DEF SlotsMatch
        <3>. QED
            BY <1>2, <2>4, <2>6, <3>1, <3>2 DEF k, fd
    <2>8. ASSUME NEW g \in tracked'
          PROVE  /\ deadline_tick(deadline'[g]) > current_second'
                 /\ deadline_tick(deadline'[g]) <= now'.sec + SlotCount
        <3>1. CASE g = fd
            <4>1. /\ now.sec \in Nat /\ current_second \in Nat /\ t.now.sec \in Nat
                  /\ current_second <= now.sec
                  /\ now.sec <= t.now.sec + MaxLag
                  /\ t.now.sec <= now.sec
                BY <2>1, SMTT(30) DEF TypeOK, Time, ClockAhead, AtOrBefore
            <4>2. deadline'[g] = d
                BY <2>1, <3>1, <2>6
            <4>. QED
                BY <2>2, <2>4, <4>1, <4>2, TimeoutAssumption, LagAssumption
                DEF SlotCount
        <3>2. CASE g # fd
            BY <3>2, <2>4, <2>6 DEF TypeOK, NoneOverdue, ClockAhead
        <3>. QED
            BY <3>1, <3>2
    <2>9. NoneOverdue'
        BY <2>8 DEF NoneOverdue
    <2>10. ClockAhead'
        BY <2>4, <2>8 DEF ClockAhead
    <2>. QED
        BY <2>5, <2>7, <2>9, <2>10
<1>. QED
    BY <1>1, <1>2

\* Dropping a set of nodes from the table and from every slot keeps the two indexes
\* together; remove drops one node, a walk the expired nodes of a slot.
LEMMA DropNodes ==
    ASSUME WheelInv, NEW gone \in SUBSET Fds,
           tracked' = tracked \ gone,
           deadline' = [fd \in Fds |-> IF fd \in gone THEN Zero ELSE deadline[fd]],
           slots' = [s \in DOMAIN slots |-> slots[s] \ gone]
    PROVE  /\ SlotsMatch'
           /\ tracked' \subseteq Fds
           /\ deadline' \in [Fds -> Time]
           /\ slots' \in [0 .. SlotCount - 1 -> SUBSET Fds]
           /\ \A fd \in tracked' : fd \in tracked /\ deadline'[fd] = deadline[fd]
<1>. USE DEF WheelInv
<1>1. Zero \in Time
    BY NanosAssumption DEF Zero, Time
<1>2. SlotsMatch'
    BY DEF SlotsMatch, TypeOK
<1>. QED
    BY <1>1, <1>2 DEF TypeOK

\* timer_wheel_remove keeps it.
LEMMA RemoveInv ==
    ASSUME NEW fd \in Fds, WheelInv, Remove(fd)
    PROVE  WheelInv'
<1>1. /\ tracked' = tracked \ {fd}
      /\ deadline' = [g \in Fds |-> IF g \in {fd} THEN Zero ELSE deadline[g]]
      /\ slots' = [s \in DOMAIN slots |-> slots[s] \ {fd}]
      /\ UNCHANGED <<now, current_second, walk, walk_now, touches>>
    BY DEF Remove, unlink_slot, WheelInv, TypeOK
<1>2. /\ SlotsMatch'
      /\ tracked' \subseteq Fds
      /\ deadline' \in [Fds -> Time]
      /\ slots' \in [0 .. SlotCount - 1 -> SUBSET Fds]
      /\ \A g \in tracked' : g \in tracked /\ deadline'[g] = deadline[g]
    BY <1>1, DropNodes, {fd} \in SUBSET Fds
<1>3. TypeOK'
    BY <1>1, <1>2 DEF WheelInv, TypeOK
<1>4. NoneOverdue' /\ ClockAhead'
    BY <1>1, <1>2 DEF WheelInv, NoneOverdue, ClockAhead
<1>. QED
    BY <1>2, <1>3, <1>4 DEF WheelInv

\* One slot of a walk keeps it: a node due at the new cursor was in the walked slot
\* (SlotsMatch) and its deadline is not after the walk's reading (ReachedTick), so it
\* is gone.
LEMMA AdvanceSlotInv == WheelInv /\ AdvanceSlot => WheelInv'
<1>. SUFFICES ASSUME WheelInv, AdvanceSlot PROVE WheelInv'
    OBVIOUS
<1>. DEFINE c == current_second + 1
            gone == Expired(SlotOf(c))
<1>1. /\ current_second' = c
      /\ tracked' = tracked \ gone
      /\ deadline' = [fd \in Fds |-> IF fd \in gone THEN Zero ELSE deadline[fd]]
      /\ slots' = [s \in DOMAIN slots |-> slots[s] \ gone]
      /\ UNCHANGED <<now, walk, walk_now, touches>>
    BY DEF AdvanceSlot
<1>2. /\ current_second \in Nat
      /\ walk_now \in Time /\ now \in Time
      /\ walk_now.sec \in Nat /\ now.sec \in Nat
      /\ c <= walk_now.sec /\ walk_now.sec <= now.sec
    BY DEF AdvanceSlot, WheelInv, TypeOK, ClockAhead, AtOrBefore, Time
<1>3. SlotOf(c) \in 0 .. SlotCount - 1
    BY <1>2, SlotInRange
<1>4. gone \in SUBSET Fds
    BY <1>3 DEF Expired, WheelInv, TypeOK
<1>5. ASSUME NEW fd \in tracked'
      PROVE  deadline_tick(deadline[fd]) > c
    <2>1. fd \in tracked /\ fd \in Fds /\ fd \notin gone
        BY <1>1, <1>5 DEF WheelInv, TypeOK
    <2>2. /\ deadline[fd] \in Time
          /\ deadline_tick(deadline[fd]) \in Nat
          /\ deadline_tick(deadline[fd]) > current_second
        BY <2>1, TickType DEF WheelInv, TypeOK, NoneOverdue
    <2>3. CASE deadline_tick(deadline[fd]) = c
        <3>1. fd \in slots[SlotOf(c)]
            BY <1>3, <2>1, <2>3 DEF WheelInv, SlotsMatch
        <3>2. AtOrBefore(deadline[fd], walk_now)
            BY <1>2, <2>2, <2>3, ReachedTick
        <3>. QED
            BY <2>1, <3>1, <3>2 DEF Expired
    <2>. QED
        BY <1>2, <2>2, <2>3
<1>. HIDE DEF gone
<1>6. /\ SlotsMatch'
      /\ tracked' \subseteq Fds
      /\ deadline' \in [Fds -> Time]
      /\ slots' \in [0 .. SlotCount - 1 -> SUBSET Fds]
      /\ \A fd \in tracked' : fd \in tracked /\ deadline'[fd] = deadline[fd]
    BY <1>1, <1>4, DropNodes
<1>7. TypeOK'
    BY <1>1, <1>2, <1>6 DEF WheelInv, TypeOK
<1>8. NoneOverdue'
    BY <1>1, <1>5, <1>6 DEF NoneOverdue
<1>9. ClockAhead'
    BY <1>1, <1>2, <1>6 DEF WheelInv, ClockAhead
<1>. QED
    BY <1>6, <1>7, <1>8, <1>9 DEF WheelInv

\* The steps that only read the clock or move the advance along keep it.
LEMMA ReadingInv ==
    ASSUME WheelInv,
           \/ \E fd \in Fds : TouchRead(fd)
           \/ AdvanceRead \/ AdvanceLock \/ AdvanceUnlock
    PROVE  WheelInv'
<1>. USE DEF WheelInv
<1>0. now \in Time /\ Zero \in Time /\ now.sec \in Nat /\ AtOrBefore(now, now)
      /\ AtOrBefore(Zero, now)
    BY NanosAssumption DEF TypeOK, Time, Zero, AtOrBefore
<1>1. ASSUME NEW fd \in Fds, TouchRead(fd)
      PROVE  WheelInv'
    <2>1. /\ touches' = {[fd |-> fd, now |-> now]}
          /\ UNCHANGED <<now, wheelVars, walk, walk_now>>
        BY <1>1 DEF TouchRead
    <2>2. now.sec <= now.sec + MaxLag
        BY <1>0, LagAssumption
    <2>3. ClockAhead'
        BY <1>0, <2>1, <2>2 DEF ClockAhead, wheelVars
    <2>. QED
        BY <1>0, <2>1, <2>3 DEF TypeOK, wheelVars, SlotsMatch, NoneOverdue
<1>2. CASE AdvanceRead
    BY <1>0, <1>2 DEF AdvanceRead, wheelVars, TypeOK, SlotsMatch, NoneOverdue, ClockAhead
<1>3. CASE AdvanceLock
    BY <1>3 DEF AdvanceLock, wheelVars, TypeOK, SlotsMatch, NoneOverdue, ClockAhead
<1>4. CASE AdvanceUnlock
    BY <1>0, <1>4 DEF AdvanceUnlock, wheelVars, TypeOK, SlotsMatch, NoneOverdue, ClockAhead
<1>. QED
    BY <1>1, <1>2, <1>3, <1>4

\* Every step keeps the invariant.
LEMMA NextInv == WheelInv /\ [Next]_vars => WheelInv'
<1>. SUFFICES ASSUME WheelInv, [Next]_vars PROVE WheelInv'
    OBVIOUS
<1>1. CASE UNCHANGED vars
    BY <1>1 DEF vars, wheelVars, WheelInv, TypeOK, SlotsMatch, NoneOverdue, ClockAhead
<1>2. CASE Next
    BY <1>2, ClockTickInv, TrackInv, TouchApplyInv, RemoveInv, AdvanceSlotInv,
       ReadingInv DEF Next
<1>. QED
    BY <1>1, <1>2

-----------------------------------------------------------------------------

\* The inductive invariant holds in every reachable state of the wheel.
THEOREM WheelInvariant == Spec => []WheelInv
BY InitInv, NextInv, PTL DEF Spec

\* The wheel's variables keep their types.
THEOREM TypeCorrect == Spec => []TypeOK
<1>1. WheelInv => TypeOK
    BY DEF WheelInv
<1>. QED
    BY <1>1, WheelInvariant, PTL

\* The hash table and the slot lists of timer_wheel.c always hold the same nodes.
THEOREM SlotsAlwaysMatch == Spec => []SlotsMatch
<1>1. WheelInv => SlotsMatch
    BY DEF WheelInv
<1>. QED
    BY <1>1, WheelInvariant, PTL

\* No advance leaves behind a connection whose deadline tick it has passed.
THEOREM NeverOverdue == Spec => []NoneOverdue
<1>1. WheelInv => NoneOverdue
    BY DEF WheelInv
<1>. QED
    BY <1>1, WheelInvariant, PTL

\* timeout_seconds + 1 slots are enough for one pass to meet every node at its tick.
THEOREM SlotsSuffice == Spec => []OnePass
<1>1. WheelInv => OnePass
    BY DEF WheelInv, ClockAhead, OnePass
<1>. QED
    BY <1>1, WheelInvariant, PTL

\* An advance never drops a connection before its deadline, however stale the clock
\* reading it works with.
THEOREM ExpiryNeverEarly == Spec => NeverEarly
<1>1. WheelInv /\ [Next]_vars =>
        [walk = "walking" =>
            \A fd \in tracked \ tracked' : AtOrBefore(deadline[fd], now)]_vars
    <2>. SUFFICES ASSUME WheelInv, Next, walk = "walking",
                         NEW fd \in tracked \ tracked'
                  PROVE  AtOrBefore(deadline[fd], now)
        OBVIOUS
    <2>1. AdvanceSlot
        BY DEF Next, ClockTick, Track, TouchRead, TouchApply, Remove, Unlocked,
               AdvanceRead, AdvanceLock, AdvanceUnlock, wheelVars
    <2>2. fd \in Expired(SlotOf(current_second + 1))
        BY <2>1 DEF AdvanceSlot
    <2>3. deadline[fd] \in Time /\ walk_now \in Time /\ now \in Time
          /\ AtOrBefore(walk_now, now)
        BY DEF WheelInv, TypeOK, ClockAhead
    <2>. QED
        BY <2>2, <2>3, AtOrBeforeTrans DEF Expired
<1>. QED
    BY <1>1, WheelInvariant, PTL DEF Spec, NeverEarly

=============================================================================
