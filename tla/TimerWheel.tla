----------------------------- MODULE TimerWheel -----------------------------
(***************************************************************************)
(* The idle-connection timing wheel of src/server/timer_wheel.c.           *)
(*                                                                         *)
(* A node holds an absolute deadline and is linked in the slot of its      *)
(* deadline tick (the deadline rounded up to a second) modulo the number   *)
(* of slots.  One mutex guards the wheel.  timer_wheel_advance reads the   *)
(* clock BEFORE it takes the mutex and then walks one slot per elapsed     *)
(* second with the mutex held; timer_wheel_touch also reads the clock      *)
(* before the mutex; the track operations read it with the mutex held.     *)
(*                                                                         *)
(* Abstractions: the two linked lists through a node (hash bucket, slot)   *)
(* are a set of fds each, since no operation depends on the order in a     *)
(* list; a tv_nsec is one of 0 .. NanosPerSecond-1; a failed calloc, clock *)
(* read or publish leaves the wheel as it was and is a stuttering step.    *)
(***************************************************************************)
EXTENDS Integers

CONSTANTS
    Fds,              \* the file descriptors that can be tracked
    Timeout,          \* timeout_seconds
    NanosPerSecond,   \* the values of tv_nsec the model tells apart
    MaxSecond,        \* bound: the clock stops in this second
    MaxLag            \* bound: seconds a touching thread waits for the mutex

ASSUME TimeoutAssumption == Timeout \in Nat \ {0}
ASSUME NanosAssumption   == NanosPerSecond \in Nat \ {0}
ASSUME LagAssumption     == MaxLag \in Nat /\ MaxLag < Timeout
ASSUME SecondAssumption  == MaxSecond \in Nat

VARIABLES
    now,              \* CLOCK_MONOTONIC
    current_second,   \* wheel->current_second
    tracked,          \* the fds with a node (the hash table)
    deadline,         \* node->deadline; the zero time for an fd with no node
    slots,            \* wheel->slots: the fds linked in each slot
    walk,             \* where timer_wheel_advance is
    walk_now,         \* the clock reading timer_wheel_advance works with
    touches           \* clock readings of timer_wheel_touch calls not yet applied

wheelVars == <<current_second, tracked, deadline, slots>>
vars == <<now, wheelVars, walk, walk_now, touches>>

Time == [sec : Nat, nsec : 0 .. NanosPerSecond - 1]
Zero == [sec |-> 0, nsec |-> 0]

-----------------------------------------------------------------------------
(* Times and slots.                                                        *)

\* timespec_compare(s, t) <= 0
AtOrBefore(s, t) ==
    \/ s.sec < t.sec
    \/ s.sec = t.sec /\ s.nsec <= t.nsec

deadline_tick_Mutant(d) == d.sec

deadline_tick(d) == d.sec + (IF d.nsec # 0 THEN 1 ELSE 0)

SlotCount_Mutant == Timeout

SlotCount == Timeout + 1
SlotOf(tick) == tick % SlotCount

DeadlineAfter(t) == [t EXCEPT !.sec = @ + Timeout]

link_slot(table, fd, d) ==
    [table EXCEPT ![SlotOf(deadline_tick(d))] = @ \cup {fd}]

unlink_slot_Mutant(table, fd) == table

unlink_slot(table, fd) ==
    [s \in DOMAIN table |-> table[s] \ {fd}]

-----------------------------------------------------------------------------
(* The operations.  The mutex is free unless an advance is walking.        *)

Unlocked == walk # "walking"

Init ==
    /\ now \in [sec : {0}, nsec : 0 .. NanosPerSecond - 1]
    /\ current_second = now.sec
    /\ tracked = {}
    /\ deadline = [fd \in Fds |-> Zero]
    /\ slots = [s \in 0 .. SlotCount - 1 |-> {}]
    /\ walk = "idle"
    /\ walk_now = Zero
    /\ touches = {}

\* Time passes; a pending touch call gets the mutex within MaxLag seconds.
ClockTick ==
    /\ now' = IF now.nsec + 1 < NanosPerSecond
              THEN [now EXCEPT !.nsec = @ + 1]
              ELSE [sec |-> now.sec + 1, nsec |-> 0]
    /\ now'.sec <= MaxSecond
    /\ \A t \in touches : now'.sec <= t.now.sec + MaxLag
    /\ UNCHANGED <<wheelVars, walk, walk_now, touches>>

\* track_locked, called by track, track_at and track_and_publish.
Track(fd) ==
    /\ Unlocked
    /\ fd \notin tracked
    /\ tracked' = tracked \cup {fd}
    /\ deadline' = [deadline EXCEPT ![fd] = DeadlineAfter(now)]
    /\ slots' = link_slot(slots, fd, DeadlineAfter(now))
    /\ UNCHANGED <<now, current_second, walk, walk_now, touches>>

\* timer_wheel_touch reads the clock (one caller at a time in the model).
TouchRead(fd) ==
    /\ touches = {}
    /\ touches' = {[fd |-> fd, now |-> now]}
    /\ UNCHANGED <<now, wheelVars, walk, walk_now>>

\* timer_wheel_touch_at: a node that is there is linked again.
TouchApply(t) ==
    /\ Unlocked
    /\ touches' = touches \ {t}
    /\ IF t.fd \in tracked
       THEN /\ deadline' = [deadline EXCEPT ![t.fd] = DeadlineAfter(t.now)]
            /\ slots' = link_slot(unlink_slot(slots, t.fd), t.fd,
                                  DeadlineAfter(t.now))
       ELSE UNCHANGED <<deadline, slots>>
    /\ UNCHANGED <<now, current_second, tracked, walk, walk_now>>

Remove(fd) ==
    /\ Unlocked
    /\ fd \in tracked
    /\ tracked' = tracked \ {fd}
    /\ deadline' = [deadline EXCEPT ![fd] = Zero]
    /\ slots' = unlink_slot(slots, fd)
    /\ UNCHANGED <<now, current_second, walk, walk_now, touches>>

\* timer_wheel_advance: the clock is read, then the mutex is taken.
AdvanceRead ==
    /\ walk = "idle"
    /\ walk' = "waiting"
    /\ walk_now' = now
    /\ UNCHANGED <<now, wheelVars, touches>>

AdvanceLock ==
    /\ walk = "waiting"
    /\ walk' = "walking"
    /\ UNCHANGED <<now, wheelVars, walk_now, touches>>

Expired_Mutant(slot) == slots[slot]

\* The nodes of a slot whose deadline has come.
Expired(slot) == {fd \in slots[slot] : AtOrBefore(deadline[fd], walk_now)}

\* One turn of the loop of timer_wheel_advance_at: the cursor moves to the next
\* second and the expired nodes of its slot are freed; the others are unlinked and
\* linked again, in the slot they were in.
AdvanceSlot ==
    /\ walk = "walking"
    /\ current_second < walk_now.sec
    /\ current_second' = current_second + 1
    /\ LET gone == Expired(SlotOf(current_second + 1))
       IN  /\ tracked' = tracked \ gone
           /\ deadline' = [fd \in Fds |-> IF fd \in gone THEN Zero ELSE deadline[fd]]
           /\ slots' = [s \in DOMAIN slots |-> slots[s] \ gone]
    /\ UNCHANGED <<now, walk, walk_now, touches>>

AdvanceUnlock ==
    /\ walk = "walking"
    /\ current_second >= walk_now.sec
    /\ walk' = "idle"
    /\ walk_now' = Zero
    /\ UNCHANGED <<now, wheelVars, touches>>

Next ==
    \/ ClockTick
    \/ \E fd \in Fds : Track(fd) \/ TouchRead(fd) \/ Remove(fd)
    \/ \E t \in touches : TouchApply(t)
    \/ AdvanceRead \/ AdvanceLock \/ AdvanceSlot \/ AdvanceUnlock

Spec == Init /\ [][Next]_vars

-----------------------------------------------------------------------------
(* Properties.                                                             *)

\* The variables have their types.
TypeOK ==
    /\ now \in Time
    /\ current_second \in Nat
    /\ tracked \subseteq Fds
    /\ deadline \in [Fds -> Time]
    /\ slots \in [0 .. SlotCount - 1 -> SUBSET Fds]
    /\ walk \in {"idle", "waiting", "walking"}
    /\ walk_now \in Time
    /\ touches \subseteq [fd : Fds, now : Time]

\* The slot lists hold exactly the fds of the hash table, each in the slot of its
\* own deadline tick (link_slot and unlink_slot keep the two indexes together).
SlotsMatch ==
    \A s \in 0 .. SlotCount - 1 : \A fd \in Fds :
        fd \in slots[s] <=> fd \in tracked /\ s = SlotOf(deadline_tick(deadline[fd]))

\* A node's deadline tick is always ahead of the cursor: no walk leaves behind a
\* connection whose time has come, which the cursor would meet again only a whole
\* revolution later.
NoneOverdue ==
    \A fd \in tracked : deadline_tick(deadline[fd]) > current_second

\* A wheel that is up to date meets every node exactly at its tick: no deadline is
\* further ahead than one revolution, rounding up included.
OnePass ==
    current_second = now.sec =>
        \A fd \in tracked :
            deadline_tick(deadline[fd]) <= current_second + SlotCount

\* No step of an advance drops a connection before its deadline: whatever slot the
\* walk met it in, and however late the walk, the clock has reached the deadline.
NeverEarly ==
    [][walk = "walking" =>
          \A fd \in tracked \ tracked' : AtOrBefore(deadline[fd], now)]_vars

=============================================================================
