----------------------------- MODULE SndUList ------------------------------
(***************************************************************************)
(* CSndUList, CSndQueue::worker and CTimer (src/core/queue.cpp,            *)
(* common.cpp): the sockets with something to send wait in a heap ordered  *)
(* by the time of their next packet, and the worker sleeps until the time  *)
(* at the root or, when the heap is empty, on m_WindowCond.  The heap is   *)
(* changed under m_ListLock; m_ullSchedTime is shared without a lock.      *)
(***************************************************************************)
EXTENDS Integers, Sequences, FiniteSets

CONSTANTS Senders,    \* the sockets of one multiplexer
          Gaps,       \* what packData adds to the time: 0 when there was no packet
          MaxClock    \* bound: the clock

ASSUME SndUListAssumption == /\ IsFiniteSet(Senders) /\ Senders # {}
                             /\ Gaps \subseteq Nat /\ MaxClock \in Nat \ {0}

VARIABLES heap,       \* m_pHeap[0 .. m_iLastEntry]
          stamp,      \* m_llTimeStamp of each socket's node
          heapLoc,    \* m_iHeapLoc, -1 when not in the heap
          alive,      \* the sockets with m_bConnected and not m_bBroken
          clock,      \* rdtsc
          schedTime,  \* CTimer::m_ullSchedTime
          workPc, procTime,   \* the worker: where it is, what getNextProcTime returned
          closing     \* m_bClosing

heapVars == <<heap, stamp, heapLoc>>
scheduleVars == <<heapVars, alive, clock, schedTime, workPc, procTime, closing>>

ScheduleInit ==
  /\ heap = << >> /\ stamp = [u \in Senders |-> 1] /\ heapLoc = [u \in Senders |-> -1]
  /\ alive = Senders /\ clock = 1 /\ schedTime = 0
  /\ workPc = "next" /\ procTime = 0 /\ closing = FALSE

(***************************************************************************)
(* The heap as a record [heap, stamp, loc]; index 0 of the array is 1 here.*)
(***************************************************************************)
H == [heap |-> heap, stamp |-> stamp, loc |-> heapLoc]
Stamp(h, i) == h.stamp[h.heap[i]]
Swap(h, i, j) == [h EXCEPT !.heap[i] = h.heap[j], !.heap[j] = h.heap[i],
                           !.loc[h.heap[i]] = j - 1, !.loc[h.heap[j]] = i - 1]

RECURSIVE SiftUp(_, _), SiftDown(_, _)

\* The loop of insert_: entry q rises past every parent that is later.
SiftUp(h, q) == IF q > 1 /\ Stamp(h, q \div 2) > Stamp(h, q)
                THEN SiftUp(Swap(h, q \div 2, q), q \div 2)
                ELSE h

\* The loop of remove_: entry q sinks below every earlier child.
SiftDown(h, q) ==
  LET p == IF 2 * q + 1 <= Len(h.heap) /\ Stamp(h, 2 * q) > Stamp(h, 2 * q + 1)
           THEN 2 * q + 1 ELSE 2 * q
  IN IF p <= Len(h.heap) /\ Stamp(h, q) > Stamp(h, p)
     THEN SiftDown(Swap(h, q, p), p)
     ELSE h

Inserted(h, t, u) ==
  LET last == Len(h.heap) + 1
  IN IF h.loc[u] >= 0 THEN h
     ELSE SiftUp([heap |-> Append(h.heap, u), stamp |-> [h.stamp EXCEPT ![u] = t],
                  loc |-> [h.loc EXCEPT ![u] = last - 1]], last)

\* Mutant of Removed_: the entry moved into the gap keeps its m_iHeapLoc.
MutRemoved_(h, u) ==
  LET q == h.loc[u] + 1
      last == Len(h.heap)
      moved == [h EXCEPT !.heap = SubSeq([@ EXCEPT ![q] = h.heap[last]], 1, last - 1)]
  IN IF q = 0 THEN h
     ELSE [(IF q < last THEN SiftDown(moved, q) ELSE moved) EXCEPT !.loc[u] = -1]

\* remove_: the last entry takes the place and sinks.  It is never raised.
Removed_(h, u) ==
  LET q == h.loc[u] + 1
      last == Len(h.heap)
      moved == [h EXCEPT !.heap = SubSeq([@ EXCEPT ![q] = h.heap[last]], 1, last - 1),
                         !.loc[h.heap[last]] = q - 1]
  IN IF q = 0 THEN h
     ELSE [(IF q < last THEN SiftDown(moved, q) ELSE moved) EXCEPT !.loc[u] = -1]

Become(h) == heap' = h.heap /\ stamp' = h.stamp /\ heapLoc' = h.loc

\* interrupt() at the end of insert_ and remove_: when u is at the root, and (what
\* the code takes for the last entry being gone) when one entry is left.
InsertInterrupts(h, g, u) == g # h /\ g.loc[u] = 0
RemoveInterrupts(g) == Len(g.heap) = 1

\* pthread_cond_signal(m_pWindowCond) when insert_ fills an empty heap.
Signalled(h, g) == IF h.heap = << >> /\ Len(g.heap) = 1 /\ workPc = "waiting"
                   THEN "next" ELSE workPc

(***************************************************************************)
(* update(): send() with reschedule FALSE (its checks may be outdated by   *)
(* now), the EXP timer with TRUE.                                          *)
(***************************************************************************)
update(u, reschedule) ==
  LET off == IF heapLoc[u] > 0 THEN Removed_(H, u) ELSE H
      on == Inserted(off, 1, u)
  IN /\ ~closing /\ (reschedule => u \in alive)
     /\ heapLoc[u] < 0 \/ reschedule
     /\ IF heapLoc[u] = 0
        THEN /\ stamp' = [stamp EXCEPT ![u] = 1] /\ schedTime' = clock
             /\ UNCHANGED <<heap, heapLoc, workPc>>
        ELSE /\ Become(on)
             /\ workPc' = Signalled(off, on)
             /\ schedTime' = IF \/ heapLoc[u] > 0 /\ RemoveInterrupts(off)
                                \/ InsertInterrupts(off, on, u)
                             THEN clock ELSE schedTime
     /\ UNCHANGED <<alive, clock, procTime, closing>>

\* close() takes the socket off the list, and only later disconnects it: a send() in
\* between puts it back.  A broken socket too stays until it is popped.
remove(u) == /\ u \in alive /\ heapLoc[u] >= 0
             /\ Become(Removed_(H, u))
             /\ schedTime' = IF RemoveInterrupts(Removed_(H, u)) THEN clock ELSE schedTime
             /\ UNCHANGED <<alive, clock, workPc, procTime, closing>>

Break(u) == /\ u \in alive /\ alive' = alive \ {u}
            /\ UNCHANGED <<heapVars, clock, schedTime, workPc, procTime, closing>>

(***************************************************************************)
(* CSndQueue::worker.                                                      *)
(***************************************************************************)
\* getNextProcTime, and whether its time has come.
NextProcTime ==
  LET t == IF heap = << >> THEN 0 ELSE stamp[heap[1]]
  IN /\ workPc = "next" /\ ~closing
     /\ procTime' = t
     /\ workPc' = IF t = 0 THEN "idle" ELSE IF clock < t THEN "early" ELSE "pop"
     /\ UNCHANGED <<heapVars, alive, clock, schedTime, closing>>

\* sleepto: an interrupt that came before is overwritten.
SleepTo == /\ workPc = "early"
           /\ schedTime' = procTime /\ workPc' = "asleep"
           /\ UNCHANGED <<heapVars, alive, clock, procTime, closing>>

SleepEnds == /\ workPc = "asleep" /\ clock >= schedTime
             /\ workPc' = "pop"
             /\ UNCHANGED <<heapVars, alive, clock, schedTime, procTime, closing>>

\* pop: nothing if the root's time has not come (another socket may be there by
\* now), or the root is dead; else its packet, and the root's next time.
Pop ==
  LET u == heap[1]
      off == Removed_(H, u)
  IN /\ workPc = "pop"
     /\ workPc' = "next" /\ procTime' = 0
     /\ IF heap = << >> \/ (heap # << >> /\ clock < stamp[u])
        THEN UNCHANGED <<heapVars, schedTime>>
        ELSE IF u \notin alive
        THEN /\ Become(off)
             /\ schedTime' = IF RemoveInterrupts(off) THEN clock ELSE schedTime
        ELSE \E gap \in Gaps :
               LET on == Inserted(off, clock + gap, u)
               IN /\ Become(on)
                  /\ schedTime' = IF RemoveInterrupts(off) \/ InsertInterrupts(off, on, u)
                                  THEN clock ELSE schedTime
     /\ UNCHANGED <<alive, clock, closing>>

\* Under m_WindowLock: wait only if the heap is still empty.
Idle == /\ workPc = "idle"
        /\ workPc' = IF ~closing /\ heap = << >> THEN "waiting" ELSE "next"
        /\ UNCHANGED <<heapVars, alive, clock, schedTime, procTime, closing>>

\* ~CSndQueue: m_bClosing, a signal, and join.
Close == /\ ~closing /\ alive = {}
         /\ closing' = TRUE
         /\ workPc' = IF workPc = "waiting" THEN "next" ELSE workPc
         /\ UNCHANGED <<heapVars, alive, clock, schedTime, procTime>>

Exit == /\ workPc = "next" /\ closing
        /\ workPc' = "exit"
        /\ UNCHANGED <<heapVars, alive, clock, schedTime, procTime, closing>>

\* The clock advances.
Tick == /\ clock < MaxClock
        /\ clock' = clock + 1
        /\ UNCHANGED <<heapVars, alive, schedTime, workPc, procTime, closing>>

ScheduleNext == \/ \E u \in Senders : \/ \E r \in BOOLEAN : update(u, r)
                                      \/ remove(u) \/ Break(u)
                \/ NextProcTime \/ SleepTo \/ SleepEnds \/ Pop \/ Idle \/ Close \/ Exit \/ Tick

ScheduleSpec == ScheduleInit /\ [][ScheduleNext]_scheduleVars

(***************************************************************************)
(* Properties.                                                             *)
(***************************************************************************)
\* m_iHeapLoc of every node is its place in the heap, or -1 outside: remove_ and
\* update trust it blindly, and a wrong one unlinks another socket.  No socket is in
\* the heap twice.  And no wake-up of m_WindowCond is lost: the worker waits only while
\* no socket is scheduled and nobody closes the queue, else it would wait forever.
ScheduleConsistent ==
  /\ \A u \in Senders : IF heapLoc[u] = -1 THEN \A i \in DOMAIN heap : heap[i] # u
                        ELSE {i \in DOMAIN heap : heap[i] = u} = {heapLoc[u] + 1}
  /\ workPc = "waiting" => heap = << >> /\ ~closing
=============================================================================
