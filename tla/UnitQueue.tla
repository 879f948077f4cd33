----------------------------- MODULE UnitQueue -----------------------------
(***************************************************************************)
(* CUnitQueue (src/core/queue.cpp): the pool of packet buffers the receive *)
(* worker fills and recv() gives back.  The pool is a ring of arrays of    *)
(* UnitsPerQueue units; it grows and never shrinks.  m_iFlag and m_iCount  *)
(* are changed by both threads without a lock, so ++ and -- of m_iCount    *)
(* are a read and a write here.                                            *)
(***************************************************************************)
EXTENDS Integers, Sequences, FiniteSets

CONSTANTS UnitsPerQueue,      \* 32 (updateMux)
          GrowNum, GrowDen,   \* the pool grows when 9/10 of it is in use
          MaxInUse,           \* the slots of the receive buffer(s) fed by the pool
          MaxDrift            \* bound: how far lost updates take m_iCount from the truth

\* The last unit of an array is never handed out, so that an array counts as full
\* enough to grow before its last usable unit is taken.
ASSUME UnitAssumption == /\ UnitsPerQueue \in Nat \ {0, 1}
                         /\ GrowNum \in Nat /\ GrowDen \in Nat \ {0}
                         /\ MaxInUse \in Nat /\ MaxDrift \in Nat
                         /\ (UnitsPerQueue - 1) * GrowDen >= UnitsPerQueue * GrowNum

VARIABLES flags,      \* m_iFlag of unit 1 .. m_iSize, array after array
          avail,      \* m_pAvailUnit; m_pCurrQueue is the array it is in
          count,      \* m_iCount
          getPc, real,    \* the worker: where it is, real_count in increase()
          hand,       \* the unit the worker holds, 0 for none
          addTmp,     \* the worker: m_iCount as read by ++
          stored,     \* the units in the receive buffer, readable
          readPc, readUnit, readTmp,   \* recv(): where it is, its unit, m_iCount as read by --
          refusals    \* history: NULLs returned in a row

unitVars == <<flags, avail, count, getPc, real, hand, addTmp, stored,
              readPc, readUnit, readTmp, refusals>>

UnitInit ==
  /\ flags = [i \in 1 .. UnitsPerQueue |-> 0] /\ avail = 1 /\ count = 0
  /\ getPc = "get" /\ real = 0 /\ hand = 0 /\ addTmp = 0
  /\ stored = {} /\ readPc = "idle" /\ readUnit = 0 /\ readTmp = 0
  /\ refusals = 0

InUse(f) == Cardinality({i \in DOMAIN f : f[i] # 0})

(***************************************************************************)
(* increase(), in two steps: it counts the flags, then corrects m_iCount   *)
(* and grows if the pool is that full.                                     *)
(***************************************************************************)
IncreaseScan(next) == /\ real' = InUse(flags)
                      /\ getPc' = next
                      /\ UNCHANGED <<flags, avail, count, hand, addTmp, stored,
                                     readPc, readUnit, readTmp, refusals>>

\* Mutant of Increase: m_iCount is left as it is.
MutIncrease == /\ UNCHANGED count
               /\ flags' = IF real * GrowDen < Len(flags) * GrowNum
                           THEN flags ELSE flags \o [i \in 1 .. UnitsPerQueue |-> 0]

Increase == /\ count' = real
            /\ flags' = IF real * GrowDen < Len(flags) * GrowNum
                        THEN flags ELSE flags \o [i \in 1 .. UnitsPerQueue |-> 0]

(***************************************************************************)
(* getNextAvailUnit().                                                     *)
(***************************************************************************)
QueueOf(i) == (i - 1) \div UnitsPerQueue
Queues == Len(flags) \div UnitsPerQueue
FirstOf(q) == q * UnitsPerQueue + 1

\* The array the search looks at after k others, around the ring from m_pCurrQueue,
\* and where in it the search begins.
NthQueue(k) == (QueueOf(avail) + k) % Queues
From(k) == IF k = 0 THEN avail ELSE FirstOf(NthQueue(k))

\* The free units of that array: from there to the one before the last, else its head.
Ahead(k) == {u \in From(k) .. FirstOf(NthQueue(k)) + UnitsPerQueue - 2 : flags[u] = 0}
FreeIn(k) == IF Ahead(k) # {} THEN Ahead(k) ELSE {u \in {FirstOf(NthQueue(k))} : flags[u] = 0}

Searched == {k \in 0 .. Queues - 1 : FreeIn(k) # {}}
First(S) == CHOOSE i \in S : \A j \in S : i <= j

GetBegin ==
  /\ getPc = "get"
  /\ IF count * GrowDen > Len(flags) * GrowNum
     THEN IncreaseScan("grow")
     ELSE /\ getPc' = "scan"
          /\ UNCHANGED <<flags, avail, count, real, hand, addTmp, stored,
                         readPc, readUnit, readTmp, refusals>>

GetGrow ==
  /\ getPc = "grow"
  /\ Increase
  /\ getPc' = "scan" /\ real' = 0
  /\ UNCHANGED <<avail, hand, addTmp, stored, readPc, readUnit, readTmp, refusals>>

\* Refused at once, found, or not found: then the pool is counted again, and the
\* next search begins at the head of the array.
GetScan ==
  /\ getPc = "scan"
  /\ IF count >= Len(flags)
     THEN /\ getPc' = "get" /\ refusals' = refusals + 1
          /\ UNCHANGED <<avail, real, hand>>
     ELSE IF Searched # {}
     THEN LET unit == First(FreeIn(First(Searched)))
          IN /\ avail' = unit /\ hand' = unit
             /\ getPc' = "recv" /\ refusals' = 0
             /\ UNCHANGED real
     ELSE /\ avail' = FirstOf(QueueOf(avail))
          /\ real' = InUse(flags)
          /\ getPc' = "missed" /\ refusals' = refusals + 1
          /\ UNCHANGED hand
  /\ UNCHANGED <<flags, count, addTmp, stored, readPc, readUnit, readTmp>>

GetMissed ==
  /\ getPc = "missed"
  /\ Increase
  /\ getPc' = "get" /\ real' = 0
  /\ UNCHANGED <<avail, hand, addTmp, stored, readPc, readUnit, readTmp, refusals>>

\* The packet in the unit is not data for the buffer, or it is: addData sets the
\* flag and counts.  Only then can recv() see the unit.
Discard == /\ getPc = "recv"
           /\ hand' = 0 /\ getPc' = "get"
           /\ UNCHANGED <<flags, avail, count, real, addTmp, stored,
                          readPc, readUnit, readTmp, refusals>>

Store == /\ getPc = "recv"
         /\ Cardinality(stored) < MaxInUse /\ count <= MaxInUse + MaxDrift
         /\ flags' = [flags EXCEPT ![hand] = 1]
         /\ addTmp' = count
         /\ getPc' = "add"
         /\ UNCHANGED <<avail, count, real, hand, stored, readPc, readUnit, readTmp, refusals>>

StoreCount == /\ getPc = "add"
              /\ count' = addTmp + 1
              /\ stored' = stored \cup {hand}
              /\ hand' = 0 /\ getPc' = "get" /\ addTmp' = 0
              /\ UNCHANGED <<flags, avail, real, readPc, readUnit, readTmp, refusals>>

(***************************************************************************)
(* readBuffer(): copies a unit, empties the slot, clears the flag, counts. *)
(***************************************************************************)
ReadStart(u) == /\ readPc = "idle" /\ u \in stored
                /\ count >= -MaxDrift
                /\ readUnit' = u /\ readPc' = "copy"
                /\ UNCHANGED <<flags, avail, count, getPc, real, hand, addTmp, stored,
                               readTmp, refusals>>

ReadRelease == /\ readPc = "copy"
               /\ flags' = [flags EXCEPT ![readUnit] = 0]
               /\ stored' = stored \ {readUnit}
               /\ readTmp' = count
               /\ readPc' = "count" /\ readUnit' = 0
               /\ UNCHANGED <<avail, count, getPc, real, hand, addTmp, refusals>>

ReadCount == /\ readPc = "count"
             /\ count' = readTmp - 1
             /\ readPc' = "idle" /\ readTmp' = 0
             /\ UNCHANGED <<flags, avail, getPc, real, hand, addTmp, stored,
                            readUnit, refusals>>

UnitNext == \/ GetBegin \/ GetGrow \/ GetScan \/ GetMissed
            \/ Discard \/ Store \/ StoreCount
            \/ \E u \in DOMAIN flags : ReadStart(u)
            \/ ReadRelease \/ ReadCount

UnitSpec == UnitInit /\ [][UnitNext]_unitVars

(***************************************************************************)
(* Properties.                                                             *)
(***************************************************************************)
\* The unit the worker writes the next datagram into holds no packet that recv() has
\* still to read or is copying, although the flags are not under a lock.  And although
\* updates of m_iCount get lost, the pool never refuses two packets in a row:
\* increase() repairs the count or adds an array.
PoolSound == /\ hand # 0 /\ getPc = "recv" => hand \notin stored \cup {readUnit}
             /\ refusals <= 1
=============================================================================
