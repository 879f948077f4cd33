------------------------------- MODULE Epoll -------------------------------
(***************************************************************************)
(* CEPoll (src/core/epoll.cpp) with the places that report to it: a        *)
(* listener, whose connections the receive worker queues and accept()      *)
(* takes (api.cpp), and a connected socket (core.cpp).  The poll and the   *)
(* socket keep their halves of a subscription under different calls of     *)
(* m_EPollLock, so adding, removing and reporting interleave.  System      *)
(* sockets, which the operating system's epoll watches, are left out.      *)
(***************************************************************************)
EXTENDS Integers, FiniteSets

CONSTANTS PollIds,      \* m_iIDSeed never gives one of them twice
          EventSets,    \* the events asked for: subsets of {"in", "out"}
          MaxWaiting    \* bound: connections that wait to be accepted

ASSUME EpollAssumption == MaxWaiting \in Nat \ {0}

Listener == "listener"
Stream == "stream"
Watched == {Listener, Stream}

VARIABLES polls,      \* m_mPolls: a partial function of PollIds
          usedIds,    \* the ids create() has given
          pollId,     \* m_sPollID of a socket
          waiting,    \* m_pQueuedSockets of the listener
          reporting,  \* newConnection is between the queue and enable_read
          stream,     \* the connected socket: "new", "connected", "broken", "closed"
          adding,     \* epoll_add_usock between its two halves: <<eid, socket>>
          late        \* history: polls that got the listener when connections waited

epollVars == <<polls, usedIds, pollId, waiting, reporting, stream, adding, late>>

NoPoll == [in |-> {}, out |-> {}, reads |-> {}, writes |-> {}]
Idle_ == << >>

EpollInit == /\ polls = [e \in {} |-> NoPoll]
             /\ usedIds = {}
             /\ pollId = [u \in Watched |-> {}]
             /\ waiting = 0 /\ reporting = FALSE
             /\ stream = "new"
             /\ adding = Idle_
             /\ late = {}

(***************************************************************************)
(* What a socket reports; ids of released polls are forgotten on the way.  *)
(***************************************************************************)
Set(u, field, on) ==
  [e \in DOMAIN polls |->
     IF e \notin pollId[u] THEN polls[e]
     ELSE CASE field = "read" /\ on -> [polls[e] EXCEPT !.reads = @ \cup ({u} \cap polls[e].in)]
            [] field = "write" /\ on -> [polls[e] EXCEPT !.writes = @ \cup ({u} \cap polls[e].out)]
            [] field = "read" /\ ~on -> [polls[e] EXCEPT !.reads = @ \ {u}]
            [] field = "write" /\ ~on -> [polls[e] EXCEPT !.writes = @ \ {u}]
            [] field = "both" -> [polls[e] EXCEPT !.reads = @ \cup ({u} \cap polls[e].in),
                                                  !.writes = @ \cup ({u} \cap polls[e].out)]]

Report(u, field, on) == /\ polls' = Set(u, field, on)
                        /\ pollId' = [pollId EXCEPT ![u] = @ \cap DOMAIN polls]

(***************************************************************************)
(* The calls of the application.                                           *)
(***************************************************************************)
EpollCreate == \E e \in PollIds \ usedIds :
                 /\ polls' = [f \in DOMAIN polls \cup {e} |-> IF f = e THEN NoPoll ELSE polls[f]]
                 /\ usedIds' = usedIds \cup {e}
                 /\ UNCHANGED <<pollId, waiting, reporting, stream, adding, late>>

AddedLate(e, u) == IF u = Listener /\ waiting > 0 THEN late \cup {e} ELSE late

\* epoll_add_usock, first half: add_usock.
AddUsock(e, u, events) ==
  /\ adding = Idle_ /\ e \in DOMAIN polls
  /\ u = Stream => stream # "closed"
  /\ polls' = [polls EXCEPT ![e].in = @ \cup (IF "in" \in events THEN {u} ELSE {}),
                            ![e].out = @ \cup (IF "out" \in events THEN {u} ELSE {})]
  /\ adding' = <<e, u>>
  /\ late' = AddedLate(e, u)
  /\ UNCHANGED <<usedIds, pollId, waiting, reporting, stream>>

\* Second half: addEPoll.  A socket that is not connected, a listener too, reports
\* nothing; a connected one what it has (some: data to read, room: space to write).
AddEPoll(some, room) ==
  /\ adding # Idle_
  /\ LET e == adding[1]
         u == adding[2]
         known == [pollId EXCEPT ![u] = @ \cup {e}]
         ready(f) == [polls[f] EXCEPT !.reads = @ \cup (IF some THEN {u} \cap polls[f].in ELSE {}),
                                      !.writes = @ \cup (IF room THEN {u} \cap polls[f].out ELSE {})]
     IN /\ polls' = IF u = Stream /\ stream = "connected"
                    THEN [f \in DOMAIN polls |-> IF f \in known[u] THEN ready(f) ELSE polls[f]]
                    ELSE polls
        /\ pollId' = known
        /\ late' = AddedLate(e, u)
  /\ adding' = Idle_
  /\ UNCHANGED <<usedIds, waiting, reporting, stream>>

\* remove_usock.
Erased(p, u) == [p EXCEPT !.in = @ \ {u}, !.out = @ \ {u}, !.reads = @ \ {u}, !.writes = @ \ {u}]

\* epoll_remove_usock, first half: removeEPoll takes the id off the socket; what it
\* clears is then only the other polls' readiness.
RemoveEPoll(e, u) ==
  /\ e \in pollId[u] /\ e \in DOMAIN polls
  /\ u = Stream => stream # "closed"
  /\ LET rest == pollId[u] \ {e}
     IN /\ pollId' = [pollId EXCEPT ![u] = rest \cap DOMAIN polls]
        /\ polls' = [f \in DOMAIN polls |->
             IF f \in rest THEN [polls[f] EXCEPT !.reads = @ \ {u}, !.writes = @ \ {u}]
             ELSE polls[f]]
        /\ late' = IF u = Listener THEN late \cup rest ELSE late
  /\ UNCHANGED <<usedIds, waiting, reporting, stream, adding>>

\* Second half: remove_usock.
RemoveUsock(e, u) ==
  /\ e \in DOMAIN polls /\ e \notin pollId[u] /\ adding # <<e, u>>
  /\ u \in polls[e].in \cup polls[e].out
  /\ polls' = [polls EXCEPT ![e] = Erased(@, u)]
  /\ UNCHANGED <<usedIds, pollId, waiting, reporting, stream, adding, late>>

EpollRelease(e) ==
  /\ e \in DOMAIN polls
  /\ polls' = [f \in DOMAIN polls \ {e} |-> polls[f]]
  /\ UNCHANGED <<usedIds, pollId, waiting, reporting, stream, adding, late>>

\* A round of wait() returns what is ready; it takes nothing away.
WaitReads(e) == polls[e].reads
WaitWrites(e) == polls[e].writes

(***************************************************************************)
(* The listener.                                                           *)
(***************************************************************************)
\* newConnection: the queue, and then, outside m_AcceptLock, the report; the worker's
\* listen() goes on to report the listener writable.
Queued == /\ ~reporting /\ waiting < MaxWaiting
          /\ waiting' = waiting + 1 /\ reporting' = TRUE
          /\ UNCHANGED <<polls, usedIds, pollId, stream, adding, late>>

Reported == /\ reporting
            /\ reporting' = FALSE
            /\ late' = late \ {e \in DOMAIN polls : e \in pollId[Listener]}
            /\ Report(Listener, "both", TRUE)
            /\ UNCHANGED <<usedIds, waiting, stream, adding>>

\* Mutant of Emptied: accept() always takes the report back.
MutEmptied(left) == TRUE

Emptied(left) == left = 0

\* accept(), with m_AcceptLock held.
EpollAccept ==
  /\ waiting' = IF waiting > 0 THEN waiting - 1 ELSE 0
  /\ IF Emptied(waiting')
     THEN /\ Report(Listener, "read", FALSE) /\ late' = {}
     ELSE UNCHANGED <<polls, pollId, late>>
  /\ UNCHANGED <<usedIds, reporting, stream, adding>>

(***************************************************************************)
(* The connected socket.                                                   *)
(***************************************************************************)
\* connect(response), or the end of its time to live, make it writable.
Connected == /\ stream = "new"
             /\ stream' \in {"new", "connected"}
             /\ Report(Stream, "write", TRUE)
             /\ UNCHANGED <<usedIds, waiting, reporting, adding, late>>

\* send() fills the buffer, recv() empties it.
UsedUp(field) == /\ stream = "connected"
                 /\ Report(Stream, field, FALSE)
                 /\ UNCHANGED <<usedIds, waiting, reporting, stream, adding, late>>

\* EXP: whoever waits on the socket must learn that it is broken.
EpollBroken == /\ stream = "connected" /\ stream' = "broken"
               /\ Report(Stream, "both", TRUE)
               /\ UNCHANGED <<usedIds, waiting, reporting, adding, late>>

\* CUDT::close() removes itself from its polls; the first one released ends the loop.
EpollClose == /\ stream # "closed" /\ stream' = "closed"
              /\ \E gone \in SUBSET pollId[Stream] :
                   /\ pollId[Stream] \subseteq DOMAIN polls => gone = pollId[Stream]
                   /\ polls' = [e \in DOMAIN polls |->
                        IF e \in gone THEN Erased(polls[e], Stream) ELSE polls[e]]
              /\ UNCHANGED <<usedIds, pollId, waiting, reporting, adding, late>>

EpollNext ==
  \/ EpollCreate
  \/ \E e \in PollIds : \/ EpollRelease(e)
                        \/ \E u \in Watched : \/ RemoveEPoll(e, u) \/ RemoveUsock(e, u)
                                              \/ \E events \in EventSets : AddUsock(e, u, events)
  \/ \E some, room \in BOOLEAN : AddEPoll(some, room)
  \/ Queued \/ Reported \/ EpollAccept
  \/ Connected \/ EpollBroken \/ EpollClose \/ \E field \in {"read", "write"} : UsedUp(field)

EpollSpec == EpollInit /\ [][EpollNext]_epollVars

\* Whatever add, remove, accept() and new connections do at the same time: a poll names
\* only sockets it watches, and it names a listener it watches as long as connections
\* wait there, once newConnection got to its report (and unless the listener was added,
\* or removed from another poll, when they waited already).
ReportsExact ==
  \A e \in DOMAIN polls :
    /\ WaitReads(e) \subseteq polls[e].in /\ WaitWrites(e) \subseteq polls[e].out
    /\ (/\ waiting > 0 /\ ~reporting
        /\ e \in pollId[Listener] \ late /\ Listener \in polls[e].in)
       => Listener \in WaitReads(e)
=============================================================================
