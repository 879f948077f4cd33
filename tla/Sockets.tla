------------------------------ MODULE Sockets ------------------------------
(***************************************************************************)
(* The life of sockets and multiplexers: CUDTUnited (src/core/api.cpp),    *)
(* the open, listen, connect and close of CUDT (core.cpp), and the lists   *)
(* in which the receive worker of a multiplexer keeps pointers to sockets  *)
(* (queue.cpp).  What the network does is left open: requests, responses   *)
(* and ends of connections arrive at any time.  Delays (1 s or 3 s before  *)
(* the garbage collector goes on) are long against the handlers, each of   *)
(* which is a step, and end at any time.                                   *)
(***************************************************************************)
EXTENDS Integers, FiniteSets

CONSTANTS MaxSocket,   \* bound: sockets ever made; ids are 1 .. MaxSocket
          MaxApp,      \* bound: the ids the application takes for its own sockets
          Ports,       \* local ports an application binds
          Peers,       \* remote connectors, by peer id and ISN
          BackLog,     \* m_uiBackLog
          MaxUses      \* bound: calls of connect() and listen() per socket

ASSUME SocketsAssumption == /\ MaxSocket \in Nat \ {0} /\ MaxApp \in 1 .. MaxSocket /\ BackLog \in Nat \ {0}
                            /\ MaxUses \in Nat

VARIABLES sock,      \* CUDTSocket with its CUDT, by id: see NoSocket
          place,     \* "none", "open" (m_Sockets), "closed" (m_ClosedSockets) or "freed"
          mux,       \* the multiplexers: a partial function of ids
          peerRec,   \* m_PeerRec
          ending     \* CUDTUnited::m_bClosing

socketVars == <<sock, place, mux, peerRec, ending>>

Ids == 1 .. MaxSocket
Nobody == 0

\* A socket as newSocket() leaves it.
NoSocket == [status |-> "INIT",
             opened |-> FALSE, listening |-> FALSE, connecting |-> FALSE, connected |-> FALSE,
             broken |-> FALSE, closing |-> FALSE,
             lingering |-> FALSE,    \* m_ullLingerExpiration > 0
             onList |-> FALSE,       \* m_pRNode->m_bOnList
             old |-> FALSE,          \* the delay since m_TimeStamp is over
             mux |-> Nobody, listener |-> Nobody, peer |-> Nobody,   \* m_iMuxID, m_ListenSocket
             hasQueue |-> FALSE, queued |-> {}, accepted |-> {},
             uses |-> 0]             \* history: calls of connect() and listen()

NewMux(port) == [port |-> port, refs |-> 1,
                 listener |-> Nobody,   \* CRcvQueue::m_pListener
                 rdv |-> [u \in Ids |-> 0],   \* entries of each socket in m_pRendezvousQueue
                 fresh |-> {},          \* m_vNewEntry
                 list |-> {}]           \* m_pRcvUList and m_pHash

SocketsInit == /\ sock = [u \in Ids |-> NoSocket]
               /\ place = [u \in Ids |-> "none"]
               /\ mux = [m \in {} |-> NewMux(0)]
               /\ peerRec = [p \in Peers |-> {}]
               /\ ending = FALSE

\* The state the operators below pass on.
S == [sock |-> sock, place |-> place, mux |-> mux, peerRec |-> peerRec]
Becomes(s) == \E t \in {s} : /\ sock' = t.sock /\ place' = t.place /\ mux' = t.mux
                             /\ peerRec' = t.peerRec /\ UNCHANGED ending

\* locate(u): the socket is open and not CLOSED.
Located(u) == place[u] = "open" /\ sock[u].status # "CLOSED"

(***************************************************************************)
(* newSocket, bind, listen.                                                *)
(***************************************************************************)
\* m_SocketID, counted upwards here.
NextId == Cardinality({u \in Ids : place[u] # "none"}) + 1

NewSocket == /\ NextId <= MaxApp /\ ~ending
             /\ Becomes([S EXCEPT !.place[NextId] = "open"])

\* u shares the multiplexer m.
Joined(s, u, m) == [s EXCEPT !.sock[u].mux = m, !.mux[m].refs = @ + 1]

\* updateMux(s, addr): the multiplexer of that port (UDT_REUSEADDR is on), or a new
\* one; connect() without bind has no address and gets a new one with a port of its own.
OnPort(s, port) == {m \in DOMAIN s.mux : s.mux[m].port = port}

UpdateMux(s, u, port) ==
  IF OnPort(s, port) # {} THEN Joined(s, u, CHOOSE m \in OnPort(s, port) : TRUE)
  ELSE [s EXCEPT !.mux = [m \in DOMAIN @ \cup {u} |->
                            IF m = u THEN NewMux(port) ELSE s.mux[m]],
                 !.sock[u].mux = u]

Opened(s, u) == [s EXCEPT !.sock[u].opened = TRUE, !.sock[u].onList = FALSE,
                          !.sock[u].status = "OPENED"]

Bind(u, port) == /\ Located(u) /\ sock[u].status = "INIT" /\ ~ending
                 /\ Becomes(UpdateMux(Opened(S, u), u, port))

\* The queues are made before setListener refuses a second listener of the port.
Listen(u) ==
  LET m == sock[u].mux
      queue == [S EXCEPT !.sock[u].hasQueue = TRUE, !.sock[u].uses = @ + 1]
  IN /\ Located(u) /\ sock[u].status = "OPENED" /\ ~ending
     /\ sock[u].uses < MaxUses
     /\ ~sock[u].connecting /\ ~sock[u].connected
     /\ Becomes(IF mux[m].listener # Nobody THEN queue
                ELSE [queue EXCEPT !.sock[u].status = "LISTENING", !.sock[u].listening = TRUE,
                                   !.mux[m].listener = u])

(***************************************************************************)
(* newConnection, in the receive worker, for a request with a valid cookie.*)
(***************************************************************************)
\* locate(peer, id, isn): a socket of this peer that is still in m_Sockets.
FromPeer(p) == {u \in peerRec[p] : place[u] = "open"}

\* Ids count downwards in the code, so the first of a set is the newest socket.
Newest(ids) == CHOOSE u \in ids : \A v \in ids : u >= v

\* Taken off its listener's queues.
Dequeued(s, l, u) == [s EXCEPT !.sock[l].queued = @ \ {u}, !.sock[l].accepted = @ \ {u}]

\* Mutant of Registered: m_bOnList is set when the worker takes the socket over.
MutRegistered(s, u) == [s EXCEPT !.sock[u].connected = TRUE, !.sock[u].connecting = FALSE,
                                 !.mux[s.sock[u].mux].fresh = @ \cup {u}]

\* A connected socket is handed to the worker: m_bOnList, setNewEntry.
Registered(s, u) == [s EXCEPT !.sock[u].connected = TRUE, !.sock[u].connecting = FALSE,
                              !.sock[u].onList = TRUE,
                              !.mux[s.sock[u].mux].fresh = @ \cup {u}]

Connection(s, l, u, p) ==
  LET made == Registered(Joined(Opened(s, u), u, s.sock[l].mux), u)
  IN [made EXCEPT !.place[u] = "open", !.sock[u].status = "CONNECTED",
                  !.sock[u].listener = l, !.sock[u].peer = p,
                  !.peerRec[p] = @ \cup {u},
                  !.sock[l].queued = @ \cup {u}]

\* Mutant of Stale: a repeated request is not recognised.
MutStale(u) == TRUE

\* The peer's last connection is broken: a new one may replace it.
Stale(u) == sock[u].broken

\* A request: repeated (only answered), the successor of a broken connection, refused
\* for the backlog, or new.
Request(m, p) ==
  LET l == mux[m].listener
      old == FromPeer(p)
      o == Newest(old)
      cleared == IF old = {} THEN S
                 ELSE Dequeued([S EXCEPT !.sock[o].status = "CLOSED", !.sock[o].old = FALSE], l, o)
  IN /\ l # Nobody
     /\ ~sock[l].closing /\ Located(l)
     /\ old # {} => Stale(o)
     /\ IF Cardinality(cleared.sock[l].queued) >= BackLog THEN Becomes(cleared)
        ELSE NextId \in Ids /\ Becomes(Connection(cleared, l, NextId, p))

\* accept(): the first of the set, the newest.
Accept(l) ==
  /\ Located(l) /\ sock[l].status = "LISTENING" /\ ~sock[l].broken /\ ~ending
  /\ sock[l].queued # {}
  /\ LET u == Newest(sock[l].queued)
     IN Becomes([S EXCEPT !.sock[l].queued = @ \ {u}, !.sock[l].accepted = @ \cup {u}])

(***************************************************************************)
(* connect().                                                              *)
(***************************************************************************)
Connect(u) ==
  LET ready == IF sock[u].status = "INIT" THEN UpdateMux(Opened(S, u), u, -u) ELSE S
  IN /\ Located(u) /\ sock[u].status \in {"INIT", "OPENED"} /\ ~ending
     /\ sock[u].uses < MaxUses
     /\ ~sock[u].connecting /\ ~sock[u].connected
     /\ Becomes([ready EXCEPT !.sock[u].status = "CONNECTING", !.sock[u].connecting = TRUE,
                              !.sock[u].uses = @ + 1,
                              !.mux[ready.sock[u].mux].rdv[u] = @ + 1])

\* CRendezvousQueue::remove(id): one entry of each of the sockets U.
Unregistered(s, U) ==
  LET rdv(m) == s.mux[m].rdv
      left(m) == [u \in Ids |-> IF u \in U /\ rdv(m)[u] > 0 /\ s.sock[u].mux = m
                                THEN rdv(m)[u] - 1 ELSE rdv(m)[u]]
  IN [s EXCEPT !.mux = [m \in DOMAIN s.mux |-> [s.mux[m] EXCEPT !.rdv = left(m)]]]

\* The last response: POST_CONNECT of connect(response), and connect_complete.
Response(m, u) ==
  /\ mux[m].rdv[u] > 0 /\ place[u] # "freed" /\ sock[u].connecting
  /\ LET done == Registered(Unregistered(S, {u}), u)
     IN Becomes(IF Located(u) THEN [done EXCEPT !.sock[u].status = "CONNECTED"] ELSE done)

\* connect() throws: no answer in time.  The socket stays registered.
ConnectFails(u) ==
  /\ Located(u) /\ sock[u].status = "CONNECTING" /\ ~sock[u].connected
  /\ Becomes([S EXCEPT !.sock[u].status = "OPENED"])

\* updateConnStatus finds the time to live of an entry expired.
TtlExpired(m, u) == /\ mux[m].rdv[u] > 0 /\ place[u] # "freed" /\ sock[u].connecting
                    /\ Becomes([S EXCEPT !.sock[u].connecting = FALSE])

(***************************************************************************)
(* The receive worker's lists.                                             *)
(***************************************************************************)
\* The new entries go to the list and the hash table.
TakeNewEntries(m) == /\ mux[m].fresh # {}
                     /\ Becomes([S EXCEPT !.mux[m].list = @ \cup mux[m].fresh,
                                          !.mux[m].fresh = {}])

\* The connection ends: a shutdown message, or EXP in checkTimers.
Break(u) == /\ \E m \in DOMAIN mux : u \in mux[m].list
            /\ sock[u].connected /\ ~sock[u].broken /\ ~sock[u].closing
            /\ Becomes([S EXCEPT !.sock[u].broken = TRUE, !.sock[u].closing = TRUE])

\* Mutant of Unlisted: m_bOnList is not reset.
MutUnlisted(m, u) == [S EXCEPT !.mux[m].list = @ \ {u}]

Unlisted(m, u) == [S EXCEPT !.mux[m].list = @ \ {u}, !.sock[u].onList = FALSE]

\* The timer check drops a socket that is not connected, broken or closing.
TimerCheck(m, u) == /\ u \in mux[m].list
                    /\ ~sock[u].connected \/ sock[u].broken \/ sock[u].closing
                    /\ Becomes(Unlisted(m, u))

(***************************************************************************)
(* close().                                                                *)
(***************************************************************************)
\* Sockets U changed by f.
Each(s, U, f(_)) == [s EXCEPT !.sock = [u \in Ids |-> IF u \in U THEN f(@[u]) ELSE @[u]]]

\* CUDT::close() of those sockets of U that are opened.
Shut(s, U) ==
  LET listeners == {u \in U : s.sock[u].opened /\ s.sock[u].listening}
      others == {u \in U : s.sock[u].opened /\ ~s.sock[u].listening}
      shut(k) == [k EXCEPT !.closing = TRUE, !.listening = FALSE, !.connected = FALSE,
                           !.opened = FALSE]
      left(m) == IF s.mux[m].listener \in listeners THEN Nobody ELSE s.mux[m].listener
      deaf == [s EXCEPT !.mux = [m \in DOMAIN s.mux |-> [s.mux[m] EXCEPT !.listener = left(m)]]]
  IN Each(Unregistered(deaf, others), listeners \cup others, shut)

ToClosed(s, U) ==
  LET closed(k) == [k EXCEPT !.status = "CLOSED", !.old = FALSE]
  IN [Each(s, U, closed) EXCEPT !.place = [u \in Ids |-> IF u \in U THEN "closed" ELSE @[u]]]

\* Nobody knows the id of a socket that waits to be accepted.
Known(u) == \A l \in Ids : u \notin sock[l].queued

\* A listener is only marked; the garbage collector closes it.  With unsent data and
\* asynchronous sending CUDT::close() returns at once: the socket lingers.
Close(u) ==
  /\ Located(u) /\ Known(u) /\ ~ending
  /\ IF sock[u].status = "LISTENING"
     THEN /\ ~sock[u].broken
          /\ Becomes([S EXCEPT !.sock[u].broken = TRUE, !.sock[u].old = FALSE])
     ELSE \/ Becomes(ToClosed(Shut(S, {u}), {u}))
          \/ /\ sock[u].connected /\ ~sock[u].broken
             /\ Becomes(ToClosed([S EXCEPT !.sock[u].lingering = TRUE], {u}))

(***************************************************************************)
(* The garbage collector.                                                  *)
(***************************************************************************)
Aging(u) == /\ ~sock[u].old
            /\ place[u] = "closed" \/ (place[u] = "open" /\ sock[u].status = "LISTENING" /\ sock[u].broken)
            /\ Becomes([S EXCEPT !.sock[u].old = TRUE])

\* Broken sockets of m_Sockets go to m_ClosedSockets and leave their listeners' queues.
Collected(s, U) ==
  LET without(k) == [k EXCEPT !.queued = @ \ U, !.accepted = @ \ U]
  IN Each(ToClosed(s, U), {s.sock[u].listener : u \in U}, without)

\* The lingering of an asynchronous close is over.
LingerOver(s, U) ==
  LET over(k) == [k EXCEPT !.lingering = FALSE, !.closing = TRUE, !.old = FALSE]
  IN Each(s, U, over)

\* removeSocket, first half: connections nobody accepted are closed with their listener.
Orphaned(s, U) ==
  LET orphans == UNION {s.sock[l].queued : l \in U}
      break(k) == [k EXCEPT !.broken = TRUE]
  IN ToClosed(Shut(Each(s, orphans, break), orphans), orphans)

\* A multiplexer loses a reference for each of the sockets U and goes with the last one.
Released(s, U) ==
  LET left(m) == s.mux[m].refs - Cardinality({u \in U : s.sock[u].mux = m})
  IN [s EXCEPT !.mux = [m \in {k \in DOMAIN @ : left(k) > 0} |-> [@[m] EXCEPT !.refs = left(m)]]]

\* removeSocket, second half.
RemoveSocket(s, U) ==
  LET gone(k) == [NoSocket EXCEPT !.uses = k.uses]
  IN [Each(Released(Shut(s, U), U), U, gone)
        EXCEPT !.place = [u \in Ids |-> IF u \in U THEN "freed" ELSE @[u]],
               !.peerRec = [p \in Peers |-> @[p] \ U]]

\* checkBrokenSockets(): a broken socket with unread data may be given more time
\* (wait); linger holds the lingering sockets whose time is over.
CheckBrokenSockets(wait, linger) ==
  LET broken == {u \in Ids : /\ place[u] = "open" /\ sock[u].broken
                             /\ sock[u].status = "LISTENING" => sock[u].old} \ wait
      removed == {u \in Ids : place[u] = "closed" /\ sock[u].old /\ ~sock[u].onList} \ linger
  IN /\ wait \subseteq {u \in Ids : sock[u].connected /\ sock[u].broken}
     /\ linger \subseteq {u \in Ids : place[u] = "closed" /\ sock[u].lingering}
     /\ broken \cup linger \cup removed # {}
     /\ \E collected \in {Collected(S, broken)} :
        \E lingered \in {LingerOver(collected, linger)} :
        \E orphaned \in {Orphaned(lingered, removed)} :
           Becomes(RemoveSocket(orphaned, removed))

\* cleanup(): every socket is closed, and its delay is over at once.
Cleanup ==
  LET open == {u \in Ids : place[u] = "open"}
      break(k) == [k EXCEPT !.broken = TRUE]
      closed == Collected(Shut(Each(S, open, break), open), open)
  IN /\ ~ending /\ ending' = TRUE
     /\ sock' = [u \in Ids |-> [closed.sock[u] EXCEPT !.old = closed.place[u] = "closed"]]
     /\ place' = closed.place /\ mux' = closed.mux /\ peerRec' = closed.peerRec

Gc == \E wait, linger \in SUBSET Ids : CheckBrokenSockets(wait, linger)

App == \/ NewSocket
       \/ \E u \in Ids : \/ \E port \in Ports : Bind(u, port)
                         \/ Listen(u) \/ Accept(u) \/ Connect(u) \/ ConnectFails(u) \/ Close(u)
       \/ Cleanup

Worker == \/ \E m \in DOMAIN mux : \/ \E p \in Peers : Request(m, p)
                                   \/ \E u \in Ids : Response(m, u) \/ TtlExpired(m, u)
                                   \/ TakeNewEntries(m)
                                   \/ \E u \in Ids : TimerCheck(m, u)
          \/ \E u \in Ids : Break(u)

SocketsNext == App \/ Worker \/ Gc \/ \E u \in Ids : Aging(u)

\* The worker goes around its loop, the collector runs every second, delays end.
SocketsFairness ==
  /\ WF_socketVars(\E m \in DOMAIN mux : TakeNewEntries(m))
  /\ WF_socketVars(\E m \in DOMAIN mux : \E u \in Ids : TimerCheck(m, u))
  /\ WF_socketVars(CheckBrokenSockets({}, {u \in Ids : place[u] = "closed" /\ sock[u].lingering}))
  /\ \A u \in Ids : WF_socketVars(Aging(u))

SocketsSpec == SocketsInit /\ [][SocketsNext]_socketVars /\ SocketsFairness

(***************************************************************************)
(* Properties.                                                             *)
(***************************************************************************)
Freed(u) == place[u] = "freed"

\* No pointer of a multiplexer outlives its socket: not the listener's, not one of the
\* list and hash table or still waiting among the new entries, nor one of the rendezvous
\* queue, unless connect() or listen() was called again after connect() failed (the old
\* entry is then never removed).
WorkerPointersAlive ==
  \A m \in DOMAIN mux :
    /\ mux[m].listener # Nobody => ~Freed(mux[m].listener)
    /\ \A u \in mux[m].list \cup mux[m].fresh : ~Freed(u)
    /\ \A u \in Ids : mux[m].rdv[u] > 0 /\ Freed(u) => sock[u].uses > 1

\* No multiplexer goes before the last socket that uses its queues, and m_iRefCount
\* counts these sockets.
MuxAlive ==
  LET users(m) == {u \in Ids : place[u] \in {"open", "closed"} /\ sock[u].mux = m}
  IN /\ \A u \in Ids : ~Freed(u) /\ sock[u].mux # Nobody => sock[u].mux \in DOMAIN mux
     /\ \A m \in DOMAIN mux : mux[m].refs = Cardinality(users(m))

\* removeSocket looks the waiting connections of a listener up in m_Sockets without
\* checking that they are there: they must be, whatever broke or was collected before.
QueuedAreOpen ==
  \A l \in Ids : ~Freed(l) => \A u \in sock[l].queued : place[u] = "open"

\* Whatever the application, the workers and the garbage collector do in any order,
\* nobody follows a pointer to something freed.
NoDangling == WorkerPointersAlive /\ MuxAlive /\ QueuedAreOpen

\* However often a request arrives, a peer has at most one live connection here.
OneConnectionPerPeer ==
  \A p \in Peers : Cardinality({u \in FromPeer(p) : ~sock[u].broken}) <= 1

\* Every closed socket is freed in the end, whatever list its worker still has it on
\* and however it was closed: m_ClosedSockets is empty again and again (a behaviour has
\* finitely many sockets, each of which is closed once).
ClosedIsFreed == []<>(\A u \in Ids : place[u] # "closed")
=============================================================================
