------------------------- MODULE SocketLayer_proofs -------------------------
(***************************************************************************)
(* Proofs about SocketLayer, for every number of slots, session IDs,       *)
(* connections, requests and faults.                                       *)
(***************************************************************************)
EXTENDS SocketLayer, TLAPS

\* session is the ID of connection inc, when last connections were opened and id
\* was the last ID given, as far as that can be told: the last Sessions - 1
\* connections have all IDs but 0.
IsSession(session, inc, last, id) ==
  /\ inc \in 1..last /\ session \in 1..Sessions - 1
  /\ last - inc < Sessions - 1 =>
       session = IF id > last - inc THEN id - (last - inc)
                                    ELSE id - (last - inc) + Sessions - 1

\* A reply to connection i may be taken for one to connection j.
Reaches(i, j) == j = i \/ j >= i + Sessions - 1

CounterInv == opens > 0 => gu16SessionID > 0

SlotInv ==
  \A s \in Slots :
    /\ gastrSockets[s].bIsUsed => IsSession(gastrSockets[s].session, gastrSockets[s].inc, opens, gu16SessionID)
    /\ ~gastrSockets[s].bIsUsed => gastrSockets[s] = Free

\* A request is of an earlier or of the present connection of its slot, and if
\* the present one has its session ID, of one that a wrap separates from it.
RequestInv ==
  \A r \in requests :
    /\ IsSession(r.session, r.inc, opens, gu16SessionID)
    /\ gastrSockets[r.sock].session = r.session => Reaches(r.inc, gastrSockets[r.sock].inc)

ReadingInv ==
  reading.at # "idle" /\ gastrSockets[reading.sock].bIsUsed =>
    Reaches(reading.inc, gastrSockets[reading.sock].inc)

IInv == /\ TypeOK /\ CounterInv /\ SlotInv /\ RequestInv /\ ReadingInv
        /\ DataReachesItsConnection /\ PendingIsOwed

----------------------------------------------------------------------------
\* The session counter is incremented modulo Sessions and skips 0.
LEMMA NextSessionValue ==
  ASSUME NEW id \in 0..Sessions - 1
  PROVE  NextSession(id) = IF id + 1 = Sessions THEN 1 ELSE id + 1
<1>1. Sessions % Sessions = 0
  BY SocketAssumption
<1>2. ASSUME id + 1 # Sessions PROVE (id + 1) % Sessions = id + 1
  BY <1>2, SocketAssumption
<1>. QED
  BY <1>1, <1>2, SocketAssumption DEF NextSession

\* The search of socket() stays in the table.
LEMMA VisitedInSlots == ASSUME nextSock \in Slots, NEW n \in Nat PROVE Visited(n) \in Slots
<1>1. nextSock + n \in Nat
  BY SocketAssumption DEF Slots
<1>2. ASSUME NEW m \in Nat PROVE m % NSlots \in 0..NSlots - 1
  BY SocketAssumption
<1>. QED
  BY <1>1, <1>2 DEF Visited, Slots

LEMMA InitIInv == Init => IInv
<1> SUFFICES ASSUME Init PROVE IInv
  OBVIOUS
<1> USE SocketAssumption DEF Init
<1>1. TypeOK
  <2>1. gastrSockets \in [Slots -> Socket]
    BY DEF Free, Socket
  <2>2. nextSock \in Slots /\ reading \in Reading /\ event \in Event
    BY DEF Slots, NotReading, Reading, NoEvent, Event
  <2>. QED
    BY <2>1, <2>2 DEF TypeOK
<1>2. CounterInv /\ RequestInv
  BY DEF CounterInv, RequestInv
<1>3. SlotInv
  BY DEF SlotInv, Free
<1>4. ReadingInv /\ DataReachesItsConnection
  BY DEF ReadingInv, DataReachesItsConnection, NotReading, NoEvent
<1>5. PendingIsOwed
  BY DEF PendingIsOwed, Free
<1>. QED
  BY <1>1, <1>2, <1>3, <1>4, <1>5 DEF IInv

----------------------------------------------------------------------------
(* A slot is given to a new connection, by socket() or by an ACCEPT *)

NewSocket == [Free EXCEPT !.bIsUsed = TRUE, !.session = NextSession(gu16SessionID),
                          !.inc = opens + 1]

Opening(c) ==
  /\ c \in Slots /\ ~gastrSockets[c].bIsUsed /\ opens < MaxOpens /\ reading.at = "idle"
  /\ gastrSockets' = [gastrSockets EXCEPT ![c] = NewSocket]
  /\ gu16SessionID' = NextSession(gu16SessionID)
  /\ opens' = opens + 1
  /\ UNCHANGED <<requests, reading, faults>>

\* The session IDs in use slide back by one, the new one is not among those of
\* the last Sessions - 2 connections.
LEMMA OpeningMovesWindow ==
  ASSUME TypeOK, CounterInv, opens < MaxOpens,
         gu16SessionID' = NextSession(gu16SessionID), opens' = opens + 1,
         NEW inc, NEW session, IsSession(session, inc, opens, gu16SessionID)
  PROVE  /\ IsSession(session, inc, opens', gu16SessionID')
         /\ session = gu16SessionID' => Reaches(inc, opens')
<1> USE SocketAssumption DEF TypeOK
<1>1. gu16SessionID' = IF gu16SessionID + 1 = Sessions THEN 1 ELSE gu16SessionID + 1
  BY NextSessionValue
<1>2. opens > 0 /\ gu16SessionID > 0
  BY DEF IsSession, CounterInv
<1>3. IsSession(session, inc, opens', gu16SessionID')
  BY <1>1, <1>2 DEF IsSession
<1>4. session = gu16SessionID' => Reaches(inc, opens')
  BY <1>1, <1>2 DEF IsSession, Reaches
<1>. QED
  BY <1>3, <1>4

\* The connection opened last has the ID given last.
LEMMA NewestSession ==
  ASSUME NEW id \in 1..Sessions - 1, NEW last \in 1..MaxOpens
  PROVE  IsSession(id, last, last, id)
<1>1. last \in 1..last /\ last - last = 0 /\ id > 0
  BY SocketAssumption
<1>2. id = IF id > 0 THEN id - 0 ELSE id - 0 + Sessions - 1
  BY SocketAssumption
<1>. QED
  BY <1>1, <1>2 DEF IsSession

LEMMA OpeningKeeps ==
  ASSUME IInv, NEW c, Opening(c)
  PROVE  /\ gastrSockets' \in [Slots -> Socket] /\ gu16SessionID' \in 0..Sessions - 1
         /\ opens' \in 0..MaxOpens
         /\ CounterInv' /\ SlotInv' /\ RequestInv' /\ ReadingInv' /\ PendingIsOwed'
<1> USE SocketAssumption
<1>0. /\ c \in Slots /\ opens < MaxOpens /\ opens' = opens + 1
      /\ reading.at = "idle" /\ gu16SessionID' = NextSession(gu16SessionID)
      /\ requests' = requests /\ reading' = reading /\ faults' = faults
  BY DEF Opening
<1>1. gu16SessionID' = IF gu16SessionID + 1 = Sessions THEN 1 ELSE gu16SessionID + 1
  BY <1>0, NextSessionValue DEF IInv, TypeOK
<1>2. gu16SessionID' \in 1..Sessions - 1 /\ opens' \in 1..MaxOpens
  BY <1>0, <1>1 DEF IInv, TypeOK
<1>3. NewSocket \in Socket /\ ~NewSocket.bIsRecvPending
  <2>1. Free \in Socket /\ ~Free.bIsRecvPending
    BY SocketAssumption DEF Free, Socket
  <2>2. opens + 1 \in 0..MaxOpens /\ NextSession(gu16SessionID) \in 0..Sessions - 1
    BY <1>0, <1>2
  <2>3. ASSUME NEW f \in Socket, NEW id \in 0..Sessions - 1, NEW n \in 0..MaxOpens
        PROVE  LET g == [f EXCEPT !.bIsUsed = TRUE, !.session = id, !.inc = n]
               IN  g \in Socket /\ g.bIsRecvPending = f.bIsRecvPending
    BY DEF Socket
  <2>. QED
    BY <2>1, <2>2, <2>3 DEF NewSocket
<1>4. gastrSockets' \in [Slots -> Socket]
  BY <1>3 DEF Opening, IInv, TypeOK
<1>5. CounterInv'
  BY <1>2 DEF CounterInv
<1>6. gastrSockets'[c] = NewSocket /\ \A s \in Slots \ {c} : gastrSockets'[s] = gastrSockets[s]
  BY DEF Opening, IInv, TypeOK
<1>14. gastrSockets'[c].session = gu16SessionID' /\ gastrSockets'[c].inc = opens'
  BY <1>0, <1>6 DEF NewSocket, Free
<1>7. IsSession(gu16SessionID', opens', opens', gu16SessionID')
  BY <1>2, NewestSession
<1>8. SlotInv'
  <2> SUFFICES ASSUME NEW s \in Slots
               PROVE  /\ gastrSockets'[s].bIsUsed =>
                           IsSession(gastrSockets'[s].session, gastrSockets'[s].inc, opens', gu16SessionID')
                      /\ ~gastrSockets'[s].bIsUsed => gastrSockets'[s] = Free
    BY DEF SlotInv
  <2>1. CASE s = c
    BY <2>1, <1>6, <1>7, <1>14 DEF NewSocket, Free
  <2>2. CASE s # c
    BY <2>2, <1>0, <1>6, OpeningMovesWindow DEF IInv, SlotInv
  <2>. QED
    BY <2>1, <2>2
<1>9. RequestInv'
  <2> SUFFICES ASSUME NEW r \in requests
               PROVE  /\ IsSession(r.session, r.inc, opens', gu16SessionID')
                      /\ gastrSockets'[r.sock].session = r.session =>
                           Reaches(r.inc, gastrSockets'[r.sock].inc)
    BY <1>0 DEF RequestInv
  <2>1. IsSession(r.session, r.inc, opens, gu16SessionID) /\ r.sock \in Slots
    BY DEF IInv, RequestInv, TypeOK, Request
  <2>2. IsSession(r.session, r.inc, opens', gu16SessionID')
    BY <1>0, <2>1, OpeningMovesWindow DEF IInv
  <2>4. ASSUME r.session = gu16SessionID' PROVE Reaches(r.inc, opens')
    BY <1>0, <2>1, <2>4, OpeningMovesWindow DEF IInv
  <2>3. ASSUME gastrSockets'[r.sock].session = r.session
        PROVE  Reaches(r.inc, gastrSockets'[r.sock].inc)
    <3>1. CASE r.sock = c
      <4>1. gastrSockets'[r.sock].session = gu16SessionID' /\ gastrSockets'[r.sock].inc = opens'
        BY <3>1, <1>14
      <4>. QED
        BY <4>1, <2>3, <2>4
    <3>2. CASE r.sock # c
      <4>1. gastrSockets'[r.sock] = gastrSockets[r.sock]
        BY <3>2, <2>1, <1>6
      <4>. QED
        BY <4>1, <2>3 DEF IInv, RequestInv
    <3>. QED
      BY <3>1, <3>2
  <2>. QED
    BY <2>2, <2>3
<1>10. ReadingInv'
  BY <1>0 DEF ReadingInv
<1>11. PendingIsOwed'
  BY <1>0, <1>3, <1>6 DEF IInv, PendingIsOwed
<1>. QED
  BY <1>2, <1>4, <1>5, <1>8, <1>9, <1>10, <1>11

----------------------------------------------------------------------------
(* Requests and replies *)

SameConnection(q, r) == q.sock = r.sock /\ q.session = r.session /\ q.inc = r.inc

\* The firmware's requests keep the connection they were made for.
LEMMA RequestsKept ==
  ASSUME TypeOK, RequestInv, UNCHANGED <<opens, gu16SessionID>>,
         \A q \in requests' : \E r \in requests : SameConnection(q, r),
         \A s \in Slots : \/ gastrSockets'[s].session = 0
                          \/ /\ gastrSockets'[s].session = gastrSockets[s].session
                             /\ gastrSockets'[s].inc = gastrSockets[s].inc
  PROVE  RequestInv'
<1> SUFFICES ASSUME NEW q \in requests'
             PROVE  /\ IsSession(q.session, q.inc, opens', gu16SessionID')
                    /\ gastrSockets'[q.sock].session = q.session =>
                         Reaches(q.inc, gastrSockets'[q.sock].inc)
  BY DEF RequestInv
<1>1. PICK r \in requests : SameConnection(q, r)
  OBVIOUS
<1>2. r.sock \in Slots /\ IsSession(r.session, r.inc, opens, gu16SessionID)
  BY DEF TypeOK, Request, RequestInv
<1>3. IsSession(q.session, q.inc, opens', gu16SessionID')
  BY <1>1, <1>2 DEF SameConnection
<1>4. q.session # 0
  BY <1>3, SocketAssumption DEF IsSession
<1>5. ASSUME gastrSockets'[q.sock].session = q.session
      PROVE  Reaches(q.inc, gastrSockets'[q.sock].inc)
  <2>1. /\ gastrSockets[r.sock].session = r.session
        /\ gastrSockets'[q.sock].inc = gastrSockets[r.sock].inc
    BY <1>1, <1>2, <1>4, <1>5 DEF SameConnection
  <2>2. Reaches(r.inc, gastrSockets[r.sock].inc)
    BY <2>1 DEF RequestInv
  <2>. QED
    BY <1>1, <2>1, <2>2 DEF SameConnection
<1>. QED
  BY <1>3, <1>5

\* A reply takes its request away, and that of a listen turns it into ACCEPTs.
LEMMA AfterReplyRequests ==
  ASSUME TypeOK, NEW r \in requests
  PROVE  /\ AfterReply(r) \subseteq Request
         /\ \A q \in AfterReply(r) : \E p \in requests : SameConnection(q, p)
         /\ \A p \in requests : p # r \/ p.kind = "accept" => p \in AfterReply(r)
<1>1. r \in Request
  BY DEF TypeOK
<1>2. CASE r.kind \in {"listen", "accept"}
  <2> DEFINE a == [r EXCEPT !.kind = "accept"]
  <2>1. a \in Request /\ SameConnection(a, r)
    BY <1>1 DEF Request, SameConnection
  <2>2. AfterReply(r) = (requests \ {r}) \cup {a}
    BY <1>2 DEF AfterReply
  <2>3. r.kind = "accept" => a = r
    BY <1>1 DEF Request
  <2>4. \A q \in requests : SameConnection(q, q)
    BY DEF SameConnection
  <2> HIDE DEF a
  <2>. QED
    BY <2>1, <2>2, <2>3, <2>4 DEF TypeOK
<1>3. CASE r.kind \notin {"listen", "accept"}
  <2>1. AfterReply(r) = requests \ {r}
    BY <1>3 DEF AfterReply
  <2>. QED
    BY <1>3, <2>1 DEF TypeOK, SameConnection
<1>. QED
  BY <1>2, <1>3

\* What SOCKET_REQUEST does to the set of requests.
LEMMA RequestSent ==
  ASSUME TypeOK, NEW s \in Slots, NEW k \in Kinds, SOCKET_REQUEST(k, s)
  PROVE  /\ requests \subseteq requests' /\ requests' \subseteq Request
         /\ \A q \in requests' \ requests :
              /\ q.sock = s /\ q.kind = k
              /\ q.session = gastrSockets[s].session /\ q.inc = gastrSockets[s].inc
         /\ \/ faults' = faults /\ \E q \in requests' :
                q.sock = s /\ q.kind = k /\ q.inc = gastrSockets[s].inc
            \/ faults' = faults + 1 /\ faults' \in 0..MaxFaults
<1>1. CASE BusFault /\ UNCHANGED requests
  BY <1>1, SocketAssumption DEF BusFault, TypeOK
<1>2. ASSUME NEW i \in 1..MaxRequests, UNCHANGED faults,
             requests' = requests \cup {[id |-> i, kind |-> k, sock |-> s,
               session |-> gastrSockets[s].session, inc |-> gastrSockets[s].inc]}
      PROVE  /\ requests \subseteq requests' /\ requests' \subseteq Request
             /\ \A q \in requests' \ requests :
                  /\ q.sock = s /\ q.kind = k
                  /\ q.session = gastrSockets[s].session /\ q.inc = gastrSockets[s].inc
             /\ \E q \in requests' :
                  q.sock = s /\ q.kind = k /\ q.inc = gastrSockets[s].inc
  <2> DEFINE a == [id |-> i, kind |-> k, sock |-> s,
               session |-> gastrSockets[s].session, inc |-> gastrSockets[s].inc]
  <2>1. gastrSockets[s] \in Socket
    BY DEF TypeOK
  <2>2. a \in Request
    BY <2>1 DEF Socket, Request
  <2>3. a.sock = s /\ a.kind = k /\ a.session = gastrSockets[s].session /\ a.inc = gastrSockets[s].inc
    OBVIOUS
  <2>4. requests' = requests \cup {a}
    BY <1>2
  <2> HIDE DEF a
  <2>. QED
    BY <2>2, <2>3, <2>4 DEF TypeOK
<1>. QED
  BY <1>1, <1>2 DEF SOCKET_REQUEST

----------------------------------------------------------------------------
\* socket(): the slot found is opened.
LEMMA SocketStep == ASSUME ~ReopensInCallback, IInv, socket PROVE IInv'
<1>1. PICK n \in Slots :
        /\ ~gastrSockets[Visited(n)].bIsUsed /\ nextSock' = Visited(n + 1)
        /\ gastrSockets' = [gastrSockets EXCEPT ![Visited(n)] =
             [Free EXCEPT !.bIsUsed = TRUE, !.session = NextSession(gu16SessionID),
                          !.inc = opens + 1]]
  BY DEF socket
<1>2. Visited(n) \in Slots /\ Visited(n + 1) \in Slots
  BY VisitedInSlots, SocketAssumption DEF IInv, TypeOK, Slots
<1>3. [Free EXCEPT !.bIsUsed = TRUE, !.session = NextSession(gu16SessionID),
                   !.inc = opens + 1] = NewSocket
  BY DEF NewSocket
<1>4. Opening(Visited(n)) /\ event' = NoEvent
  <2>1. reading.at = "idle" /\ opens < MaxOpens /\ event' = NoEvent
    BY DEF socket, AppRuns
  <2>2. gastrSockets' = [gastrSockets EXCEPT ![Visited(n)] = NewSocket]
    BY <1>1, <1>3
  <2>. QED
    BY <1>1, <1>2, <2>1, <2>2 DEF socket, Opening
<1>5. TypeOK'
  <2>1. requests' = requests /\ reading' = reading /\ faults' = faults
    BY DEF socket
  <2>2. event' \in Event
    BY <1>4, SocketAssumption DEF NoEvent, Event
  <2>. QED
    BY <1>1, <1>2, <1>4, <2>1, <2>2, OpeningKeeps DEF IInv, TypeOK
<1>6. DataReachesItsConnection'
  BY <1>4 DEF DataReachesItsConnection, NoEvent
<1>. QED
  BY <1>4, <1>5, <1>6, OpeningKeeps DEF IInv

\* ACCEPT: a free slot is opened, or none.
LEMMA AcceptStep == ASSUME IInv, NEW r \in requests, AcceptReply(r) PROVE IInv'
<1>1. DataReachesItsConnection'
  BY DEF AcceptReply, Callback, DataReachesItsConnection
<1>2. r \in Request /\ gastrSockets[r.sock] \in Socket
  BY DEF IInv, TypeOK, Request
<1>3. event' \in Event
  BY <1>2 DEF AcceptReply, Callback, Event, Request, Socket
<1>4. CASE UNCHANGED <<gastrSockets, gu16SessionID, opens>>
  BY <1>1, <1>3, <1>4
  DEF AcceptReply, IInv, TypeOK, CounterInv, SlotInv, RequestInv, ReadingInv, PendingIsOwed
<1>5. ASSUME NEW c \in Slots, ~gastrSockets[c].bIsUsed, opens < MaxOpens,
             gastrSockets' = [gastrSockets EXCEPT ![c].bIsUsed = TRUE, ![c].inc = opens + 1,
                                                  ![c].session = NextSession(gu16SessionID)],
             gu16SessionID' = NextSession(gu16SessionID), opens' = opens + 1
      PROVE  IInv'
  <2>1. gastrSockets' = [gastrSockets EXCEPT ![c] = NewSocket]
    <3>1. gastrSockets[c] = Free
      BY <1>5 DEF IInv, SlotInv
    <3>. QED
      BY <1>5, <3>1 DEF Free, NewSocket, IInv, TypeOK
  <2>2. Opening(c)
    BY <1>5, <2>1 DEF AcceptReply, Opening
  <2>3. TypeOK'
    BY <1>3, <2>2, OpeningKeeps DEF AcceptReply, IInv, TypeOK
  <2>. QED
    BY <1>1, <2>2, <2>3, OpeningKeeps DEF IInv
<1>. QED
  BY <1>4, <1>5 DEF AcceptReply

----------------------------------------------------------------------------
\* recv(), close() and the calls that only send a request.
LEMMA RecvStep == ASSUME IInv, NEW s \in Slots, recv(s) PROVE IInv'
<1>1. /\ gastrSockets[s].bIsUsed /\ "recv" \in Kinds /\ event' = NoEvent
      /\ UNCHANGED <<gu16SessionID, nextSock, reading, opens>>
      /\ gastrSockets' = [gastrSockets EXCEPT ![s].buffer = TRUE, ![s].bIsRecvPending = TRUE]
  BY DEF recv, AppRuns
<1>2. gastrSockets' \in [Slots -> Socket]
  BY <1>1 DEF IInv, TypeOK, Socket
<1>3. \A t \in Slots : /\ gastrSockets'[t].inc = gastrSockets[t].inc
                       /\ gastrSockets'[t].session = gastrSockets[t].session
                       /\ gastrSockets'[t].bIsUsed = gastrSockets[t].bIsUsed
                       /\ t # s => gastrSockets'[t] = gastrSockets[t]
  BY <1>1 DEF IInv, TypeOK, Socket
<1>4. /\ requests \subseteq requests' /\ requests' \subseteq Request
      /\ \A q \in requests' \ requests :
           /\ q.sock = s
           /\ q.session = gastrSockets[s].session /\ q.inc = gastrSockets[s].inc
      /\ \/ faults' = faults /\ (~gastrSockets[s].bIsRecvPending =>
              \E q \in requests' : q.sock = s /\ q.kind = "recv" /\ q.inc = gastrSockets[s].inc)
         \/ faults' = faults + 1 /\ faults' \in 0..MaxFaults
  <2>1. CASE gastrSockets[s].bIsRecvPending
    BY <2>1 DEF recv, IInv, TypeOK
  <2>2. CASE ~gastrSockets[s].bIsRecvPending
    BY <2>2, <1>1, RequestSent DEF recv, IInv
  <2>. QED
    BY <2>1, <2>2
<1>5. TypeOK'
  <2>1. event' \in Event
    BY <1>1, SocketAssumption DEF NoEvent, Event
  <2>. QED
    BY <1>1, <1>2, <1>4, <2>1 DEF IInv, TypeOK
<1>6. CounterInv' /\ DataReachesItsConnection'
  BY <1>1 DEF IInv, CounterInv, DataReachesItsConnection, NoEvent
<1>7. SlotInv'
  BY <1>1, <1>3 DEF IInv, SlotInv
<1>8. RequestInv'
  <2> SUFFICES ASSUME NEW q \in requests'
               PROVE  /\ IsSession(q.session, q.inc, opens, gu16SessionID)
                      /\ gastrSockets[q.sock].session = q.session =>
                           Reaches(q.inc, gastrSockets[q.sock].inc)
    BY <1>1, <1>3, <1>4 DEF RequestInv, Request
  <2>1. CASE q \in requests
    BY <2>1 DEF IInv, RequestInv
  <2>2. CASE q \notin requests
    BY <2>2, <1>1, <1>4 DEF IInv, SlotInv, Reaches
  <2>. QED
    BY <2>1, <2>2
<1>9. ReadingInv'
  BY <1>1, <1>3 DEF IInv, ReadingInv, TypeOK, Reading
<1>10. PendingIsOwed'
  <2> SUFFICES ASSUME faults' = 0, NEW t \in Slots, gastrSockets'[t].bIsRecvPending
               PROVE  \E q \in requests' :
                        q.kind = "recv" /\ q.sock = t /\ q.inc = gastrSockets'[t].inc
    BY DEF PendingIsOwed
  <2>1. faults' = faults /\ faults = 0
    BY <1>4, SocketAssumption DEF IInv, TypeOK
  <2>2. CASE gastrSockets[t].bIsRecvPending
    BY <2>1, <2>2, <1>3, <1>4 DEF IInv, PendingIsOwed
  <2>3. CASE ~gastrSockets[t].bIsRecvPending
    BY <2>1, <2>3, <1>3, <1>4, SocketAssumption DEF IInv, TypeOK
  <2>. QED
    BY <2>2, <2>3
<1>. QED
  BY <1>5, <1>6, <1>7, <1>8, <1>9, <1>10 DEF IInv

LEMMA RequestStep == ASSUME IInv, NEW s \in Slots, NEW k \in Kinds, request(k, s) PROVE IInv'
<1>1. /\ gastrSockets[s].bIsUsed /\ event' = NoEvent
      /\ UNCHANGED <<gastrSockets, gu16SessionID, nextSock, reading, opens>>
  BY DEF request, AppRuns
<1>2. /\ requests \subseteq requests' /\ requests' \subseteq Request
      /\ \A q \in requests' \ requests :
           /\ q.sock = s
           /\ q.session = gastrSockets[s].session /\ q.inc = gastrSockets[s].inc
      /\ faults' = faults \/ (faults' = faults + 1 /\ faults' \in 0..MaxFaults)
  BY RequestSent DEF request, IInv
<1>3. TypeOK'
  <2>1. event' \in Event
    BY <1>1, SocketAssumption DEF NoEvent, Event
  <2>. QED
    BY <1>1, <1>2, <2>1 DEF IInv, TypeOK
<1>4. CounterInv' /\ SlotInv' /\ ReadingInv' /\ DataReachesItsConnection'
  BY <1>1 DEF IInv, CounterInv, SlotInv, ReadingInv, DataReachesItsConnection, NoEvent
<1>5. RequestInv'
  <2> SUFFICES ASSUME NEW q \in requests'
               PROVE  /\ IsSession(q.session, q.inc, opens, gu16SessionID)
                      /\ gastrSockets[q.sock].session = q.session =>
                           Reaches(q.inc, gastrSockets[q.sock].inc)
    BY <1>1 DEF RequestInv
  <2>1. CASE q \in requests
    BY <2>1 DEF IInv, RequestInv
  <2>2. CASE q \notin requests
    BY <2>2, <1>1, <1>2 DEF IInv, SlotInv, Reaches
  <2>. QED
    BY <2>1, <2>2
<1>6. PendingIsOwed'
  BY <1>1, <1>2, SocketAssumption DEF IInv, TypeOK, PendingIsOwed
<1>. QED
  BY <1>3, <1>4, <1>5, <1>6 DEF IInv

LEMMA CloseStep == ASSUME IInv, NEW s \in Slots, close(s) PROVE IInv'
<1>1. /\ event' = NoEvent /\ UNCHANGED <<gu16SessionID, nextSock, requests, reading, opens, faults>>
      /\ gastrSockets' = [gastrSockets EXCEPT ![s] = Free]
  BY DEF close, AppRuns
<1>2. Free \in Socket /\ Free.session = 0 /\ ~Free.bIsUsed /\ ~Free.bIsRecvPending
  BY SocketAssumption DEF Free, Socket
<1>3. gastrSockets'[s] = Free /\ \A t \in Slots \ {s} : gastrSockets'[t] = gastrSockets[t]
  BY <1>1 DEF IInv, TypeOK
<1>4. TypeOK'
  <2>1. event' \in Event
    BY <1>1, SocketAssumption DEF NoEvent, Event
  <2>2. gastrSockets' \in [Slots -> Socket]
    BY <1>1, <1>2 DEF IInv, TypeOK
  <2>. QED
    BY <1>1, <2>1, <2>2 DEF IInv, TypeOK
<1>5. CounterInv' /\ DataReachesItsConnection'
  BY <1>1 DEF IInv, CounterInv, DataReachesItsConnection, NoEvent
<1>6. SlotInv'
  BY <1>1, <1>2, <1>3 DEF IInv, SlotInv
<1>7. RequestInv'
  BY <1>1, <1>2, <1>3, RequestsKept DEF IInv, SameConnection
<1>8. ReadingInv'
  BY <1>1, <1>2, <1>3 DEF IInv, ReadingInv, TypeOK, Reading
<1>9. PendingIsOwed'
  BY <1>1, <1>2, <1>3 DEF IInv, PendingIsOwed
<1>. QED
  BY <1>4, <1>5, <1>6, <1>7, <1>8, <1>9 DEF IInv

----------------------------------------------------------------------------
\* Replies that change no slot: statuses, SEND, lost ones, requests forgotten.
LEMMA NoSlotStep ==
  ASSUME IInv, NEW r \in requests,
         UNCHANGED <<gastrSockets, gu16SessionID, nextSock, reading, opens>>,
         \/ requests' = AfterReply(r) /\ r.kind # "recv" /\ faults' = faults
         \/ requests' = AfterReply(r) /\ faults' = faults + 1 /\ faults' \in 0..MaxFaults
         \/ /\ requests' = requests \ {r} /\ r.inc # gastrSockets[r.sock].inc
            /\ faults' = faults,
         event' \in Event, DataReachesItsConnection'
  PROVE  IInv'
<1>1. requests' = AfterReply(r) \/ requests' = requests \ {r}
  OBVIOUS
<1>2. /\ requests' \subseteq Request
      /\ \A q \in requests' : \E p \in requests : SameConnection(q, p)
  BY <1>1, AfterReplyRequests DEF IInv, TypeOK, SameConnection
<1>3. TypeOK'
  BY <1>2 DEF IInv, TypeOK
<1>4. CounterInv' /\ SlotInv' /\ ReadingInv'
  BY DEF IInv, CounterInv, SlotInv, ReadingInv
<1>5. RequestInv'
  BY <1>2, RequestsKept DEF IInv
<1>6. PendingIsOwed'
  <2> SUFFICES ASSUME faults' = 0, NEW s \in Slots, gastrSockets[s].bIsRecvPending
               PROVE  \E q \in requests' :
                        q.kind = "recv" /\ q.sock = s /\ q.inc = gastrSockets[s].inc
    BY DEF PendingIsOwed
  <2>1. faults' = faults /\ faults = 0
    BY SocketAssumption DEF IInv, TypeOK
  <2>2. PICK q \in requests : q.kind = "recv" /\ q.sock = s /\ q.inc = gastrSockets[s].inc
    BY <2>1 DEF IInv, PendingIsOwed
  <2>3. q # r
    BY <2>1, <2>2, SocketAssumption DEF IInv, TypeOK
  <2>. QED
    BY <2>1, <2>2, <2>3, AfterReplyRequests DEF IInv
<1>. QED
  BY <1>3, <1>4, <1>5, <1>6 DEF IInv

\* An event is about a request and the slot it names.
LEMMA CallbackType ==
  ASSUME IInv, NEW r \in requests, Callback(r.kind, r.inc, r.sock)
  PROVE  event' \in Event
<1>1. r \in Request /\ gastrSockets[r.sock] \in Socket
  BY DEF IInv, TypeOK, Request
<1>. QED
  BY <1>1 DEF Callback, Event, Request, Socket

\* Equal session IDs mean the same connection, or one a wrap later.
LEMMA SameSessionReaches ==
  ASSUME IInv, NEW r \in requests, SameSession(r)
  PROVE  Reaches(r.inc, gastrSockets[r.sock].inc)
BY DEF IInv, RequestInv, SameSession

LEMMA StatusStep == ASSUME IInv, NEW r \in requests, StatusReply(r) PROVE IInv'
<1>1. event' \in Event
  BY CallbackType DEF StatusReply
<1>2. DataReachesItsConnection'
  BY DEF StatusReply, Callback, DataReachesItsConnection
<1>. QED
  BY <1>1, <1>2, NoSlotStep DEF StatusReply

LEMMA LostStep == ASSUME IInv, NEW r \in requests, ReplyLost(r) PROVE IInv'
<1>1. event' \in Event /\ DataReachesItsConnection'
  BY SocketAssumption DEF ReplyLost, NoEvent, Event, DataReachesItsConnection
<1>2. faults' = faults + 1 /\ faults' \in 0..MaxFaults
  BY SocketAssumption DEF ReplyLost, BusFault, IInv, TypeOK
<1>. QED
  BY <1>1, <1>2, NoSlotStep DEF ReplyLost

LEMMA DropStep == ASSUME IInv, NEW r \in requests, FirmwareDrops(r) PROVE IInv'
<1>1. event' \in Event /\ DataReachesItsConnection'
  BY SocketAssumption DEF FirmwareDrops, NoEvent, Event, DataReachesItsConnection
<1>. QED
  BY <1>1, NoSlotStep DEF FirmwareDrops

LEMMA SendStep == ASSUME IInv, NEW r \in requests, SendReply(r) PROVE IInv'
<1>1. requests' = AfterReply(r) /\ r.kind # "recv"
  BY DEF SendReply, AfterReply
<1>2. event' \in Event /\ DataReachesItsConnection'
  <2>1. CASE SameSession(r)
    <3>1. Callback("send", r.inc, r.sock) /\ Callback(r.kind, r.inc, r.sock)
      BY <2>1 DEF SendReply
    <3>2. event'.from = r.inc /\ event'.to = gastrSockets[r.sock].inc
      BY <3>1 DEF Callback
    <3>. QED
      BY <2>1, <3>1, <3>2, CallbackType, SameSessionReaches DEF DataReachesItsConnection, Reaches
  <2>2. CASE ~SameSession(r)
    BY <2>2, SocketAssumption DEF SendReply, NoEvent, Event, DataReachesItsConnection
  <2>. QED
    BY <2>1, <2>2
<1>. QED
  BY <1>1, <1>2, NoSlotStep DEF SendReply

\* RECV: the flag of the slot is reset, and no longer needs an owed reply.
LEMMA RecvReplyStep == ASSUME IInv, NEW r \in requests, RecvReply(r) PROVE IInv'
<1>1. /\ r.kind = "recv" /\ requests' = requests \ {r} /\ reading.at = "idle"
      /\ gastrSockets' = [gastrSockets EXCEPT ![r.sock].bIsRecvPending = FALSE]
      /\ UNCHANGED <<gu16SessionID, nextSock, opens, faults>>
  BY DEF RecvReply
<1>2. r \in Request /\ r.sock \in Slots /\ r.inc \in 0..MaxOpens
  BY DEF IInv, TypeOK, Request
<1>3. gastrSockets' \in [Slots -> Socket]
  BY <1>1, <1>2 DEF IInv, TypeOK, Socket
<1>4. \A t \in Slots : /\ gastrSockets'[t].inc = gastrSockets[t].inc
                       /\ gastrSockets'[t].session = gastrSockets[t].session
                       /\ gastrSockets'[t].bIsUsed = gastrSockets[t].bIsUsed
                       /\ t # r.sock => gastrSockets'[t] = gastrSockets[t]
  BY <1>1, <1>2 DEF IInv, TypeOK, Socket
<1>5. ~gastrSockets'[r.sock].bIsRecvPending
  BY <1>1, <1>2 DEF IInv, TypeOK, Socket
<1>6. /\ reading' \in Reading /\ event' \in Event /\ DataReachesItsConnection'
      /\ reading'.at # "idle" => SameSession(r) /\ reading'.inc = r.inc /\ reading'.sock = r.sock
  <2>1. CASE SameSession(r) /\ Callback("recv", r.inc, r.sock) /\ UNCHANGED reading
    <3>1. event'.from = r.inc /\ event'.to = gastrSockets[r.sock].inc
      BY <2>1 DEF Callback
    <3>2. Callback(r.kind, r.inc, r.sock)
      BY <1>1, <2>1
    <3>. QED
      BY <1>1, <2>1, <3>1, <3>2, CallbackType, SameSessionReaches
      DEF DataReachesItsConnection, Reaches, IInv, TypeOK
  <2>2. ASSUME SameSession(r), event' = NoEvent, NEW n \in 1..MaxChunks,
               reading' = [at |-> "loop", sock |-> r.sock, inc |-> r.inc, left |-> n]
        PROVE  /\ reading' \in Reading /\ event' \in Event /\ DataReachesItsConnection'
               /\ reading'.inc = r.inc /\ reading'.sock = r.sock
    BY <1>2, <2>2, SocketAssumption
    DEF Reading, NoEvent, Event, DataReachesItsConnection
  <2>3. CASE event' = NoEvent /\ UNCHANGED reading
    BY <1>1, <2>3, SocketAssumption
    DEF NoEvent, Event, DataReachesItsConnection, IInv, TypeOK
  <2>. QED
    BY <2>1, <2>2, <2>3 DEF RecvReply
<1>7. TypeOK'
  BY <1>1, <1>3, <1>6 DEF IInv, TypeOK
<1>8. CounterInv'
  BY <1>1 DEF IInv, CounterInv
<1>9. SlotInv'
  <2>1. ASSUME ~gastrSockets[r.sock].bIsUsed PROVE gastrSockets'[r.sock] = Free
    <3>1. gastrSockets'[r.sock] = [gastrSockets[r.sock] EXCEPT !.bIsRecvPending = FALSE]
      BY <1>1, <1>2 DEF IInv, TypeOK
    <3>2. gastrSockets[r.sock] = Free
      BY <2>1, <1>2 DEF IInv, SlotInv
    <3>3. Free \in Socket /\ ~Free.bIsRecvPending
      BY SocketAssumption DEF Free, Socket
    <3>4. ASSUME NEW f \in Socket, ~f.bIsRecvPending
          PROVE  [f EXCEPT !.bIsRecvPending = FALSE] = f
      BY <3>4 DEF Socket
    <3>. QED
      BY <3>1, <3>2, <3>3, <3>4
  <2>. QED
    BY <1>1, <1>4, <2>1 DEF IInv, SlotInv
<1>10. RequestInv'
  BY <1>1, <1>4, RequestsKept DEF IInv, SameConnection
<1>11. ReadingInv'
  BY <1>2, <1>4, <1>6, SameSessionReaches DEF ReadingInv
<1>12. PendingIsOwed'
  BY <1>1, <1>4, <1>5 DEF IInv, PendingIsOwed
<1>. QED
  BY <1>6, <1>7, <1>8, <1>9, <1>10, <1>11, <1>12 DEF IInv

\* The chunks: a slot in use during the loop is the one the message was for.
LEMMA ChunkStep == ASSUME IInv, ReadChunk \/ ChunkReturns PROVE IInv'
<1>1. /\ UNCHANGED <<gastrSockets, gu16SessionID, nextSock, requests, opens>>
      /\ faults' \in 0..MaxFaults /\ (faults' = 0 => faults = 0)
  <2>1. UNCHANGED <<gastrSockets, gu16SessionID, nextSock, requests, opens>>
    BY DEF ReadChunk, ChunkReturns
  <2>2. UNCHANGED faults \/ BusFault
    BY DEF ReadChunk, ChunkReturns
  <2>3. faults \in 0..MaxFaults
    BY DEF IInv, TypeOK
  <2>4. faults' \in 0..MaxFaults /\ (faults' = 0 => faults = 0)
    BY <2>2, <2>3, SocketAssumption DEF BusFault
  <2>. QED
    BY <2>1, <2>4
<1>2. reading \in Reading /\ reading.sock \in Slots /\ reading.inc \in 0..MaxOpens
      /\ reading.left \in 0..MaxChunks
  BY DEF IInv, TypeOK, Reading
<1>3. \/ reading' = NotReading
      \/ /\ reading.at # "idle"
         /\ \E a \in {"loop", "callback"}, n \in 0..MaxChunks :
              reading' = [reading EXCEPT !.at = a, !.left = n]
  <2>1. ASSUME NEW n \in 0..reading.left - 1 PROVE n \in 0..MaxChunks
    BY <1>2, SocketAssumption
  <2>2. ASSUME NEW f \in Reading
        PROVE  [f EXCEPT !.at = "loop"] = [f EXCEPT !.at = "loop", !.left = f.left]
    BY DEF Reading
  <2>3. CASE ReadChunk
    BY <2>1, <2>3 DEF ReadChunk
  <2>4. CASE ChunkReturns
    BY <1>2, <2>2, <2>4 DEF ChunkReturns
  <2>. QED
    BY <2>3, <2>4
<1>10. ASSUME NEW f \in Reading, NEW a \in {"loop", "callback"}, NEW n \in 0..MaxChunks
       PROVE  LET g == [f EXCEPT !.at = a, !.left = n]
              IN  g \in Reading /\ g.sock = f.sock /\ g.inc = f.inc
  BY DEF Reading
<1>11. NotReading \in Reading /\ NotReading.at = "idle"
  BY SocketAssumption DEF NotReading, Reading, Slots
<1>4. /\ reading' \in Reading
      /\ reading'.at # "idle" =>
           reading.at # "idle" /\ reading'.sock = reading.sock /\ reading'.inc = reading.inc
  <2>1. ASSUME NEW a \in {"loop", "callback"}, NEW n \in 0..MaxChunks, reading.at # "idle",
               reading' = [reading EXCEPT !.at = a, !.left = n]
        PROVE  reading' \in Reading /\ reading'.sock = reading.sock /\ reading'.inc = reading.inc
    <3>1. LET g == [reading EXCEPT !.at = a, !.left = n]
          IN  g \in Reading /\ g.sock = reading.sock /\ g.inc = reading.inc
      BY <1>2, <1>10
    <3>. QED
      BY <2>1, <3>1
  <2>. QED
    BY <1>3, <1>11, <2>1
<1>5. event' \in Event /\ DataReachesItsConnection'
  <2>1. ASSUME reading.at # "idle", gastrSockets[reading.sock].buffer,
               Callback("data", reading.inc, reading.sock)
        PROVE  event' \in Event /\ DataReachesItsConnection'
    <3>1. gastrSockets[reading.sock].bIsUsed
      BY <1>2, <2>1 DEF IInv, SlotInv, Free
    <3>2. Reaches(reading.inc, gastrSockets[reading.sock].inc)
      BY <2>1, <3>1 DEF IInv, ReadingInv
    <3>3. gastrSockets[reading.sock].inc \in 0..MaxOpens
      BY <1>2 DEF IInv, TypeOK, Socket
    <3>. QED
      BY <1>2, <2>1, <3>2, <3>3 DEF Callback, Event, DataReachesItsConnection, Reaches
  <2>2. ASSUME event' = NoEvent PROVE event' \in Event /\ DataReachesItsConnection'
    BY <2>2, SocketAssumption DEF NoEvent, Event, DataReachesItsConnection
  <2>. QED
    BY <2>1, <2>2 DEF ReadChunk, ChunkReturns
<1>6. TypeOK'
  BY <1>1, <1>4, <1>5 DEF IInv, TypeOK
<1>7. CounterInv' /\ SlotInv' /\ RequestInv'
  BY <1>1 DEF IInv, CounterInv, SlotInv, RequestInv
<1>8. ReadingInv'
  BY <1>1, <1>4 DEF IInv, ReadingInv
<1>9. PendingIsOwed'
  BY <1>1 DEF IInv, PendingIsOwed
<1>. QED
  BY <1>5, <1>6, <1>7, <1>8, <1>9 DEF IInv

LEMMA StepIInv == ASSUME ~ReopensInCallback, IInv, [Next]_vars PROVE IInv'
<1>1. CASE socket
  BY <1>1, SocketStep
<1>2. ASSUME NEW s \in Slots, recv(s) \/ close(s) PROVE IInv'
  BY <1>2, RecvStep, CloseStep
<1>3. ASSUME NEW s \in Slots, NEW k \in Kinds, request(k, s) PROVE IInv'
  BY <1>3, RequestStep
<1>4. ASSUME NEW r \in requests,
             \/ StatusReply(r) \/ AcceptReply(r) \/ SendReply(r) \/ RecvReply(r)
             \/ FirmwareDrops(r) \/ ReplyLost(r)
      PROVE  IInv'
  BY <1>4, StatusStep, AcceptStep, SendStep, RecvReplyStep, DropStep, LostStep
<1>5. CASE ReadChunk \/ ChunkReturns
  BY <1>5, ChunkStep
<1>6. CASE UNCHANGED vars
  BY <1>6 DEF vars, IInv, TypeOK, CounterInv, SlotInv, RequestInv, ReadingInv,
              DataReachesItsConnection, PendingIsOwed
<1>. QED
  BY <1>1, <1>2, <1>3, <1>4, <1>5, <1>6 DEF Next

LEMMA Invariance == ASSUME ~ReopensInCallback PROVE Spec => []IInv
<1>1. IInv /\ [Next]_vars => IInv'
  BY StepIInv
<1>. QED
  BY InitIInv, <1>1, PTL DEF Spec

----------------------------------------------------------------------------
\* Every slot, request and event keeps its type, the search index its range.
THEOREM SocketTypeCorrect == ASSUME ~ReopensInCallback PROVE Spec => []TypeOK
<1>1. IInv => TypeOK
  BY DEF IInv
<1>. QED
  BY Invariance, <1>1, PTL

\* However late and in whatever order the replies to send, sendto, recv and
\* recvfrom come, their callbacks reach the connection they are about, or one
\* that was opened at least Sessions - 1 connections later.
THEOREM DataIsNotMisdirected ==
  ASSUME ~ReopensInCallback PROVE Spec => []DataReachesItsConnection
<1>1. IInv => DataReachesItsConnection
  BY DEF IInv
<1>. QED
  BY Invariance, <1>1, PTL

\* Until a request or a reply is lost, a slot with bIsRecvPending set is owed a
\* RECV reply, also after late replies of earlier connections.
THEOREM PendingIsAlwaysOwed == ASSUME ~ReopensInCallback PROVE Spec => []PendingIsOwed
<1>1. IInv => PendingIsOwed
  BY DEF IInv
<1>. QED
  BY Invariance, <1>1, PTL

----------------------------------------------------------------------------
(* Before the session IDs wrap *)

\* Nothing is about connection 0, which is nobody's.
AboutSomeone ==
  /\ reading.at # "idle" => reading.inc # 0
  /\ event.kind \in {"send", "recv", "data"} => event.from # 0

LEMMA AboutStep == ASSUME IInv, AboutSomeone, [Next]_vars PROVE AboutSomeone'
<1>1. ASSUME NEW r \in requests PROVE r.inc # 0
  BY DEF IInv, RequestInv, IsSession
<1>2. ASSUME event' = NoEvent, UNCHANGED reading PROVE AboutSomeone'
  BY <1>2 DEF AboutSomeone, NoEvent
<1>3. CASE socket
  BY <1>3, <1>2 DEF socket, AppRuns
<1>4. ASSUME NEW s \in Slots, recv(s) \/ close(s) PROVE AboutSomeone'
  BY <1>4, <1>2 DEF recv, close, AppRuns
<1>5. ASSUME NEW s \in Slots, NEW k \in Kinds, request(k, s) PROVE AboutSomeone'
  BY <1>5, <1>2 DEF request, AppRuns
<1>6. ASSUME NEW r \in requests, StatusReply(r) \/ AcceptReply(r) PROVE AboutSomeone'
  <2>1. UNCHANGED reading
    BY <1>6 DEF StatusReply, AcceptReply
  <2>2. event'.kind \in {"bind", "listen", "connect", "accept"}
    <3>1. CASE StatusReply(r)
      BY <3>1 DEF StatusReply, Callback
    <3>2. CASE AcceptReply(r)
      <4>1. Callback("accept", r.inc, r.sock)
        BY <3>2, Zenon DEF AcceptReply
      <4>. QED
        BY <4>1 DEF Callback
    <3>. QED
      BY <1>6, <3>1, <3>2
  <2>. QED
    BY <2>1, <2>2 DEF AboutSomeone
<1>7. ASSUME NEW r \in requests, SendReply(r) PROVE AboutSomeone'
  BY <1>1, <1>2, <1>7 DEF SendReply, Callback, AboutSomeone
<1>8. ASSUME NEW r \in requests, RecvReply(r) PROVE AboutSomeone'
  <2>1. CASE Callback("recv", r.inc, r.sock) /\ UNCHANGED reading
    BY <1>1, <2>1 DEF Callback, AboutSomeone
  <2>2. ASSUME NEW n \in 1..MaxChunks, event' = NoEvent,
               reading' = [at |-> "loop", sock |-> r.sock, inc |-> r.inc, left |-> n]
        PROVE  AboutSomeone'
    BY <1>1, <2>2 DEF AboutSomeone, NoEvent
  <2>. QED
    BY <1>2, <1>8, <2>1, <2>2 DEF RecvReply
<1>9. ASSUME NEW r \in requests, FirmwareDrops(r) \/ ReplyLost(r) PROVE AboutSomeone'
  BY <1>9, <1>2 DEF FirmwareDrops, ReplyLost
<1>10. CASE ReadChunk
  <2>1. ASSUME NEW n \in 0..reading.left - 1, Callback("data", reading.inc, reading.sock),
               reading' = [reading EXCEPT !.at = "callback", !.left = n]
        PROVE  AboutSomeone'
    <3>1. reading'.inc = reading.inc /\ event'.from = reading.inc
      BY <2>1 DEF Callback, IInv, TypeOK, Reading
    <3>. QED
      BY <1>10, <3>1 DEF ReadChunk, AboutSomeone
  <2>2. ASSUME reading' = NotReading, event' = NoEvent PROVE AboutSomeone'
    BY <2>2 DEF AboutSomeone, NotReading, NoEvent
  <2>. QED
    BY <1>10, <2>1, <2>2 DEF ReadChunk
<1>11. CASE ChunkReturns
  <2>1. reading' = NotReading \/ reading'.inc = reading.inc
    BY <1>11 DEF ChunkReturns, IInv, TypeOK, Reading
  <2>. QED
    BY <1>11, <2>1 DEF ChunkReturns, AboutSomeone, NotReading, NoEvent
<1>12. CASE UNCHANGED vars
  BY <1>12 DEF vars, AboutSomeone
<1>. QED
  BY <1>3, <1>4, <1>5, <1>6, <1>7, <1>8, <1>9, <1>10, <1>11, <1>12 DEF Next

\* As long as no session ID has been given twice, no application that opens its
\* sockets outside the data callbacks gets the rest of a message of a closed
\* connection: both causes of a misdirected chunk are excluded, and there is no other.
THEOREM ChunksAreNotMisdirected ==
  ASSUME ~ReopensInCallback, MaxOpens < Sessions
  PROVE  Spec => []ChunkReachesItsConnection
<1>1. Init => AboutSomeone
  BY DEF Init, NotReading, NoEvent, AboutSomeone
<1>2. IInv /\ AboutSomeone /\ [Next]_vars => AboutSomeone'
  BY AboutStep
<1>3. IInv /\ AboutSomeone => ChunkReachesItsConnection
  <2> SUFFICES ASSUME IInv, AboutSomeone, event.kind = "data" PROVE event.from = event.to
    BY DEF ChunkReachesItsConnection
  <2>1. event.from \in 1..MaxOpens /\ event.to \in 0..MaxOpens
    BY SocketAssumption DEF IInv, TypeOK, Event, AboutSomeone
  <2>2. event.to = event.from \/ event.to >= event.from + Sessions - 1
    BY DEF IInv, DataReachesItsConnection
  <2>. QED
    BY <2>1, <2>2, SocketAssumption
<1>. QED
  BY <1>1, <1>2, <1>3, Invariance, PTL DEF Spec
=============================================================================
