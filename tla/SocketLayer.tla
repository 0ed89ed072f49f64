----------------------------- MODULE SocketLayer -----------------------------
(***************************************************************************)
(* The asynchronous socket layer (socket.c).  The application allocates    *)
(* slots of gastrSockets and sends requests; the firmware answers each one *)
(* at some later time, in any order, also after the socket was closed and  *)
(* its slot given to another connection.  Every request carries the        *)
(* session ID of its socket, which m2m_ip_cb compares with the one the     *)
(* slot has when the reply arrives.  A received message is handed to the   *)
(* application in chunks of its buffer; each chunk is a callback that may  *)
(* call the socket functions again.  All of this runs in one task.         *)
(* What connection a slot is used for is told by a history field, inc.     *)
(***************************************************************************)
EXTENDS Naturals, FiniteSets

CONSTANTS NSlots,            \* TCP_SOCK_MAX or UDP_SOCK_MAX
          Sessions,          \* session IDs are modulo this, 2^16 in the code
          MaxOpens,          \* bound on the sockets opened and accepted
          MaxRequests,       \* bound on the requests the firmware owes a reply
          MaxChunks,         \* bound on the chunks of a received message
          MaxFaults,         \* bound on the requests and replies that are lost on the bus
          Kinds,             \* the requests the application makes
          ReopensInCallback  \* it calls socket() from a data callback

ASSUME SocketAssumption ==
  /\ NSlots \in Nat \ {0} /\ Sessions \in Nat \ {0, 1} /\ MaxOpens \in Nat
  /\ MaxRequests \in Nat /\ MaxChunks \in Nat \ {0} /\ MaxFaults \in Nat
  /\ Kinds \subseteq {"bind", "listen", "connect", "send", "recv"}
  /\ ReopensInCallback \in BOOLEAN

VARIABLES gastrSockets,  \* the slots
          gu16SessionID, \* last session ID given
          nextSock,      \* u8NextTcpSock, where the next search starts
          requests,      \* firmware: requests it may still answer
          reading,       \* Socket_ReadSocketData in progress
          event,         \* the application callback made by the last step
          opens,         \* history: connections opened or accepted
          faults         \* requests and replies lost so far

vars == <<gastrSockets, gu16SessionID, nextSock, requests, reading, event, opens, faults>>

Slots == 0..NSlots - 1
Free == [bIsUsed |-> FALSE, session |-> 0, bIsRecvPending |-> FALSE, buffer |-> FALSE, inc |-> 0]
Socket == [bIsUsed : BOOLEAN, session : 0..Sessions - 1, bIsRecvPending : BOOLEAN,
           buffer : BOOLEAN, inc : 0..MaxOpens]
Request == [id : 1..MaxRequests, kind : Kinds \cup {"accept"}, sock : Slots,
            session : 0..Sessions - 1, inc : 0..MaxOpens]
NotReading == [at |-> "idle", sock |-> 0, inc |-> 0, left |-> 0]
Reading == [at : {"idle", "loop", "callback"}, sock : Slots, inc : 0..MaxOpens, left : 0..MaxChunks]
\* from: the connection the reply is about; to: the one that has the slot.
NoEvent == [kind |-> "none", from |-> 0, to |-> 0]
Event == [kind : Kinds \cup {"none", "accept", "data"}, from : 0..MaxOpens, to : 0..MaxOpens]

Init == /\ gastrSockets = [s \in Slots |-> Free]
        /\ gu16SessionID = 0 /\ nextSock = 0
        /\ requests = {} /\ reading = NotReading /\ event = NoEvent
        /\ opens = 0 /\ faults = 0

\* The application runs outside m2m_ip_cb or in the callback of a chunk; the
\* other callbacks are the last thing m2m_ip_cb does.
AppRuns == reading.at \in {"idle", "callback"} /\ event' = NoEvent

\* Mutant: the wrapped counter does not skip 0.
NextSession_NoSkip(id) == (id + 1) % Sessions

NextSession(id) == IF (id + 1) % Sessions = 0 THEN 1 ELSE (id + 1) % Sessions

BusFault == faults < MaxFaults /\ faults' = faults + 1

\* hif_send to the firmware, or fails.
SOCKET_REQUEST(k, s) ==
  \/ \E i \in 1..MaxRequests :
       /\ \A r \in requests : r.id # i
       /\ \A j \in 1..i - 1 : \E r \in requests : r.id = j
       /\ requests' = requests \cup {[id |-> i, kind |-> k, sock |-> s,
                                      session |-> gastrSockets[s].session,
                                      inc |-> gastrSockets[s].inc]}
       /\ UNCHANGED faults
  \/ BusFault /\ UNCHANGED requests

----------------------------------------------------------------------------
(* The application's calls *)

\* The slots in the order the search of socket() visits them.
Visited(n) == (nextSock + n) % NSlots

\* Mutant: the next search does not wrap to the first slot.
socket_NoWrap ==
  /\ AppRuns /\ opens < MaxOpens
  /\ reading.at = "callback" => ReopensInCallback
  /\ \E n \in Slots :
       /\ ~gastrSockets[Visited(n)].bIsUsed
       /\ \A m \in 0..n - 1 : gastrSockets[Visited(m)].bIsUsed
       /\ nextSock' = Visited(n) + 1
       /\ gastrSockets' = [gastrSockets EXCEPT ![Visited(n)] =
            [Free EXCEPT !.bIsUsed = TRUE, !.session = NextSession(gu16SessionID),
                         !.inc = opens + 1]]
  /\ gu16SessionID' = NextSession(gu16SessionID)
  /\ opens' = opens + 1
  /\ UNCHANGED <<requests, reading, faults>>

socket ==
  /\ AppRuns /\ opens < MaxOpens
  /\ reading.at = "callback" => ReopensInCallback
  /\ \E n \in Slots :
       /\ ~gastrSockets[Visited(n)].bIsUsed
       /\ \A m \in 0..n - 1 : gastrSockets[Visited(m)].bIsUsed
       /\ nextSock' = Visited(n + 1)
       /\ gastrSockets' = [gastrSockets EXCEPT ![Visited(n)] =
            [Free EXCEPT !.bIsUsed = TRUE, !.session = NextSession(gu16SessionID),
                         !.inc = opens + 1]]
  /\ gu16SessionID' = NextSession(gu16SessionID)
  /\ opens' = opens + 1
  /\ UNCHANGED <<requests, reading, faults>>

\* bind, listen, connect, send and sendto check the slot and send a request.
request(k, s) ==
  /\ AppRuns /\ k \in Kinds \ {"recv"}
  /\ gastrSockets[s].bIsUsed
  /\ SOCKET_REQUEST(k, s)
  /\ UNCHANGED <<gastrSockets, gu16SessionID, nextSock, reading, opens>>

\* recv and recvfrom: the flag is set before the request is sent, and stays set
\* when that fails; while it is set only the buffer is replaced.
recv(s) ==
  /\ AppRuns /\ "recv" \in Kinds
  /\ gastrSockets[s].bIsUsed
  /\ gastrSockets' = [gastrSockets EXCEPT ![s].buffer = TRUE, ![s].bIsRecvPending = TRUE]
  /\ IF gastrSockets[s].bIsRecvPending THEN UNCHANGED <<requests, faults>>
                                       ELSE SOCKET_REQUEST("recv", s)
  /\ UNCHANGED <<gu16SessionID, nextSock, reading, opens>>

\* The firmware forgets the requests of the connection when the close command
\* reaches it, except the replies that are under way already (FirmwareDrops).
close(s) ==
  /\ AppRuns
  /\ gastrSockets[s].bIsUsed
  /\ gastrSockets' = [gastrSockets EXCEPT ![s] = Free]
  /\ UNCHANGED <<gu16SessionID, nextSock, requests, reading, opens, faults>>

FirmwareDrops(r) ==
  /\ r.inc # gastrSockets[r.sock].inc
  /\ requests' = requests \ {r}
  /\ event' = NoEvent
  /\ UNCHANGED <<gastrSockets, gu16SessionID, nextSock, reading, opens, faults>>

----------------------------------------------------------------------------
(* m2m_ip_cb: one reply, when the task is not in the callback of another *)

\* A firmware that listens sends an ACCEPT for every connection from then on.
AfterReply(r) ==
  IF r.kind \in {"listen", "accept"}
  THEN (requests \ {r}) \cup {[r EXCEPT !.kind = "accept"]}
  ELSE requests \ {r}

Callback(k, inc, s) == event' = [kind |-> k, from |-> inc, to |-> gastrSockets[s].inc]

\* hif_receive of the reply itself fails: nothing is done.
ReplyLost(r) ==
  /\ reading.at = "idle"
  /\ BusFault
  /\ requests' = AfterReply(r)
  /\ event' = NoEvent
  /\ UNCHANGED <<gastrSockets, gu16SessionID, nextSock, reading, opens>>

\* BIND, LISTEN and CONNECT: the application gets the status.
StatusReply(r) ==
  /\ reading.at = "idle" /\ r.kind \in {"bind", "listen", "connect"}
  /\ Callback(r.kind, r.inc, r.sock)
  /\ requests' = AfterReply(r)
  /\ UNCHANGED <<gastrSockets, gu16SessionID, nextSock, reading, opens, faults>>

\* ACCEPT: the firmware picks a slot no connection uses, or reports an error.
AcceptReply(r) ==
  /\ reading.at = "idle" /\ r.kind = "accept"
  /\ Callback("accept", r.inc, r.sock)
  /\ \/ \E c \in Slots :
          /\ ~gastrSockets[c].bIsUsed /\ opens < MaxOpens
          /\ gastrSockets' = [gastrSockets EXCEPT ![c].bIsUsed = TRUE, ![c].inc = opens + 1,
                                                  ![c].session = NextSession(gu16SessionID)]
          /\ gu16SessionID' = NextSession(gu16SessionID)
          /\ opens' = opens + 1
     \/ UNCHANGED <<gastrSockets, gu16SessionID, opens>>
  /\ UNCHANGED <<nextSock, requests, reading, faults>>

SameSession(r) == r.session = gastrSockets[r.sock].session

SendReply(r) ==
  /\ reading.at = "idle" /\ r.kind = "send"
  /\ requests' = requests \ {r}
  /\ IF SameSession(r) THEN Callback("send", r.inc, r.sock) ELSE event' = NoEvent
  /\ UNCHANGED <<gastrSockets, gu16SessionID, nextSock, reading, opens, faults>>

\* Mutant: the pending flag is not reset.
RecvReply_KeepsPending(r) ==
  /\ reading.at = "idle" /\ r.kind = "recv"
  /\ requests' = requests \ {r}
  /\ SameSession(r) /\ Callback("recv", r.inc, r.sock)
  /\ UNCHANGED <<gastrSockets, gu16SessionID, nextSock, reading, opens, faults>>

\* The pending flag of the slot is reset before the session is looked at.  A
\* status without data is a callback at once, data is read in chunks.
RecvReply(r) ==
  /\ reading.at = "idle" /\ r.kind = "recv"
  /\ requests' = requests \ {r}
  /\ gastrSockets' = [gastrSockets EXCEPT ![r.sock].bIsRecvPending = FALSE]
  /\ \/ SameSession(r) /\ Callback("recv", r.inc, r.sock) /\ UNCHANGED reading
     \/ /\ SameSession(r) /\ gastrSockets[r.sock].bIsUsed /\ gastrSockets[r.sock].buffer
        /\ \E n \in 1..MaxChunks :
             reading' = [at |-> "loop", sock |-> r.sock, inc |-> r.inc, left |-> n]
        /\ event' = NoEvent
     \/ /\ ~(SameSession(r) /\ gastrSockets[r.sock].bIsUsed /\ gastrSockets[r.sock].buffer)
        /\ event' = NoEvent /\ UNCHANGED reading
  /\ UNCHANGED <<gu16SessionID, nextSock, opens, faults>>

----------------------------------------------------------------------------
(* The loop of Socket_ReadSocketData: the slot is looked up again for every *)
(* chunk; with no buffer, or on the bus, hif_receive fails: the loop ends.  *)

ReadChunk ==
  /\ reading.at = "loop"
  /\ \/ /\ gastrSockets[reading.sock].buffer
        /\ \E n \in 0..reading.left - 1 :
             reading' = [reading EXCEPT !.at = "callback", !.left = n]
        /\ Callback("data", reading.inc, reading.sock) /\ UNCHANGED faults
     \/ /\ ~gastrSockets[reading.sock].buffer
        /\ reading' = NotReading /\ event' = NoEvent /\ UNCHANGED faults
     \/ BusFault /\ reading' = NotReading /\ event' = NoEvent
  /\ UNCHANGED <<gastrSockets, gu16SessionID, nextSock, requests, opens>>

ChunkReturns ==
  /\ reading.at = "callback"
  /\ reading' = IF reading.left = 0 \/ ~gastrSockets[reading.sock].bIsUsed
                THEN NotReading ELSE [reading EXCEPT !.at = "loop"]
  /\ event' = NoEvent
  /\ UNCHANGED <<gastrSockets, gu16SessionID, nextSock, requests, opens, faults>>

----------------------------------------------------------------------------
Next ==
  \/ socket
  \/ \E s \in Slots : recv(s) \/ close(s) \/ \E k \in Kinds : request(k, s)
  \/ \E r \in requests : \/ StatusReply(r) \/ AcceptReply(r) \/ SendReply(r) \/ RecvReply(r)
                         \/ FirmwareDrops(r) \/ ReplyLost(r)
  \/ ReadChunk \/ ChunkReturns

Spec == Init /\ [][Next]_vars

----------------------------------------------------------------------------
(* Properties *)

\* The slots, the search index u8NextTcpSock and the session counter stay in range.
TypeOK ==
  /\ gastrSockets \in [Slots -> Socket] /\ gu16SessionID \in 0..Sessions - 1
  /\ nextSock \in Slots /\ requests \subseteq Request /\ reading \in Reading
  /\ event \in Event /\ opens \in 0..MaxOpens /\ faults \in 0..MaxFaults

\* A RECV or SEND callback is about the connection that has the slot: not about
\* one that was closed, and not for a slot that nobody has.  The only exception is
\* a slot that was given away so much later that the session IDs have wrapped:
\* the ID 0 is skipped, so that takes Sessions - 1 connections.
DataReachesItsConnection ==
  event.kind \in {"send", "recv", "data"} =>
    event.to = event.from \/ event.to >= event.from + Sessions - 1

\* The same of the chunks alone, for an application that opens sockets in its
\* callbacks: the rest of a closed connection's message is "discarded"
\* (socket.h:1828) and not given to the next one.
ChunkReachesItsConnection == event.kind = "data" => event.from = event.to

\* bIsRecvPending is set only while the firmware owes a reply to a recv of this
\* connection, also when the slot, and a reply under way, were another's before:
\* otherwise recv() would return success and never be answered.  A request or a
\* reply lost on the bus breaks this for good (socket.c:867, :311).
PendingIsOwed ==
  faults = 0 =>
    \A s \in Slots : gastrSockets[s].bIsRecvPending =>
      \E r \in requests : r.kind = "recv" /\ r.sock = s /\ r.inc = gastrSockets[s].inc

\* "The session ID is used to distinguish different socket connections by
\* comparing the assigned session ID to the one reported by the firmware"
\* (socket.c:553): a BIND or CONNECT status is that of the connection that has
\* the slot.
StatusReachesItsConnection ==
  event.kind \in {"bind", "connect"} => event.from = event.to
=============================================================================
