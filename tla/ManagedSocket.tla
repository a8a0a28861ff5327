---------------------------- MODULE ManagedSocket ----------------------------
(***************************************************************************)
(* ManagedWebSocketSession of the TypeScript SDK: one client object that   *)
(* keeps a websocket to the backend open while it is in demand.  Callers   *)
(* await ensureConnected; sockets open, fail and close in their own time;  *)
(* the handshake and the before-connect hook may take time as well, as     *)
(* their types allow; a timer reconnects after an unexpected close and     *)
(* another one closes an idle connection.                                  *)
(*                                                                         *)
(* Listeners ask whether their socket is still the session's before they   *)
(* do anything, so detaching them is left out.                             *)
(***************************************************************************)
EXTENDS Integers, Sequences, FiniteSets

CONSTANTS
  Requests,    \* calls of ensureConnected
  MaxSockets,  \* bound: sockets the session creates
  MaxCloses    \* bound: calls of close()

ASSUME SocketAssumption == MaxSockets \in Nat \ {0} /\ MaxCloses \in Nat

VARIABLES
  sockets,  \* every socket created: [ready, opened, hand]
  session,  \* the object's fields: [socket, maintain, shaken, reason,
            \* retry, idle], and fallback: does advanceEndpoint() find another endpoint?
  ensure,   \* request -> its place in ensureConnected
  \* History, read by the properties only.
  closes,   \* calls of close()
  reasonOf, \* the socket intentionalCloseReason was set for
  gaveUp,   \* the last attempt ended in a way that is not tried again
  displaced,\* sockets replaced while they were open
  borrowed  \* sockets that were the session's when another one's handshake was done

socketVars == <<sockets, session, ensure, closes, reasonOf, gaveUp, displaced, borrowed>>

SocketInit ==
  /\ sockets = <<>>
  /\ \E hasFallback \in BOOLEAN :
       session = [socket |-> 0, maintain |-> FALSE, shaken |-> FALSE, reason |-> "",
                  retry |-> FALSE, idle |-> FALSE, fallback |-> hasFallback]
  /\ ensure = [r \in Requests |-> "new"]
  /\ closes = 0 /\ reasonOf = 0 /\ gaveUp = FALSE /\ displaced = {} /\ borrowed = {}

-----------------------------------------------------------------------------
(* Helpers *)

Ready(ss, i) == IF i = 0 THEN "none" ELSE ss[i].ready

\* isOpen(): what sendMessage asks before it writes.
SessionOpen(c, ss) == c.shaken /\ Ready(ss, c.socket) = "open"

\* syncIdleTimer: shouldHoldOpen may leave the timer off.
SyncIdle(c, ss) ==
  \E on \in IF c.maintain /\ SessionOpen(c, ss) THEN BOOLEAN ELSE {FALSE} :
    session' = [c EXCEPT !.idle = on]

\* rejectConnectWaiters and resolveConnectWaiters.
Settle(how) == ensure' = [r \in Requests |-> IF ensure[r] = "waiting" THEN how ELSE ensure[r]]

CanCreate(c, ss) == ~SessionOpen(c, ss) /\ Ready(ss, c.socket) # "connecting"

NewSocket == [ready |-> "connecting", opened |-> FALSE, hand |-> "none"]

\* Mutant: connect() forgets that the handshake belongs to a socket.
TakesSocketShaken(c) == [c EXCEPT !.maintain = TRUE, !.socket = Len(sockets) + 1]

TakesSocket(c) == [c EXCEPT !.maintain = TRUE, !.socket = Len(sockets) + 1, !.shaken = FALSE]

\* The rest of connect(): nothing if the socket is open or connecting, else a new one.
Connect(c) ==
  IF CanCreate(c, sockets)
  THEN /\ Len(sockets) < MaxSockets
       /\ sockets' = Append(sockets, NewSocket)
       /\ session' = TakesSocket(c)
       /\ displaced' = displaced \cup {i \in {c.socket} : Ready(sockets, i) = "open"}
       /\ gaveUp' = FALSE
  ELSE /\ session' = [c EXCEPT !.maintain = TRUE]
       /\ UNCHANGED <<sockets, displaced, gaveUp>>

-----------------------------------------------------------------------------
(* ensureConnected *)

EnsureConnected(r) ==
  /\ ensure[r] = "new"
  /\ session' = [session EXCEPT !.maintain = TRUE, !.retry = FALSE, !.idle = FALSE]
  /\ ensure' = [ensure EXCEPT ![r] = "before"]
  /\ UNCHANGED <<sockets, closes, reasonOf, gaveUp, displaced, borrowed>>

BeforeConnectThrows(r) ==
  /\ ensure[r] = "before"
  /\ ensure' = [ensure EXCEPT ![r] = "failed"]
  /\ gaveUp' = TRUE
  /\ UNCHANGED <<sockets, session, closes, reasonOf, displaced, borrowed>>

BeforeConnectDone(r) ==
  /\ ensure[r] = "before"
  /\ UNCHANGED <<closes, reasonOf, borrowed>>
  /\ \/ /\ SessionOpen(session, sockets)
        /\ ensure' = [ensure EXCEPT ![r] = "connected"]
        /\ SyncIdle(session, sockets)
        /\ UNCHANGED <<sockets, gaveUp, displaced>>
     \/ /\ ~SessionOpen(session, sockets)
        /\ ensure' = [ensure EXCEPT ![r] = "waiting"]
        /\ Connect(session)

\* createSocket throws: every waiter is rejected, this one included.
CreateThrows(r) ==
  /\ ensure[r] = "before" /\ CanCreate(session, sockets)
  /\ session' = [session EXCEPT !.maintain = TRUE]
  /\ ensure' = [q \in Requests |-> IF q = r \/ ensure[q] = "waiting" THEN "failed" ELSE ensure[q]]
  /\ gaveUp' = TRUE
  /\ UNCHANGED <<sockets, closes, reasonOf, displaced, borrowed>>

WaitTimesOut(r) ==
  /\ ensure[r] = "waiting"
  /\ ensure' = [ensure EXCEPT ![r] = "failed"]
  /\ UNCHANGED <<sockets, session, closes, reasonOf, gaveUp, displaced, borrowed>>

-----------------------------------------------------------------------------
(* Events of a socket *)

Opens(i) ==
  /\ sockets[i].ready = "connecting"
  /\ sockets' = [sockets EXCEPT ![i].ready = "open",
                                ![i].opened = (session.socket = i),
                                ![i].hand = IF session.socket = i THEN "building" ELSE "none"]
  /\ UNCHANGED <<session, ensure, closes, reasonOf, gaveUp, displaced, borrowed>>

\* The handshake is there and is written to the socket it was built for, wherever
\* the session is by now; a socket that is closing drops it without a word.
HandshakeDone(i) ==
  /\ sockets[i].hand = "building"
  /\ sockets' = [sockets EXCEPT ![i].hand = IF sockets[i].ready = "open" THEN "sent" ELSE "lost"]
  /\ Settle("connected")
  /\ SyncIdle([session EXCEPT !.shaken = TRUE], sockets)
  /\ borrowed' = borrowed \cup ({session.socket} \ {i})
  /\ UNCHANGED <<closes, reasonOf, gaveUp, displaced>>

HandshakeThrows(i) ==
  /\ sockets[i].hand = "building"
  /\ Settle("failed")
  /\ IF session.socket = i
     THEN /\ sockets' = [sockets EXCEPT ![i].hand = "failed",
                           ![i].ready = IF @ = "open" THEN "closing" ELSE @]
          /\ session' = [session EXCEPT !.reason = "handshake-failed", !.socket = 0, !.shaken = FALSE]
          /\ reasonOf' = i /\ gaveUp' = TRUE
     ELSE /\ sockets' = [sockets EXCEPT ![i].hand = "failed"]
          /\ UNCHANGED <<session, reasonOf, gaveUp>>
  /\ UNCHANGED <<closes, displaced, borrowed>>

\* createSocket throws outside ensureConnected: nothing is tried again.
NoNewSocket(c) ==
  session' = [c EXCEPT !.maintain = TRUE] /\ gaveUp' = TRUE

\* The connection attempt fails: an error event, a close event follows.
Errors(i) ==
  /\ sockets[i].ready = "connecting"
  /\ LET failed == [sockets EXCEPT ![i].ready = "closing"] IN
     \/ /\ session.socket # i
        /\ sockets' = failed /\ UNCHANGED <<session, ensure, gaveUp>>
     \/ /\ session.socket = i /\ session.maintain /\ session.fallback
        /\ UNCHANGED ensure
        /\ \/ /\ Len(sockets) < MaxSockets
              /\ sockets' = Append(failed, NewSocket)
              /\ session' = TakesSocket(session)
              /\ gaveUp' = FALSE
           \/ /\ sockets' = failed
              /\ NoNewSocket([session EXCEPT !.socket = 0, !.shaken = FALSE])
     \/ /\ session.socket = i /\ ~(session.maintain /\ session.fallback)
        /\ sockets' = failed /\ Settle("failed") /\ UNCHANGED <<session, gaveUp>>
  /\ UNCHANGED <<closes, reasonOf, displaced, borrowed>>

\* Mutant: only a socket that was open once is replaced.
ReconnectsOpened(i) == session.maintain /\ session.reason = "" /\ sockets[i].opened

\* shouldReconnect: the close was not intended and a connection is in demand.
Reconnects(i) == session.maintain /\ session.reason = ""

\* The close event, whoever closed.
Closed(i) ==
  /\ sockets[i].ready \in {"connecting", "open", "closing"}
  /\ sockets' = [sockets EXCEPT ![i].ready = "closed"]
  /\ IF session.socket # i
     THEN UNCHANGED <<session, ensure, gaveUp>>
     ELSE /\ session' = [session EXCEPT !.socket = 0, !.shaken = FALSE, !.idle = FALSE,
                                        !.reason = "", !.retry = @ \/ Reconnects(i)]
          /\ gaveUp' = (gaveUp \/ (session.reason # "" /\ reasonOf # i))
          /\ IF Reconnects(i) \/ sockets[i].opened THEN UNCHANGED ensure ELSE Settle("failed")
  /\ UNCHANGED <<closes, reasonOf, displaced, borrowed>>

-----------------------------------------------------------------------------
(* Timers, traffic and close() *)

RetryFires ==
  /\ session.retry
  /\ \/ Connect([session EXCEPT !.retry = FALSE])
     \/ /\ CanCreate(session, sockets)
        /\ NoNewSocket([session EXCEPT !.retry = FALSE])
        /\ UNCHANGED <<sockets, displaced>>
  /\ UNCHANGED <<ensure, closes, reasonOf, borrowed>>

\* noteTraffic: a message was sent or has arrived.
Traffic ==
  /\ session.maintain /\ Ready(sockets, session.socket) = "open"
  /\ SyncIdle(session, sockets)
  /\ UNCHANGED <<sockets, ensure, closes, reasonOf, gaveUp, displaced, borrowed>>

\* client.close() of an open or connecting socket.
CloseSocket(i) ==
  sockets' = [j \in DOMAIN sockets |->
                IF j = i /\ sockets[j].ready \in {"connecting", "open"}
                THEN [sockets[j] EXCEPT !.ready = "closing"] ELSE sockets[j]]

\* The connection is idle; the socket stays the session's until it has closed.
IdleFires ==
  /\ session.idle
  /\ session' = [session EXCEPT !.reason = "idle-timeout", !.maintain = FALSE,
                                !.retry = FALSE, !.idle = FALSE]
  /\ reasonOf' = session.socket
  /\ CloseSocket(session.socket)
  /\ UNCHANGED <<ensure, closes, gaveUp, displaced, borrowed>>

LetGo == [session EXCEPT !.socket = 0, !.maintain = FALSE, !.shaken = FALSE,
                         !.reason = "close", !.retry = FALSE, !.idle = FALSE]

CloseSession ==
  /\ closes < MaxCloses
  /\ closes' = closes + 1
  /\ session' = LetGo
  /\ reasonOf' = session.socket
  /\ CloseSocket(session.socket)
  /\ Settle("failed")
  /\ UNCHANGED <<gaveUp, displaced, borrowed>>

SocketNext ==
  \/ \E r \in Requests :
       \/ EnsureConnected(r) \/ BeforeConnectThrows(r) \/ BeforeConnectDone(r)
       \/ CreateThrows(r) \/ WaitTimesOut(r)
  \/ \E i \in DOMAIN sockets :
       Opens(i) \/ HandshakeDone(i) \/ HandshakeThrows(i) \/ Errors(i) \/ Closed(i)
  \/ RetryFires \/ Traffic \/ IdleFires \/ CloseSession

SocketSpec == SocketInit /\ [][SocketNext]_socketVars

-----------------------------------------------------------------------------
(* Properties *)

\* While a connection is wanted the session has a socket, will try again or is
\* about to, unless an attempt ended in one of the ways nothing retries: the hook,
\* the constructor or the handshake threw, or the close event took the reason of
\* an earlier socket for its own.  While none is wanted, after close() or an idle
\* timeout, no timer is left to ask for one.  (the close and error listeners,
\* scheduleReconnect, close, syncIdleTimer)
TriesWhileWanted ==
  /\ session.maintain /\ session.socket = 0 =>
       session.retry \/ gaveUp \/ \E r \in Requests : ensure[r] = "before"
  /\ ~session.maintain => ~session.retry /\ ~session.idle

\* A session that is open, so that messages are written, has sent the handshake of
\* this very socket before; and no socket it has left behind is alive.  The exceptions
\* take a handshake that is still being built: when it is done for a socket that has
\* been replaced it counts for the new one, and a caller that comes meanwhile finds
\* the session neither open nor connecting and replaces an open socket.  (connect)
OneShakenSocket ==
  /\ SessionOpen(session, sockets) =>
       sockets[session.socket].hand = "sent" \/ session.socket \in borrowed
  /\ \A i \in DOMAIN sockets :
       sockets[i].ready \in {"connecting", "open"} => i = session.socket \/ i \in displaced

=============================================================================
