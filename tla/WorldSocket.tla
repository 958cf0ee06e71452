---------------------------- MODULE WorldSocket ----------------------------
(***************************************************************************)
(* One connection of a game client: the network thread that owns it, the   *)
(* threads of the world that send through it and close it, and the session *)
(* they share.                                                             *)
(*                                                                         *)
(*   src/src/server/game/Server/WorldSocket.cpp                            *)
(*   src/src/server/shared/Networking/Socket.h (without IOCP)              *)
(*   src/src/server/shared/Networking/NetworkThread.h                      *)
(*   src/src/common/Threading/MPSCQueue.h, as module MPSCQueue             *)
(*                                                                         *)
(* The network thread runs one handler of its io_context at a time; a      *)
(* handler is cut where it touches what other threads touch: the queue,    *)
(* _closed, _worldSession and its lock.                                    *)
(***************************************************************************)
EXTENDS Integers, Sequences, SequencesExt

CONSTANTS
    Sender,         \* the world thread and the map workers
    MaxPackets,     \* a bound: packets beyond it are never sent
    SendBufferSize, \* _sendBufferSize
    PacketSize,     \* the sizes of packets
    nullptr

ASSUME SocketAssumption ==
    /\ MaxPackets \in Nat /\ MaxPackets >= 2
    /\ SendBufferSize \in Nat \ {0}
    /\ PacketSize \subseteq Nat \ {0} /\ PacketSize # {}
    /\ nullptr \notin Nat

VARIABLES
    _head, _tail, NextOf, Data, at, node, prevHead, freed, entered,
    net,            \* where the network thread is
    after,          \* where it goes from OnClose
    inUpdate,       \* whether HandleQueue was called by Socket::Update
    buffer,         \* the local variable of WorldSocket::Update
    _writeQueue, _isWritingAsync, _closed, _closing,
    reads,          \* how many async_read_some have been started and not completed
    stage,          \* how far the authentication has come
    _worldSession,  \* whether the pointer is set
    sessionDeleted,
    inOnClose,      \* the sender that is between _closed.exchange and OnClose
    removed,        \* whether NetworkThread::Update has erased the socket
    written,        \* the packets the network took, in order
    broken          \* whether the connection has failed

bufferQueue == INSTANCE MPSCQueue WITH Producer <- Sender, MaxNodes <- MaxPackets

queueVars == <<_head, _tail, NextOf, Data, at, node, prevHead, freed, entered>>
control == <<net, after, inUpdate>>
writing == <<buffer, _writeQueue, _isWritingAsync, written>>
session == <<stage, _worldSession, sessionDeleted, inOnClose, removed>>
vars == <<queueVars, control, writing, _closed, _closing, reads, session, broken>>

Packet == 1..MaxPackets

(* There is one _readBuffer: no read waits for data while the buffer is    *)
(* being read.  And nothing is read between CMSG_AUTH_SESSION and the      *)
(* answer that brings the key to decrypt what follows.                     *)
ReadsInTurn ==
    /\ net = "read" => reads = 0
    /\ stage = "account" => reads = 0 /\ net # "read"

TypeOK ==
    /\ bufferQueue!TypeOK(PacketSize)
    /\ net \in {"poll", "drain", "update", "write", "queries", "read", "usePing",
                "usePacket", "useDuplicate", "onClose"}
    /\ after \in {"poll", "queries"}
    /\ inUpdate \in BOOLEAN
    /\ buffer \in Seq(Packet)
    /\ _writeQueue \in Seq(Seq(Packet))
    /\ {_isWritingAsync, _closed, _closing} \subseteq BOOLEAN
    /\ reads \in 0..1
    /\ stage \in {"ip", "challenge", "account", "permissions", "world", "refused"}
    /\ {_worldSession, sessionDeleted, removed, broken} \subseteq BOOLEAN
    /\ inOnClose \subseteq Sender
    /\ written \in Seq(Packet)
    /\ ReadsInTurn

(* A socket when its thread has added it: WorldSocket::Start has asked the *)
(* database about the address.                                             *)
Init ==
    /\ bufferQueue!Init
    /\ net = "poll" /\ after = "poll" /\ inUpdate = FALSE
    /\ buffer = << >> /\ _writeQueue = << >> /\ _isWritingAsync = FALSE
    /\ written = << >>
    /\ _closed = FALSE /\ _closing = FALSE
    /\ reads = 0
    /\ stage = "ip" /\ _worldSession = FALSE /\ sessionDeleted = FALSE
    /\ inOnClose = {} /\ removed = FALSE /\ broken = FALSE

IsOpen == ~_closed /\ ~_closing

(* Sending fails once the connection is broken, or shut down: CloseSocket  *)
(* does that before OnClose.                                               *)
ShutDown == _closed /\ net # "onClose" /\ inOnClose = {}
CannotSend == broken \/ ShutDown

(* The network thread holds _worldSessionLock while it uses the session.   *)
LockIsHeld == net \in {"usePing", "usePacket", "useDuplicate"}

-----------------------------------------------------------------------------
(* A definition whose name ends in _Wrong is the definition that follows   *)
(* it with a plausible mistake; the properties are tried against it.       *)

(* CloseSocket by the network thread, which then goes to where.            *)
CloseAndGo(where) ==
    IF _closed THEN net' = where /\ UNCHANGED <<_closed, after>>
    ELSE net' = "onClose" /\ after' = where /\ _closed' = TRUE

(* OnClose takes the lock.                                                 *)
MayClear_Wrong == TRUE
MayClear == ~LockIsHeld

OnClose ==
    /\ net = "onClose"
    /\ net' = after
    /\ _worldSession' = FALSE
    /\ UNCHANGED <<queueVars, after, inUpdate, writing, _closed, _closing, reads,
                   stage, sessionDeleted, inOnClose, removed, broken>>

-----------------------------------------------------------------------------
(* WorldSocket::Update and Socket::Update, every ten milliseconds.         *)

Timer ==
    /\ net = "poll" /\ ~removed
    /\ net' = "drain"
    /\ UNCHANGED <<queueVars, after, inUpdate, writing, _closed, _closing, reads, session, broken>>

SizeOf(packets) == FoldLeft(LAMBDA size, p : size + Data[p], 0, packets)

(* What one packet does to the buffer and to the write queue.  A packet    *)
(* that does not fit makes the buffer a message, even an empty one, and    *)
(* one that fits in no buffer becomes a message of its own.                *)
Flushes(p) == SizeOf(buffer) + Data[p] > SendBufferSize
IsLarge(p) == Data[p] > SendBufferSize
Messages_Wrong(p) ==
    IF IsLarge(p) THEN << <<p>> >> ELSE IF Flushes(p) THEN <<buffer>> ELSE << >>
Messages(p) ==
    (IF Flushes(p) THEN <<buffer>> ELSE << >>) \o (IF IsLarge(p) THEN << <<p>> >> ELSE << >>)
BufferAfter(p) ==
    (IF Flushes(p) THEN << >> ELSE buffer) \o (IF IsLarge(p) THEN << >> ELSE <<p>>)

Drain ==
    /\ net = "drain"
    /\ bufferQueue!Dequeue
    /\ _writeQueue' = _writeQueue \o Messages(NextOf[_tail])
    /\ buffer' = BufferAfter(NextOf[_tail])
    /\ UNCHANGED <<control, _isWritingAsync, written, _closed, _closing, reads, session, broken>>

DrainEnds ==
    /\ net = "drain"
    /\ ~ bufferQueue!HasNext
    /\ net' = "update"
    /\ _writeQueue' = IF buffer = << >> THEN _writeQueue ELSE Append(_writeQueue, buffer)
    /\ buffer' = << >>
    /\ UNCHANGED <<queueVars, after, inUpdate, _isWritingAsync, written, _closed, _closing,
                   reads, session, broken>>

(* BaseSocket::Update; when it returns false NetworkThread::Update erases  *)
(* the socket, otherwise the queries follow.  That it also calls           *)
(* HandleQueue for an empty queue when _closing is set changes nothing.    *)
GoesOn_Wrong == TRUE
GoesOn == ~_closed

SocketUpdate ==
    /\ net = "update"
    /\ inUpdate' = TRUE
    /\ removed' = ~GoesOn
    /\ net' = IF ~GoesOn THEN "poll"
              ELSE IF _isWritingAsync \/ _writeQueue = << >> THEN "queries"
              ELSE "write"
    /\ UNCHANGED <<queueVars, after, writing, _closed, _closing, reads,
                   stage, _worldSession, sessionDeleted, inOnClose, broken>>

-----------------------------------------------------------------------------
(* HandleQueue, called in a loop by Update and once by WriteHandlerWrapper.*)

CallerOfHandleQueue == IF inUpdate THEN "queries" ELSE "poll"

(* The message at the front is done with: it was sent, or it is given up.  *)
PopMessage(again) ==
    /\ _writeQueue' = Tail(_writeQueue)
    /\ IF _closing /\ Tail(_writeQueue) = << >> THEN CloseAndGo(CallerOfHandleQueue)
       ELSE /\ net' = IF again /\ inUpdate /\ Tail(_writeQueue) # << >>
                      THEN "write" ELSE CallerOfHandleQueue
            /\ UNCHANGED <<_closed, after>>
    /\ UNCHANGED _isWritingAsync

(* AsyncProcessQueue: wait until the socket takes more.                    *)
AsyncProcessQueue ==
    /\ _isWritingAsync' = TRUE
    /\ net' = CallerOfHandleQueue
    /\ UNCHANGED <<_closed, after>>

Unsent_Wrong(message, n) == << >>
Unsent(message, n) == SubSeq(message, n + 1, Len(message))

(* write_some takes the first n packets of the message, or nothing.        *)
WriteSome(n) ==
    /\ net = "write"
    /\ ~CannotSend
    /\ LET message == Head(_writeQueue)
       IN  /\ n \in 0..Len(message)
           /\ written' = written \o SubSeq(message, 1, n)
           /\ IF n = Len(message) THEN PopMessage(n > 0)
              ELSE /\ AsyncProcessQueue
                   /\ _writeQueue' = <<Unsent(message, n)>> \o Tail(_writeQueue)
    /\ UNCHANGED <<queueVars, inUpdate, buffer, _closing, reads, session, broken>>

WriteFails ==
    /\ net = "write"
    /\ CannotSend
    /\ PopMessage(FALSE)
    /\ UNCHANGED <<queueVars, inUpdate, buffer, written, _closing, reads, session, broken>>

(* WriteHandlerWrapper, when the socket takes more or has failed.          *)
WriteHandlerWrapper ==
    /\ net = "poll" /\ _isWritingAsync
    /\ _isWritingAsync' = FALSE
    /\ inUpdate' = FALSE
    /\ net' = IF _writeQueue = << >> THEN "poll" ELSE "write"
    /\ UNCHANGED <<queueVars, after, buffer, _writeQueue, written, _closed, _closing,
                   reads, session, broken>>

-----------------------------------------------------------------------------
(* ProcessReadyQueries: the one query that is under way, if its answer is  *)
(* there.                                                                  *)

AsyncRead == reads' = IF IsOpen THEN reads + 1 ELSE reads

(* A packet from the network thread itself; SendPacket refuses it when the *)
(* socket is not open.                                                     *)
Send(size) == IF IsOpen /\ Len(Data) < MaxPackets THEN bufferQueue!Enqueue(size) ELSE UNCHANGED queueVars

(* SendAuthResponseError, then DelayedCloseSocket.  The mistake is to      *)
(* close first.                                                            *)
SendError_Wrong(size) == UNCHANGED queueVars
SendError(size) == Send(size)

Refuse ==
    /\ \E size \in PacketSize : size <= SendBufferSize /\ SendError(size)
    /\ _closing' = TRUE
    /\ stage' = "refused"
    /\ UNCHANGED <<reads, _worldSession>>

CheckIpCallback ==
    /\ stage = "ip"
    /\ \/ Refuse
       \/ /\ AsyncRead
          /\ \E size \in PacketSize : size <= SendBufferSize /\ Send(size)
          /\ stage' = "challenge"
          /\ UNCHANGED <<_closing, _worldSession>>

(* Every check that the account does not pass ends in an error code.       *)
HandleAuthSessionCallback ==
    /\ stage = "account"
    /\ \/ Refuse
       \/ /\ AsyncRead
          /\ stage' = "permissions"
          /\ _worldSession' = TRUE
          /\ UNCHANGED <<queueVars, _closing>>

(* The session is handed to World::AddSession, and to other threads.       *)
LoadSessionPermissionsCallback ==
    /\ stage = "permissions"
    /\ stage' = "world"
    /\ UNCHANGED <<queueVars, _closing, reads, _worldSession>>

QueryIsReady ==
    /\ net = "queries"
    /\ net' = "poll"
    /\ CheckIpCallback \/ HandleAuthSessionCallback \/ LoadSessionPermissionsCallback
    /\ UNCHANGED <<after, inUpdate, writing, _closed, sessionDeleted, inOnClose, removed,
                   broken>>

QueryIsNotReady ==
    /\ net = "queries"
    /\ net' = "poll"
    /\ UNCHANGED <<queueVars, after, inUpdate, writing, _closed, _closing, reads, session, broken>>

-----------------------------------------------------------------------------
(* ReadHandlerInternal and ReadHandler.                                    *)

ReadCompletes ==
    /\ net = "poll" /\ reads > 0
    /\ reads' = reads - 1
    /\ net' = IF IsOpen THEN "read" ELSE "poll"
    /\ UNCHANGED <<queueVars, after, inUpdate, writing, _closed, _closing, session, broken>>

ReadFails ==
    /\ net = "poll" /\ reads > 0
    /\ reads' = reads - 1
    /\ CloseAndGo("poll")
    /\ UNCHANGED <<queueVars, inUpdate, writing, _closing, session, broken>>

(* The data that came are used up.                                         *)
ReadOn ==
    /\ net = "read"
    /\ net' = "poll"
    /\ AsyncRead
    /\ UNCHANGED <<queueVars, after, inUpdate, writing, _closed, _closing, session, broken>>

(* A malformed packet, or one that needs a session where there is none, or *)
(* a second CMSG_AUTH_SESSION while another thread holds the lock.         *)
ReadHandlerCloses ==
    /\ net = "read"
    /\ CloseAndGo("poll")
    /\ UNCHANGED <<queueVars, inUpdate, writing, _closing, reads, session, broken>>

(* The client answers the challenge, or does not wait for it; nothing is   *)
(* read until the account is known.                                        *)
ReadsAfterAuth_Wrong == reads + 1
ReadsAfterAuth == reads

HandleAuthSession ==
    /\ net = "read"
    /\ stage = "challenge"
    /\ stage' = "account"
    /\ reads' = ReadsAfterAuth
    /\ net' = "poll"
    /\ UNCHANGED <<queueVars, after, inUpdate, writing, _closed, _closing,
                   _worldSession, sessionDeleted, inOnClose, removed, broken>>

(* HandlePing, CMSG_KEEP_ALIVE and packets for the session: the lock is    *)
(* taken and the pointer looked at; without a session a CMSG_KEEP_ALIVE    *)
(* does nothing.                                                           *)
LockSession ==
    /\ net = "read"
    /\ _worldSession
    /\ net' \in {"usePing", "usePacket"}
    /\ UNCHANGED <<queueVars, after, inUpdate, writing, _closed, _closing, reads, session, broken>>

UseSession ==
    /\ net \in {"usePing", "usePacket"}
    /\ net' = "read"
    /\ IF net = "usePing" THEN \E size \in PacketSize : size <= SendBufferSize /\ Send(size)
       ELSE UNCHANGED queueVars
    /\ UNCHANGED <<after, inUpdate, writing, _closed, _closing, reads, session, broken>>

(* A second CMSG_AUTH_SESSION: the lock is tried, and the pointer is not   *)
(* looked at before the session behind it is logged.  What reading through *)
(* a null pointer does to the process is not modelled.                     *)
DuplicateAuthSession ==
    /\ net = "read"
    /\ stage \in {"permissions", "world"}
    /\ net' = "useDuplicate"
    /\ UNCHANGED <<queueVars, after, inUpdate, writing, _closed, _closing, reads, session, broken>>

LogDuplicate ==
    /\ net = "useDuplicate"
    /\ CloseAndGo("poll")
    /\ UNCHANGED <<queueVars, inUpdate, writing, _closing, reads, session, broken>>

-----------------------------------------------------------------------------
(* The threads of the world, which know the session since AddSession.      *)

HasSession == stage = "world" /\ ~sessionDeleted

(* SendPacket looks whether the socket is open, and then enqueues.         *)
SendPacket(s) ==
    /\ HasSession /\ s \notin inOnClose
    /\ IsOpen
    /\ \E size \in PacketSize : bufferQueue!NewNode(s, size)
    /\ UNCHANGED <<control, writing, _closed, _closing, reads, session, broken>>

ContinueEnqueue(s) ==
    /\ bufferQueue!Exchange(s) \/ bufferQueue!Link(s)
    /\ UNCHANGED <<control, writing, _closed, _closing, reads, session, broken>>

(* KickPlayer, or the idle check of WorldSession::Update: CloseSocket.     *)
Kick(s) ==
    /\ HasSession
    /\ at[s] = "idle" /\ ~_closed
    /\ _closed' = TRUE
    /\ inOnClose' = {s}
    /\ UNCHANGED <<queueVars, control, writing, _closing, reads, stage, _worldSession,
                   sessionDeleted, removed, broken>>

KickerOnClose(s) ==
    /\ s \in inOnClose /\ MayClear
    /\ _worldSession' = FALSE
    /\ inOnClose' = {}
    /\ UNCHANGED <<queueVars, control, writing, _closed, _closing, reads, stage,
                   sessionDeleted, removed, broken>>

(* World::UpdateSessions deletes a session whose socket is not open, when  *)
(* no map is being updated.                                                *)
DeleteSession ==
    /\ HasSession
    /\ ~IsOpen
    /\ inOnClose = {} /\ \A s \in Sender : at[s] = "idle"
    /\ sessionDeleted' = TRUE
    /\ UNCHANGED <<queueVars, control, writing, _closed, _closing, reads, stage,
                   _worldSession, inOnClose, removed, broken>>

ConnectionBreaks ==
    /\ ~broken
    /\ broken' = TRUE
    /\ UNCHANGED <<queueVars, control, writing, _closed, _closing, reads, session>>

-----------------------------------------------------------------------------
LeaveRead == ReadOn \/ ReadHandlerCloses \/ HandleAuthSession

WriteProgress == WriteFails \/ \E n \in Packet : WriteSome(n)

(* What the network thread does inside a handler.                          *)
InHandler ==
    \/ OnClose
    \/ Drain \/ DrainEnds \/ SocketUpdate
    \/ WriteProgress \/ WriteSome(0)
    \/ QueryIsReady \/ QueryIsNotReady
    \/ LeaveRead \/ LockSession \/ UseSession
    \/ DuplicateAuthSession \/ LogDuplicate

NetworkStep == Timer \/ WriteHandlerWrapper \/ ReadCompletes \/ ReadFails \/ InHandler

SenderStep(s) == SendPacket(s) \/ ContinueEnqueue(s) \/ Kick(s) \/ KickerOnClose(s)

(* Nothing is left to be done for this connection.                         *)
Ended ==
    /\ removed /\ net = "poll"
    /\ UNCHANGED vars

Next ==
    \/ NetworkStep
    \/ \E s \in Sender : SenderStep(s)
    \/ DeleteSession
    \/ ConnectionBreaks
    \/ Ended

Spec == Init /\ [][Next]_vars

(* Threads run.  The io_context takes its ready handlers in turn; the data *)
(* of one read are finite; a connection takes data sooner or later, or it  *)
(* breaks.                                                                 *)
FairSpec ==
    /\ Spec
    /\ WF_vars(InHandler)
    /\ SF_vars(Timer) /\ SF_vars(WriteHandlerWrapper)
    /\ SF_vars(LeaveRead) /\ SF_vars(WriteProgress)
    /\ \A s \in Sender : WF_vars(ContinueEnqueue(s))

-----------------------------------------------------------------------------
(* The network thread touches a session only while it exists: pings and    *)
(* packets are handed over with the pointer set, what the pointer leads to *)
(* under the lock is never deleted, and the permissions are loaded (the    *)
(* callback does not look whether OnClose has cleared the pointer) before. *)
(* The one use that may find a null pointer is that of a second            *)
(* CMSG_AUTH_SESSION, and only when a thread of the world has closed the   *)
(* socket since the network thread saw it open.                            *)
SessionUsedWhileAlive ==
    /\ net \in {"usePing", "usePacket"} => _worldSession
    /\ LockIsHeld /\ _worldSession => ~sessionDeleted
    /\ (net = "queries" /\ stage = "permissions") => _worldSession
    /\ net = "useDuplicate" /\ ~_worldSession => _closed /\ stage = "world"

(* A producer stalled in Enqueue does not write to a node that the network *)
(* thread has deleted.                                                     *)
LinksLiveNodes == bufferQueue!LinksLiveNodes

(* The lock-free queue, the packing into messages, partial writes and      *)
(* failures together keep the packets in order, whole and single.          *)
Stream == INSTANCE PacketStream WITH taken <- entered, sent <- written, ended <- CannotSend
PacketsInOrder == Stream!Spec

(* DelayedCloseSocket "Marks the socket for closing after write buffer     *)
(* becomes empty": a refused client gets its error, and is then closed,    *)
(* unless the challenge was still being written: when it has been, the     *)
(* write buffer is empty, and the error has not come to it yet.            *)
RefusedLearnWhy ==
    (_closing /\ ~_closed /\ _writeQueue = << >>) ~> (_closed /\ (written = entered \/ broken))

(* A packet that was enqueued reaches the network, unless the connection   *)
(* ends before: it does not wait for ever behind a stalled producer, a     *)
(* partial write or an empty message.                                      *)
EnqueuedAreSent ==
    \A p \in Packet :
        (\E k \in 1..Len(entered) : entered[k] = p)
            ~> ((\E k \in 1..Len(written) : written[k] = p) \/ _closed \/ broken)
=============================================================================
