-------------------------- MODULE WorldSocket_proofs --------------------------
(***************************************************************************)
(* Theorems about WorldSocket, for any number of sending threads, packets  *)
(* and buffer sizes: the network thread uses a session only while it       *)
(* exists, no sender writes to a node of the queue that was deleted, and   *)
(* the packets are sent whole, once and in the order in which they entered *)
(* the queue: the socket implements PacketStream.                          *)
(***************************************************************************)
EXTENDS WorldSocket, DataFacts

Node == bufferQueue!Node

(* The types, in the parts that different steps touch.                     *)
QueueTypes ==
    /\ _head \in Node /\ _tail \in Node
    /\ NextOf \in [Node -> Node \union {nullptr}]
    /\ Data \in Seq(PacketSize) /\ Len(Data) <= MaxPackets
    /\ at \in [Sender -> {"idle", "exchange", "link"}]
    /\ node \in [Sender -> Node] /\ prevHead \in [Sender -> Node]
    /\ freed \subseteq Node
    /\ entered \in Seq(Node)

WritingTypes ==
    /\ buffer \in Seq(Packet)
    /\ _writeQueue \in Seq(Seq(Packet))
    /\ written \in Seq(Packet)

ControlTypes ==
    /\ net \in {"poll", "drain", "update", "write", "queries", "read", "usePing",
                "usePacket", "useDuplicate", "onClose"}
    /\ after \in {"poll", "queries"}
    /\ inUpdate \in BOOLEAN
    /\ _isWritingAsync \in BOOLEAN /\ _closed \in BOOLEAN /\ _closing \in BOOLEAN
    /\ reads \in 0..1
    /\ stage \in {"ip", "challenge", "account", "permissions", "world", "refused"}
    /\ _worldSession \in BOOLEAN /\ sessionDeleted \in BOOLEAN
    /\ removed \in BOOLEAN /\ broken \in BOOLEAN
    /\ inOnClose \subseteq Sender

(* The queue: the last node and those on which a link is still to be made  *)
(* have no successor, a node waits for one link at most, and a node that   *)
(* is not in the queue yet is unknown to everybody else.                   *)
Linking(p) == at[p] = "link"
Entering(p) == at[p] = "exchange"

ChainInv ==
    /\ _head \in 0..Len(Data) /\ NextOf[_head] = nullptr
    /\ \A n \in Node : /\ NextOf[n] # 0
                       /\ n > Len(Data) => NextOf[n] = nullptr
    /\ \A n \in freed : NextOf[n] # nullptr
    /\ \A p \in Sender : Linking(p) =>
          /\ node[p] \in 1..Len(Data)
          /\ prevHead[p] \in 0..Len(Data) /\ prevHead[p] # _head
          /\ NextOf[prevHead[p]] = nullptr
    /\ \A p \in Sender : Entering(p) =>
          /\ node[p] \in 1..Len(Data) /\ node[p] # _head
          /\ NextOf[node[p]] = nullptr
          /\ \A q \in Sender : Linking(q) => prevHead[q] # node[p]
    /\ \A p, q \in Sender : Linking(p) /\ Linking(q) /\ p # q => prevHead[p] # prevHead[q]
    /\ \A p, q \in Sender : Entering(p) /\ Entering(q) /\ p # q => node[p] # node[q]

(* Where the network thread is, and whether the socket may be closed       *)
(* there.                                                                  *)
Reading == net \in {"read", "usePing", "usePacket", "useDuplicate"}

ControlInv ==
    /\ _closing => stage = "refused"
    /\ stage \in {"ip", "account"} => reads = 0 /\ ~Reading
    /\ stage = "account" => ~_closed
    /\ Reading => reads = 0 /\ (stage # "world" => ~_closed)
    /\ net = "onClose" => _closed /\ (after = "queries" => stage = "refused")
    /\ inOnClose # {} => _closed /\ stage = "world"
    /\ (net = "queries" \/ (net = "write" /\ inUpdate)) /\ stage = "permissions" => ~_closed
    /\ net = "write" => _writeQueue # << >>
    /\ net = "useDuplicate" => stage \in {"permissions", "world"}

(* The session: who closed the socket has cleared the pointer, unless he   *)
(* is still at it, and until then the session is not deleted.              *)
SessionInv ==
    /\ _closed /\ inOnClose = {} /\ net # "onClose" => ~_worldSession
    /\ sessionDeleted => _closed /\ inOnClose = {} /\ stage = "world"
    /\ net \in {"usePing", "usePacket"} => _worldSession
    /\ LockIsHeld /\ _worldSession => ~sessionDeleted
    /\ ~_closed /\ stage \in {"permissions", "world"} => _worldSession

SocketInv == TypeOK /\ ChainInv /\ ControlInv /\ SessionInv

-----------------------------------------------------------------------------
(* Facts about the parts.                                                  *)

(* The type invariant in parts.                                            *)
LEMMA TypeParts == /\ TypeOK <=> QueueTypes /\ WritingTypes /\ ControlTypes /\ ReadsInTurn
                   /\ TypeOK' <=> (QueueTypes /\ WritingTypes /\ ControlTypes /\ ReadsInTurn)'
BY DEF TypeOK, bufferQueue!TypeOK, QueueTypes, WritingTypes, ControlTypes, Node

(* Nodes are numbers, and no number is the null pointer.                   *)
LEMMA NodeLemma ==
    /\ Node = 0..MaxPackets /\ Packet = 1..MaxPackets /\ MaxPackets \in Nat
    /\ nullptr \notin Node
    /\ PacketSize \subseteq Nat
BY SocketAssumption DEF Node, bufferQueue!Node, Packet

(* What a step does to the queue.                                          *)
QueueGrows ==
    \/ UNCHANGED queueVars
    \/ \E size \in PacketSize : bufferQueue!Enqueue(size)
    \/ \E s \in Sender : \/ \E size \in PacketSize : bufferQueue!NewNode(s, size)
                         \/ bufferQueue!Exchange(s)
                         \/ bufferQueue!Link(s)

QueueStep == QueueGrows \/ bufferQueue!Dequeue

(* The steps of the connection, one by one.                                *)
LEMMA StepCases ==
    ASSUME [Next]_vars
    PROVE  \/ UNCHANGED vars
           \/ Timer \/ WriteHandlerWrapper \/ ReadCompletes \/ ReadFails \/ OnClose
           \/ Drain \/ DrainEnds \/ SocketUpdate \/ WriteFails
           \/ \E n \in Packet \union {0} : WriteSome(n)
           \/ QueryIsReady \/ QueryIsNotReady
           \/ ReadOn \/ ReadHandlerCloses \/ HandleAuthSession \/ LockSession \/ UseSession
           \/ DuplicateAuthSession \/ LogDuplicate
           \/ \E s \in Sender : \/ SendPacket(s) \/ ContinueEnqueue(s)
                                \/ Kick(s) \/ KickerOnClose(s)
           \/ DeleteSession \/ ConnectionBreaks
BY DEF Next, NetworkStep, InHandler, WriteProgress, LeaveRead, SenderStep, Ended

(* A query that is answered.                                               *)
LEMMA QueryCases ==
    ASSUME QueryIsReady
    PROVE  /\ net = "queries" /\ net' = "poll"
           /\ UNCHANGED <<after, inUpdate, writing, _closed, sessionDeleted, inOnClose, removed,
                          broken>>
           /\ \/ /\ stage \in {"ip", "account"} /\ stage' = "refused" /\ _closing' = TRUE
                 /\ UNCHANGED <<reads, _worldSession>>
              \/ /\ stage = "ip" /\ stage' = "challenge" /\ AsyncRead
                 /\ UNCHANGED <<_closing, _worldSession>>
              \/ /\ stage = "account" /\ stage' = "permissions" /\ AsyncRead
                 /\ _worldSession' = TRUE /\ UNCHANGED _closing
              \/ /\ stage = "permissions" /\ stage' = "world"
                 /\ UNCHANGED <<_closing, reads, _worldSession>>
BY DEF QueryIsReady, CheckIpCallback, HandleAuthSessionCallback, LoadSessionPermissionsCallback,
       Refuse

(* Every step does to the queue what a step of a queue does; Drain alone   *)
(* dequeues.                                                               *)
LEMMA QueueSteps == [Next]_vars => QueueGrows \/ (Drain /\ bufferQueue!Dequeue)
<1> SUFFICES ASSUME [Next]_vars PROVE QueueGrows \/ (Drain /\ bufferQueue!Dequeue)
  OBVIOUS
<1> USE DEF QueueGrows
<1>1. ASSUME NEW size \in PacketSize, Send(size) PROVE QueueGrows
  BY <1>1 DEF Send
<1>2. CASE QueryIsReady
  BY <1>1, <1>2
  DEF QueryIsReady, CheckIpCallback, HandleAuthSessionCallback, LoadSessionPermissionsCallback,
      Refuse, SendError
<1>3. CASE UseSession
  BY <1>1, <1>3 DEF UseSession
<1>4. ASSUME NEW s \in Sender, SendPacket(s) \/ ContinueEnqueue(s) PROVE QueueGrows
  BY <1>4 DEF SendPacket, ContinueEnqueue
<1>5. ASSUME NEW s \in Sender, Kick(s) \/ KickerOnClose(s) PROVE QueueGrows
  BY <1>5 DEF Kick, KickerOnClose
<1>6. CASE Drain
  BY <1>6 DEF Drain
<1>7. CASE DrainEnds \/ WriteFails \/ \E n \in Packet \union {0} : WriteSome(n)
  BY <1>7 DEF DrainEnds, WriteFails, WriteSome
<1>8. CASE \/ UNCHANGED vars \/ Timer \/ WriteHandlerWrapper \/ ReadCompletes \/ ReadFails
           \/ OnClose \/ SocketUpdate \/ QueryIsNotReady \/ ReadOn \/ ReadHandlerCloses
           \/ HandleAuthSession \/ LockSession \/ DuplicateAuthSession \/ LogDuplicate
           \/ DeleteSession \/ ConnectionBreaks
  BY <1>8
  DEF vars, Timer, WriteHandlerWrapper, ReadCompletes, ReadFails, OnClose, SocketUpdate,
      QueryIsNotReady, ReadOn, ReadHandlerCloses, HandleAuthSession, LockSession,
      DuplicateAuthSession, LogDuplicate, DeleteSession, ConnectionBreaks
<1>9. QED
  BY StepCases, <1>2, <1>3, <1>4, <1>5, <1>6, <1>7, <1>8

-----------------------------------------------------------------------------
(* The queue.                                                              *)

(* Appending an input to the nodes.                                        *)
LEMMA DataLemma ==
    ASSUME QueueTypes, NEW size \in PacketSize, Len(Data) < MaxPackets
    PROVE  /\ Append(Data, size) \in Seq(PacketSize)
           /\ Len(Append(Data, size)) = Len(Data) + 1
           /\ Len(Data) \in Nat /\ Len(Data) + 1 \in Node
<1>1. Data \in Seq(PacketSize)
  BY DEF QueueTypes
<1>2. QED
  BY <1>1, AppendProperties, LenProperties, NodeLemma

(* The types of the queue.                                                 *)
LEMMA QueueTypesNext ==
    ASSUME QueueTypes, QueueStep
    PROVE  QueueTypes'
<1> USE DEF QueueTypes
<1>0. Len(Data) \in Nat /\ 0 \in Node
  BY LenProperties, NodeLemma
<1>1. CASE UNCHANGED queueVars
  BY <1>1 DEF queueVars
<1>2. CASE bufferQueue!Dequeue
  BY <1>2 DEF bufferQueue!Dequeue, bufferQueue!HasNext
<1>3. ASSUME NEW size \in PacketSize, bufferQueue!Enqueue(size) PROVE QueueTypes'
  <2>1. /\ Append(Data, size) \in Seq(PacketSize) /\ Len(Append(Data, size)) <= MaxPackets
        /\ Len(Data) + 1 \in Node
    BY <1>0, <1>3, DataLemma, NodeLemma DEF bufferQueue!Enqueue
  <2>2. Append(entered, Len(Data) + 1) \in Seq(Node)
    BY <2>1, AppendProperties
  <2>3. QED
    BY <1>3, <2>1, <2>2 DEF bufferQueue!Enqueue
<1>4. ASSUME NEW s \in Sender, NEW size \in PacketSize, bufferQueue!NewNode(s, size)
      PROVE  QueueTypes'
  <2>1. /\ Append(Data, size) \in Seq(PacketSize) /\ Len(Append(Data, size)) <= MaxPackets
        /\ Len(Data) + 1 \in Node
    BY <1>0, <1>4, DataLemma, NodeLemma DEF bufferQueue!NewNode
  <2>2. QED
    BY <1>4, <2>1 DEF bufferQueue!NewNode
<1>5. ASSUME NEW s \in Sender, bufferQueue!Exchange(s) PROVE QueueTypes'
  <2>1. Append(entered, node[s]) \in Seq(Node)
    BY AppendProperties
  <2>2. QED
    BY <1>5, <2>1 DEF bufferQueue!Exchange, bufferQueue!HeadAfter
<1>6. ASSUME NEW s \in Sender, bufferQueue!Link(s) PROVE QueueTypes'
  BY <1>0, <1>6 DEF bufferQueue!Link
<1>7. QED
  BY <1>1, <1>2, <1>3, <1>4, <1>5, <1>6 DEF QueueStep, QueueGrows

(* Every step of the queue keeps its chain.                                *)
LEMMA ChainNext ==
    ASSUME QueueTypes, ChainInv, QueueStep
    PROVE  ChainInv'
<1> USE NodeLemma
<1>0. Len(Data) \in Nat
  BY LenProperties DEF QueueTypes
<1>1. CASE UNCHANGED queueVars
  BY <1>1 DEF queueVars, ChainInv, Linking, Entering
<1>2. CASE bufferQueue!Dequeue
  <2>1. /\ freed' = freed \union {_tail} /\ NextOf[_tail] # nullptr
        /\ UNCHANGED <<_head, NextOf, Data, at, node, prevHead>>
    BY <1>2 DEF bufferQueue!Dequeue, bufferQueue!HasNext
  <2>2. QED
    BY <2>1 DEF ChainInv, Linking, Entering
<1>3. ASSUME NEW size \in PacketSize, bufferQueue!Enqueue(size) PROVE ChainInv'
  <2> DEFINE n == Len(Data) + 1
  <2>1. /\ Len(Data') = n /\ n \in Node /\ n # nullptr
        /\ NextOf' = [NextOf EXCEPT ![_head] = n] /\ _head' = n
        /\ UNCHANGED <<at, node, prevHead, freed>>
    BY <1>0, <1>3, DataLemma DEF bufferQueue!Enqueue
  <2>2. \A k \in Node : NextOf'[k] = IF k = _head THEN n ELSE NextOf[k]
    BY <2>1 DEF QueueTypes
  <2>3. freed \subseteq Node /\ _head \in 0..Len(Data)
    BY DEF QueueTypes, ChainInv
  <2>4. /\ NextOf'[n] = nullptr
        /\ \A k \in Node : NextOf'[k] # 0 /\ (k > n => NextOf'[k] = nullptr)
        /\ \A k \in freed : NextOf'[k] # nullptr
    BY <1>0, <2>1, <2>2, <2>3 DEF ChainInv
  <2>5. ASSUME NEW p \in Sender, Linking(p)
        PROVE  /\ node[p] \in 1..n /\ prevHead[p] \in 0..n /\ prevHead[p] # n
               /\ NextOf'[prevHead[p]] = nullptr
    BY <1>0, <2>1, <2>2, <2>5 DEF ChainInv
  <2>6. ASSUME NEW p \in Sender, Entering(p)
        PROVE  /\ node[p] \in 1..n /\ node[p] # n /\ NextOf'[node[p]] = nullptr
               /\ \A q \in Sender : Linking(q) => prevHead[q] # node[p]
    BY <1>0, <2>1, <2>2, <2>6 DEF ChainInv
  <2>7. \A p \in Sender : (Linking(p)' <=> Linking(p)) /\ (Entering(p)' <=> Entering(p))
    BY <2>1 DEF Linking, Entering
  <2> HIDE DEF n
  <2>8. n \in 0..n
    BY <2>1
  <2>9. QED
    BY <2>1, <2>4, <2>5, <2>6, <2>7, <2>8 DEF ChainInv
<1>4. ASSUME NEW s \in Sender, NEW size \in PacketSize, bufferQueue!NewNode(s, size)
      PROVE  ChainInv'
  <2> DEFINE n == Len(Data) + 1
  <2>1. /\ Len(Data') = n /\ n \in Node /\ at[s] = "idle"
        /\ UNCHANGED <<_head, NextOf, prevHead, freed>>
        /\ node'[s] = n /\ \A p \in Sender \ {s} : node'[p] = node[p]
        /\ ~Linking(s)' /\ Entering(s)'
        /\ \A p \in Sender \ {s} : (Linking(p)' <=> Linking(p)) /\ (Entering(p)' <=> Entering(p))
    BY <1>0, <1>4, DataLemma DEF bufferQueue!NewNode, QueueTypes, Linking, Entering
  <2>2. /\ NextOf[n] = nullptr /\ n # _head
        /\ \A p \in Sender \ {s} : Linking(p) => prevHead[p] # n
        /\ \A p \in Sender \ {s} : Entering(p) => node[p] # n
    BY <1>0, <2>1 DEF ChainInv
  <2>3. 0..Len(Data) \subseteq 0..n /\ 1..Len(Data) \subseteq 1..n /\ n \in 1..n
        /\ \A k \in Node : k > n => k > Len(Data)
    BY <1>0
  <2> HIDE DEF n
  <2>4. /\ _head' \in 0..Len(Data') /\ NextOf'[_head'] = nullptr
        /\ \A k \in Node : NextOf'[k] # 0 /\ (k > Len(Data') => NextOf'[k] = nullptr)
        /\ \A k \in freed' : NextOf'[k] # nullptr
    BY <2>1, <2>3 DEF ChainInv
  <2>5. ASSUME NEW p \in Sender, Linking(p)'
        PROVE  /\ node'[p] \in 1..Len(Data')
               /\ prevHead'[p] \in 0..Len(Data') /\ prevHead'[p] # _head'
               /\ NextOf'[prevHead'[p]] = nullptr
    BY <2>1, <2>3, <2>5 DEF ChainInv
  <2>6. ASSUME NEW p \in Sender, Entering(p)'
        PROVE  /\ node'[p] \in 1..Len(Data') /\ node'[p] # _head'
               /\ NextOf'[node'[p]] = nullptr
               /\ \A q \in Sender : Linking(q)' => prevHead'[q] # node'[p]
    BY <2>1, <2>2, <2>3, <2>6 DEF ChainInv
  <2>7. /\ \A p, q \in Sender : Linking(p)' /\ Linking(q)' /\ p # q => prevHead'[p] # prevHead'[q]
        /\ \A p, q \in Sender : Entering(p)' /\ Entering(q)' /\ p # q => node'[p] # node'[q]
    BY <2>1, <2>2 DEF ChainInv
  <2>8. QED
    BY <2>4, <2>5, <2>6, <2>7 DEF ChainInv
<1>5. ASSUME NEW s \in Sender, bufferQueue!Exchange(s) PROVE ChainInv'
  <2>1. /\ Entering(s) /\ _head' = node[s] /\ prevHead'[s] = _head
        /\ UNCHANGED <<NextOf, Data, node, freed>>
        /\ \A p \in Sender \ {s} : prevHead'[p] = prevHead[p]
        /\ Linking(s)' /\ ~Entering(s)' /\ ~Linking(s)
        /\ \A p \in Sender \ {s} : (Linking(p)' <=> Linking(p)) /\ (Entering(p)' <=> Entering(p))
    BY <1>5 DEF bufferQueue!Exchange, bufferQueue!HeadAfter, QueueTypes, Linking, Entering
  <2>2. /\ _head' \in 0..Len(Data') /\ NextOf'[_head'] = nullptr
        /\ \A k \in Node : NextOf'[k] # 0 /\ (k > Len(Data') => NextOf'[k] = nullptr)
        /\ \A k \in freed' : NextOf'[k] # nullptr
    BY <1>0, <2>1 DEF ChainInv
  <2>3. ASSUME NEW p \in Sender, Linking(p)'
        PROVE  /\ node'[p] \in 1..Len(Data')
               /\ prevHead'[p] \in 0..Len(Data') /\ prevHead'[p] # _head'
               /\ NextOf'[prevHead'[p]] = nullptr
    BY <2>1, <2>3 DEF ChainInv
  <2>4. ASSUME NEW p \in Sender, Entering(p)'
        PROVE  /\ node'[p] \in 1..Len(Data') /\ node'[p] # _head'
               /\ NextOf'[node'[p]] = nullptr
               /\ \A q \in Sender : Linking(q)' => prevHead'[q] # node'[p]
    BY <2>1, <2>4 DEF ChainInv
  <2>5. /\ \A p, q \in Sender : Linking(p)' /\ Linking(q)' /\ p # q => prevHead'[p] # prevHead'[q]
        /\ \A p, q \in Sender : Entering(p)' /\ Entering(q)' /\ p # q => node'[p] # node'[q]
    BY <2>1 DEF ChainInv
  <2>6. QED
    BY <2>2, <2>3, <2>4, <2>5 DEF ChainInv
<1>6. ASSUME NEW s \in Sender, bufferQueue!Link(s) PROVE ChainInv'
  <2>1. /\ Linking(s) /\ UNCHANGED <<_head, Data, freed>>
        /\ \A k \in Node : NextOf'[k] = IF k = prevHead[s] THEN node[s] ELSE NextOf[k]
        /\ \A p \in Sender \ {s} : node'[p] = node[p] /\ prevHead'[p] = prevHead[p]
        /\ ~Linking(s)' /\ ~Entering(s)'
        /\ \A p \in Sender \ {s} : (Linking(p)' <=> Linking(p)) /\ (Entering(p)' <=> Entering(p))
    BY <1>6 DEF bufferQueue!Link, QueueTypes, Linking, Entering
  <2>2. /\ prevHead[s] \in 0..Len(Data) /\ prevHead[s] # _head /\ _head \in Node
        /\ node[s] # 0 /\ node[s] # nullptr /\ freed \subseteq Node
        /\ prevHead \in [Sender -> Node] /\ node \in [Sender -> Node]
    BY <1>0, <2>1 DEF ChainInv, QueueTypes
  <2>3. /\ _head' \in 0..Len(Data') /\ NextOf'[_head'] = nullptr
        /\ \A k \in Node : NextOf'[k] # 0 /\ (k > Len(Data') => NextOf'[k] = nullptr)
        /\ \A k \in freed' : NextOf'[k] # nullptr
    <3>1. _head' \in 0..Len(Data')
      BY <2>1 DEF ChainInv
    <3>2. NextOf'[_head'] = nullptr
      BY <2>1, <2>2 DEF ChainInv
    <3>3. \A k \in Node : NextOf'[k] # 0
      BY <2>1, <2>2 DEF ChainInv
    <3>4. \A k \in Node : k > Len(Data) => k # prevHead[s]
      BY <1>0, <2>2
    <3>5. \A k \in Node : k > Len(Data') => NextOf'[k] = nullptr
      BY <2>1, <3>4 DEF ChainInv
    <3>6. \A k \in freed : NextOf[k] # nullptr /\ k \in Node
      BY <2>2 DEF ChainInv
    <3>7. \A k \in freed' : NextOf'[k] # nullptr
      BY <2>1, <2>2, <3>6
    <3>8. QED
      BY <3>1, <3>2, <3>3, <3>5, <3>7
  <2>4. ASSUME NEW p \in Sender, Linking(p)'
        PROVE  /\ node'[p] \in 1..Len(Data')
               /\ prevHead'[p] \in 0..Len(Data') /\ prevHead'[p] # _head'
               /\ NextOf'[prevHead'[p]] = nullptr
    BY <2>1, <2>2, <2>4 DEF ChainInv
  <2>5. ASSUME NEW p \in Sender, Entering(p)'
        PROVE  /\ node'[p] \in 1..Len(Data') /\ node'[p] # _head'
               /\ NextOf'[node'[p]] = nullptr
               /\ \A q \in Sender : Linking(q)' => prevHead'[q] # node'[p]
    BY <2>1, <2>2, <2>5 DEF ChainInv
  <2>6. /\ \A p, q \in Sender : Linking(p)' /\ Linking(q)' /\ p # q => prevHead'[p] # prevHead'[q]
        /\ \A p, q \in Sender : Entering(p)' /\ Entering(q)' /\ p # q => node'[p] # node'[q]
    BY <2>1 DEF ChainInv
  <2>7. QED
    BY <2>3, <2>4, <2>5, <2>6 DEF ChainInv
<1>7. QED
  BY <1>1, <1>2, <1>3, <1>4, <1>5, <1>6 DEF QueueStep, QueueGrows

-----------------------------------------------------------------------------
(* The messages.                                                           *)

(* Pieces of messages are messages.                                        *)
LEMMA PieceLemma ==
    ASSUME NEW m \in Seq(Packet), NEW n \in 0..Len(m)
    PROVE  SubSeq(m, 1, n) \in Seq(Packet) /\ SubSeq(m, n + 1, Len(m)) \in Seq(Packet)
<1>1. Len(m) \in Nat /\ \A k \in 1..Len(m) : m[k] \in Packet
  BY LenProperties, ElementOfSeq
<1>2. SubSeq(m, 1, n) \in Seq(Packet)
  BY <1>1, SubSeqProperties
<1>3. SubSeq(m, n + 1, Len(m)) \in Seq(Packet)
  BY <1>1, SubSeqProperties
<1>4. QED
  BY <1>2, <1>3

(* Dequeue yields a packet, and what becomes of it are messages.           *)
LEMMA DrainLemma ==
    ASSUME QueueTypes, WritingTypes, ChainInv, Drain
    PROVE  WritingTypes'
<1> DEFINE p == NextOf[_tail]
           messages == Messages(p)
           rest == BufferAfter(p)
<1>1. p \in Packet
  BY NodeLemma DEF Drain, bufferQueue!Dequeue, bufferQueue!HasNext, QueueTypes, ChainInv
<1>2. << >> \in Seq(Packet) /\ << >> \in Seq(Seq(Packet)) /\ buffer \in Seq(Packet)
  BY EmptySeq DEF WritingTypes
<1> HIDE DEF p
<1>3. <<p>> \in Seq(Packet) /\ <<buffer>> \in Seq(Seq(Packet)) /\ << <<p>> >> \in Seq(Seq(Packet))
  BY <1>1, <1>2
<1>4. messages \in Seq(Seq(Packet)) /\ rest \in Seq(Packet)
  BY <1>2, <1>3, ConcatProperties DEF Messages, BufferAfter
<1> HIDE DEF messages, rest
<1>5. /\ _writeQueue' = _writeQueue \o messages /\ buffer' = rest /\ UNCHANGED written
  BY DEF Drain, messages, rest, p
<1>6. QED
  BY <1>4, <1>5, ConcatProperties DEF WritingTypes

(* write_some.                                                             *)
LEMMA WriteSomeLemma ==
    ASSUME WritingTypes, net = "write" => _writeQueue # << >>,
           NEW n \in Packet \union {0}, WriteSome(n)
    PROVE  WritingTypes'
<1> DEFINE message == Head(_writeQueue)
           rest == Unsent(message, n)
           sent == SubSeq(message, 1, n)
<1>1. /\ message \in Seq(Packet) /\ Tail(_writeQueue) \in Seq(Seq(Packet))
  BY HeadTailProperties DEF WritingTypes, WriteSome
<1>2. n \in 0..Len(message) /\ written' = written \o sent /\ UNCHANGED buffer
  BY DEF WriteSome
<1>3. sent \in Seq(Packet) /\ rest \in Seq(Packet)
  BY <1>1, <1>2, PieceLemma DEF Unsent
<1>4. _writeQueue' = Tail(_writeQueue) \/ _writeQueue' = <<rest>> \o Tail(_writeQueue)
  BY DEF WriteSome, PopMessage
<1> HIDE DEF rest, sent
<1>5. <<rest>> \o Tail(_writeQueue) \in Seq(Seq(Packet))
  <2>1. <<rest>> \in Seq(Seq(Packet))
    BY <1>3
  <2>2. QED
    BY <1>1, <2>1, ConcatProperties
<1>6. written \o sent \in Seq(Packet)
  BY <1>3, ConcatProperties DEF WritingTypes
<1>7. QED
  BY <1>1, <1>2, <1>4, <1>5, <1>6 DEF WritingTypes

(* Every step keeps the types of the messages.                             *)
LEMMA WritingTypesNext ==
    ASSUME QueueTypes, WritingTypes, ChainInv, net = "write" => _writeQueue # << >>, [Next]_vars
    PROVE  WritingTypes'
<1>1. CASE Drain
  BY <1>1, DrainLemma
<1>2. CASE DrainEnds
  <2>1. Append(_writeQueue, buffer) \in Seq(Seq(Packet)) /\ << >> \in Seq(Packet)
    BY AppendProperties, EmptySeq DEF WritingTypes
  <2>2. QED
    BY <1>2, <2>1 DEF DrainEnds, WritingTypes
<1>3. ASSUME NEW n \in Packet \union {0}, WriteSome(n) PROVE WritingTypes'
  BY <1>3, WriteSomeLemma
<1>4. CASE WriteFails
  BY <1>4, HeadTailProperties DEF WriteFails, PopMessage, WritingTypes
<1>5. CASE QueryIsReady
  BY <1>5, QueryCases DEF writing, WritingTypes
<1>6. ASSUME NEW s \in Sender, SendPacket(s) \/ ContinueEnqueue(s) \/ Kick(s) \/ KickerOnClose(s)
      PROVE  WritingTypes'
  BY <1>6 DEF SendPacket, ContinueEnqueue, Kick, KickerOnClose, writing, WritingTypes
<1>7. CASE \/ UNCHANGED vars \/ Timer \/ WriteHandlerWrapper \/ ReadCompletes \/ ReadFails
           \/ OnClose \/ SocketUpdate \/ QueryIsNotReady \/ ReadOn \/ ReadHandlerCloses
           \/ HandleAuthSession \/ LockSession \/ UseSession \/ DuplicateAuthSession
           \/ LogDuplicate \/ DeleteSession \/ ConnectionBreaks
  BY <1>7
  DEF vars, Timer, WriteHandlerWrapper, ReadCompletes, ReadFails, OnClose, SocketUpdate,
      QueryIsNotReady, ReadOn, ReadHandlerCloses, HandleAuthSession, LockSession, UseSession,
      DuplicateAuthSession, LogDuplicate, DeleteSession, ConnectionBreaks, writing, WritingTypes
<1>8. QED
  BY StepCases, <1>1, <1>2, <1>3, <1>4, <1>5, <1>6, <1>7

-----------------------------------------------------------------------------
(* The handlers and the session.                                           *)

SocketUse == ControlTypes /\ ControlInv /\ SessionInv

(* HandleQueue, after a message is done with.                              *)
LEMMA PopNext ==
    ASSUME SocketUse, net = "write", NEW again \in BOOLEAN, PopMessage(again),
           UNCHANGED <<inUpdate, _closing, reads, session, broken>>
    PROVE  SocketUse'
<1> USE DEF SocketUse, ControlTypes, ControlInv, SessionInv, session
<1> DEFINE caller == CallerOfHandleQueue
<1>0. /\ caller \in {"queries", "poll"} /\ (caller = "queries" => inUpdate)
      /\ UNCHANGED <<inUpdate, _closing, _isWritingAsync, reads, stage, _worldSession,
                     sessionDeleted, inOnClose, removed, broken>>
  BY DEF PopMessage, CallerOfHandleQueue
<1>1. CASE _closing /\ Tail(_writeQueue) = << >>
  <2>1. \/ net' = caller /\ _closed /\ UNCHANGED <<_closed, after>>
        \/ net' = "onClose" /\ after' = caller /\ _closed' = TRUE /\ ~_closed
    BY <1>1 DEF PopMessage, CloseAndGo
  <2> HIDE DEF caller
  <2>2. stage = "refused"
    BY <1>1
  <2>3. CASE net' = caller /\ _closed /\ UNCHANGED <<_closed, after>>
    BY <1>0, <2>2, <2>3 DEF Reading, LockIsHeld
  <2>4. CASE net' = "onClose" /\ after' = caller /\ _closed' = TRUE /\ ~_closed
    <3>1. ControlTypes'
      BY <1>0, <2>4
    <3>2. ControlInv' /\ SessionInv'
      BY <1>0, <2>2, <2>4 DEF Reading, LockIsHeld
    <3>3. QED
      BY <3>1, <3>2
  <2>5. QED
    BY <2>1, <2>3, <2>4
<1>2. CASE ~(_closing /\ Tail(_writeQueue) = << >>)
  <2>1. /\ UNCHANGED <<_closed, after>>
        /\ \/ net' = caller
           \/ net' = "write" /\ _writeQueue' # << >>
    BY <1>2 DEF PopMessage
  <2> HIDE DEF caller
  <2>2. QED
    BY <1>0, <2>1 DEF Reading, LockIsHeld
<1>3. QED
  BY <1>1, <1>2

(* Every step of the connection keeps track of who uses the session.       *)
LEMMA UseNext ==
    ASSUME SocketUse, [Next]_vars
    PROVE  SocketUse'
<1> USE DEF SocketUse, ControlTypes, ControlInv, SessionInv, Reading, LockIsHeld, session, control,
            writing
<1>1. CASE UNCHANGED vars
  BY <1>1 DEF vars
<1>2. CASE Timer \/ WriteHandlerWrapper
  <2>1. CASE Timer
    BY <2>1 DEF Timer
  <2>2. CASE WriteHandlerWrapper
    <3>1. ControlTypes'
      BY <2>2 DEF WriteHandlerWrapper
    <3>2. ControlInv' /\ SessionInv'
      BY <2>2 DEF WriteHandlerWrapper
    <3>3. QED
      BY <3>1, <3>2
  <2>3. QED
    BY <1>2, <2>1, <2>2
<1>3. CASE ReadCompletes
  BY <1>3 DEF ReadCompletes, IsOpen
<1>4. CASE ReadFails
  <2>1. /\ net = "poll" /\ reads' \in 0..1 /\ reads > 0
        /\ \/ net' = "poll" /\ UNCHANGED <<_closed, after>>
           \/ net' = "onClose" /\ after' = "poll" /\ _closed' = TRUE
    BY <1>4 DEF ReadFails, CloseAndGo
  <2>2. UNCHANGED <<inUpdate, _writeQueue, _isWritingAsync, _closing, stage, _worldSession,
                    sessionDeleted, inOnClose, removed, broken>>
    BY <1>4 DEF ReadFails
  <2>3. ControlTypes'
    BY <2>1, <2>2
  <2>4. ControlInv' /\ SessionInv'
    BY <2>1, <2>2
  <2>5. QED
    BY <2>3, <2>4
<1>5. CASE OnClose
  BY <1>5 DEF OnClose
<1>6. CASE Drain
  BY <1>6 DEF Drain
<1>7. CASE DrainEnds
  BY <1>7 DEF DrainEnds
<1>8. CASE SocketUpdate
  BY <1>8 DEF SocketUpdate, GoesOn
<1>9. CASE WriteFails
  <2>1. /\ net = "write" /\ PopMessage(FALSE)
        /\ UNCHANGED <<inUpdate, _closing, reads, session, broken>>
    BY <1>9 DEF WriteFails
  <2>2. QED
    BY <2>1, PopNext
<1>10. ASSUME NEW n \in Packet \union {0}, WriteSome(n) PROVE SocketUse'
  <2>1. net = "write" /\ UNCHANGED <<inUpdate, _closing, reads, session, broken>>
    BY <1>10 DEF WriteSome
  <2>2. PopMessage(n > 0) \/ AsyncProcessQueue
    BY <1>10 DEF WriteSome
  <2>3. CASE PopMessage(n > 0)
    BY <2>1, <2>3, PopNext, (n > 0) \in BOOLEAN
  <2>4. CASE AsyncProcessQueue
    BY <2>1, <2>4 DEF AsyncProcessQueue, CallerOfHandleQueue
  <2>5. QED
    BY <2>2, <2>3, <2>4
<1>11. CASE QueryIsReady
  <2>1. /\ net = "queries" /\ net' = "poll"
        /\ UNCHANGED <<after, inUpdate, _writeQueue, _isWritingAsync, _closed, sessionDeleted,
                       inOnClose, removed, broken>>
    BY <1>11, QueryCases
  <2>2. CASE /\ stage \in {"ip", "account"} /\ stage' = "refused" /\ _closing' = TRUE
             /\ UNCHANGED <<reads, _worldSession>>
    BY <2>1, <2>2
  <2>3. CASE /\ stage = "ip" /\ stage' = "challenge" /\ AsyncRead
             /\ UNCHANGED <<_closing, _worldSession>>
    <3>1. reads = 0 /\ reads' \in 0..1
      BY <2>3 DEF AsyncRead
    <3>2. QED
      BY <2>1, <2>3, <3>1
  <2>4. CASE /\ stage = "account" /\ stage' = "permissions" /\ AsyncRead
             /\ _worldSession' = TRUE /\ UNCHANGED _closing
    <3>1. reads = 0 /\ reads' \in 0..1 /\ ~_closed
      BY <2>4 DEF AsyncRead
    <3>2. QED
      BY <2>1, <2>4, <3>1
  <2>5. CASE /\ stage = "permissions" /\ stage' = "world"
             /\ UNCHANGED <<_closing, reads, _worldSession>>
    BY <2>1, <2>5
  <2>6. QED
    BY <1>11, <2>2, <2>3, <2>4, <2>5, QueryCases
<1>12. CASE QueryIsNotReady
  BY <1>12 DEF QueryIsNotReady
<1>13. CASE ReadOn
  BY <1>13 DEF ReadOn, AsyncRead
<1>14. CASE ReadHandlerCloses
  BY <1>14 DEF ReadHandlerCloses, CloseAndGo
<1>15. CASE HandleAuthSession
  BY <1>15 DEF HandleAuthSession, ReadsAfterAuth
<1>16. CASE LockSession
  BY <1>16 DEF LockSession
<1>17. CASE UseSession
  BY <1>17 DEF UseSession
<1>18. ASSUME NEW s \in Sender, SendPacket(s) \/ ContinueEnqueue(s) PROVE SocketUse'
  BY <1>18 DEF SendPacket, ContinueEnqueue
<1>19. ASSUME NEW s \in Sender, Kick(s) PROVE SocketUse'
  BY <1>19 DEF Kick, HasSession
<1>20. ASSUME NEW s \in Sender, KickerOnClose(s) PROVE SocketUse'
  <2>1. /\ s \in inOnClose /\ MayClear /\ _worldSession' = FALSE /\ inOnClose' = {}
        /\ UNCHANGED <<control, _writeQueue, _isWritingAsync, _closed, _closing, reads, stage,
                       sessionDeleted, removed, broken>>
    BY <1>20 DEF KickerOnClose, writing
  <2>2. ControlTypes'
    <3>1. ControlTypes
      OBVIOUS
    <3> HIDE DEF SocketUse, ControlInv, SessionInv, ControlTypes
    <3>2. /\ _worldSession' = FALSE /\ inOnClose' = {}
          /\ UNCHANGED <<net, after, inUpdate, _isWritingAsync, _closed, _closing, reads, stage,
                         sessionDeleted, removed, broken>>
      BY <2>1 DEF control
    <3>3. /\ _isWritingAsync' \in BOOLEAN /\ _closed' \in BOOLEAN /\ _closing' \in BOOLEAN
          /\ inUpdate' \in BOOLEAN /\ sessionDeleted' \in BOOLEAN
          /\ removed' \in BOOLEAN /\ broken' \in BOOLEAN
      BY <3>1, <3>2, Zenon DEF ControlTypes
    <3>4. _worldSession' \in BOOLEAN /\ inOnClose' \subseteq Sender
      BY <3>2
    <3>5. /\ net' = net /\ after' = after /\ reads' = reads /\ stage' = stage
      BY <3>2
    <3>6. QED
      BY <3>1, <3>3, <3>4, <3>5 DEF ControlTypes
  <2>3. ControlInv'
    BY <2>1 DEF control
  <2>4. SessionInv'
    BY <2>1 DEF control, MayClear
  <2>5. QED
    BY <2>2, <2>3, <2>4
<1>21. CASE DeleteSession
  BY <1>21 DEF DeleteSession, HasSession, IsOpen
<1>22. CASE ConnectionBreaks
  BY <1>22 DEF ConnectionBreaks
<1>23. CASE DuplicateAuthSession
  BY <1>23 DEF DuplicateAuthSession
<1>24. CASE LogDuplicate
  BY <1>24 DEF LogDuplicate, CloseAndGo
<1>25. QED
  BY StepCases, <1>1, <1>2, <1>3, <1>4, <1>5, <1>6, <1>7, <1>8, <1>9, <1>10, <1>11, <1>12, <1>13,
     <1>14, <1>15, <1>16, <1>17, <1>18, <1>19, <1>20, <1>21, <1>22, <1>23, <1>24

-----------------------------------------------------------------------------
(* The theorems.                                                           *)

(* The invariant holds when the thread has added the socket.               *)
LEMMA InitSocket == Init => SocketInv
<1> SUFFICES ASSUME Init PROVE SocketInv
  OBVIOUS
<1> USE NodeLemma
<1>1. /\ 0 \in Node /\ Len(<< >>) = 0
      /\ << >> \in Seq(Packet) /\ << >> \in Seq(Seq(Packet)) /\ << >> \in Seq(Node)
      /\ << >> \in Seq(PacketSize)
  BY EmptySeq
<1>2. QueueTypes
  BY <1>1 DEF Init, bufferQueue!Init, QueueTypes, Node
<1>3. ChainInv
  <2>1. /\ _head = 0 /\ Data = << >> /\ freed = {}
        /\ \A n \in Node : NextOf[n] = nullptr
        /\ \A p \in Sender : at[p] = "idle"
    BY DEF Init, bufferQueue!Init, Node
  <2>2. nullptr # 0
    BY <1>1
  <2>3. QED
    BY <1>1, <2>1, <2>2 DEF ChainInv, Linking, Entering
<1>4. WritingTypes
  BY <1>1 DEF Init, WritingTypes
<1>5. ControlTypes
  <2>1. 0 \in 0..1
    OBVIOUS
  <2>2. QED
    BY <2>1, Zenon DEF Init, ControlTypes
<1>6. ControlInv /\ SessionInv /\ ReadsInTurn
  BY DEF Init, ControlInv, SessionInv, ReadsInTurn, Reading, LockIsHeld
<1>7. QED
  BY <1>2, <1>3, <1>4, <1>5, <1>6, TypeParts DEF SocketInv

(* Every step keeps it.                                                    *)
LEMMA SocketNext == SocketInv /\ [Next]_vars => SocketInv'
<1> SUFFICES ASSUME SocketInv, [Next]_vars PROVE SocketInv'
  OBVIOUS
<1>1. /\ QueueTypes /\ WritingTypes /\ ChainInv /\ SocketUse
      /\ net = "write" => _writeQueue # << >>
  BY TypeParts DEF SocketInv, SocketUse, ControlInv
<1>2. QueueTypes' /\ ChainInv'
  BY <1>1, QueueSteps, QueueTypesNext, ChainNext DEF QueueStep
<1>3. WritingTypes' /\ SocketUse'
  BY <1>1, WritingTypesNext, UseNext
<1>4. ReadsInTurn'
  BY <1>3 DEF SocketUse, ControlInv, Reading, ReadsInTurn
<1>5. QED
  BY <1>2, <1>3, <1>4, TypeParts DEF SocketInv, SocketUse

(* Queue, messages and flags keep their types; there is one read at a time *)
(* into the one read buffer, and none while an account is looked up, so    *)
(* that nothing is decrypted before the key is known.                      *)
THEOREM SocketIsTyped == Spec => []TypeOK
<1>1. SocketInv => TypeOK
  BY DEF SocketInv
<1>2. QED
  BY <1>1, InitSocket, SocketNext, PTL DEF Spec

(* Whichever thread closes the socket, and whenever: the network thread    *)
(* hands pings and packets to a session, and loads its permissions, only   *)
(* while it has the pointer; a session that it reaches under the lock, for *)
(* a second CMSG_AUTH_SESSION too, has not been deleted by the world; and  *)
(* the branch for that packet finds a null pointer only if a thread of the *)
(* world has closed the socket since it was seen open.                     *)
THEOREM SessionsOutliveTheirUse == Spec => []SessionUsedWhileAlive
<1>1. SocketInv => SessionUsedWhileAlive
  BY DEF SocketInv, ControlInv, SessionInv, SessionUsedWhileAlive, Reading
<1>2. QED
  BY <1>1, InitSocket, SocketNext, PTL DEF Spec

(* However many senders stall between the two atomic accesses of Enqueue:  *)
(* the node each of them will link has not been deleted by Dequeue.        *)
THEOREM NoDeadNodeIsLinked == Spec => []LinksLiveNodes
<1>1. SocketInv => LinksLiveNodes
  BY DEF SocketInv, ChainInv, Linking, LinksLiveNodes, bufferQueue!LinksLiveNodes
<1>2. QED
  BY <1>1, InitSocket, SocketNext, PTL DEF Spec

-----------------------------------------------------------------------------
(* The order of the packets.  First, about stretches of a sequence.        *)

(* A stretch of a sequence.                                                *)
Stretch(e, i, j) == SubSeq(e, i + 1, j)

(* The way of the packets: w was sent, q are the messages that wait, b is  *)
(* the buffer, and d packets of e have been dequeued.  Every message is a  *)
(* stretch of e, and each begins where the one before it ends.             *)
IsCut(o, e, w, q, b, d) ==
    /\ o \in [1..Len(q) + 1 -> 0..d]
    /\ w = Stretch(e, 0, o[1])
    /\ \A i \in 1..Len(q) : o[i] <= o[i + 1] /\ q[i] = Stretch(e, o[i], o[i + 1])
    /\ b = Stretch(e, o[Len(q) + 1], d)

Cut(e, w, q, b, d) == d \in 0..Len(e) /\ \E o : IsCut(o, e, w, q, b, d)

(* A stretch, element by element.                                          *)
LEMMA StretchLemma ==
    ASSUME NEW S, NEW e \in Seq(S), NEW j \in 0..Len(e), NEW i \in 0..j
    PROVE  /\ Stretch(e, i, j) \in Seq(S) /\ Len(Stretch(e, i, j)) = j - i
           /\ \A k \in 1..j - i : Stretch(e, i, j)[k] = e[i + k]
<1>1. Len(e) \in Nat /\ \A k \in i + 1..j : e[k] \in S
  OBVIOUS
<1>2. /\ SubSeq(e, i + 1, j) \in Seq(S)
      /\ Len(SubSeq(e, i + 1, j)) = IF i + 1 <= j THEN j - (i + 1) + 1 ELSE 0
      /\ \A k \in 1..j - (i + 1) + 1 : SubSeq(e, i + 1, j)[k] = e[i + 1 + k - 1]
  BY <1>1, SubSeqProperties
<1>3. QED
  BY <1>1, <1>2 DEF Stretch

(* Two sequences are equal if their elements are.                          *)
LEMMA EqualSequences ==
    ASSUME NEW S, NEW s \in Seq(S), NEW t \in Seq(S), Len(s) = Len(t),
           \A k \in 1..Len(s) : s[k] = t[k]
    PROVE  s = t
  BY SeqEqual

(* What follows the sequence does not change its stretches.                *)
LEMMA StretchOfLonger ==
    ASSUME NEW S, NEW e \in Seq(S), NEW x \in S, NEW j \in 0..Len(e), NEW i \in 0..j
    PROVE  Stretch(Append(e, x), i, j) = Stretch(e, i, j)
<1> DEFINE f == Append(e, x)
<1>1. /\ f \in Seq(S) /\ Len(f) = Len(e) + 1 /\ Len(e) \in Nat
      /\ \A k \in 1..Len(e) : f[k] = e[k]
  OBVIOUS
<1> HIDE DEF f
<1>2. j \in 0..Len(f)
  BY <1>1
<1>3. /\ Stretch(f, i, j) \in Seq(S) /\ Len(Stretch(f, i, j)) = j - i
      /\ \A k \in 1..j - i : Stretch(f, i, j)[k] = f[i + k]
  BY <1>1, <1>2, StretchLemma
<1>4. /\ Stretch(e, i, j) \in Seq(S) /\ Len(Stretch(e, i, j)) = j - i
      /\ \A k \in 1..j - i : Stretch(e, i, j)[k] = e[i + k]
  BY StretchLemma
<1>5. \A k \in 1..j - i : f[i + k] = e[i + k]
  BY <1>1
<1>6. Stretch(f, i, j) = Stretch(e, i, j)
  BY <1>3, <1>4, <1>5, EqualSequences
<1>7. QED
  BY <1>6 DEF f

(* Two stretches that follow each other.                                   *)
LEMMA StretchConcat ==
    ASSUME NEW S, NEW e \in Seq(S), NEW k \in 0..Len(e), NEW j \in 0..k, NEW i \in 0..j
    PROVE  Stretch(e, i, j) \o Stretch(e, j, k) = Stretch(e, i, k)
<1> DEFINE s == Stretch(e, i, j)
           t == Stretch(e, j, k)
           u == Stretch(e, i, k)
           v == s \o t
<1>1. /\ s \in Seq(S) /\ Len(s) = j - i /\ \A l \in 1..j - i : s[l] = e[i + l]
      /\ t \in Seq(S) /\ Len(t) = k - j /\ \A l \in 1..k - j : t[l] = e[j + l]
      /\ u \in Seq(S) /\ Len(u) = k - i /\ \A l \in 1..k - i : u[l] = e[i + l]
  <2>1. j \in 0..Len(e) /\ i \in 0..k
    OBVIOUS
  <2>2. QED
    BY <2>1, StretchLemma
<1> HIDE DEF s, t, u
<1>2. /\ v \in Seq(S) /\ Len(v) = Len(s) + Len(t)
      /\ \A l \in 1..Len(s) + Len(t) : v[l] = IF l <= Len(s) THEN s[l] ELSE t[l - Len(s)]
  BY <1>1, ConcatProperties
<1> HIDE DEF v
<1>3. Len(v) = Len(u)
  BY <1>1, <1>2
<1>4. ASSUME NEW l \in 1..Len(v) PROVE v[l] = u[l]
  <2>1. l \in 1..k - i
    <3>1. Len(s) = j - i /\ Len(t) = k - j
      BY <1>1
    <3>2. Len(v) = Len(s) + Len(t)
      BY <1>2
    <3>3. Len(v) = k - i
      BY <3>1, <3>2
    <3>4. QED
      BY <3>3
  <2>2. CASE l <= j - i
    <3>1. l \in 1..j - i /\ l \in 1..Len(s) + Len(t) /\ l <= Len(s)
      BY <1>1, <2>1, <2>2
    <3>2. v[l] = s[l]
      BY <1>2, <3>1
    <3>3. s[l] = e[i + l] /\ u[l] = e[i + l]
      BY <1>1, <2>1, <3>1
    <3>4. QED
      BY <3>2, <3>3
  <2>3. CASE l > j - i
    <3>1. l - (j - i) \in 1..k - j /\ j + (l - (j - i)) = i + l
      BY <2>1, <2>3
    <3>2. v[l] = t[l - (j - i)]
      <4>1. Len(s) = j - i /\ Len(t) = k - j
        BY <1>1
      <4>2. l \in 1..Len(s) + Len(t) /\ ~(l <= Len(s))
        BY <2>1, <2>3, <4>1
      <4>3. QED
        BY <1>2, <4>1, <4>2
    <3>3. QED
      BY <1>1, <2>1, <3>1, <3>2
  <2>4. QED
    BY <2>1, <2>2, <2>3
<1>5. v = u
  BY <1>1, <1>2, <1>3, <1>4, EqualSequences
<1>6. QED
  BY <1>5 DEF s, t, u, v

(* A stretch of a stretch.                                                 *)
LEMMA StretchOfStretch ==
    ASSUME NEW S, NEW e \in Seq(S), NEW j \in 0..Len(e), NEW i \in 0..j,
           NEW m \in 0..j - i, NEW l \in 0..m
    PROVE  Stretch(Stretch(e, i, j), l, m) = Stretch(e, i + l, i + m)
<1> DEFINE s == Stretch(e, i, j)
<1>1. s \in Seq(S) /\ Len(s) = j - i /\ \A k \in 1..j - i : s[k] = e[i + k]
  BY StretchLemma
<1> HIDE DEF s
<1> DEFINE a == i + l
           b == i + m
<1>2. m \in 0..Len(s) /\ b \in 0..Len(e) /\ a \in 0..b /\ b - a = m - l
  BY <1>1
<1>3. /\ Stretch(s, l, m) \in Seq(S) /\ Len(Stretch(s, l, m)) = m - l
      /\ \A k \in 1..m - l : Stretch(s, l, m)[k] = s[l + k]
  BY <1>1, <1>2, StretchLemma
<1> HIDE DEF a, b
<1>4. /\ Stretch(e, a, b) \in Seq(S) /\ Len(Stretch(e, a, b)) = b - a
      /\ \A k \in 1..b - a : Stretch(e, a, b)[k] = e[a + k]
  BY <1>2, StretchLemma
<1>5. ASSUME NEW k \in 1..m - l PROVE Stretch(s, l, m)[k] = Stretch(e, a, b)[k]
  BY <1>1, <1>2, <1>3, <1>4 DEF a
<1>6. Stretch(s, l, m) = Stretch(e, a, b)
  BY <1>2, <1>3, <1>4, <1>5, EqualSequences
<1>7. QED
  BY <1>6 DEF s, a, b

-----------------------------------------------------------------------------
(* A packet that enters the queue leaves the way of the others alone.      *)
LEMMA CutOfLonger ==
    ASSUME NEW S, NEW e \in Seq(S), NEW x \in S, NEW w, NEW q \in Seq(Seq(S)), NEW b, NEW d,
           Cut(e, w, q, b, d)
    PROVE  Cut(Append(e, x), w, q, b, d)
<1> DEFINE f == Append(e, x)
           n == Len(q)
<1>1. PICK o : IsCut(o, e, w, q, b, d)
  BY DEF Cut
<1>2. d \in 0..Len(e) /\ Len(f) = Len(e) + 1 /\ Len(e) \in Nat /\ n \in Nat
  BY DEF Cut
<1>3. ASSUME NEW i \in Nat, NEW j \in Nat, i <= j, j <= d PROVE Stretch(f, i, j) = Stretch(e, i, j)
  BY <1>2, <1>3, StretchOfLonger
<1> HIDE DEF f, n
<1>4. /\ o \in [1..n + 1 -> 0..d]
      /\ w = Stretch(e, 0, o[1])
      /\ \A i \in 1..n : o[i] <= o[i + 1] /\ q[i] = Stretch(e, o[i], o[i + 1])
      /\ b = Stretch(e, o[n + 1], d)
  BY <1>1 DEF IsCut, n
<1>5. \A i \in 1..n + 1 : o[i] \in Nat /\ o[i] <= d
  BY <1>2, <1>4
<1>6. w = Stretch(f, 0, o[1]) /\ b = Stretch(f, o[n + 1], d)
  BY <1>2, <1>3, <1>4, <1>5
<1>7. \A i \in 1..n : q[i] = Stretch(f, o[i], o[i + 1])
  BY <1>2, <1>3, <1>4, <1>5
<1>8. IsCut(o, f, w, q, b, d)
  BY <1>4, <1>6, <1>7 DEF IsCut, n
<1>9. d \in 0..Len(f)
  BY <1>2
<1>10. QED
  BY <1>8, <1>9 DEF Cut, f

(* The buffer becomes the last message.                                    *)
LEMMA CutFlushes ==
    ASSUME NEW S, NEW e \in Seq(S), NEW w, NEW q \in Seq(Seq(S)), NEW b \in Seq(S), NEW d,
           Cut(e, w, q, b, d)
    PROVE  Cut(e, w, Append(q, b), << >>, d)
<1> DEFINE r == Append(q, b)
           n == Len(q)
<1>1. PICK o : IsCut(o, e, w, q, b, d)
  BY DEF Cut
<1>2. d \in 0..Len(e) /\ Len(e) \in Nat /\ n \in Nat
  BY DEF Cut
<1>3. /\ Len(r) = n + 1
      /\ \A i \in 1..n : r[i] = q[i]
      /\ r[n + 1] = b
  OBVIOUS
<1> HIDE DEF r, n
<1>4. /\ o \in [1..n + 1 -> 0..d]
      /\ w = Stretch(e, 0, o[1])
      /\ \A i \in 1..n : o[i] <= o[i + 1] /\ q[i] = Stretch(e, o[i], o[i + 1])
      /\ b = Stretch(e, o[n + 1], d)
  BY <1>1 DEF IsCut, n
<1> DEFINE p == [i \in 1..Len(r) + 1 |-> IF i <= n + 1 THEN o[i] ELSE d]
<1>5. /\ p \in [1..Len(r) + 1 -> 0..d] /\ p[n + 2] = d
      /\ \A i \in 1..n + 1 : p[i] = o[i]
  BY <1>2, <1>3, <1>4
<1> HIDE DEF p
<1>6. ASSUME NEW i \in 1..Len(r) PROVE p[i] <= p[i + 1] /\ r[i] = Stretch(e, p[i], p[i + 1])
  <2>1. CASE i <= n
    BY <1>2, <1>3, <1>4, <1>5, <2>1
  <2>2. CASE i = n + 1
    <3>1. p[i] = o[n + 1] /\ p[i + 1] = d /\ o[n + 1] \in 0..d
      BY <1>2, <1>4, <1>5, <2>2
    <3>2. QED
      BY <1>2, <1>3, <1>4, <2>2, <3>1
  <2>3. QED
    BY <1>2, <1>3, <2>1, <2>2
<1>7. << >> = Stretch(e, p[Len(r) + 1], d)
  <2>1. p[Len(r) + 1] = d /\ d \in 0..d
    BY <1>2, <1>3, <1>5
  <2>2. Stretch(e, d, d) \in Seq(S) /\ Len(Stretch(e, d, d)) = d - d
    BY <1>2, <2>1, StretchLemma
  <2>3. QED
    BY <1>2, <2>1, <2>2, EmptySeq
<1>8. w = Stretch(e, 0, p[1])
  BY <1>2, <1>4, <1>5
<1>9. IsCut(p, e, w, r, << >>, d)
  BY <1>5, <1>6, <1>7, <1>8 DEF IsCut
<1>10. QED
  BY <1>2, <1>9 DEF Cut, r

(* A stretch of length one.                                                *)
LEMMA StretchOfOne ==
    ASSUME NEW S, NEW e \in Seq(S), NEW d \in Nat, d < Len(e)
    PROVE  <<e[d + 1]>> = Stretch(e, d, d + 1)
<1> DEFINE c == d + 1
           s == Stretch(e, d, c)
           t == <<e[c]>>
<1>1. c \in 0..Len(e) /\ d \in 0..c /\ c - d = 1 /\ d + 1 = c /\ e[c] \in S
  OBVIOUS
<1>2. t \in Seq(S) /\ Len(t) = 1 /\ t[1] = e[c]
  BY <1>1
<1> HIDE DEF c, t
<1>3. s \in Seq(S) /\ Len(s) = c - d /\ \A k \in 1..c - d : s[k] = e[d + k]
  BY <1>1, StretchLemma
<1> HIDE DEF s
<1>4. Len(s) = Len(t) /\ \A k \in 1..Len(s) : s[k] = t[k]
  BY <1>1, <1>2, <1>3
<1>5. s = t
  BY <1>2, <1>3, <1>4, EqualSequences
<1>6. QED
  BY <1>5 DEF s, t, c

(* The next packet goes to the end of the buffer.                          *)
LEMMA CutTakes ==
    ASSUME NEW S, NEW e \in Seq(S), NEW w, NEW q \in Seq(Seq(S)), NEW b \in Seq(S), NEW d,
           Cut(e, w, q, b, d), d < Len(e)
    PROVE  Cut(e, w, q, b \o <<e[d + 1]>>, d + 1)
<1> DEFINE n == Len(q)
<1>1. PICK o : IsCut(o, e, w, q, b, d)
  BY DEF Cut
<1>2. d \in Nat /\ d + 1 \in 0..Len(e) /\ d \in 0..d + 1 /\ Len(e) \in Nat /\ n \in Nat
  BY DEF Cut
<1> HIDE DEF n
<1>3. /\ o \in [1..n + 1 -> 0..d]
      /\ w = Stretch(e, 0, o[1])
      /\ \A i \in 1..n : o[i] <= o[i + 1] /\ q[i] = Stretch(e, o[i], o[i + 1])
      /\ b = Stretch(e, o[n + 1], d)
  BY <1>1 DEF IsCut, n
<1>4. o \in [1..n + 1 -> 0..d + 1] /\ o[n + 1] \in 0..d
  BY <1>2, <1>3
<1>5. <<e[d + 1]>> = Stretch(e, d, d + 1)
  BY <1>2, StretchOfOne
<1>6. b \o <<e[d + 1]>> = Stretch(e, o[n + 1], d + 1)
  <2> DEFINE c == d + 1
             a == o[n + 1]
  <2>1. c \in 0..Len(e) /\ d \in 0..c /\ a \in 0..d
    BY <1>2, <1>4
  <2>2. b = Stretch(e, a, d) /\ <<e[d + 1]>> = Stretch(e, d, c)
    BY <1>3, <1>5
  <2> HIDE DEF c, a
  <2>3. Stretch(e, a, d) \o Stretch(e, d, c) = Stretch(e, a, c)
    BY <2>1, StretchConcat
  <2>4. QED
    BY <2>2, <2>3 DEF c, a
<1>7. IsCut(o, e, w, q, b \o <<e[d + 1]>>, d + 1)
  BY <1>3, <1>4, <1>6 DEF IsCut, n
<1>8. QED
  BY <1>2, <1>7 DEF Cut

(* The first n packets of the first message are sent, the others wait.     *)
LEMMA CutSends ==
    ASSUME NEW S, NEW e \in Seq(S), NEW w, NEW q \in Seq(Seq(S)), NEW b, NEW d,
           Cut(e, w, q, b, d), q # << >>, NEW m \in 0..Len(Head(q))
    PROVE  LET message == Head(q)
               sent == w \o SubSeq(message, 1, m)
           IN  /\ Cut(e, sent, <<SubSeq(message, m + 1, Len(message))>> \o Tail(q), b, d)
               /\ \E k \in 0..Len(e) : sent = SubSeq(e, 1, k) /\ k = Len(w) + m /\ Len(w) \in Nat
<1> DEFINE n == Len(q)
           message == Head(q)
           rest == Tail(q)
           left == SubSeq(message, m + 1, Len(message))
           r == <<left>> \o rest
           sent == w \o SubSeq(message, 1, m)
<1>1. PICK o : IsCut(o, e, w, q, b, d)
  BY DEF Cut
<1>2. d \in 0..Len(e) /\ Len(e) \in Nat /\ n \in Nat \ {0} /\ message = q[1]
  BY EmptySeq, HeadTailProperties DEF Cut
<1>3. /\ message \in Seq(S) /\ left \in Seq(S)
      /\ rest \in Seq(Seq(S)) /\ Len(rest) = n - 1 /\ \A i \in 1..n - 1 : rest[i] = q[i + 1]
  <2>1. message \in Seq(S)
    BY HeadTailProperties
  <2>2. left \in Seq(S)
    BY <2>1, SubSeqProperties
  <2>3. QED
    BY <2>1, <2>2, HeadTailProperties
<1> HIDE DEF rest, left
<1>4. Len(r) = n /\ r[1] = left /\ \A i \in 2..n : r[i] = q[i]
  <2>1. <<left>> \in Seq(Seq(S)) /\ Len(<<left>>) = 1
    BY <1>3
  <2>2. /\ Len(r) = 1 + Len(rest)
        /\ \A i \in 1..1 + Len(rest) : r[i] = IF i <= 1 THEN <<left>>[i] ELSE rest[i - 1]
    BY <1>3, <2>1, ConcatProperties
  <2>3. r[1] = left
    BY <1>2, <1>3, <2>2
  <2>4. ASSUME NEW i \in 2..n PROVE r[i] = q[i]
    <3> DEFINE k == i - 1
    <3>1. k \in 1..n - 1 /\ i = k + 1 /\ i \in 1..1 + Len(rest) /\ ~(i <= 1)
      BY <1>2, <1>3
    <3>2. r[i] = rest[k]
      BY <2>2, <3>1
    <3> HIDE DEF k
    <3>3. QED
      BY <1>3, <3>1, <3>2
  <2>5. Len(r) = n
    BY <1>2, <1>3, <2>2
  <2>6. QED
    BY <2>3, <2>4, <2>5
<1> HIDE DEF n, message, r
<1>5. /\ o \in [1..n + 1 -> 0..d]
      /\ w = Stretch(e, 0, o[1])
      /\ \A i \in 1..n : o[i] <= o[i + 1] /\ q[i] = Stretch(e, o[i], o[i + 1])
      /\ b = Stretch(e, o[n + 1], d)
  BY <1>1 DEF IsCut, n
<1>6. /\ o[1] \in 0..d /\ o[2] \in 0..d /\ o[1] <= o[2]
      /\ message = Stretch(e, o[1], o[2]) /\ Len(message) = o[2] - o[1]
  <2>1. o[1] \in 0..d /\ o[2] \in 0..d /\ o[1] <= o[2] /\ message = Stretch(e, o[1], o[2])
    <3>1. 1 \in 1..n /\ 1 \in 1..n + 1 /\ 2 \in 1..n + 1 /\ 1 + 1 = 2
      BY <1>2
    <3>2. o[1] \in 0..d /\ o[2] \in 0..d
      BY <1>5, <3>1
    <3>3. o[1] <= o[1 + 1] /\ q[1] = Stretch(e, o[1], o[1 + 1])
      BY <1>5, <3>1
    <3>4. QED
      BY <1>2, <3>1, <3>2, <3>3
  <2> DEFINE x == o[1]
             y == o[2]
  <2>2. y \in 0..Len(e) /\ x \in 0..y
    BY <1>2, <2>1
  <2> HIDE DEF x, y
  <2>3. Len(Stretch(e, x, y)) = y - x
    BY <2>2, StretchLemma
  <2>4. QED
    BY <2>1, <2>3 DEF x, y
<1> DEFINE k == o[1] + m
           end == o[2]
           start == o[1]
<1>7. /\ start \in Nat /\ end \in 0..Len(e) /\ start \in 0..end /\ k \in start..end
      /\ k \in 0..d /\ m \in 0..end - start /\ end - start = Len(message)
      /\ k \in 0..Len(e) /\ start \in 0..k
  <2>1. m \in 0..Len(message) /\ d \in 0..Len(e) /\ Len(e) \in Nat
    BY <1>2 DEF message
  <2>2. start \in 0..d /\ end \in 0..d /\ start <= end /\ Len(message) = end - start
    BY <1>6
  <2>3. k = start + m
    OBVIOUS
  <2> HIDE DEF k, start, end, message
  <2>4. QED
    BY <2>1, <2>2, <2>3
<1> HIDE DEF k, start, end
<1> DEFINE len == end - start
<1>8. len = Len(message) /\ m \in 0..len /\ len \in 0..len /\ start + len = end /\ start + m = k
       /\ start + 0 = start /\ 0 \in 0..m /\ message = Stretch(e, start, end)
  <2>1. message = Stretch(e, start, end)
    BY <1>6 DEF start, end
  <2>2. QED
    BY <1>7, <2>1 DEF k, start
<1> HIDE DEF len
<1>9. \A l, h \in Nat : l <= h /\ h <= len
          => Stretch(Stretch(e, start, end), l, h) = Stretch(e, start + l, start + h)
  <2>1. ASSUME NEW l \in Nat, NEW h \in Nat, l <= h, h <= len
        PROVE  Stretch(Stretch(e, start, end), l, h) = Stretch(e, start + l, start + h)
    <3>1. h \in 0..end - start /\ l \in 0..h
      BY <1>7, <2>1 DEF len
    <3>2. QED
      BY <1>7, <3>1, StretchOfStretch
  <2>2. QED
    BY <2>1
<1>10. SubSeq(message, 1, m) = Stretch(e, start, k)
  <2>1. Stretch(Stretch(e, start, end), 0, m) = Stretch(e, start + 0, start + m)
    BY <1>8, <1>9
  <2>2. Stretch(message, 0, m) = Stretch(e, start, k)
    BY <1>8, <2>1
  <2>3. Stretch(message, 0, m) = SubSeq(message, 1, m)
    <3>1. 0 + 1 = 1
      OBVIOUS
    <3>2. QED
      BY <3>1 DEF Stretch
  <2>4. QED
    BY <2>2, <2>3
<1>11. left = Stretch(e, k, end)
  <2>1. Stretch(Stretch(e, start, end), m, len) = Stretch(e, start + m, start + len)
    BY <1>8, <1>9
  <2>2. Stretch(message, m, len) = Stretch(e, k, end)
    BY <1>8, <2>1
  <2>3. left = SubSeq(message, m + 1, len)
    BY <1>8 DEF left, message
  <2>4. QED
    BY <2>2, <2>3 DEF Stretch
<1>12. sent = Stretch(e, 0, k)
  <2>1. 0 \in 0..start /\ w = Stretch(e, 0, start)
    BY <1>5, <1>7 DEF start
  <2>2. Stretch(e, 0, start) \o Stretch(e, start, k) = Stretch(e, 0, k)
    BY <1>7, <2>1, StretchConcat
  <2>3. QED
    BY <1>10, <2>1, <2>2
<1>13. Len(w) = start
  <2>1. 0 \in 0..start /\ start \in 0..Len(e) /\ w = Stretch(e, 0, start)
    BY <1>5, <1>7 DEF start
  <2>2. Len(Stretch(e, 0, start)) = start - 0
    BY <2>1, StretchLemma
  <2>3. QED
    BY <1>7, <2>1, <2>2
<1> HIDE DEF sent
<1> DEFINE p == [o EXCEPT ![1] = k]
<1>14. p \in [1..n + 1 -> 0..d] /\ p[1] = k /\ \A i \in 2..n + 1 : p[i] = o[i]
  <2>1. 1 \in 1..n + 1 /\ \A i \in 2..n + 1 : i \in 1..n + 1 /\ i # 1
    BY <1>2
  <2>2. k \in 0..d /\ o \in [1..n + 1 -> 0..d]
    BY <1>5, <1>7
  <2>3. p \in [1..n + 1 -> 0..d] /\ p[1] = k
    BY <2>1, <2>2
  <2>4. \A i \in 2..n + 1 : p[i] = o[i]
    BY <2>1, <2>2
  <2>5. QED
    BY <2>3, <2>4
<1> HIDE DEF p
<1>15. ASSUME NEW i \in 1..n PROVE p[i] <= p[i + 1] /\ r[i] = Stretch(e, p[i], p[i + 1])
  <2>1. CASE i = 1
    <3>1. 2 \in 2..n + 1 /\ i + 1 = 2
      BY <1>2, <2>1
    <3>2. p[i] = k /\ p[i + 1] = end
      BY <1>14, <2>1, <3>1 DEF end
    <3>3. k <= end
      BY <1>7
    <3>4. QED
      BY <1>4, <1>11, <2>1, <3>2, <3>3
  <2>2. CASE i # 1
    <3>1. i \in 2..n /\ i \in 2..n + 1 /\ i + 1 \in 2..n + 1
      BY <1>2, <2>2
    <3>2. p[i] = o[i] /\ p[i + 1] = o[i + 1] /\ r[i] = q[i]
      BY <1>4, <1>14, <3>1
    <3>3. QED
      BY <1>5, <3>2
  <2>3. QED
    BY <2>1, <2>2
<1>16. b = Stretch(e, p[n + 1], d)
  BY <1>2, <1>5, <1>14
<1>17. IsCut(p, e, sent, r, b, d)
  BY <1>4, <1>12, <1>14, <1>15, <1>16 DEF IsCut
<1>18. Cut(e, sent, r, b, d)
  BY <1>2, <1>17 DEF Cut
<1>19. sent = SubSeq(e, 1, k) /\ k = Len(w) + m /\ Len(w) \in Nat
  BY <1>7, <1>12, <1>13 DEF Stretch, k, start
<1>20. QED
  BY <1>7, <1>18, <1>19 DEF r, left, rest, message, sent

(* An empty message may be dropped.                                        *)
LEMMA CutDrops ==
    ASSUME NEW S, NEW e \in Seq(S), NEW w, NEW q \in Seq(Seq(S)), NEW b, NEW d,
           Cut(e, w, << << >> >> \o q, b, d)
    PROVE  Cut(e, w, q, b, d)
<1> DEFINE r == << << >> >> \o q
           n == Len(q)
<1>1. PICK o : IsCut(o, e, w, r, b, d)
  BY DEF Cut
<1>2. d \in 0..Len(e) /\ Len(e) \in Nat /\ n \in Nat
  BY DEF Cut
<1>3. Len(r) = n + 1 /\ r[1] = << >> /\ \A i \in 1..n : r[i + 1] = q[i]
  <2>1. << << >> >> \in Seq(Seq(S)) /\ Len(<< << >> >>) = 1
    OBVIOUS
  <2>2. /\ Len(r) = 1 + Len(q)
        /\ \A i \in 1..1 + Len(q) : r[i] = IF i <= 1 THEN << << >> >>[i] ELSE q[i - 1]
    BY <2>1, ConcatProperties
  <2> HIDE DEF r
  <2>3. r[1] = << >>
    BY <1>2, <2>2
  <2>4. ASSUME NEW i \in 1..n PROVE r[i + 1] = q[i]
    <3> DEFINE k == i + 1
    <3>1. k \in 1..1 + Len(q) /\ ~(k <= 1) /\ k - 1 = i
      BY <1>2
    <3> HIDE DEF k
    <3>2. r[k] = q[i]
      BY <2>2, <3>1
    <3>3. QED
      BY <3>2 DEF k
  <2>5. QED
    BY <1>2, <2>2, <2>3, <2>4
<1> HIDE DEF r, n
<1>4. /\ o \in [1..n + 2 -> 0..d]
      /\ w = Stretch(e, 0, o[1])
      /\ \A i \in 1..n + 1 : o[i] <= o[i + 1] /\ r[i] = Stretch(e, o[i], o[i + 1])
      /\ b = Stretch(e, o[n + 2], d)
  BY <1>1, <1>2, <1>3 DEF IsCut
<1>5. o[1] = o[2]
  <2>1. o[1] \in 0..d /\ o[2] \in 0..d /\ o[1] <= o[2] /\ << >> = Stretch(e, o[1], o[2])
    <3>1. 1 \in 1..n + 1 /\ 1 \in 1..n + 2 /\ 2 \in 1..n + 2 /\ 1 + 1 = 2
      BY <1>2
    <3>2. o[1] \in 0..d /\ o[2] \in 0..d
      BY <1>4, <3>1
    <3>3. o[1] <= o[1 + 1] /\ r[1] = Stretch(e, o[1], o[1 + 1])
      BY <1>4, <3>1
    <3>4. QED
      BY <1>3, <3>1, <3>2, <3>3
  <2> DEFINE x == o[1]
             y == o[2]
  <2>2. y \in 0..Len(e) /\ x \in 0..y
    BY <1>2, <2>1
  <2>3. << >> = Stretch(e, x, y)
    BY <2>1
  <2> HIDE DEF x, y
  <2>4. Len(Stretch(e, x, y)) = y - x /\ Len(<< >>) = 0
    BY <2>2, StretchLemma
  <2>5. QED
    BY <2>2, <2>3, <2>4 DEF x, y
<1> DEFINE p == [i \in 1..n + 1 |-> o[i + 1]]
<1>6. p \in [1..n + 1 -> 0..d] /\ \A i \in 1..n + 1 : p[i] = o[i + 1]
  BY <1>2, <1>4
<1> HIDE DEF p
<1>7. w = Stretch(e, 0, p[1]) /\ b = Stretch(e, p[n + 1], d)
  BY <1>2, <1>4, <1>5, <1>6
<1>8. ASSUME NEW i \in 1..n PROVE p[i] <= p[i + 1] /\ q[i] = Stretch(e, p[i], p[i + 1])
  BY <1>2, <1>3, <1>4, <1>6
<1>9. IsCut(p, e, w, q, b, d)
  BY <1>6, <1>7, <1>8 DEF IsCut, n
<1>10. QED
  BY <1>2, <1>9 DEF Cut

-----------------------------------------------------------------------------
(* The node at a place of the chain; the first is the constructor's.       *)
At(e, k) == IF k = 0 THEN 0 ELSE e[k]
Places(e) == 0..Len(e)
Unknown(e, x) == \A k \in 1..Len(e) : e[k] # x
Single(e) == \A j, k \in 1..Len(e) : e[j] = e[k] => j = k

(* The chain has the order of the exchanges, whatever links are missing.   *)
OrderInv ==
    /\ entered \in Seq(Packet)
    /\ \A k \in 1..Len(entered) : entered[k] \in 1..Len(Data)
    /\ Single(entered)
    /\ \A p \in Sender : Entering(p) => Unknown(entered, node[p])
    /\ _head = At(entered, Len(entered))
    /\ \A k \in Places(entered) :
          k < Len(entered) => NextOf[At(entered, k)] \in {nullptr, At(entered, k + 1)}
    /\ \A p \in Sender : Linking(p) =>
          \E k \in Places(entered) : /\ k < Len(entered)
                                     /\ prevHead[p] = At(entered, k)
                                     /\ node[p] = At(entered, k + 1)

(* A packet is exchanged into the queue.                                   *)
Enters(x) == x \in Packet /\ Unknown(entered, x) /\ entered' = Append(entered, x)

TailAt(d) == d \in Places(entered) /\ _tail = At(entered, d)

(* Places of the chain.                                                    *)
LEMMA PlacesLemma ==
    ASSUME OrderInv
    PROVE  /\ Len(entered) \in Nat
           /\ \A k \in Places(entered) : At(entered, k) \in 0..Len(Data)
           /\ \A k \in Places(entered) :
                 k < Len(entered) => k + 1 \in Places(entered) /\ At(entered, k + 1) = entered[k + 1]
           /\ \A j, k \in Places(entered) : At(entered, j) = At(entered, k) => j = k
<1>1. Len(entered) \in Nat
  BY DEF OrderInv
<1>2. ASSUME NEW k \in Places(entered)
      PROVE  At(entered, k) \in 0..Len(Data) /\ (At(entered, k) = 0 <=> k = 0)
  BY <1>1 DEF OrderInv, At, Places
<1>3. ASSUME NEW j \in Places(entered), NEW k \in Places(entered), At(entered, j) = At(entered, k)
      PROVE  j = k
  <2>1. CASE j = 0 \/ k = 0
    BY <1>2, <1>3, <2>1
  <2>2. CASE j # 0 /\ k # 0
    <3>1. j \in 1..Len(entered) /\ k \in 1..Len(entered)
      BY <1>1, <2>2 DEF Places
    <3>2. QED
      BY <1>3, <2>2, <3>1 DEF At, OrderInv, Single
  <2>3. QED
    BY <2>1, <2>2
<1>4. ASSUME NEW k \in Places(entered), k < Len(entered)
      PROVE  k + 1 \in Places(entered) /\ At(entered, k + 1) = entered[k + 1]
  BY <1>1, <1>4 DEF Places, At
<1>5. QED
  BY <1>1, <1>2, <1>3, <1>4

(* The chain after one more packet has entered it.                         *)
Extended(e, f, x) ==
    /\ f \in Seq(Packet) /\ Len(f) = Len(e) + 1 /\ Len(e) \in Nat
    /\ \A k \in 1..Len(f) : f[k] = x \/ \E j \in 1..Len(e) : f[k] = e[j]
    /\ Single(f)
    /\ Places(f) = Places(e) \union {Len(e) + 1}
    /\ \A k \in Places(e) : At(f, k) = At(e, k)
    /\ At(f, Len(e) + 1) = x
    /\ \A y \in Nat : Unknown(e, y) /\ y # x => Unknown(f, y)

LEMMA EnterLemma ==
    ASSUME NEW e \in Seq(Packet), NEW x \in Packet, Unknown(e, x), Single(e)
    PROVE  Extended(e, Append(e, x), x)
<1> DEFINE n == Len(e)
           f == Append(e, x)
<1>1. n \in Nat
  OBVIOUS
<1>2. /\ f \in Seq(Packet) /\ Len(f) = n + 1
      /\ \A k \in 1..n : f[k] = e[k]
      /\ f[n + 1] = x
  OBVIOUS
<1> HIDE DEF n, f
<1>3. \A k \in 1..n + 1 : k \in 1..n \/ k = n + 1
  BY <1>1
<1>4. \A k \in 1..n + 1 : f[k] = x \/ \E j \in 1..n : f[k] = e[j]
  BY <1>2, <1>3
<1>5. ASSUME NEW j \in 1..n + 1, NEW k \in 1..n + 1, f[j] = f[k] PROVE j = k
  <2>1. \A i \in 1..n : e[i] # x
    BY DEF Unknown, n
  <2>2. \A i, l \in 1..n : e[i] = e[l] => i = l
    BY DEF n, Single
  <2>3. QED
    BY <1>2, <1>3, <1>5, <2>1, <2>2
<1>6. Places(f) = Places(e) \union {n + 1}
  BY <1>1, <1>2 DEF Places, n
<1>7. ASSUME NEW k \in Places(e) PROVE At(f, k) = At(e, k)
  <2>1. k = 0 \/ k \in 1..n
    BY <1>1 DEF Places, n
  <2>2. QED
    BY <1>2, <2>1 DEF At
<1>8. At(f, n + 1) = x
  BY <1>1, <1>2 DEF At
<1>9. ASSUME NEW y \in Nat, Unknown(e, y), y # x PROVE Unknown(f, y)
  <2>1. \A i \in 1..n : e[i] # y
    BY <1>9 DEF Unknown, n
  <2>2. \A i \in 1..n + 1 : f[i] # y
    BY <1>2, <1>3, <1>9, <2>1
  <2>3. QED
    BY <1>2, <2>2 DEF Unknown
<1>10. QED
  BY <1>1, <1>2, <1>4, <1>5, <1>6, <1>7, <1>8, <1>9 DEF n, f, Single, Extended

(* The same of the queue, after the exchange.                              *)
LEMMA Entered ==
    ASSUME OrderInv, Len(Data) \in Nat, NEW x, Enters(x), NEW m \in Nat, x \in 1..m,
           Len(Data) <= m
    PROVE  /\ entered' \in Seq(Packet) /\ Len(entered') = Len(entered) + 1
           /\ \A k \in 1..Len(entered') : entered'[k] \in 1..m
           /\ Single(entered')
           /\ Places(entered') = Places(entered) \union {Len(entered) + 1}
           /\ \A k \in Places(entered) : At(entered', k) = At(entered, k)
           /\ At(entered', Len(entered) + 1) = x
           /\ \A y \in Nat : Unknown(entered, y) /\ y # x => Unknown(entered', y)
<1>1. /\ entered \in Seq(Packet) /\ x \in Packet /\ Unknown(entered, x)
      /\ Single(entered)
      /\ entered' = Append(entered, x)
  BY DEF OrderInv, Enters
<1>2. /\ entered' \in Seq(Packet) /\ Len(entered') = Len(entered) + 1
      /\ \A k \in 1..Len(entered') :
            entered'[k] = x \/ \E j \in 1..Len(entered) : entered'[k] = entered[j]
      /\ Single(entered')
      /\ Places(entered') = Places(entered) \union {Len(entered) + 1}
      /\ \A k \in Places(entered) : At(entered', k) = At(entered, k)
      /\ At(entered', Len(entered) + 1) = x
      /\ \A y \in Nat : Unknown(entered, y) /\ y # x => Unknown(entered', y)
  BY <1>1, EnterLemma DEF Extended
<1>3. \A k \in 1..Len(entered) : entered[k] \in 1..m
  BY DEF OrderInv
<1>4. \A k \in 1..Len(entered') : entered'[k] \in 1..m
  BY <1>2, <1>3
<1>5. QED
  BY <1>2, <1>4

(* What every step does to the chain.                                      *)
LEMMA OrderNext ==
    ASSUME QueueTypes, ChainInv, OrderInv, QueueStep
    PROVE  OrderInv'
<1> USE NodeLemma
<1>0. /\ Len(Data) \in Nat /\ Len(entered) \in Nat
      /\ \A k \in Places(entered) : At(entered, k) \in 0..Len(Data)
      /\ \A j, k \in Places(entered) : At(entered, j) = At(entered, k) => j = k
      /\ Len(entered) \in Places(entered)
  BY LenProperties, PlacesLemma DEF QueueTypes, Places
<1>1. CASE UNCHANGED queueVars
  BY <1>1 DEF queueVars, OrderInv, Linking, Entering, Unknown, At, Places
<1>2. CASE bufferQueue!Dequeue
  <2>1. UNCHANGED <<_head, NextOf, Data, at, node, prevHead, entered>>
    BY <1>2 DEF bufferQueue!Dequeue
  <2>2. QED
    BY <2>1 DEF OrderInv, Linking, Entering, Unknown, At, Places, Single
<1>3. ASSUME NEW size \in PacketSize, bufferQueue!Enqueue(size) PROVE OrderInv'
  <2> DEFINE x == Len(Data) + 1
             n == Len(entered)
  <2>1. /\ Len(Data') = x /\ x \in Node /\ Len(Data) < MaxPackets
        /\ NextOf' = [NextOf EXCEPT ![_head] = x] /\ _head' = x
        /\ entered' = Append(entered, x)
        /\ UNCHANGED <<at, node, prevHead>>
    BY <1>0, <1>3, DataLemma DEF bufferQueue!Enqueue
  <2>2. x \in Packet /\ x \in 1..Len(Data') /\ Len(Data) <= x /\ x \in Nat /\ x # 0
        /\ x \notin 1..Len(Data)
    BY <1>0, <2>1
  <2> HIDE DEF x
  <2>3. Enters(x)
    <3>1. \A k \in 1..Len(entered) : entered[k] # x
      BY <2>2 DEF OrderInv
    <3>2. QED
      BY <2>1, <2>2, <3>1 DEF Enters, Unknown
  <2>4. /\ entered' \in Seq(Packet) /\ Len(entered') = n + 1
        /\ \A k \in 1..Len(entered') : entered'[k] \in 1..Len(Data')
        /\ Single(entered')
        /\ Places(entered') = Places(entered) \union {n + 1}
        /\ \A k \in Places(entered) : At(entered', k) = At(entered, k)
        /\ At(entered', n + 1) = x
        /\ \A y \in Nat : Unknown(entered, y) /\ y # x => Unknown(entered', y)
    BY <1>0, <2>1, <2>2, <2>3, Entered DEF n
  <2>5. \A p \in Sender : (Linking(p)' <=> Linking(p)) /\ (Entering(p)' <=> Entering(p))
    BY <2>1 DEF Linking, Entering
  <2>6. ASSUME NEW p \in Sender, Entering(p)' PROVE Unknown(entered', node'[p])
    <3>1. node[p] \in 1..Len(Data) /\ Unknown(entered, node[p]) /\ node'[p] = node[p]
      BY <2>1, <2>5, <2>6 DEF ChainInv, OrderInv
    <3>2. node[p] # x
      BY <2>2, <3>1
    <3>3. QED
      BY <2>4, <3>1, <3>2
  <2>7. _head' = At(entered', Len(entered'))
    BY <2>1, <2>4
  <2>8. \A k \in Node : NextOf'[k] = IF k = _head THEN x ELSE NextOf[k]
    BY <2>1 DEF QueueTypes
  <2>9. _head = At(entered, n) /\ n \in Places(entered) /\ n \in Nat
    BY <1>0 DEF OrderInv
  <2> HIDE DEF n
  <2>10. ASSUME NEW k \in Places(entered'), k < Len(entered')
         PROVE  NextOf'[At(entered', k)] \in {nullptr, At(entered', k + 1)}
    <3>1. k \in Places(entered) /\ k <= n /\ k \in Nat /\ k + 1 \in Nat
      BY <2>4, <2>9, <2>10 DEF Places, n
    <3>2. At(entered', k) = At(entered, k) /\ At(entered, k) \in Node
      <4>1. At(entered', k) = At(entered, k) /\ At(entered, k) \in 0..Len(Data)
        BY <1>0, <2>4, <3>1
      <4>2. Len(Data) <= MaxPackets
        BY DEF QueueTypes
      <4>3. QED
        BY <1>0, <4>1, <4>2
    <3>3. CASE k = n
      BY <2>4, <2>8, <2>9, <3>2, <3>3
    <3>4. CASE k # n
      <4>1. k < n /\ k + 1 \in Places(entered)
        BY <2>9, <3>1, <3>4 DEF Places, n
      <4>2. NextOf[At(entered, k)] \in {nullptr, At(entered, k + 1)}
        BY <3>1, <4>1 DEF OrderInv, n
      <4>3. At(entered, k) # _head
        BY <1>0, <2>9, <3>1, <3>4
      <4>4. At(entered', k + 1) = At(entered, k + 1)
        BY <2>4, <4>1
      <4>5. QED
        BY <2>8, <3>2, <4>2, <4>3, <4>4
    <3>5. QED
      BY <3>3, <3>4
  <2>11. ASSUME NEW p \in Sender, Linking(p)'
         PROVE  \E k \in Places(entered') : /\ k < Len(entered')
                                   /\ prevHead'[p] = At(entered', k) /\ node'[p] = At(entered', k + 1)
    <3>1. PICK k \in Places(entered) : k < n /\ prevHead[p] = At(entered, k) /\ node[p] = At(entered, k + 1)
      BY <2>5, <2>11 DEF OrderInv, n
    <3>2. k + 1 \in Places(entered) /\ k \in Places(entered') /\ k < Len(entered')
      BY <2>4, <2>9, <3>1 DEF Places, n
    <3>3. QED
      BY <2>1, <2>4, <3>1, <3>2
  <2>12. QED
    BY <2>4, <2>6, <2>7, <2>10, <2>11 DEF OrderInv
<1>4. ASSUME NEW s \in Sender, NEW size \in PacketSize, bufferQueue!NewNode(s, size)
      PROVE  OrderInv'
  <2> DEFINE x == Len(Data) + 1
  <2>1. /\ Len(Data') = x /\ x \in Nat
        /\ UNCHANGED <<_head, NextOf, prevHead, entered>>
        /\ node'[s] = x /\ \A p \in Sender \ {s} : node'[p] = node[p]
        /\ ~Linking(s)'
        /\ \A p \in Sender \ {s} : (Linking(p)' <=> Linking(p)) /\ (Entering(p)' <=> Entering(p))
    BY <1>0, <1>4, DataLemma DEF bufferQueue!NewNode, QueueTypes, Linking, Entering
  <2>2. 1..Len(Data) \subseteq 1..x /\ x \notin 1..Len(Data)
    BY <1>0
  <2> HIDE DEF x
  <2>3. Places(entered') = Places(entered) /\ entered' = entered
    BY <2>1 DEF Places, At, Unknown
  <2>4. Unknown(entered, x)
    BY <2>2 DEF OrderInv, Unknown
  <2>5. ASSUME NEW p \in Sender, Entering(p)' PROVE Unknown(entered', node'[p])
    <3>1. CASE p = s
      BY <2>1, <2>3, <2>4, <3>1
    <3>2. CASE p # s
      BY <2>1, <2>3, <2>5, <3>2 DEF OrderInv
    <3>3. QED
      BY <3>1, <3>2
  <2>6. ASSUME NEW p \in Sender, Linking(p)'
        PROVE  \E k \in Places(entered') : /\ k < Len(entered')
                                  /\ prevHead'[p] = At(entered', k) /\ node'[p] = At(entered', k + 1)
    <3>1. p # s /\ Linking(p) /\ prevHead'[p] = prevHead[p] /\ node'[p] = node[p]
      BY <2>1, <2>6
    <3>2. PICK k \in Places(entered) : k < Len(entered) /\ prevHead[p] = At(entered, k) /\ node[p] = At(entered, k + 1)
      BY <3>1 DEF OrderInv
    <3>3. QED
      BY <2>1, <2>3, <3>1, <3>2
  <2>7. \A k \in 1..Len(entered) : entered[k] \in 1..x
    BY <2>2 DEF OrderInv
  <2>8. QED
    BY <2>1, <2>3, <2>5, <2>6, <2>7 DEF OrderInv
<1>5. ASSUME NEW s \in Sender, bufferQueue!Exchange(s) PROVE OrderInv'
  <2> DEFINE x == node[s]
             n == Len(entered)
  <2>1. /\ Entering(s) /\ _head' = x /\ prevHead'[s] = _head
        /\ entered' = Append(entered, x)
        /\ UNCHANGED <<NextOf, Data, node>>
        /\ \A p \in Sender \ {s} : prevHead'[p] = prevHead[p]
        /\ ~Entering(s)'
        /\ \A p \in Sender \ {s} : (Linking(p)' <=> Linking(p)) /\ (Entering(p)' <=> Entering(p))
    BY <1>5 DEF bufferQueue!Exchange, bufferQueue!HeadAfter, QueueTypes, Linking, Entering
  <2>2. /\ x \in 1..Len(Data) /\ Unknown(entered, x) /\ Len(Data) <= MaxPackets
        /\ \A p \in Sender : Entering(p) /\ p # s => node[p] # x
    BY <2>1 DEF ChainInv, OrderInv, QueueTypes
  <2>3. Enters(x)
    <3>1. x \in Packet
      BY <1>0, <2>2
    <3>2. QED
      BY <2>1, <2>2, <3>1 DEF Enters
  <2>4. /\ entered' \in Seq(Packet) /\ Len(entered') = n + 1
        /\ \A k \in 1..Len(entered') : entered'[k] \in 1..Len(Data')
        /\ Single(entered')
        /\ Places(entered') = Places(entered) \union {n + 1}
        /\ \A k \in Places(entered) : At(entered', k) = At(entered, k)
        /\ At(entered', n + 1) = x
        /\ \A y \in Nat : Unknown(entered, y) /\ y # x => Unknown(entered', y)
    <3>1. Len(Data') = Len(Data) /\ Len(Data) <= Len(Data)
      BY <1>0, <2>1
    <3>2. QED
      BY <1>0, <2>2, <2>3, <3>1, Entered DEF n
  <2>9. _head = At(entered, n) /\ n \in Places(entered) /\ n \in Nat /\ NextOf[_head] = nullptr
    BY <1>0 DEF OrderInv, ChainInv
  <2> HIDE DEF x, n
  <2>6. ASSUME NEW p \in Sender, Entering(p)' PROVE Unknown(entered', node'[p])
    <3>1. p # s /\ Entering(p) /\ Unknown(entered, node[p]) /\ node'[p] = node[p]
      BY <2>1, <2>6 DEF OrderInv
    <3>2. node[p] # x /\ node[p] \in Nat
      BY <2>2, <3>1 DEF QueueTypes
    <3>3. QED
      BY <2>4, <3>1, <3>2
  <2>7. _head' = At(entered', Len(entered'))
    BY <2>1, <2>4
  <2>10. ASSUME NEW k \in Places(entered'), k < Len(entered')
         PROVE  NextOf'[At(entered', k)] \in {nullptr, At(entered', k + 1)}
    <3>1. k \in Places(entered) /\ k <= n /\ k \in Nat /\ k + 1 \in Nat
      BY <2>4, <2>9, <2>10 DEF Places, n
    <3>2. At(entered', k) = At(entered, k)
      BY <2>4, <3>1
    <3>3. CASE k = n
      BY <2>1, <2>9, <3>2, <3>3
    <3>4. CASE k # n
      <4>1. k < n /\ k + 1 \in Places(entered)
        BY <2>9, <3>1, <3>4 DEF Places, n
      <4>2. NextOf[At(entered, k)] \in {nullptr, At(entered, k + 1)}
        BY <3>1, <4>1 DEF OrderInv, n
      <4>4. At(entered', k + 1) = At(entered, k + 1)
        BY <2>4, <4>1
      <4>5. QED
        BY <2>1, <3>2, <4>2, <4>4
    <3>5. QED
      BY <3>3, <3>4
  <2>11. ASSUME NEW p \in Sender, Linking(p)'
         PROVE  \E k \in Places(entered') : /\ k < Len(entered')
                                   /\ prevHead'[p] = At(entered', k) /\ node'[p] = At(entered', k + 1)
    <3>1. CASE p = s
      <4>1. prevHead'[p] = At(entered', n) /\ node'[p] = At(entered', n + 1)
        BY <2>1, <2>4, <2>9, <3>1 DEF x
      <4>2. n \in Places(entered') /\ n < Len(entered')
        BY <2>4, <2>9
      <4>3. QED
        BY <4>1, <4>2
    <3>2. CASE p # s
      <4>1. PICK k \in Places(entered) : k < n /\ prevHead[p] = At(entered, k) /\ node[p] = At(entered, k + 1)
        BY <2>1, <2>11, <3>2 DEF OrderInv, n
      <4>2. k + 1 \in Places(entered) /\ k \in Places(entered') /\ k < Len(entered')
        BY <2>4, <2>9, <4>1 DEF Places, n
      <4>3. QED
        BY <2>1, <2>4, <3>2, <4>1, <4>2
    <3>3. QED
      BY <3>1, <3>2
  <2>12. QED
    BY <2>4, <2>6, <2>7, <2>10, <2>11 DEF OrderInv
<1>6. ASSUME NEW s \in Sender, bufferQueue!Link(s) PROVE OrderInv'
  <2>1. /\ Linking(s) /\ UNCHANGED <<_head, Data, entered>>
        /\ \A k \in Node : NextOf'[k] = IF k = prevHead[s] THEN node[s] ELSE NextOf[k]
        /\ \A p \in Sender \ {s} : node'[p] = node[p] /\ prevHead'[p] = prevHead[p]
        /\ ~Linking(s)' /\ ~Entering(s)'
        /\ \A p \in Sender \ {s} : (Linking(p)' <=> Linking(p)) /\ (Entering(p)' <=> Entering(p))
    BY <1>6 DEF bufferQueue!Link, QueueTypes, Linking, Entering
  <2>2. PICK i \in Places(entered) : i < Len(entered) /\ prevHead[s] = At(entered, i) /\ node[s] = At(entered, i + 1)
    BY <2>1 DEF OrderInv
  <2>3. Places(entered') = Places(entered) /\ entered' = entered
    BY <2>1 DEF Places, At, Unknown
  <2>4. ASSUME NEW k \in Places(entered), k < Len(entered)
        PROVE  NextOf'[At(entered, k)] \in {nullptr, At(entered, k + 1)}
    <3>1. At(entered, k) \in Node /\ NextOf[At(entered, k)] \in {nullptr, At(entered, k + 1)}
      <4>1. At(entered, k) \in 0..Len(Data) /\ Len(Data) <= MaxPackets
        BY <1>0 DEF QueueTypes
      <4>2. At(entered, k) \in Node
        BY <1>0, <4>1
      <4>3. QED
        BY <2>4, <4>2 DEF OrderInv
    <3>2. CASE At(entered, k) = prevHead[s]
      <4>1. k = i
        BY <1>0, <2>2, <3>2
      <4>2. QED
        BY <2>1, <2>2, <3>1, <3>2, <4>1
    <3>3. CASE At(entered, k) # prevHead[s]
      BY <2>1, <3>1, <3>3
    <3>4. QED
      BY <3>2, <3>3
  <2>5. ASSUME NEW p \in Sender, Linking(p)'
        PROVE  \E k \in Places(entered') : /\ k < Len(entered')
                                  /\ prevHead'[p] = At(entered', k) /\ node'[p] = At(entered', k + 1)
    <3>1. p # s /\ Linking(p) /\ prevHead'[p] = prevHead[p] /\ node'[p] = node[p]
      BY <2>1, <2>5
    <3>2. PICK k \in Places(entered) : k < Len(entered) /\ prevHead[p] = At(entered, k) /\ node[p] = At(entered, k + 1)
      BY <3>1 DEF OrderInv
    <3>3. QED
      BY <2>1, <2>3, <3>1, <3>2
  <2>6. ASSUME NEW p \in Sender, Entering(p)' PROVE Unknown(entered', node'[p])
    BY <2>1, <2>3, <2>6 DEF OrderInv
  <2>7. QED
    BY <2>1, <2>3, <2>4, <2>5, <2>6 DEF OrderInv
<1>7. QED
  BY <1>1, <1>2, <1>3, <1>4, <1>5, <1>6 DEF QueueStep, QueueGrows

-----------------------------------------------------------------------------
(* Either nothing enters the queue, or one packet; the tail stays.         *)
LEMMA GrowsLemma ==
    ASSUME QueueTypes, ChainInv, OrderInv, QueueGrows
    PROVE  UNCHANGED _tail /\ (UNCHANGED entered \/ \E x \in Packet : Enters(x))
<1> USE NodeLemma
<1>1. CASE UNCHANGED queueVars
  BY <1>1 DEF queueVars
<1>2. ASSUME NEW size \in PacketSize, bufferQueue!Enqueue(size)
      PROVE  UNCHANGED _tail /\ \E x \in Packet : Enters(x)
  <2> DEFINE x == Len(Data) + 1
  <2>1. /\ Len(Data) \in Nat /\ Len(Data) < MaxPackets /\ entered' = Append(entered, x)
        /\ UNCHANGED _tail
    BY <1>2, DataLemma DEF bufferQueue!Enqueue
  <2>2. x \in Packet /\ x \notin 1..Len(Data)
    BY <2>1
  <2> HIDE DEF x
  <2>3. Unknown(entered, x)
    BY <2>2 DEF OrderInv, Unknown
  <2>4. QED
    BY <2>1, <2>2, <2>3 DEF Enters
<1>3. ASSUME NEW s \in Sender, bufferQueue!Exchange(s)
      PROVE  UNCHANGED _tail /\ \E x \in Packet : Enters(x)
  <2> DEFINE x == node[s]
  <2>1. Entering(s) /\ entered' = Append(entered, x) /\ UNCHANGED _tail
    BY <1>3 DEF bufferQueue!Exchange, Entering
  <2>2. /\ x \in 1..Len(Data) /\ Unknown(entered, x) /\ Len(Data) <= MaxPackets
        /\ Len(Data) \in Nat
    BY <2>1, LenProperties DEF ChainInv, OrderInv, QueueTypes
  <2>3. x \in Packet
    BY <2>2
  <2> HIDE DEF x
  <2>4. QED
    BY <2>1, <2>2, <2>3 DEF Enters
<1>4. ASSUME NEW s \in Sender, NEW size \in PacketSize, bufferQueue!NewNode(s, size)
      PROVE  UNCHANGED <<_tail, entered>>
  BY <1>4 DEF bufferQueue!NewNode
<1>5. ASSUME NEW s \in Sender, bufferQueue!Link(s)
      PROVE  UNCHANGED <<_tail, entered>>
  BY <1>5 DEF bufferQueue!Link
<1>6. QED
  BY <1>1, <1>2, <1>3, <1>4, <1>5 DEF QueueGrows

(* A packet that enters changes nothing before the end.                    *)
LEMMA TailStays ==
    ASSUME QueueTypes, OrderInv, NEW d, TailAt(d), UNCHANGED _tail,
           UNCHANGED entered \/ \E x \in Packet : Enters(x)
    PROVE  TailAt(d)'
<1>1. CASE UNCHANGED entered
  BY <1>1 DEF TailAt, Places, At
<1>2. ASSUME NEW x \in Packet, Enters(x) PROVE d \in Places(entered') /\ _tail' = At(entered', d)
  <2>1. /\ entered \in Seq(Packet) /\ Unknown(entered, x) /\ Single(entered)
        /\ entered' = Append(entered, x)
    BY <1>2 DEF OrderInv, Enters
  <2>2. Extended(entered, entered', x)
    BY <2>1, EnterLemma
  <2>3. QED
    BY <2>2 DEF Extended, TailAt
<1>3. QED
  BY <1>1, <1>2 DEF TailAt

(* Dequeue takes the next packet of the chain.                             *)
LEMMA TailMoves ==
    ASSUME QueueTypes, ChainInv, OrderInv, NEW d, TailAt(d), bufferQueue!Dequeue
    PROVE  /\ d \in Nat /\ d < Len(entered) /\ UNCHANGED entered
           /\ NextOf[_tail] = entered[d + 1]
           /\ TailAt(d + 1)'
<1>1. /\ NextOf[_tail] # nullptr /\ _tail' = NextOf[_tail] /\ UNCHANGED entered
      /\ d \in Places(entered) /\ _tail = At(entered, d)
  BY DEF bufferQueue!Dequeue, bufferQueue!HasNext, TailAt
<1>2. Len(entered) \in Nat
  BY PlacesLemma
<1>3. d # Len(entered)
  BY <1>1 DEF OrderInv, ChainInv
<1>4. d \in Nat /\ d < Len(entered)
  BY <1>1, <1>2, <1>3 DEF Places
<1>5. d + 1 \in Places(entered) /\ At(entered, d + 1) = entered[d + 1]
  BY <1>1, <1>4, PlacesLemma
<1>6. NextOf[_tail] = At(entered, d + 1)
  BY <1>1, <1>4 DEF OrderInv
<1>7. d + 1 \in Places(entered') /\ _tail' = At(entered', d + 1)
  BY <1>1, <1>5, <1>6
<1>8. QED
  BY <1>1, <1>4, <1>5, <1>6, <1>7 DEF TailAt

-----------------------------------------------------------------------------
(* The sizes of packets that are in the queue are numbers.                 *)
LEMMA SizeLemma ==
    ASSUME QueueTypes, OrderInv, NEW d, Cut(entered, written, _writeQueue, buffer, d),
           _writeQueue \in Seq(Seq(Packet))
    PROVE  SizeOf(buffer) \in Nat
<1> DEFINE n == Len(_writeQueue)
<1>1. PICK o : IsCut(o, entered, written, _writeQueue, buffer, d)
  BY DEF Cut
<1>2. /\ n \in Nat /\ d \in 0..Len(entered) /\ Len(entered) \in Nat /\ entered \in Seq(Packet)
      /\ o \in [1..n + 1 -> 0..d] /\ buffer = Stretch(entered, o[n + 1], d)
  BY <1>1, LenProperties DEF Cut, IsCut, OrderInv
<1> DEFINE a == o[n + 1]
<1>3. a \in 0..d
  BY <1>2
<1> HIDE DEF a, n
<1>4. /\ Stretch(entered, a, d) \in Seq(Packet) /\ Len(Stretch(entered, a, d)) = d - a
      /\ \A k \in 1..d - a : Stretch(entered, a, d)[k] = entered[a + k]
  BY <1>2, <1>3, StretchLemma
<1>5. buffer = Stretch(entered, a, d)
  BY <1>2 DEF a
<1>6. ASSUME NEW k \in 1..Len(buffer) PROVE Data[buffer[k]] \in Nat
  <2>1. a + k \in 1..Len(entered) /\ buffer[k] = entered[a + k]
    BY <1>2, <1>3, <1>4, <1>5
  <2>2. buffer[k] \in 1..Len(Data)
    BY <2>1 DEF OrderInv
  <2>3. Data[buffer[k]] \in PacketSize
    BY <2>2 DEF QueueTypes
  <2>4. QED
    BY <2>3, NodeLemma
<1>7. WeightOf(Data, buffer) \in Nat
  BY <1>4, <1>5, <1>6, WeightIsNatural
<1>8. QED
  BY <1>7 DEF WeightOf, SizeOf

(* Two messages put at the end, one after the other.                       *)
LEMMA AppendTwo ==
    ASSUME NEW S, NEW q \in Seq(S), NEW x \in S, NEW y \in S
    PROVE  /\ q \o (<<x>> \o <<y>>) = Append(Append(q, x), y)
           /\ q \o (<<x>> \o << >>) = Append(q, x)
           /\ q \o (<< >> \o << >>) = q
  OBVIOUS

(* What Drain does to the messages is a way for one packet more.           *)
LEMMA DrainTakes ==
    ASSUME QueueTypes, WritingTypes, ChainInv, OrderInv, NEW d, TailAt(d), Drain,
           Cut(entered, written, _writeQueue, buffer, d)
    PROVE  Cut(entered, written, _writeQueue', buffer', d + 1)
<1> DEFINE e == entered
           w == written
           q == _writeQueue
           b == buffer
           p == e[d + 1]
<1>1. /\ d \in Nat /\ d < Len(e) /\ NextOf[_tail] = p
  BY TailMoves DEF Drain
<1>2. /\ _writeQueue' = q \o Messages(p) /\ buffer' = BufferAfter(p)
  BY <1>1 DEF Drain
<1>3. /\ e \in Seq(Packet) /\ q \in Seq(Seq(Packet)) /\ b \in Seq(Packet)
      /\ << >> \in Seq(Packet) /\ << >> \in Seq(Seq(Packet))
  BY EmptySeq DEF OrderInv, WritingTypes
<1>4. p \in Packet /\ Data[p] \in Nat /\ SendBufferSize \in Nat
  <2>1. p \in 1..Len(Data) /\ p \in Packet
    BY <1>1, <1>3 DEF OrderInv
  <2>2. Data[p] \in PacketSize
    BY <2>1 DEF QueueTypes
  <2>3. QED
    BY <2>1, <2>2, NodeLemma, SocketAssumption
<1>5. IsLarge(p) => Flushes(p)
  <2>1. SizeOf(b) \in Nat
    BY <1>3, SizeLemma
  <2> DEFINE size == SizeOf(b)
             data == Data[p]
  <2>2. size \in Nat /\ data \in Nat /\ SendBufferSize \in Nat
    BY <1>4, <2>1
  <2> HIDE DEF size, data
  <2>3. data > SendBufferSize => size + data > SendBufferSize
    BY <2>2
  <2>4. QED
    BY <2>3 DEF size, data, IsLarge, Flushes
<1>6. Cut(e, w, q, b, d)
  OBVIOUS
<1> HIDE DEF e, w, q, b, p
<1>7. <<p>> \in Seq(Packet) /\ (<< >> \o <<p>>) = <<p>> /\ (<< >> \o << >>) = << >>
  BY <1>3, <1>4
<1>8. CASE ~Flushes(p)
  <2>1. Messages(p) = << >> \o << >> /\ BufferAfter(p) = b \o <<p>>
    BY <1>5, <1>8 DEF Messages, BufferAfter, b
  <2>2. _writeQueue' = q /\ buffer' = b \o <<p>>
    BY <1>2, <1>3, <2>1, AppendTwo
  <2>3. Cut(e, w, q, b \o <<p>>, d + 1)
    BY <1>1, <1>3, <1>6, CutTakes DEF p
  <2>4. QED
    BY <2>2, <2>3 DEF e, w
<1>9. CASE Flushes(p)
  <2> DEFINE r == Append(q, b)
  <2>1. r \in Seq(Seq(Packet)) /\ Cut(e, w, r, << >>, d)
    BY <1>3, <1>6, CutFlushes
  <2> HIDE DEF r
  <2>2. Cut(e, w, r, << >> \o <<p>>, d + 1)
    BY <1>1, <1>3, <2>1, CutTakes DEF p
  <2>3. Cut(e, w, r, <<p>>, d + 1)
    BY <1>7, <2>2
  <2>4. CASE ~IsLarge(p)
    <3>1. Messages(p) = <<b>> \o << >> /\ BufferAfter(p) = << >> \o <<p>>
      BY <1>9, <2>4 DEF Messages, BufferAfter, b
    <3>2. _writeQueue' = r /\ buffer' = <<p>>
      BY <1>2, <1>3, <1>7, <3>1, AppendTwo DEF r
    <3>3. QED
      BY <2>3, <3>2 DEF e, w
  <2>5. CASE IsLarge(p)
    <3>1. Messages(p) = <<b>> \o << <<p>> >> /\ BufferAfter(p) = << >> \o << >>
      BY <1>9, <2>5 DEF Messages, BufferAfter, b
    <3>2. _writeQueue' = Append(r, <<p>>) /\ buffer' = << >>
      BY <1>2, <1>3, <1>7, <3>1, AppendTwo DEF r
    <3>3. Cut(e, w, Append(r, <<p>>), << >>, d + 1)
      BY <1>3, <1>7, <2>1, <2>3, CutFlushes
    <3>4. QED
      BY <3>2, <3>3 DEF e, w
  <2>6. QED
    BY <2>4, <2>5
<1>10. QED
  BY <1>8, <1>9 DEF e, w

-----------------------------------------------------------------------------
(* What WriteSome does to the messages is a way for the same packets, n of *)
(* them sent.                                                              *)
LEMMA WriteSends ==
    ASSUME OrderInv, WritingTypes, _writeQueue # << >>, NEW d, NEW n \in Packet \union {0},
           WriteSome(n), Cut(entered, written, _writeQueue, buffer, d)
    PROVE  /\ Cut(entered, written', _writeQueue', buffer, d)
           /\ \E k \in 0..Len(entered) : /\ written' = SubSeq(entered, 1, k)
                                         /\ Len(written) \in Nat /\ k = Len(written) + n
           /\ n = 0 => written' = written
<1> DEFINE e == entered
           w == written
           q == _writeQueue
           message == Head(q)
           sent == w \o SubSeq(message, 1, n)
           left == SubSeq(message, n + 1, Len(message))
<1>1. /\ e \in Seq(Packet) /\ q \in Seq(Seq(Packet)) /\ q # << >> /\ w \in Seq(Packet)
      /\ message \in Seq(Packet) /\ Tail(q) \in Seq(Seq(Packet))
  BY HeadTailProperties DEF OrderInv, WritingTypes
<1>2. /\ n \in 0..Len(message) /\ written' = sent
      /\ \/ n = Len(message) /\ _writeQueue' = Tail(q)
         \/ n # Len(message) /\ _writeQueue' = <<left>> \o Tail(q)
  BY DEF WriteSome, PopMessage, Unsent
<1>3. Cut(e, w, q, buffer, d)
  OBVIOUS
<1> HIDE DEF e, w, q
<1>4. /\ Cut(e, sent, <<left>> \o Tail(q), buffer, d)
      /\ \E k \in 0..Len(e) : sent = SubSeq(e, 1, k) /\ k = Len(w) + n /\ Len(w) \in Nat
  BY <1>1, <1>2, <1>3, CutSends
<1>5. n = 0 => sent = w
  <2>1. ASSUME n = 0 PROVE sent = w
    <3>1. SubSeq(message, 1, n) = << >>
      <4>1. Len(message) \in Nat /\ \A k \in 1..n : message[k] \in Packet
        BY <1>1, <2>1
      <4>2. /\ SubSeq(message, 1, 0) \in Seq(Packet)
            /\ Len(SubSeq(message, 1, 0)) = IF 1 <= 0 THEN 0 - 1 + 1 ELSE 0
        BY <1>1, <2>1, <4>1, SubSeqProperties
      <4>3. QED
        BY <2>1, <4>2, EmptySeq
    <3> HIDE DEF message
    <3>2. w \o << >> = w
      BY <1>1
    <3>3. QED
      BY <3>1, <3>2
  <2>2. QED
    BY <2>1
<1>6. n = Len(message) => left = << >>
  <2>1. ASSUME n = Len(message) PROVE left = << >>
    <3> DEFINE l == Len(message)
    <3>1. l \in Nat /\ \A k \in l + 1..l : message[k] \in Packet
      BY <1>1
    <3>2. l + 1 \in Int /\ l + 1 > l /\ 1 <= l + 1
      BY <3>1
    <3>3. left = SubSeq(message, l + 1, l)
      BY <2>1
    <3> HIDE DEF l, message, left
    <3>4. /\ SubSeq(message, l + 1, l) \in Seq(Packet)
          /\ Len(SubSeq(message, l + 1, l)) = IF l + 1 <= l THEN l - (l + 1) + 1 ELSE 0
      BY <1>1, <3>1, <3>2, SubSeqProperties
    <3>5. Len(left) = 0 /\ left \in Seq(Packet)
      BY <3>1, <3>3, <3>4
    <3>6. QED
      BY <3>5, EmptySeq
  <2>2. QED
    BY <2>1
<1> HIDE DEF sent, left, message
<1>7. Cut(e, sent, _writeQueue', buffer, d)
  <2>1. CASE n # Len(message)
    BY <1>2, <1>4, <2>1
  <2>2. CASE n = Len(message)
    <3>1. Cut(e, sent, << << >> >> \o Tail(q), buffer, d)
      BY <1>4, <1>6, <2>2
    <3>2. Cut(e, sent, Tail(q), buffer, d)
      BY <1>1, <3>1, CutDrops
    <3>3. QED
      BY <1>2, <2>2, <3>2
  <2>3. QED
    BY <2>1, <2>2
<1>8. QED
  BY <1>2, <1>4, <1>5, <1>7 DEF e, w

-----------------------------------------------------------------------------
(* A connection that takes no more stays so, and the step that ends it     *)
(* changes nothing else.                                                   *)
LEMMA SendingEnds ==
    ASSUME ControlTypes, [Next]_vars
    PROVE  /\ CannotSend => CannotSend'
           /\ CannotSend' /\ ~CannotSend => UNCHANGED <<entered, written>>
<1> USE DEF ControlTypes, CannotSend, ShutDown, queueVars, control, writing, session
<1>1. CASE UNCHANGED vars
  BY <1>1 DEF vars
<1>2. CASE Timer \/ WriteHandlerWrapper
  BY <1>2 DEF Timer, WriteHandlerWrapper
<1>3. CASE ReadCompletes \/ ReadFails
  BY <1>3 DEF ReadCompletes, ReadFails, CloseAndGo
<1>4. CASE OnClose
  BY <1>4 DEF OnClose
<1>5. CASE Drain \/ DrainEnds \/ SocketUpdate
  BY <1>5 DEF Drain, DrainEnds, SocketUpdate
<1>6. ASSUME NEW again \in BOOLEAN, net = "write", PopMessage(again),
             UNCHANGED <<inOnClose, broken>>
      PROVE  CannotSend' <=> CannotSend
  <2>1. CallerOfHandleQueue # "onClose"
    BY DEF CallerOfHandleQueue
  <2>2. \/ net' # "onClose" /\ UNCHANGED _closed
        \/ net' = "onClose" /\ ~_closed
    BY <1>6, <2>1 DEF PopMessage, CloseAndGo
  <2>3. QED
    BY <1>6, <2>2
<1>7. CASE WriteFails
  <2>1. /\ net = "write" /\ PopMessage(FALSE) /\ UNCHANGED <<inOnClose, broken>>
    BY <1>7 DEF WriteFails
  <2>2. QED
    BY <1>6, <2>1
<1>8. ASSUME NEW n \in Packet \union {0}, WriteSome(n) PROVE CannotSend' <=> CannotSend
  <2>1. /\ net = "write" /\ UNCHANGED <<inOnClose, broken>>
        /\ PopMessage(n > 0) \/ AsyncProcessQueue
    BY <1>8 DEF WriteSome
  <2>2. CASE PopMessage(n > 0)
    BY <1>6, <2>1, <2>2, (n > 0) \in BOOLEAN
  <2>3. CASE AsyncProcessQueue
    BY <2>1, <2>3 DEF AsyncProcessQueue, CallerOfHandleQueue
  <2>4. QED
    BY <2>1, <2>2, <2>3
<1>9. CASE QueryIsReady
  BY <1>9, QueryCases
<1>10. CASE QueryIsNotReady \/ ReadOn \/ ReadHandlerCloses
  BY <1>10 DEF QueryIsNotReady, ReadOn, ReadHandlerCloses, CloseAndGo
<1>11. CASE HandleAuthSession \/ LockSession \/ UseSession
  BY <1>11 DEF HandleAuthSession, LockSession, UseSession, LockIsHeld
<1>12. ASSUME NEW s \in Sender, SendPacket(s) \/ ContinueEnqueue(s) PROVE CannotSend' <=> CannotSend
  BY <1>12 DEF SendPacket, ContinueEnqueue
<1>13. ASSUME NEW s \in Sender, Kick(s) \/ KickerOnClose(s)
       PROVE  /\ CannotSend => CannotSend'
              /\ UNCHANGED <<entered, written>>
  BY <1>13 DEF Kick, KickerOnClose
<1>14. CASE DeleteSession \/ ConnectionBreaks
  BY <1>14 DEF DeleteSession, ConnectionBreaks
<1>15. CASE DuplicateAuthSession \/ LogDuplicate
  BY <1>15 DEF DuplicateAuthSession, LogDuplicate, CloseAndGo
<1>16. QED
  BY StepCases, <1>1, <1>2, <1>3, <1>4, <1>5, <1>7, <1>8, <1>9, <1>10, <1>11, <1>12, <1>13, <1>14,
     <1>15

(* Who changes the messages.                                               *)
LEMMA WritingSteps ==
    ASSUME [Next]_vars
    PROVE  \/ UNCHANGED <<buffer, _writeQueue, written>>
           \/ Drain \/ DrainEnds \/ WriteFails
           \/ \E n \in Packet \union {0} : WriteSome(n)
<1> USE DEF writing
<1>1. CASE QueryIsReady
  BY <1>1, QueryCases
<1>2. ASSUME NEW s \in Sender, SendPacket(s) \/ ContinueEnqueue(s) \/ Kick(s) \/ KickerOnClose(s)
      PROVE  UNCHANGED <<buffer, _writeQueue, written>>
  BY <1>2 DEF SendPacket, ContinueEnqueue, Kick, KickerOnClose
<1>3. CASE \/ UNCHANGED vars \/ Timer \/ WriteHandlerWrapper \/ ReadCompletes \/ ReadFails
           \/ OnClose \/ SocketUpdate \/ QueryIsNotReady \/ ReadOn \/ ReadHandlerCloses
           \/ HandleAuthSession \/ LockSession \/ UseSession \/ DuplicateAuthSession
           \/ LogDuplicate \/ DeleteSession \/ ConnectionBreaks
  BY <1>3
  DEF vars, Timer, WriteHandlerWrapper, ReadCompletes, ReadFails, OnClose, SocketUpdate,
      QueryIsNotReady, ReadOn, ReadHandlerCloses, HandleAuthSession, LockSession, UseSession,
      DuplicateAuthSession, LogDuplicate, DeleteSession, ConnectionBreaks
<1>4. QED
  BY StepCases, <1>1, <1>2, <1>3

-----------------------------------------------------------------------------
(* Up to the packet the tail stands at, the packets are sent, in a message *)
(* or in the buffer, in the order in which they entered the queue.         *)
OnTheWay(d) == ~CannotSend => Cut(entered, written, _writeQueue, buffer, d)

WayInv == \E d : TailAt(d) /\ OnTheWay(d)

StreamInv == SocketInv /\ OrderInv /\ WayInv

(* A step that does not touch the messages.                                *)
LEMMA WayOfLonger ==
    ASSUME OrderInv, WritingTypes, NEW d, Cut(entered, written, _writeQueue, buffer, d),
           UNCHANGED <<buffer, _writeQueue, written>>,
           UNCHANGED entered \/ \E x \in Packet : Enters(x)
    PROVE  Cut(entered', written', _writeQueue', buffer', d)
<1>1. CASE UNCHANGED entered
  BY <1>1
<1>2. ASSUME NEW x \in Packet, Enters(x)
      PROVE  Cut(entered', written, _writeQueue, buffer, d)
  <2>1. entered \in Seq(Packet) /\ _writeQueue \in Seq(Seq(Packet)) /\ entered' = Append(entered, x)
    BY <1>2 DEF OrderInv, WritingTypes, Enters
  <2>2. QED
    BY <2>1, CutOfLonger
<1>3. QED
  BY <1>1, <1>2

LEMMA WayNext ==
    ASSUME StreamInv, [Next]_vars
    PROVE  WayInv'
<1>1. /\ QueueTypes /\ WritingTypes /\ ControlTypes /\ ChainInv /\ OrderInv
      /\ net = "write" => _writeQueue # << >>
  BY TypeParts DEF StreamInv, SocketInv, ControlInv
<1>2. PICK d : TailAt(d) /\ OnTheWay(d)
  BY DEF StreamInv, WayInv
<1>3. CannotSend => CannotSend'
  BY <1>1, SendingEnds
<1>4. CASE Drain
  <2>1. TailAt(d + 1)' /\ UNCHANGED <<entered, written>>
    BY <1>1, <1>2, <1>4, TailMoves DEF Drain
  <2>2. ASSUME ~CannotSend'
        PROVE  Cut(entered', written', _writeQueue', buffer', d + 1)
    <3>1. Cut(entered, written, _writeQueue, buffer, d)
      BY <1>2, <1>3, <2>2 DEF OnTheWay
    <3>2. QED
      BY <1>1, <1>2, <1>4, <2>1, <3>1, DrainTakes
  <2>3. OnTheWay(d + 1)'
    BY <2>2 DEF OnTheWay
  <2>4. QED
    BY <2>1, <2>3 DEF WayInv
<1>5. CASE ~Drain
  <2>1. UNCHANGED _tail /\ (UNCHANGED entered \/ \E x \in Packet : Enters(x))
    BY <1>1, <1>5, QueueSteps, GrowsLemma
  <2>2. TailAt(d)'
    BY <1>1, <1>2, <2>1, TailStays
  <2>3. ASSUME ~CannotSend'
        PROVE  Cut(entered', written', _writeQueue', buffer', d)
    <3>1. Cut(entered, written, _writeQueue, buffer, d) /\ ~CannotSend
      BY <1>2, <1>3, <2>3 DEF OnTheWay
    <3>2. CASE UNCHANGED <<buffer, _writeQueue, written>>
      BY <1>1, <2>1, <3>1, <3>2, WayOfLonger
    <3>3. CASE DrainEnds
      <4>1. UNCHANGED <<entered, written>> /\ buffer' = << >>
        BY <3>3 DEF DrainEnds, queueVars
      <4>2. CASE buffer = << >>
        BY <3>1, <3>3, <4>1, <4>2 DEF DrainEnds
      <4>3. CASE buffer # << >>
        <5>1. _writeQueue' = Append(_writeQueue, buffer)
          BY <3>3, <4>3 DEF DrainEnds
        <5>2. entered \in Seq(Packet) /\ _writeQueue \in Seq(Seq(Packet)) /\ buffer \in Seq(Packet)
          BY <1>1 DEF OrderInv, WritingTypes
        <5>3. Cut(entered, written, Append(_writeQueue, buffer), << >>, d)
          BY <3>1, <5>2, CutFlushes
        <5>4. QED
          BY <4>1, <5>1, <5>3
      <4>4. QED
        BY <4>2, <4>3
    <3>4. CASE WriteFails
      BY <3>1, <3>4 DEF WriteFails
    <3>5. ASSUME NEW n \in Packet \union {0}, WriteSome(n)
          PROVE  Cut(entered', written', _writeQueue', buffer', d)
      <4>1. UNCHANGED <<entered, buffer>> /\ _writeQueue # << >>
        BY <1>1, <3>5 DEF WriteSome, queueVars
      <4>2. Cut(entered, written', _writeQueue', buffer, d)
        BY <1>1, <3>1, <3>5, <4>1, WriteSends
      <4>3. QED
        BY <4>1, <4>2
    <3>6. QED
      BY <1>5, <3>2, <3>3, <3>4, <3>5, WritingSteps
  <2>4. OnTheWay(d)'
    BY <2>3 DEF OnTheWay
  <2>5. QED
    BY <2>2, <2>4 DEF WayInv
<1>6. QED
  BY <1>4, <1>5

(* The invariant of the refinement.                                        *)
LEMMA InitStream == Init => StreamInv
<1> SUFFICES ASSUME Init PROVE StreamInv
  OBVIOUS
<1>1. /\ entered = << >> /\ _head = 0 /\ _tail = 0 /\ Data = << >>
      /\ \A p \in Sender : at[p] = "idle"
      /\ written = << >> /\ _writeQueue = << >> /\ buffer = << >>
  BY DEF Init, bufferQueue!Init
<1>2. << >> \in Seq(Packet) /\ Len(<< >>) = 0 /\ Places(<< >>) = {0}
  <2>1. << >> \in Seq(Packet) /\ Len(<< >>) = 0
    BY EmptySeq
  <2>2. 0..0 = {0}
    OBVIOUS
  <2>3. QED
    BY <2>1, <2>2 DEF Places
<1>3. OrderInv
  BY <1>1, <1>2 DEF OrderInv, Entering, Linking, At, Unknown, Single, Places
<1>4. TailAt(0)
  BY <1>1, <1>2 DEF TailAt, At
<1>5. Cut(<< >>, << >>, << >>, << >>, 0)
  <2> DEFINE o == [i \in 1..1 |-> 0]
  <2>1. Stretch(<< >>, 0, 0) = << >>
    <3>1. << >> \in Seq(Packet) /\ 0 \in 0..Len(<< >>) /\ 0 \in 0..0
      BY <1>2
    <3>2. Stretch(<< >>, 0, 0) \in Seq(Packet) /\ Len(Stretch(<< >>, 0, 0)) = 0 - 0
      BY <3>1, StretchLemma
    <3>3. QED
      BY <3>2, EmptySeq
  <2>2. /\ o \in [1..Len(<< >>) + 1 -> 0..0] /\ o[1] = 0 /\ Len(<< >>) + 1 = 1
        /\ 0 \in 0..Len(<< >>) /\ 1..Len(<< >>) = {}
    BY <1>2
  <2> HIDE DEF o
  <2>3. IsCut(o, << >>, << >>, << >>, << >>, 0)
    BY <2>1, <2>2 DEF IsCut
  <2>4. QED
    BY <2>2, <2>3 DEF Cut
<1>6. WayInv
  BY <1>1, <1>4, <1>5 DEF WayInv, OnTheWay
<1>7. QED
  BY <1>3, <1>6, InitSocket DEF StreamInv

LEMMA StreamNext == StreamInv /\ [Next]_vars => StreamInv'
<1> SUFFICES ASSUME StreamInv, [Next]_vars PROVE StreamInv'
  OBVIOUS
<1>1. SocketInv'
  BY SocketNext DEF StreamInv
<1>2. OrderInv'
  <2>1. QueueTypes /\ ChainInv /\ OrderInv
    BY TypeParts DEF StreamInv, SocketInv
  <2>2. QED
    BY <2>1, QueueSteps, OrderNext DEF QueueStep
<1>3. WayInv'
  BY WayNext
<1>4. QED
  BY <1>1, <1>2, <1>3 DEF StreamInv

-----------------------------------------------------------------------------
(* A step of the connection is a step of the stream, or none.              *)
LEMMA StreamStep ==
    ASSUME StreamInv, [Next]_vars
    PROVE  [Stream!Next]_<<entered, written, CannotSend>>
<1> DEFINE Step == [Stream!Next]_<<entered, written, CannotSend>>
<1>1. /\ QueueTypes /\ WritingTypes /\ ControlTypes /\ ChainInv /\ OrderInv
      /\ net = "write" => _writeQueue # << >>
  BY TypeParts DEF StreamInv, SocketInv, ControlInv
<1>2. PICK d : TailAt(d) /\ OnTheWay(d)
  BY DEF StreamInv, WayInv
<1>3. /\ CannotSend => CannotSend'
      /\ CannotSend' /\ ~CannotSend => UNCHANGED <<entered, written>>
  BY <1>1, SendingEnds
<1>4. CASE CannotSend' /\ ~CannotSend
  <2>1. Stream!End
    BY <1>3, <1>4 DEF Stream!End
  <2>2. QED
    BY <2>1 DEF Stream!Next
<1>5. CASE CannotSend' <=> CannotSend
  <2>1. CannotSend' = CannotSend
    BY <1>5 DEF CannotSend
  <2>2. ASSUME NEW n \in Packet \union {0}, WriteSome(n) PROVE Step
    <3>1. ~CannotSend /\ UNCHANGED entered /\ _writeQueue # << >>
      BY <1>1, <2>2 DEF WriteSome, queueVars
    <3>2. Cut(entered, written, _writeQueue, buffer, d)
      BY <1>2, <3>1 DEF OnTheWay
    <3>3. PICK k \in 0..Len(entered) : /\ written' = SubSeq(entered, 1, k)
                                       /\ Len(written) \in Nat /\ k = Len(written) + n
      BY <1>1, <2>2, <3>1, <3>2, WriteSends
    <3>4. CASE n = 0
      <4>1. written' = written
        BY <1>1, <2>2, <3>1, <3>2, <3>4, WriteSends
      <4>2. QED
        BY <2>1, <3>1, <4>1
    <3>5. CASE n # 0
      <4>1. n \in Nat \ {0}
        BY <3>5, NodeLemma
      <4>2. k \in 1..Len(entered) /\ k > Len(written)
        BY <3>3, <4>1
      <4>3. Stream!Send(k)
        BY <2>1, <3>1, <3>3, <4>2 DEF Stream!Send
      <4>4. QED
        BY <4>2, <4>3 DEF Stream!Next
    <3>6. QED
      BY <3>4, <3>5
  <2>3. CASE UNCHANGED written
    <3>1. UNCHANGED entered \/ \E x \in Packet : Enters(x)
      BY <1>1, <1>2, QueueSteps, GrowsLemma, TailMoves
    <3>2. CASE UNCHANGED entered
      BY <2>1, <2>3, <3>2
    <3>3. ASSUME NEW x \in Packet, Enters(x) PROVE Step
      <4>1. Stream!Take(x)
        BY <2>1, <2>3, <3>3 DEF Stream!Take, Enters, Unknown
      <4>2. QED
        BY <4>1 DEF Stream!Next
    <3>4. QED
      BY <3>1, <3>2, <3>3
  <2>4. Drain \/ DrainEnds \/ WriteFails => UNCHANGED written
    BY DEF Drain, DrainEnds, WriteFails
  <2>5. QED
    BY <2>2, <2>3, <2>4, WritingSteps
<1>6. QED
  BY <1>3, <1>4, <1>5

(* The lock-free queue, whose producers may stall between their two atomic *)
(* accesses, the packing into messages and buffers, partial writes, and    *)
(* failures: together they are a stream that takes each packet once and    *)
(* gives the network a prefix of what it took.                             *)
THEOREM PacketsStayInOrder == Spec => PacketsInOrder
<1>1. Init => Stream!Init
  <2>1. ASSUME Init PROVE ~CannotSend
    BY <2>1 DEF Init, CannotSend, ShutDown
  <2>2. ASSUME Init PROVE entered = << >> /\ written = << >>
    BY <2>2 DEF Init, bufferQueue!Init
  <2>3. ASSUME Init PROVE CannotSend = FALSE
    BY <2>1, <2>3 DEF CannotSend
  <2>4. QED
    BY <2>2, <2>3 DEF Stream!Init
<1>2. StreamInv /\ [Next]_vars => [Stream!Next]_<<entered, written, CannotSend>>
  BY StreamStep
<1>3. QED
  BY <1>1, <1>2, InitStream, StreamNext, PTL DEF Spec, PacketsInOrder, Stream!Spec

=============================================================================
