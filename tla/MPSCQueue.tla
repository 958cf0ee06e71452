----------------------------- MODULE MPSCQueue -----------------------------
(***************************************************************************)
(* The lock-free queue of src/src/common/Threading/MPSCQueue.h: any thread *)
(* enqueues, one thread dequeues.  A node is named by the number of its    *)
(* allocation; node 0 is the empty one the constructor makes.  The two     *)
(* atomic accesses of Enqueue are two steps: between them the queue is     *)
(* broken in two, and the consumer sees only its first part.               *)
(***************************************************************************)
EXTENDS Integers, Sequences

CONSTANTS
    Producer,       \* the threads that enqueue, apart from the consumer
    MaxNodes,       \* how many nodes are allocated at most
    nullptr

VARIABLES
    _head,
    _tail,
    NextOf,         \* NextOf[n]: the node's member Next
    Data,           \* Data[n]: the input of node n, in order of allocation
    at,             \* at[p]: where p is in Enqueue
    node, prevHead, \* its local variables
    freed,          \* the nodes that Dequeue has deleted
    entered         \* the nodes in the order of their exchanges

queueVars == <<_head, _tail, NextOf, Data, at, node, prevHead, freed, entered>>

Node == 0..MaxNodes

TypeOK(Input) ==
    /\ _head \in Node /\ _tail \in Node
    /\ NextOf \in [Node -> Node \union {nullptr}]
    /\ Data \in Seq(Input) /\ Len(Data) <= MaxNodes
    /\ at \in [Producer -> {"idle", "exchange", "link"}]
    /\ node \in [Producer -> Node] /\ prevHead \in [Producer -> Node]
    /\ freed \subseteq Node
    /\ entered \in Seq(Node)

Init ==
    /\ _head = 0 /\ _tail = 0
    /\ NextOf = [n \in Node |-> nullptr]
    /\ Data = << >>
    /\ at = [p \in Producer |-> "idle"]
    /\ node = [p \in Producer |-> 0] /\ prevHead = [p \in Producer |-> 0]
    /\ freed = {}
    /\ entered = << >>

-----------------------------------------------------------------------------
(* Enqueue: new Node(input).                                               *)
NewNode(p, input) ==
    /\ at[p] = "idle"
    /\ Len(Data) < MaxNodes
    /\ Data' = Append(Data, input)
    /\ node' = [node EXCEPT ![p] = Len(Data) + 1]
    /\ at' = [at EXCEPT ![p] = "exchange"]
    /\ UNCHANGED <<_head, _tail, NextOf, prevHead, freed, entered>>

(* The mistake is to read _head, to link and only then to store it.        *)
HeadAfter_Wrong(n) == _head
HeadAfter(n) == n

Exchange(p) ==
    /\ at[p] = "exchange"
    /\ prevHead' = [prevHead EXCEPT ![p] = _head]
    /\ _head' = HeadAfter(node[p])
    /\ at' = [at EXCEPT ![p] = "link"]
    /\ entered' = Append(entered, node[p])
    /\ UNCHANGED <<_tail, NextOf, Data, node, freed>>

Link(p) ==
    /\ at[p] = "link"
    /\ NextOf' = [NextOf EXCEPT ![prevHead[p]] = node[p]]
    /\ at' = [at EXCEPT ![p] = "idle"]
    /\ node' = [node EXCEPT ![p] = 0] /\ prevHead' = [prevHead EXCEPT ![p] = 0]
    /\ UNCHANGED <<_head, _tail, Data, freed, entered>>

(* Enqueue by the consumer's own thread.  Only that thread reads a Next,   *)
(* so nobody tells its three steps from one.                               *)
Enqueue(input) ==
    LET n == Len(Data) + 1
    IN  /\ Len(Data) < MaxNodes
        /\ Data' = Append(Data, input)
        /\ NextOf' = [NextOf EXCEPT ![_head] = n]
        /\ _head' = n
        /\ entered' = Append(entered, n)
        /\ UNCHANGED <<_tail, at, node, prevHead, freed>>

HasNext == NextOf[_tail] # nullptr

(* Dequeue returns true with the data of the node that becomes the tail.   *)
Dequeue ==
    /\ HasNext
    /\ _tail' = NextOf[_tail]
    /\ freed' = freed \union {_tail}
    /\ UNCHANGED <<_head, NextOf, Data, at, node, prevHead, entered>>

-----------------------------------------------------------------------------
(* A producer stalled between the two accesses of Enqueue does not write   *)
(* to a node that Dequeue has deleted.                                     *)
LinksLiveNodes == \A p \in Producer : at[p] = "link" => prevHead[p] \notin freed
=============================================================================
