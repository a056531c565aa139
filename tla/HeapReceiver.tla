---------------------------- MODULE HeapReceiver ----------------------------
(***************************************************************************)
(* BlockReceiver with the array of the std BinaryHeap behind RecvBuf.data: *)
(* RecvBuf::push compares a new buffer with the stored chunks in the order *)
(* of that array, which is neither sorted nor the order of arrival.  Every *)
(* step is a step of BlockReceiver.                                        *)
(***************************************************************************)
EXTENDS BlockReceiver, Sequences

VARIABLE heap   \* for each stream the array, root first

heapVars == <<vars, heap>>

Swap(h, i, j) == [h EXCEPT ![i] = h[j], ![j] = h[i]]

\* BinaryHeap::sift_up: an element rises past the parents with a higher offset
RECURSIVE SiftUp(_, _)
SiftUp(h, i) ==
    LET p == i \div 2 IN
    IF i > 1 /\ h[i].off < h[p].off THEN SiftUp(Swap(h, i, p), p) ELSE h

\* BinaryHeap::sift_down_to_bottom: the hole sinks to a leaf past the child
\* with the lower offset, then its element rises again
RECURSIVE SiftDownToBottom(_, _)
SiftDownToBottom(h, i) ==
    LET l == 2 * i
        c == IF l < Len(h) /\ h[l].off >= h[l + 1].off THEN l + 1 ELSE l
    IN
    IF l <= Len(h) THEN SiftDownToBottom(Swap(h, i, c), c) ELSE SiftUp(h, i)

\* BinaryHeap::push and BinaryHeap::pop
HeapPush(h, c) == SiftUp(Append(h, c), Len(h) + 1)
HeapPop(h) ==
    LET n == Len(h) IN
    IF n = 1 THEN <<>>
    ELSE SiftDownToBottom([i \in 1..(n - 1) |-> IF i = 1 THEN h[n] ELSE h[i]], 1)

\* The first chunk of the array that the loop has not visited
NextInArray(b) ==
    \E i \in DOMAIN heap[cur] :
        heap[cur][i] = b /\ \A j \in 1..(i - 1) : heap[cur][j] \notin todo

HeapInit == Init /\ heap = [id \in Ids |-> <<>>]

HeapVisit ==
    /\ \E b \in todo : NextInArray(b) /\ (PushContained(b) \/ PushCut(b))
    /\ UNCHANGED heap

HeapStore ==
    /\ StoreChunk
    /\ heap' = [heap EXCEPT ![cur] = HeapPush(@, buf)]

HeapPopChunk ==
    /\ PopChunk
    /\ heap' = [heap EXCEPT ![cur] =
                   IF TooLong
                   THEN HeapPush(HeapPop(@), TailFrom(@[1], @[1].off + cap))
                   ELSE HeapPop(@)]

\* RecvBuf::shutdown
HeapClear ==
    \E id \in Ids :
        /\ ResetArrives(id) \/ StreamShutdownRead(id)
        /\ heap' = [heap EXCEPT ![id] = <<>>]

HeapOther ==
    /\ \/ Arrive \/ ErrorArrives \/ CreditStep \/ PopDone \/ Tick
       \/ \E id \in Ids : InfoArrives(id) \/ \E n \in Caps : StreamRecv(id, n)
       \/ \E l \in Lefts : SendCreditPanic(l)
    /\ UNCHANGED heap

HeapNext == HeapVisit \/ HeapStore \/ HeapPopChunk \/ HeapClear \/ HeapOther

HeapSpec == HeapInit /\ [][HeapNext]_heapVars

-----------------------------------------------------------------------------
\* The array holds the chunks of the set, each once, in heap order: its root
\* is the chunk that peek() and pop() take.
HeapAgrees ==
    \A id \in Ids :
        /\ {heap[id][i] : i \in DOMAIN heap[id]} = data[id]
        /\ Len(heap[id]) = Cardinality(data[id])
        /\ \A i \in 2..Len(heap[id]) : heap[id][i \div 2].off <= heap[id][i].off

\* RecvBuf::push takes care of "handling incoming data that overlaps data that
\* is already in the buffer": nothing of an acknowledged frame gets lost.
OverlapHandled == NoAckedByteLost
=============================================================================
