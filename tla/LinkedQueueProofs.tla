------------------------- MODULE LinkedQueueProofs -------------------------
(***************************************************************************)
(* Proof that the pointers of T1/queue.c stay queues, for any heads, nodes *)
(* and quantities.                                                         *)
(***************************************************************************)
EXTENDS LinkedQueueProps, DataFacts

-----------------------------------------------------------------------------
(* Links that agree on a queue's nodes spell it alike.                     *)
LEMMA LinkedSame ==
  ASSUME NEW c \in Seq(Nodes), NEW nxt, NEW nxt2, NEW first,
         Linked(nxt, first, c), \A n \in Range(c) : nxt2[n] = nxt[n]
  PROVE  Linked(nxt2, first, c)
<1>1. \A i \in 1 .. Len(c) : c[i] \in Range(c)
  BY LenProperties DEF Range
<1> QED
  BY <1>1 DEF Linked

(* The first node's link leads to the rest of the queue, whose last node   *)
(* is the same unless nothing is left.                                     *)
LEMMA LinkedTail ==
  ASSUME NEW c \in Seq(Nodes), c # <<>>, IsInjective(c),
         NEW nxt \in [Nodes -> Nodes \cup {NULL}], NEW first,
         Linked(nxt, first, c),
         NEW nxt2, nxt2 = [nxt EXCEPT ![first] = NULL]
  PROVE  /\ first = Head(c)
         /\ Linked(nxt2, nxt[first], Tail(c))
         /\ Last(Tail(c)) = IF first = Last(c) THEN NULL ELSE Last(c)
<1> DEFINE t == Tail(c)
<1>1. /\ t \in Seq(Nodes)
      /\ Len(t) = Len(c) - 1
      /\ \A i \in 1 .. Len(t) : t[i] = c[i + 1]
  BY HeadTailProperties
<1>2. /\ Len(c) \in Nat \ {0}
      /\ \A i \in 1 .. Len(c) : c[i] \in Nodes
      /\ DOMAIN c = 1 .. Len(c)
  BY LenProperties, EmptySeq, ElementOfSeq
<1> HIDE DEF t
<1>3. t = <<>> <=> Len(c) = 1
  BY <1>1, <1>2, EmptySeq
<1>4. /\ first = c[1]
      /\ \A i \in 1 .. Len(c) :
           nxt[c[i]] = IF i < Len(c) THEN c[i + 1] ELSE NULL
  BY DEF Linked
<1>5. \A i, j \in 1 .. Len(c) : c[i] = c[j] => i = j
  BY <1>2 DEF IsInjective
<1>6. \A i \in 2 .. Len(c) : nxt2[c[i]] = nxt[c[i]]
  BY <1>2, <1>4, <1>5
<1>7. nxt[first] = IF t = <<>> THEN NULL ELSE t[1]
  BY <1>1, <1>2, <1>3, <1>4
<1>8. ASSUME NEW i \in 1 .. Len(t)
      PROVE  nxt2[t[i]] = IF i < Len(t) THEN t[i + 1] ELSE NULL
  BY <1>1, <1>2, <1>4, <1>6
<1>9. Last(t) = IF first = Last(c) THEN NULL ELSE Last(c)
  BY <1>1, <1>2, <1>3, <1>4, <1>5 DEF Last
<1>10. first = Head(c)
  BY <1>4
<1> QED
  BY <1>7, <1>8, <1>9, <1>10 DEF Linked, t

(* A loose node, linked to the last node or to the head, ends the queue.   *)
LEMMA LinkedAppend ==
  ASSUME NEW c \in Seq(Nodes), IsInjective(c), NEW n \in Nodes, n \notin Range(c),
         NEW nxt \in [Nodes -> Nodes \cup {NULL}], nxt[n] = NULL,
         NEW first, Linked(nxt, first, c)
  PROVE  /\ Last(Append(c, n)) = n
         /\ c = <<>> => Linked(nxt, n, Append(c, n))
         /\ c # <<>> => Linked([nxt EXCEPT ![Last(c)] = n], first, Append(c, n))
<1> DEFINE t == Append(c, n)
<1>1. /\ t \in Seq(Nodes)
      /\ Len(t) = Len(c) + 1
      /\ \A i \in 1 .. Len(c) : t[i] = c[i]
      /\ t[Len(c) + 1] = n
  BY AppendProperties
<1>2. /\ Len(c) \in Nat
      /\ \A i \in 1 .. Len(c) : c[i] \in Nodes
      /\ DOMAIN c = 1 .. Len(c)
      /\ c = <<>> <=> Len(c) = 0
      /\ t # <<>>
  BY <1>1, LenProperties, EmptySeq, ElementOfSeq
<1> HIDE DEF t
<1>3. /\ \A i \in 1 .. Len(c) : c[i] # n
      /\ \A i, j \in 1 .. Len(c) : c[i] = c[j] => i = j
  BY <1>2 DEF IsInjective, Range
<1>4. Last(t) = n
  BY <1>1, <1>2 DEF Last
<1>5. CASE c = <<>>
  BY <1>1, <1>2, <1>4, <1>5 DEF Linked, t
<1>6. CASE c # <<>>
  <2> DEFINE nxt2 == [nxt EXCEPT ![Last(c)] = n]
  <2>1. Len(c) > 0 /\ Last(c) = c[Len(c)] /\ Last(c) \in Nodes
    BY <1>2, <1>6 DEF Last
  <2>2. first = t[1]
    BY <1>1, <1>2, <1>6, <2>1 DEF Linked
  <2>3. \A i \in 1 .. Len(c) - 1 : nxt2[t[i]] = t[i + 1]
    BY <1>1, <1>2, <1>3, <2>1 DEF Linked
  <2>4. nxt2[t[Len(c)]] = n /\ nxt2[n] = NULL
    BY <1>1, <1>2, <1>3, <2>1
  <2>5. ASSUME NEW i \in 1 .. Len(t)
        PROVE  nxt2[t[i]] = IF i < Len(t) THEN t[i + 1] ELSE NULL
    <3>1. \/ i \in 1 .. Len(c) - 1 \/ i = Len(c) \/ i = Len(c) + 1
      <4>1. i \in 1 .. Len(c) + 1 /\ Len(c) \in Nat
        BY <1>1, <1>2, <2>5
      <4> QED
        BY <4>1
    <3> HIDE DEF nxt2
    <3>2. CASE i \in 1 .. Len(c) - 1
      BY <3>2, <1>1, <1>2, <2>3
    <3>3. CASE i = Len(c)
      BY <3>3, <1>1, <1>2, <2>1, <2>4
    <3>4. CASE i = Len(c) + 1
      BY <3>4, <1>1, <1>2, <2>4
    <3> QED
      BY <3>1, <3>2, <3>3, <3>4
  <2>6. Linked(nxt2, first, t)
    BY <1>2, <2>2, <2>5 DEF Linked
  <2> QED
    BY <1>4, <1>6, <2>6 DEF t
<1> QED
  BY <1>5, <1>6
-----------------------------------------------------------------------------
(* The operations on the links.                                            *)
Pointers == Nodes \cup {NULL}

LinksType ==
  /\ ini \in [Heads -> Pointers] /\ end \in [Heads -> Pointers]
  /\ next \in [Nodes -> Pointers]
  /\ content \in [Heads -> Seq(Nodes)]

(* Unlinking the first node keeps every queue a queue, and the node comes  *)
(* off them all.                                                           *)
LEMMA UnlinkKeeps ==
  ASSUME TypeOK, Represents, NEW h \in heads, NEW n, n = ini[h], n # NULL,
         at # "destroy", at' # "destroy", Unlink(h), UNCHANGED memory
  PROVE  /\ LinksType'
         /\ Represents'
         /\ n \in nodes /\ Loose(n)'
<1> DEFINE c == content[h]
<1>1. /\ h \in Heads /\ c \in Seq(Nodes) /\ IsInjective(c)
      /\ Linked(next, n, c) /\ end[h] = Last(c)
  BY DEF TypeOK, Represents, PointersSpell, NodesOnce, BeingDestroyed
<1>2. c # <<>>
  BY <1>1 DEF Linked
<1>3. /\ n = Head(c)
      /\ Linked([next EXCEPT ![n] = NULL], next[n], Tail(c))
      /\ Last(Tail(c)) = IF n = Last(c) THEN NULL ELSE Last(c)
  BY <1>1, <1>2, LinkedTail DEF TypeOK
<1>4. /\ n \in Nodes /\ n \in Range(c)
      /\ Tail(c) \in Seq(Nodes)
      /\ Range(Tail(c)) = Range(c) \ {n}
      /\ IsInjective(Tail(c))
  BY <1>1, <1>2, <1>3, TailOnce
<1>5. /\ ini' = [ini EXCEPT ![h] = next[n]]
      /\ end' = [end EXCEPT ![h] = IF n = @ THEN NULL ELSE @]
      /\ next' = [next EXCEPT ![n] = NULL]
      /\ content' = [content EXCEPT ![h] = Tail(@)]
  BY <1>2 DEF Unlink, Seqs!AfterRm
<1>6. LinksType'
  BY <1>1, <1>4, <1>5 DEF LinksType, Pointers, TypeOK
<1>7. \A g \in Heads \ {h} : n \notin OnQueue(g)
  BY <1>1, <1>4 DEF Represents, NodesOnce, OnQueue
<1>8. /\ OnQueue(h)' = OnQueue(h) \ {n}
      /\ \A g \in Heads \ {h} : OnQueue(g)' = OnQueue(g)
  BY <1>1, <1>4, <1>5 DEF OnQueue, TypeOK
<1>9. PointersSpell'
  <2> SUFFICES ASSUME NEW g \in heads, g \in Heads
               PROVE  Linked(next', ini'[g], content'[g])
                      /\ end'[g] = Last(content'[g])
    BY DEF PointersSpell, BeingDestroyed, memory
  <2>1. CASE g = h
    <3>1. /\ ini'[h] = next[n] /\ content'[h] = Tail(c)
          /\ end'[h] = IF n = Last(c) THEN NULL ELSE Last(c)
      BY <1>1, <1>5 DEF TypeOK
    <3> QED
      BY <2>1, <3>1, <1>3, <1>5
  <2>2. CASE g # h
    <3>1. ini'[g] = ini[g] /\ end'[g] = end[g] /\ content'[g] = content[g]
      BY <2>2, <1>5 DEF TypeOK
    <3>2. \A m \in Range(content[g]) : next'[m] = next[m]
      BY <2>2, <1>4, <1>5, <1>7, RangeOfSeq DEF OnQueue, TypeOK
    <3>3. /\ content[g] \in Seq(Nodes) /\ Linked(next, ini[g], content[g])
          /\ end[g] = Last(content[g])
      BY DEF TypeOK, Represents, PointersSpell, BeingDestroyed
    <3> QED
      BY <3>1, <3>2, <3>3, LinkedSame
  <2> QED
    BY <2>1, <2>2
<1>10. NodesOnce'
  <2>1. \A g \in Heads : IsInjective(content'[g])
    BY <1>4, <1>5 DEF TypeOK, Represents, NodesOnce
  <2>2. \A g \in Heads : OnQueue(g)' \subseteq OnQueue(g)
    BY <1>8
  <2>3. \A g \in Heads \ heads : content'[g] = <<>>
    BY <1>5 DEF TypeOK, Represents, NodesOnce
  <2> QED
    BY <2>1, <2>2, <2>3 DEF Represents, NodesOnce, memory
<1>11. LooseNodes'
  <2> SUFFICES ASSUME NEW m \in nodes, Loose(m)', m # n
               PROVE  next'[m] = NULL
    BY <1>4, <1>5 DEF LooseNodes, memory, TypeOK
  <2>1. Loose(m)
    BY <1>8 DEF Loose
  <2> QED
    BY <2>1, <1>5 DEF Represents, LooseNodes, TypeOK
<1>12. n \in nodes /\ Loose(n)'
  <2>1. n \in OnQueue(h)
    BY <1>4 DEF OnQueue
  <2>2. n \in nodes
    BY <1>1, <2>1 DEF Represents, NodesOnce
  <2>3. \A g \in Heads : n \notin OnQueue(g)'
    BY <1>7, <1>8
  <2> QED
    BY <2>2, <2>3 DEF Loose
<1> QED
  BY <1>6, <1>9, <1>10, <1>11, <1>12 DEF Represents

(* Linking a loose node keeps every queue a queue.                         *)
LEMMA LinkKeeps ==
  ASSUME TypeOK, Represents, FrameInv, ScanInv, Link, at' # "destroy"
  PROVE  LinksType' /\ Represents'
<1> DEFINE c == content[dest]
<1>1. /\ dest \in heads /\ dest \in Heads /\ node \in nodes /\ node \in Nodes
      /\ \A g \in Heads \ {dest} : node \notin OnQueue(g)
      /\ q = NULL /\ at # "destroy"
  BY DEF Link, InInsertion, FrameInv, TypeOK, OffOtherQueues
<1>2. /\ c \in Seq(Nodes) /\ IsInjective(c)
      /\ Linked(next, ini[dest], c) /\ end[dest] = Last(c)
  BY <1>1 DEF TypeOK, Represents, PointersSpell, NodesOnce, BeingDestroyed
<1>3. node \notin Range(c)
  <2>1. PICK k \in 1 .. Len(c) + 1 :
          /\ q = IF k <= Len(c) THEN c[k] ELSE NULL
          /\ \A j \in 1 .. k - 1 : c[j] # node
    BY DEF ScanInv, Link
  <2>2. /\ Len(c) \in Nat /\ DOMAIN c = 1 .. Len(c)
        /\ \A j \in 1 .. Len(c) : c[j] \in Nodes
    BY <1>2, LenProperties, ElementOfSeq
  <2>3. k = Len(c) + 1
    BY <1>1, <2>1, <2>2, NullAssumption
  <2> QED
    BY <2>1, <2>2, <2>3 DEF Range
<1>4. next[node] = NULL
  <2>1. Loose(node)
    BY <1>1, <1>3 DEF Loose, OnQueue
  <2> QED
    BY <1>1, <2>1 DEF Represents, LooseNodes
<1>5. /\ Append(c, node) \in Seq(Nodes)
      /\ Range(Append(c, node)) = Range(c) \cup {node}
      /\ IsInjective(Append(c, node))
  BY <1>1, <1>2, <1>3, AppendOnce
<1>6. /\ Last(Append(c, node)) = node
      /\ c = <<>> => Linked(next, node, Append(c, node))
      /\ c # <<>> => Linked([next EXCEPT ![Last(c)] = node], ini[dest],
                            Append(c, node))
  BY <1>1, <1>2, <1>3, <1>4, LinkedAppend DEF TypeOK
<1>7. /\ c = <<>> <=> ini[dest] = NULL
      /\ c # <<>> => Last(c) \in Range(c)
  <2>1. /\ Len(c) \in Nat /\ DOMAIN c = 1 .. Len(c)
        /\ c # <<>> => Len(c) > 0
        /\ \A j \in 1 .. Len(c) : c[j] \in Nodes
    BY <1>2, LenProperties, EmptySeq, ElementOfSeq
  <2> QED
    BY <1>2, <2>1, NullAssumption DEF Linked, Last, Range
<1>8. content' = [content EXCEPT ![dest] = Append(@, node)]
  BY <1>3 DEF Link, Seqs!qhead_ins, Seqs!IsDuplicate, Seqs!Range, Range
<1>9. /\ LinkNode
      /\ UNCHANGED memory
  BY DEF Link
<1>10. /\ end' = [end EXCEPT ![dest] = node]
       /\ ini' = [ini EXCEPT ![dest] = IF c = <<>> THEN node ELSE @]
       /\ next' = IF c = <<>> THEN next ELSE [next EXCEPT ![Last(c)] = node]
  <2>1. CASE c = <<>>
    BY <1>7, <1>9, <2>1 DEF LinkNode
  <2>2. CASE c # <<>>
    BY <1>2, <1>7, <1>9, <2>2 DEF LinkNode, TypeOK
  <2> QED
    BY <2>1, <2>2
<1>11. LinksType'
  BY <1>1, <1>5, <1>8, <1>10 DEF LinksType, Pointers, TypeOK
<1>12. \A g \in Heads :
         OnQueue(g)' = IF g = dest THEN OnQueue(g) \cup {node} ELSE OnQueue(g)
  BY <1>1, <1>5, <1>8 DEF OnQueue, TypeOK
<1>13. \A m \in Nodes : m \notin Range(c) => next'[m] = next[m]
  BY <1>7, <1>10 DEF TypeOK
<1>14. PointersSpell'
  <2> SUFFICES ASSUME NEW g \in heads, g \in Heads
               PROVE  Linked(next', ini'[g], content'[g])
                      /\ end'[g] = Last(content'[g])
    BY <1>9 DEF PointersSpell, BeingDestroyed, memory
  <2>1. CASE g = dest
    <3>1. /\ content'[dest] = Append(c, node) /\ end'[dest] = node
          /\ ini'[dest] = IF c = <<>> THEN node ELSE ini[dest]
      BY <1>1, <1>8, <1>10 DEF TypeOK
    <3> QED
      BY <2>1, <3>1, <1>6, <1>10
  <2>2. CASE g # dest
    <3>1. ini'[g] = ini[g] /\ end'[g] = end[g] /\ content'[g] = content[g]
      BY <2>2, <1>8, <1>10 DEF TypeOK
    <3>2. Range(content[g]) \cap Range(c) = {}
      BY <1>1, <2>2 DEF Represents, NodesOnce, OnQueue
    <3>3. \A m \in Range(content[g]) : next'[m] = next[m]
      BY <3>2, <1>13, RangeOfSeq DEF TypeOK
    <3>4. /\ content[g] \in Seq(Nodes) /\ Linked(next, ini[g], content[g])
          /\ end[g] = Last(content[g])
      BY <1>1 DEF TypeOK, Represents, PointersSpell, BeingDestroyed
    <3> QED
      BY <3>1, <3>3, <3>4, LinkedSame
  <2> QED
    BY <2>1, <2>2
<1>15. NodesOnce'
  <2>1. \A g \in Heads : IsInjective(content'[g])
    BY <1>5, <1>8 DEF TypeOK, Represents, NodesOnce
  <2>2. \A g \in Heads : OnQueue(g)' \subseteq nodes'
    BY <1>1, <1>9, <1>12 DEF Represents, NodesOnce, memory
  <2>3. \A g, k \in Heads : g # k => OnQueue(g)' \cap OnQueue(k)' = {}
    BY <1>1, <1>12 DEF Represents, NodesOnce
  <2>4. \A g \in Heads \ heads' : content'[g] = <<>>
    BY <1>1, <1>8, <1>9 DEF TypeOK, Represents, NodesOnce, memory
  <2> QED
    BY <2>1, <2>2, <2>3, <2>4 DEF NodesOnce
<1>16. LooseNodes'
  <2> SUFFICES ASSUME NEW m \in nodes, Loose(m)'
               PROVE  next'[m] = NULL
    BY <1>9 DEF LooseNodes, memory
  <2>1. Loose(m)
    BY <1>12 DEF Loose
  <2>2. m \notin Range(c) /\ m \in Nodes
    BY <1>1, <2>1 DEF Loose, OnQueue, TypeOK
  <2> QED
    BY <2>1, <2>2, <1>13 DEF Represents, LooseNodes
<1> QED
  BY <1>11, <1>14, <1>15, <1>16 DEF Represents
(* A head's nodes are freed from the first on.                             *)
LEMMA FreeNodeKeeps ==
  ASSUME TypeOK, Represents, FrameInv, FreeNode
  PROVE  LinksType' /\ Represents'
<1> DEFINE c == content[dest]
<1>1. /\ dest \in heads /\ dest \in Heads /\ q \in Nodes /\ at = "destroy"
      /\ c \in Seq(Nodes) /\ IsInjective(c) /\ Linked(next, q, c)
  BY DEF FreeNode, FrameInv, TypeOK, Represents, PointersSpell, NodesOnce,
         BeingDestroyed
<1>2. c # <<>>
  BY <1>1, NullAssumption DEF Linked
<1>3. /\ q = Head(c)
      /\ Linked([next EXCEPT ![q] = NULL], next[q], Tail(c))
  BY <1>1, <1>2, LinkedTail DEF TypeOK
<1>4. /\ q \in Range(c)
      /\ Tail(c) \in Seq(Nodes)
      /\ Range(Tail(c)) = Range(c) \ {q}
      /\ IsInjective(Tail(c))
  BY <1>1, <1>2, <1>3, TailOnce
<1>5. /\ next' = [next EXCEPT ![q] = NULL]
      /\ content' = [content EXCEPT ![dest] = Tail(@)]
      /\ nodes' = nodes \ {q} /\ q' = next[q]
      /\ UNCHANGED <<heads, ini, end, at, dest>>
  BY <1>2 DEF FreeNode, free, Seqs!AfterRm
<1>6. LinksType'
  BY <1>1, <1>4, <1>5 DEF LinksType, Pointers, TypeOK
<1>7. \A g \in Heads :
        OnQueue(g)' = IF g = dest THEN OnQueue(g) \ {q} ELSE OnQueue(g)
  BY <1>1, <1>4, <1>5 DEF OnQueue, TypeOK
<1>8. \A g \in Heads \ {dest} : q \notin OnQueue(g)
  BY <1>1, <1>4 DEF Represents, NodesOnce, OnQueue
<1>9. PointersSpell'
  <2>1. Linked(next', q', content'[dest])
    BY <1>1, <1>3, <1>5 DEF TypeOK
  <2>2. ASSUME NEW g \in heads, g \in Heads, g # dest
        PROVE  Linked(next', ini'[g], content'[g]) /\ end'[g] = Last(content'[g])
    <3>1. \A m \in Range(content[g]) : next'[m] = next[m]
      BY <2>2, <1>1, <1>5, <1>8, RangeOfSeq DEF OnQueue, TypeOK
    <3>2. /\ content[g] \in Seq(Nodes) /\ Linked(next, ini[g], content[g])
          /\ end[g] = Last(content[g])
      BY <2>2 DEF TypeOK, Represents, PointersSpell, BeingDestroyed
    <3>3. content'[g] = content[g]
      BY <2>2, <1>5 DEF TypeOK
    <3> QED
      BY <1>5, <3>1, <3>2, <3>3, LinkedSame
  <2> QED
    BY <2>1, <2>2, <1>1, <1>5 DEF PointersSpell, BeingDestroyed
<1>10. NodesOnce'
  <2>1. \A g \in Heads : IsInjective(content'[g])
    BY <1>4, <1>5 DEF TypeOK, Represents, NodesOnce
  <2>2. \A g \in Heads : OnQueue(g)' \subseteq nodes'
    BY <1>5, <1>7, <1>8 DEF Represents, NodesOnce
  <2>3. \A g, k \in Heads : g # k => OnQueue(g)' \cap OnQueue(k)' = {}
    BY <1>7 DEF Represents, NodesOnce
  <2>4. \A g \in Heads \ heads' : content'[g] = <<>>
    BY <1>1, <1>5 DEF TypeOK, Represents, NodesOnce
  <2> QED
    BY <2>1, <2>2, <2>3, <2>4 DEF NodesOnce
<1>11. LooseNodes'
  <2> SUFFICES ASSUME NEW m \in nodes, m # q, Loose(m)'
               PROVE  next'[m] = NULL
    BY <1>5 DEF LooseNodes
  <2>1. Loose(m)
    BY <1>7 DEF Loose
  <2> QED
    BY <2>1, <1>5 DEF Represents, LooseNodes, TypeOK
<1> QED
  BY <1>6, <1>9, <1>10, <1>11 DEF Represents

(* When the head itself goes, nothing is on it.                            *)
LEMMA FreeHeadKeeps ==
  ASSUME TypeOK, Represents, FrameInv, FreeHead
  PROVE  LinksType' /\ Represents'
<1>1. /\ dest \in heads /\ dest \in Heads /\ at = "destroy" /\ q = NULL
      /\ heads' = heads \ {dest}
      /\ ini' = [ini EXCEPT ![dest] = NULL]
      /\ end' = [end EXCEPT ![dest] = NULL]
      /\ UNCHANGED <<nodes, next, content>> /\ at' = "idle"
  BY DEF FreeHead, FrameInv, TypeOK, Return
<1>2. content[dest] = <<>>
  <2>1. content[dest] \in Seq(Nodes) /\ Linked(next, q, content[dest])
    BY <1>1 DEF TypeOK, Represents, PointersSpell, BeingDestroyed
  <2>2. content[dest] # <<>> => content[dest][1] \in Nodes
    BY <2>1, EmptySeq, ElementOfSeq
  <2> QED
    BY <1>1, <2>1, <2>2, NullAssumption DEF Linked
<1>3. LinksType'
  BY <1>1 DEF LinksType, Pointers, TypeOK
<1>4. PointersSpell'
  BY <1>1 DEF TypeOK, Represents, PointersSpell, BeingDestroyed
<1>5. NodesOnce'
  BY <1>1, <1>2 DEF Represents, NodesOnce, OnQueue
<1>6. LooseNodes'
  BY <1>1 DEF Represents, LooseNodes, Loose, OnQueue
<1> QED
  BY <1>3, <1>4, <1>5, <1>6 DEF Represents

(* Nodes and heads come, and loose nodes go.                               *)
LEMMA MemoryKeeps ==
  ASSUME TypeOK, Represents,
         \/ \E n \in Nodes : qnode_create(n) \/ (Loose(n) /\ qnode_destroy(n))
         \/ \E h \in Heads : qhead_create(h)
  PROVE  LinksType' /\ Represents'
<1>1. ASSUME NEW n \in Nodes, qnode_create(n) PROVE LinksType' /\ Represents'
  <2>1. /\ n \notin nodes /\ nodes' = nodes \cup {n}
        /\ next' = [next EXCEPT ![n] = NULL]
        /\ UNCHANGED <<heads, ini, end, content>> /\ at = "idle" /\ at' = "idle"
    BY <1>1 DEF qnode_create, Return
  <2>2. LinksType'
    BY <2>1 DEF LinksType, Pointers, TypeOK
  <2>3. ASSUME NEW h \in heads PROVE Linked(next', ini[h], content[h])
    <3>1. /\ content[h] \in Seq(Nodes) /\ Linked(next, ini[h], content[h])
          /\ Range(content[h]) \subseteq nodes
      BY <2>1 DEF TypeOK, Represents, PointersSpell, BeingDestroyed, NodesOnce,
                  OnQueue
    <3>2. \A m \in Range(content[h]) : next'[m] = next[m]
      BY <2>1, <3>1 DEF TypeOK
    <3> QED
      BY <3>1, <3>2, LinkedSame
  <2>4. PointersSpell'
    BY <2>1, <2>3 DEF Represents, PointersSpell, BeingDestroyed
  <2>5. NodesOnce' /\ LooseNodes'
    BY <2>1 DEF Represents, NodesOnce, LooseNodes, Loose, OnQueue, TypeOK
  <2> QED
    BY <2>2, <2>4, <2>5 DEF Represents
<1>2. ASSUME NEW n \in Nodes, Loose(n), qnode_destroy(n)
      PROVE  LinksType' /\ Represents'
  <2>1. /\ nodes' = nodes \ {n}
        /\ next' = [next EXCEPT ![n] = NULL]
        /\ UNCHANGED <<heads, ini, end, content>> /\ at = "idle" /\ at' = "idle"
    BY <1>2 DEF qnode_destroy, Return, free
  <2>2. LinksType'
    BY <2>1 DEF LinksType, Pointers, TypeOK
  <2>3. ASSUME NEW h \in heads PROVE Linked(next', ini[h], content[h])
    <3>1. /\ content[h] \in Seq(Nodes) /\ Linked(next, ini[h], content[h])
          /\ n \notin Range(content[h])
      BY <1>2, <2>1 DEF TypeOK, Represents, PointersSpell, BeingDestroyed,
                        Loose, OnQueue
    <3>2. \A m \in Range(content[h]) : next'[m] = next[m]
      BY <2>1, <3>1, RangeOfSeq DEF TypeOK
    <3> QED
      BY <3>1, <3>2, LinkedSame
  <2>4. PointersSpell'
    BY <2>1, <2>3 DEF Represents, PointersSpell, BeingDestroyed
  <2>5. NodesOnce' /\ LooseNodes'
    BY <1>2, <2>1 DEF Represents, NodesOnce, LooseNodes, Loose, OnQueue, TypeOK
  <2> QED
    BY <2>2, <2>4, <2>5 DEF Represents
<1>3. ASSUME NEW h \in Heads, qhead_create(h) PROVE LinksType' /\ Represents'
  <2>1. /\ h \notin heads /\ heads' = heads \cup {h}
        /\ ini' = [ini EXCEPT ![h] = NULL]
        /\ end' = [end EXCEPT ![h] = NULL]
        /\ UNCHANGED <<nodes, next, content>> /\ at = "idle" /\ at' = "idle"
    BY <1>3 DEF qhead_create, Return
  <2>2. content[h] = <<>>
    BY <2>1 DEF Represents, NodesOnce
  <2>3. LinksType'
    BY <2>1 DEF LinksType, Pointers, TypeOK
  <2>4. Linked(next, NULL, content[h]) /\ NULL = Last(content[h])
    BY <2>2, EmptySeq DEF Linked, Last
  <2>5. PointersSpell'
    BY <2>1, <2>4 DEF TypeOK, Represents, PointersSpell, BeingDestroyed
  <2>6. NodesOnce' /\ LooseNodes'
    BY <2>1 DEF Represents, NodesOnce, LooseNodes, Loose, OnQueue
  <2> QED
    BY <2>3, <2>5, <2>6 DEF Represents
<1> QED
  BY <1>1, <1>2, <1>3
-----------------------------------------------------------------------------
(* The inductive invariant.                                                *)
FrameType ==
  /\ heads \in SUBSET Heads /\ nodes \in SUBSET Nodes
  /\ at \in Functions_at
  /\ dest \in Heads \cup {NULL} /\ src \in Heads \cup {NULL}
  /\ node \in Pointers /\ q \in Pointers
  /\ qtd \in Int
  /\ ret \in Codes \cup Nodes \cup {NULL}
  /\ before \in [dest : Seq(Nodes), src : Seq(Nodes), qtd : Int,
                 heads : SUBSET Heads, nodes : SUBSET Nodes]

LEMMA TypeSplit == TypeOK <=> FrameType /\ LinksType
BY DEF TypeOK, FrameType, LinksType, Pointers

LEMMA TypeSplitPrime == TypeOK' <=> FrameType' /\ LinksType'
BY DEF TypeOK, FrameType, LinksType, Pointers

(* A call that returns leaves no frame behind.                             *)
LEMMA ReturnKeeps ==
  ASSUME NEW value \in Codes \cup Nodes \cup {NULL}, Return(value),
         heads' \in SUBSET Heads, nodes' \in SUBSET Nodes
  PROVE  FrameType' /\ FrameInv' /\ ScanInv'
<1>1. <<>> \in Seq(Nodes)
  BY EmptySeq
<1> QED
  BY <1>1 DEF Return, FrameType, Pointers, Functions_at, Nothing, FrameInv,
              ScanInv, InInsertion

(* Frames come and go without touching the queues.                         *)
LEMMA QueuesKept ==
  ASSUME TypeOK, Represents, UNCHANGED <<memory, links, content>>,
         at # "destroy", at' # "destroy"
  PROVE  LinksType' /\ Represents'
BY DEF memory, links, TypeOK, LinksType, Pointers, Represents, PointersSpell,
       BeingDestroyed, NodesOnce, OnQueue, LooseNodes, Loose

(* A call that is refused.                                                 *)
LEMMA RefuseKeeps ==
  ASSUME IInv, NEW value \in Codes \cup Nodes \cup {NULL}, Refuse(value)
  PROVE  IInv'
<1>1. LinksType' /\ Represents'
  BY QueuesKept DEF IInv, Refuse, Return
<1>2. FrameType' /\ FrameInv' /\ ScanInv'
  BY ReturnKeeps DEF Refuse, IInv, TypeOK, memory
<1> QED
  BY <1>1, <1>2, TypeSplitPrime DEF IInv

(* The cursor starts at the first node.                                    *)
LEMMA ScanStarts ==
  ASSUME NEW c \in Seq(Nodes), NEW first, NEW nxt, Linked(nxt, first, c)
  PROVE  /\ 1 \in 1 .. Len(c) + 1
         /\ first = IF 1 <= Len(c) THEN c[1] ELSE NULL
<1>1. Len(c) \in Nat /\ (c # <<>> => Len(c) > 0) /\ (c = <<>> => Len(c) = 0)
  BY LenProperties, EmptySeq
<1> QED
  BY <1>1 DEF Linked

LEMMA CallKeeps ==
  ASSUME IInv, Calls(Heads)
  PROVE  IInv'
<1>1. ASSUME OutOfMemory \/ \E h \in Heads :
               \/ rm_null(h)
               \/ \E n \in Nodes \cup {NULL} : ins_null(h, n)
               \/ \E d \in Heads, n \in Qtds : transfer_refused(h, d, n)
      PROVE  IInv'
  BY <1>1, RefuseKeeps
     DEF OutOfMemory, rm_null, ins_null, transfer_refused, Codes
<1>2. ASSUME \/ \E n \in Nodes :
                  qnode_create(n) \/ (Loose(n) /\ qnode_destroy(n))
             \/ \E h \in Heads : qhead_create(h)
      PROVE  IInv'
  <2>1. LinksType' /\ Represents'
    BY <1>2, MemoryKeeps DEF IInv
  <2>2. /\ heads' \in SUBSET Heads /\ nodes' \in SUBSET Nodes
        /\ Return("QUEUE_OK") \/ Return("void")
    BY <1>2 DEF qnode_create, qnode_destroy, qhead_create, free, IInv, TypeOK
  <2>3. FrameType' /\ FrameInv' /\ ScanInv'
    BY <2>2, ReturnKeeps DEF Codes
  <2> QED
    BY <2>1, <2>3, TypeSplitPrime DEF IInv
<1>3. ASSUME NEW h \in Heads, qhead_destroy(h) PROVE IInv'
  <2>1. /\ h \in heads /\ at = "idle" /\ at' = "destroy"
        /\ dest' = h /\ q' = ini[h] /\ ret' = NULL
        /\ before' = [dest |-> content[h], src |-> <<>>, qtd |-> 0,
                      heads |-> heads, nodes |-> nodes]
        /\ UNCHANGED <<heads, nodes, ini, end, next, content, src, node, qtd>>
    BY <1>3 DEF qhead_destroy, memory, links
  <2>2. LinksType'
    BY <2>1, TypeSplit DEF IInv, LinksType
  <2>3. FrameType'
    <3>1. /\ content[h] \in Seq(Nodes) /\ <<>> \in Seq(Nodes)
          /\ ini[h] \in Pointers
      BY EmptySeq DEF IInv, TypeOK, Pointers
    <3> QED
      <4>1. before' \in [dest : Seq(Nodes), src : Seq(Nodes), qtd : Int,
                         heads : SUBSET Heads, nodes : SUBSET Nodes]
        BY <2>1, <3>1 DEF IInv, TypeOK
      <4> QED
        BY <2>1, <3>1, <4>1 DEF IInv, TypeOK, FrameType, Pointers, Functions_at
  <2>4. PointersSpell'
    BY <2>1 DEF IInv, Represents, PointersSpell, BeingDestroyed
  <2>5. NodesOnce' /\ LooseNodes'
    BY <2>1 DEF IInv, Represents, NodesOnce, OnQueue, LooseNodes, Loose
  <2>6. FrameInv' /\ ScanInv'
    BY <2>1 DEF FrameInv, ScanInv, InInsertion
  <2> QED
    BY <2>2, <2>3, <2>4, <2>5, <2>6, TypeSplitPrime DEF IInv, Represents
<1>4. ASSUME NEW h \in Heads, qhead_rm(h) PROVE IInv'
  <2>1. PICK n : n = ini[h]
    OBVIOUS
  <2>2. /\ h \in heads /\ at = "idle" /\ at' = "idle" /\ n # NULL
        /\ Unlink(h) /\ UNCHANGED memory /\ Return(n)
    BY <1>4, <2>1 DEF qhead_rm, qhead_empty, Return
  <2>3. LinksType' /\ Represents' /\ n \in nodes
    BY <2>1, <2>2, UnlinkKeeps DEF IInv
  <2>4. FrameType' /\ FrameInv' /\ ScanInv'
    BY <2>2, <2>3, ReturnKeeps DEF IInv, TypeOK, memory
  <2> QED
    BY <2>3, <2>4, TypeSplitPrime DEF IInv
<1>5. ASSUME NEW h \in Heads, NEW n \in Nodes, OffOtherQueues(n, h),
             qhead_ins(h, n)
      PROVE  IInv'
  <2>1. /\ h \in heads /\ n \in nodes /\ at = "idle" /\ at' = "ins"
        /\ dest' = h /\ node' = n /\ q' = ini[h] /\ ret' = NULL
        /\ UNCHANGED <<heads, nodes, links, content, src, qtd, before>>
    BY <1>5 DEF qhead_ins, memory
  <2>2. LinksType' /\ Represents'
    BY <2>1, QueuesKept DEF IInv, memory
  <2>3. FrameType'
    BY <2>1 DEF IInv, TypeOK, FrameType, Pointers, Functions_at
  <2>4. FrameInv'
    BY <2>1, <1>5 DEF FrameInv, OffOtherQueues, OnQueue
  <2>5. ScanInv'
    <3>1. content[h] \in Seq(Nodes) /\ Linked(next, ini[h], content[h])
      BY <2>1 DEF IInv, TypeOK, Represents, PointersSpell, BeingDestroyed
    <3>2. /\ 1 \in 1 .. Len(content[h]) + 1
          /\ ini[h] = IF 1 <= Len(content[h]) THEN content[h][1] ELSE NULL
      BY <3>1, ScanStarts
    <3>3. \A j \in 1 .. 1 - 1 : content[h][j] # n
      OBVIOUS
    <3> QED
      BY <2>1, <3>2, <3>3 DEF ScanInv
  <2> QED
    BY <2>2, <2>3, <2>4, <2>5, TypeSplitPrime DEF IInv
<1>6. ASSUME NEW h \in Heads, NEW d \in Heads, NEW n \in Qtds,
             qhead_transfer(h, d, n)
      PROVE  IInv'
  <2>1. /\ h \in heads /\ d \in heads /\ at = "idle" /\ at' = "transfer"
        /\ src' = h /\ dest' = d /\ qtd' = n /\ ret' = NULL
        /\ before' = [dest |-> content[d], src |-> content[h], qtd |-> n,
                      heads |-> heads, nodes |-> nodes]
        /\ UNCHANGED <<heads, nodes, links, content, node, q>>
    BY <1>6 DEF qhead_transfer, memory
  <2>2. LinksType' /\ Represents'
    BY <2>1, QueuesKept DEF IInv, memory
  <2>3. FrameType'
    <3>1. content[d] \in Seq(Nodes) /\ content[h] \in Seq(Nodes) /\ n \in Int
      BY QtdsAssumption DEF IInv, TypeOK
    <3> QED
      BY <2>1, <3>1 DEF IInv, TypeOK, FrameType, Pointers, Functions_at
  <2>4. FrameInv' /\ ScanInv'
    BY <2>1 DEF FrameInv, ScanInv, InInsertion
  <2> QED
    BY <2>2, <2>3, <2>4, TypeSplitPrime DEF IInv
<1> QED
  BY <1>1, <1>2, <1>3, <1>4, <1>5, <1>6 DEF Calls

LEMMA LoopKeeps ==
  ASSUME IInv, Loops
  PROVE  IInv'
<1>1. ASSUME ScanOn PROVE IInv'
  <2>1. /\ InInsertion /\ q \in Nodes /\ q # node /\ q' = next[q]
        /\ UNCHANGED <<heads, nodes, links, content, at, dest, src, node, qtd,
                       before, ret>>
    BY <1>1 DEF ScanOn, memory, IInv, TypeOK
  <2>2. LinksType' /\ Represents'
    BY <2>1, QueuesKept DEF IInv, InInsertion, memory
  <2>3. FrameType'
    BY <2>1 DEF IInv, TypeOK, FrameType, Pointers
  <2>4. FrameInv'
    BY <2>1 DEF IInv, FrameInv, InInsertion, OffOtherQueues, Loose, OnQueue
  <2>5. ScanInv'
    <3> DEFINE c == content[dest]
    <3>1. PICK k \in 1 .. Len(c) + 1 :
            /\ q = IF k <= Len(c) THEN c[k] ELSE NULL
            /\ \A j \in 1 .. k - 1 : c[j] # node
      BY <2>1 DEF IInv, ScanInv
    <3>2. /\ dest \in heads /\ at # "destroy"
          /\ c \in Seq(Nodes) /\ Linked(next, ini[dest], c)
      BY <2>1 DEF IInv, TypeOK, FrameInv, InInsertion, Represents,
                  PointersSpell, BeingDestroyed
    <3>3. k <= Len(c) /\ q = c[k] /\ Len(c) \in Nat
      BY <2>1, <3>1, <3>2, NullAssumption, LenProperties
    <3>4. next[q] = IF k + 1 <= Len(c) THEN c[k + 1] ELSE NULL
      BY <3>1, <3>2, <3>3 DEF Linked
    <3>5. \A j \in 1 .. (k + 1) - 1 : c[j] # node
      BY <2>1, <3>1, <3>3
    <3>6. k + 1 \in 1 .. Len(c) + 1
      BY <3>1, <3>3
    <3>7. c' = c /\ node' = node
      BY <2>1
    <3> QED
      BY <2>1, <3>4, <3>5, <3>6, <3>7 DEF ScanInv
  <2> QED
    BY <2>2, <2>3, <2>4, <2>5, TypeSplitPrime DEF IInv
<1>2. ASSUME Found \/ Link PROVE IInv'
  <2>1. /\ InInsertion /\ UNCHANGED memory
        /\ InsReturns("QUEUE_DUPLICATE") \/ InsReturns("QUEUE_OK")
    BY <1>2 DEF Found, Link
  <2>2. at # "destroy" /\ at' # "destroy"
    BY <2>1 DEF InInsertion, InsReturns, Return
  <2>3. LinksType' /\ Represents'
    <3>1. CASE Found
      BY <3>1, <2>2, QueuesKept DEF Found, IInv
    <3>2. CASE Link
      BY <3>2, <2>2, LinkKeeps DEF IInv
    <3> QED
      BY <1>2, <3>1, <3>2
  <2>4. FrameType' /\ FrameInv' /\ ScanInv'
    <3>1. CASE Return("QUEUE_DUPLICATE") \/ Return("QUEUE_OK")
      BY <3>1, <2>1, ReturnKeeps DEF IInv, TypeOK, memory, Codes
    <3>2. CASE /\ at = "transfer_ins"
               /\ at' = "transfer" /\ qtd' = OneLess /\ node' = NULL /\ q' = NULL
               /\ UNCHANGED <<dest, src, before, ret>>
      BY <3>2, <2>1
         DEF IInv, TypeOK, FrameInv, FrameType, Pointers, Functions_at, memory,
             OneLess, ScanInv, InInsertion
    <3> QED
      BY <2>1, <3>1, <3>2 DEF InsReturns
  <2> QED
    BY <2>3, <2>4, TypeSplitPrime DEF IInv
<1>3. ASSUME TransferOne PROVE IInv'
  <2>1. PICK n : n = ini[src]
    OBVIOUS
  <2>2. PICK h : h = src
    OBVIOUS
  <2>3. /\ at = "transfer" /\ at' = "transfer_ins" /\ n # NULL
        /\ Unlink(h) /\ node' = n /\ q' = ini'[dest]
        /\ UNCHANGED <<heads, nodes, dest, src, qtd, before, ret>>
    BY <1>3, <2>1, <2>2 DEF TransferOne, Transferring, qhead_empty, memory
  <2>4. h \in heads /\ dest \in heads /\ dest \in Heads
    BY <2>2, <2>3 DEF IInv, FrameInv, TypeOK
  <2>5. LinksType' /\ Represents' /\ n \in nodes /\ Loose(n)'
    BY <2>1, <2>2, <2>3, <2>4, UnlinkKeeps DEF IInv, memory
  <2>6. FrameType'
    BY <2>3, <2>4, <2>5 DEF IInv, TypeOK, FrameType, LinksType, Pointers,
                            Functions_at
  <2>7. FrameInv'
    BY <2>2, <2>3, <2>4, <2>5 DEF FrameInv, Loose, OffOtherQueues
  <2>8. ScanInv'
    <3>1. /\ content'[dest] \in Seq(Nodes)
          /\ Linked(next', ini'[dest], content'[dest])
      BY <2>3, <2>4, <2>5
         DEF LinksType, Represents, PointersSpell, BeingDestroyed
    <3>2. /\ 1 \in 1 .. Len(content'[dest]) + 1
          /\ ini'[dest] = IF 1 <= Len(content'[dest]) THEN content'[dest][1]
                          ELSE NULL
      BY <3>1, ScanStarts
    <3>3. \A j \in 1 .. 1 - 1 : content'[dest][j] # n
      OBVIOUS
    <3> QED
      BY <2>3, <3>2, <3>3 DEF ScanInv
  <2> QED
    BY <2>5, <2>6, <2>7, <2>8, TypeSplitPrime DEF IInv
<1>4. ASSUME TransferDone PROVE IInv'
  <2>1. LinksType' /\ Represents'
    BY <1>4, QueuesKept DEF TransferDone, Return, IInv
  <2>2. FrameType' /\ FrameInv' /\ ScanInv'
    BY <1>4, ReturnKeeps DEF TransferDone, IInv, TypeOK, memory, Codes
  <2> QED
    BY <2>1, <2>2, TypeSplitPrime DEF IInv
<1>5. ASSUME FreeNode PROVE IInv'
  <2>1. LinksType' /\ Represents'
    BY <1>5, FreeNodeKeeps DEF IInv
  <2>2. FrameType'
    BY <1>5 DEF FreeNode, free, IInv, TypeOK, FrameType, Pointers
  <2>3. FrameInv' /\ ScanInv'
    BY <1>5 DEF FreeNode, IInv, FrameInv, ScanInv, InInsertion
  <2> QED
    BY <2>1, <2>2, <2>3, TypeSplitPrime DEF IInv
<1>6. ASSUME FreeHead PROVE IInv'
  <2>1. LinksType' /\ Represents'
    BY <1>6, FreeHeadKeeps DEF IInv
  <2>2. FrameType' /\ FrameInv' /\ ScanInv'
    BY <1>6, ReturnKeeps DEF FreeHead, IInv, TypeOK, Codes
  <2> QED
    BY <2>1, <2>2, TypeSplitPrime DEF IInv
<1> QED
  BY <1>1, <1>2, <1>3, <1>4, <1>5, <1>6 DEF Loops

LEMMA IInvInit == Init => IInv
<1> SUFFICES ASSUME Init PROVE IInv
  OBVIOUS
<1>1. <<>> \in Seq(Nodes) /\ Len(<<>>) = 0
  BY EmptySeq
<1>2. TypeOK
  BY <1>1 DEF Init, TypeOK, Functions_at, Nothing
<1>3. Represents
  <2>1. IsInjective(<<>>) /\ Range(<<>>) = {}
    BY DEF IsInjective, Range
  <2> QED
    BY <2>1 DEF Init, Represents, PointersSpell, BeingDestroyed, NodesOnce,
                LooseNodes, OnQueue
<1>4. FrameInv /\ ScanInv
  BY DEF Init, FrameInv, ScanInv, InInsertion
<1> QED
  BY <1>2, <1>3, <1>4 DEF IInv

LEMMA IInvStep == IInv /\ [Next]_vars => IInv'
<1> SUFFICES ASSUME IInv, [Next]_vars PROVE IInv'
  OBVIOUS
<1>1. CASE UNCHANGED vars
  BY <1>1 DEF vars, memory, links, frame, IInv, TypeOK, Represents,
              PointersSpell, BeingDestroyed, NodesOnce, OnQueue, LooseNodes,
              Loose, FrameInv, ScanInv, InInsertion, OffOtherQueues
<1> QED
  BY <1>1, CallKeeps, LoopKeeps DEF Next

-----------------------------------------------------------------------------
(* Whatever legal calls are made, following next from ini gives exactly    *)
(* the nodes the queue should have, in their order and up to end, each     *)
(* node is on one queue at most, and none of them is freed.                *)
THEOREM QueuesStayQueues == Spec => []Represents
<1>1. Spec => []IInv
  BY IInvInit, IInvStep, PTL DEF Spec
<1>2. IInv => Represents
  BY DEF IInv
<1> QED
  BY <1>1, <1>2, PTL

-----------------------------------------------------------------------------
(* Taking the next node off what is left of a queue.                       *)
LEMMA NextTaken ==
  ASSUME NEW S, NEW s \in Seq(S), NEW n \in Nat, n <= Len(s)
  PROVE  /\ SubSeq(s, n + 1, Len(s)) \in Seq(S)
         /\ SubSeq(s, 1, n) \in Seq(S)
         /\ SubSeq(s, n + 1, Len(s)) = <<>> <=> n = Len(s)
         /\ n < Len(s) =>
              /\ s[n + 1] \in S
              /\ Head(SubSeq(s, n + 1, Len(s))) = s[n + 1]
              /\ Tail(SubSeq(s, n + 1, Len(s))) = SubSeq(s, n + 2, Len(s))
              /\ SubSeq(s, 1, n + 1) = Append(SubSeq(s, 1, n), s[n + 1])
<1>1. Len(s) \in Nat /\ n \in 0 .. Len(s)
  BY LenProperties
<1>2. \A i \in 1 .. Len(s) : s[i] \in S
  BY ElementOfSeq
<1>3. /\ SubSeq(s, n + 1, Len(s)) \in Seq(S)
      /\ Len(SubSeq(s, n + 1, Len(s))) = Len(s) - n
  <2>1. \A i \in n + 1 .. Len(s) : s[i] \in S
    BY <1>1, <1>2
  <2> QED
    BY <1>1, <2>1, SubSeqProperties
<1>4. SubSeq(s, 1, n) \in Seq(S)
  <2>1. \A i \in 1 .. n : s[i] \in S
    BY <1>1, <1>2
  <2> QED
    BY <1>1, <2>1, SubSeqProperties
<1>5. SubSeq(s, n + 1, Len(s)) = <<>> <=> n = Len(s)
  <2> DEFINE rest == SubSeq(s, n + 1, Len(s))
  <2>1. rest \in Seq(S) /\ Len(rest) = Len(s) - n
    BY <1>3
  <2> HIDE DEF rest
  <2>2. rest = <<>> <=> n = Len(s)
    BY <1>1, <2>1, EmptySeq
  <2> QED
    BY <2>2 DEF rest
<1>6. ASSUME n < Len(s)
      PROVE  /\ s[n + 1] \in S
             /\ Head(SubSeq(s, n + 1, Len(s))) = s[n + 1]
             /\ Tail(SubSeq(s, n + 1, Len(s))) = SubSeq(s, n + 2, Len(s))
             /\ SubSeq(s, 1, n + 1) = Append(SubSeq(s, 1, n), s[n + 1])
  <2>1. /\ n + 1 \in 1 .. Len(s) /\ Len(s) \in n + 1 .. Len(s)
        /\ 1 \in 1 .. Len(s) /\ n + 1 \in 1 .. Len(s)
        /\ (n + 1) + 1 = n + 2 /\ (n + 1) - 1 = n
    BY <1>1, <1>6
  <2>2. s[n + 1] \in S
    BY <1>2, <2>1
  <2>3. /\ Head(SubSeq(s, n + 1, Len(s))) = s[n + 1]
        /\ Tail(SubSeq(s, n + 1, Len(s))) = SubSeq(s, (n + 1) + 1, Len(s))
    BY <2>1, HeadTailOfSubSeq
  <2>4. SubSeq(s, 1, n + 1) = SubSeq(s, 1, (n + 1) - 1) \o <<s[n + 1]>>
    BY <2>1, SubSeqRecursiveSecond
  <2>5. Append(SubSeq(s, 1, n), s[n + 1]) = SubSeq(s, 1, n) \o <<s[n + 1]>>
    BY <1>4, <2>2, AppendIsConcat
  <2> QED
    BY <2>1, <2>2, <2>3, <2>4, <2>5
<1> QED
  BY <1>3, <1>4, <1>5, <1>6

(* A queue rotated by one more is what moving its first node to its end    *)
(* gives.                                                                  *)
LEMMA RotatedStep ==
  ASSUME NEW S, NEW s \in Seq(S), NEW n \in Nat, s # <<>>
  PROVE  /\ Rotated(s, n) # <<>>
         /\ Rotated(s, n + 1) = Append(Tail(Rotated(s, n)), Head(Rotated(s, n)))
<1> DEFINE L == Len(s)
           k == n % L
           j == (n + 1) % L
<1>1. L \in Nat \ {0}
  BY EmptySeq
<1>2. k \in 0 .. L - 1 /\ j = IF k = L - 1 THEN 0 ELSE k + 1
  <2> HIDE DEF L
  <2> QED
    BY <1>1, NextModulo
<1>3. /\ Rotated(s, n) = SubSeq(s, k + 1, L) \o SubSeq(s, 1, k)
      /\ Rotated(s, n + 1) = SubSeq(s, j + 1, L) \o SubSeq(s, 1, j)
  BY DEF Rotated
<1> HIDE DEF k, j
<1> DEFINE rest == SubSeq(s, k + 1, L)
           moved == SubSeq(s, 1, k)
<1>4. /\ rest \in Seq(S) /\ moved \in Seq(S)
      /\ rest # <<>>
      /\ s[k + 1] \in S
      /\ Head(rest) = s[k + 1]
      /\ Tail(rest) = SubSeq(s, k + 2, L)
      /\ SubSeq(s, 1, k + 1) = Append(moved, s[k + 1])
  BY <1>1, <1>2, NextTaken
<1>5. Rotated(s, n) = rest \o moved
  BY <1>3
<1> HIDE DEF rest, moved
<1>6. /\ Rotated(s, n) # <<>>
      /\ Head(Rotated(s, n)) = s[k + 1]
      /\ Tail(Rotated(s, n)) = Tail(rest) \o moved
  BY <1>4, <1>5, TailOfConcat
<1>7. Append(Tail(Rotated(s, n)), s[k + 1]) = SubSeq(s, k + 2, L) \o SubSeq(s, 1, k + 1)
  <2>1. Tail(rest) \in Seq(S)
    BY <1>4, HeadTailProperties
  <2>2. Append(Tail(rest) \o moved, s[k + 1]) = Tail(rest) \o Append(moved, s[k + 1])
    BY <1>4, <2>1, AppendToConcat
  <2> QED
    BY <1>4, <1>6, <2>2
<1>8. CASE k = L - 1
  <2>1. SubSeq(s, k + 2, L) = <<>> /\ SubSeq(s, j + 1, L) = s
        /\ SubSeq(s, 1, k + 1) = s /\ SubSeq(s, 1, j) = <<>>
    <3>1. /\ k + 2 = L + 1 /\ k + 1 = L /\ j = 0 /\ j + 1 = 1
          /\ L + 1 \in Int /\ L \in Int /\ L < L + 1
          /\ 0 \in Int /\ 1 \in Int /\ 0 < 1
      BY <1>1, <1>2, <1>8
    <3>2. SubSeq(s, L + 1, L) = <<>> /\ SubSeq(s, 1, 0) = <<>> /\ SubSeq(s, 1, L) = s
      BY <3>1, SubSeqEmpty, SubSeqFull
    <3> QED
      BY <3>1, <3>2
  <2>2. <<>> \o s = s /\ s \o <<>> = s
    BY ConcatEmptySeq
  <2> QED
    BY <1>3, <1>6, <1>7, <2>1, <2>2
<1>9. CASE k # L - 1
  <2>1. j = k + 1 /\ j + 1 = k + 2
    BY <1>1, <1>2, <1>9
  <2> QED
    BY <1>3, <1>6, <1>7, <2>1
<1> QED
  BY <1>2, <1>6, <1>8, <1>9

-----------------------------------------------------------------------------
(* What a transfer delivers, and what a destruction frees.                 *)
LEMMA BeforeType ==
  ASSUME TypeOK
  PROVE  /\ before.dest \in Seq(Nodes) /\ before.src \in Seq(Nodes)
         /\ before.qtd \in Int /\ qtd \in Int /\ MovedSoFar \in Int
BY DEF TypeOK, MovedSoFar

(* A head is empty when its queue is, and taking the first node off takes  *)
(* the head of the sequence.                                               *)
LEMMA EmptyQueue ==
  ASSUME TypeOK, Represents, NEW h \in heads, at # "destroy"
  PROVE  /\ h \in Heads /\ content[h] \in Seq(Nodes)
         /\ qhead_empty(h) <=> content[h] = <<>>
         /\ content[h] # <<>> => ini[h] = Head(content[h]) /\ ini[h] \in Nodes
<1>1. /\ h \in Heads /\ content[h] \in Seq(Nodes)
      /\ Linked(next, ini[h], content[h])
  BY DEF TypeOK, Represents, PointersSpell, BeingDestroyed
<1>2. content[h] # <<>> =>
        /\ Head(content[h]) = content[h][1] /\ Head(content[h]) \in Nodes
  BY <1>1, HeadTailProperties
<1> QED
  BY <1>1, <1>2, NullAssumption DEF Linked, qhead_empty

LEMMA UnlinkTakes ==
  ASSUME TypeOK, Represents, NEW h \in heads, at # "destroy", ~qhead_empty(h),
         Unlink(h)
  PROVE  /\ h \in Heads /\ content[h] \in Seq(Nodes) /\ content[h] # <<>>
         /\ ini[h] = Head(content[h]) /\ ini[h] \in Nodes
         /\ content' = [content EXCEPT ![h] = Tail(@)]
BY EmptyQueue DEF Unlink, Seqs!AfterRm

(* A node that a scan did not meet is appended; a loose one is met by none.*)
LEMMA LinkAppends ==
  ASSUME TypeOK, FrameInv, ScanInv, Link
  PROVE  /\ dest \in Heads /\ node \in Nodes
         /\ content' = [content EXCEPT ![dest] = Append(@, node)]
<1> DEFINE c == content[dest]
<1>1. /\ dest \in Heads /\ node \in Nodes /\ q = NULL /\ InInsertion
      /\ c \in Seq(Nodes)
  BY DEF Link, InInsertion, FrameInv, TypeOK
<1>2. PICK k \in 1 .. Len(c) + 1 :
        /\ q = IF k <= Len(c) THEN c[k] ELSE NULL
        /\ \A j \in 1 .. k - 1 : c[j] # node
  BY <1>1 DEF ScanInv
<1>3. /\ Len(c) \in Nat /\ DOMAIN c = 1 .. Len(c)
      /\ \A j \in 1 .. Len(c) : c[j] \in Nodes
  BY <1>1, LenProperties, ElementOfSeq
<1>4. k = Len(c) + 1
  BY <1>1, <1>2, <1>3, NullAssumption
<1>5. node \notin Range(c)
  BY <1>2, <1>3, <1>4 DEF Range
<1> QED
  BY <1>1, <1>5 DEF Link, Seqs!qhead_ins, Seqs!IsDuplicate, Seqs!Range, Range

LEMMA LooseNotFound ==
  ASSUME TypeOK, FrameInv, ScanInv, InInsertion, Loose(node)
  PROVE  ~Found
<1> SUFFICES ASSUME q = node PROVE FALSE
  BY DEF Found
<1> DEFINE c == content[dest]
<1>1. /\ dest \in Heads /\ node \in Nodes /\ c \in Seq(Nodes)
  BY DEF InInsertion, FrameInv, TypeOK
<1>2. PICK k \in 1 .. Len(c) + 1 : q = IF k <= Len(c) THEN c[k] ELSE NULL
  BY DEF ScanInv
<1>3. Len(c) \in Nat /\ DOMAIN c = 1 .. Len(c)
  BY <1>1, LenProperties
<1>4. k \in 1 .. Len(c) /\ node = c[k]
  BY <1>1, <1>2, <1>3, NullAssumption
<1>5. node \in Range(c)
  BY <1>3, <1>4 DEF Range
<1> QED
  BY <1>1, <1>5 DEF Loose, OnQueue

(* A transfer starts with nothing moved.                                   *)
LEMMA TransferStarts ==
  ASSUME TypeOK, Represents, NEW s \in Heads, NEW d \in Heads, NEW n \in Int,
         WillEnd(s, d, n), qhead_transfer(s, d, n)
  PROVE  TransferInv'
<1>1. /\ at' = "transfer" /\ src' = s /\ dest' = d /\ qtd' = n
      /\ before' = [dest |-> content[d], src |-> content[s], qtd |-> n,
                    heads |-> heads, nodes |-> nodes]
      /\ content' = content
      /\ n > 0 \/ n = QFLAG_TRANSFER_ALL
  BY DEF qhead_transfer
<1>2. /\ before'.dest = content[d] /\ before'.src = content[s]
      /\ before'.qtd = n
      /\ content[s] \in Seq(Nodes) /\ content[d] \in Seq(Nodes)
  BY <1>1 DEF TypeOK
<1>3. (before.qtd - qtd)' = 0
  BY <1>1, <1>2
<1>4. s # d => Range(content[s]) \cap Range(content[d]) = {}
  BY DEF Represents, NodesOnce, OnQueue
<1>5. QueuesAfter(0, content[dest])'
  <2>1. Len(content[s]) \in Nat
    BY <1>2, LenProperties
  <2>2. /\ SubSeq(content[s], 1, 0) = <<>>
        /\ SubSeq(content[s], 1, Len(content[s])) = content[s]
        /\ content[s] \o <<>> = content[s] /\ content[d] \o <<>> = content[d]
    BY <1>2, SubSeqEmpty, SubSeqFull, ConcatEmptySeq
  <2>3. CASE s = d
    <3>1. Rotated(content[s], 0) = content[s]
      <4>1. content[s] # <<>> => Len(content[s]) # 0
        BY <1>2, EmptySeq
      <4>2. content[s] # <<>> => 0 % Len(content[s]) = 0
        <5> DEFINE L == Len(content[s])
        <5> HIDE DEF L
        <5>1. L \in Nat /\ L # 0 => 0 % L = 0
          OBVIOUS
        <5> QED
          BY <2>1, <4>1, <5>1 DEF L
      <4>3. CASE content[s] = <<>>
        BY <4>3 DEF Rotated
      <4>4. CASE content[s] # <<>>
        <5>1. Rotated(content[s], 0) =
                SubSeq(content[s], 0 + 1, Len(content[s])) \o SubSeq(content[s], 1, 0)
          BY <4>2, <4>4 DEF Rotated
        <5>2. 0 + 1 = 1
          OBVIOUS
        <5> QED
          BY <2>2, <5>1, <5>2
      <4> QED
        BY <4>3, <4>4
    <3> QED
      BY <1>1, <1>2, <2>3, <3>1 DEF QueuesAfter, DestAfter
  <2>4. CASE s # d
    <3>1. SrcAfter(0)' = content[s]
      BY <1>2, <2>2 DEF SrcAfter
    <3>2. DestAfter(0)' = content[d]
      BY <1>1, <1>2, <2>2, <2>4 DEF DestAfter
    <3> QED
      BY <1>1, <1>2, <2>1, <2>4, <3>1, <3>2 DEF QueuesAfter
  <2> QED
    BY <2>3, <2>4
<1>6. IF n = QFLAG_TRANSFER_ALL THEN n < 0 ELSE n >= 0
  BY <1>1 DEF QFLAG_TRANSFER_ALL
<1> QED
  BY <1>1, <1>2, <1>3, <1>4, <1>5, <1>6 DEF TransferInv, MovedSoFar, WillEnd

(* Half a move: the first node of the source is in hand.                   *)
LEMMA TransferTakes ==
  ASSUME TypeOK, Represents, FrameInv, TransferInv, TransferOne
  PROVE  TransferInv'
<1> PICK m : m = MovedSoFar
  OBVIOUS
<1> PICK b : b = before.src
  OBVIOUS
<1> PICK c : c = content[src]
  OBVIOUS
<1>1. /\ at = "transfer" /\ at' = "transfer_ins"
      /\ UNCHANGED <<dest, src, qtd, before>> /\ node' = ini[src]
      /\ qtd # 0 /\ ~qhead_empty(src) /\ Unlink(src)
      /\ src \in heads /\ dest \in heads
  BY DEF TransferOne, Transferring, FrameInv
<1>2. /\ src \in Heads /\ c \in Seq(Nodes) /\ c # <<>>
      /\ node' = Head(c) /\ content' = [content EXCEPT ![src] = Tail(c)]
  BY <1>1, UnlinkTakes
<1>3. /\ dest \in Heads /\ content[dest] \in Seq(Nodes)
      /\ content'[src] = Tail(c)
      /\ src # dest => content'[dest] = content[dest]
  BY <1>1, <1>2 DEF TypeOK
<1>4. /\ b \in Seq(Nodes) /\ before.dest \in Seq(Nodes)
      /\ m \in Nat /\ m + 1 \in Nat /\ QueuesAfter(m, content[dest])
  BY <1>1, BeforeType DEF TransferInv
<1>5. QueuesAfter(m + 1, Append(content[dest], node))'
  <2>1. CASE src = dest
    <3>1. c = Rotated(b, m)
      BY <1>4, <2>1 DEF QueuesAfter, DestAfter
    <3>2. b # <<>>
      BY <1>2, <3>1 DEF Rotated
    <3>3. Append(Tail(c), Head(c)) = Rotated(b, m + 1)
      BY <1>4, <3>1, <3>2, RotatedStep
    <3>4. Append(content[dest], node)' = DestAfter(m + 1)'
      BY <1>1, <1>2, <1>3, <2>1, <3>3 DEF DestAfter
    <3> QED
      BY <1>1, <2>1, <3>4 DEF QueuesAfter
  <2>2. CASE src # dest
    <3>1. c = SubSeq(b, m + 1, Len(b)) /\ m <= Len(b) /\ Len(b) \in Nat
      BY <1>4, <2>2, LenProperties DEF QueuesAfter, SrcAfter
    <3>2. /\ content[dest] = before.dest \o SubSeq(b, 1, m)
      BY <1>4, <2>2 DEF QueuesAfter, DestAfter
    <3>3. b \in Seq(Nodes) /\ m \in Nat /\ m < Len(b) /\ m <= Len(b)
      BY <1>2, <1>4, <3>1, NextTaken
    <3>4. /\ b[m + 1] \in Nodes
          /\ Head(SubSeq(b, m + 1, Len(b))) = b[m + 1]
          /\ Tail(SubSeq(b, m + 1, Len(b))) = SubSeq(b, m + 2, Len(b))
          /\ SubSeq(b, 1, m + 1) = Append(SubSeq(b, 1, m), b[m + 1])
          /\ SubSeq(b, 1, m) \in Seq(Nodes)
      BY <3>3, NextTaken
    <3>5. Append(content[dest], Head(c)) = before.dest \o SubSeq(b, 1, m + 1)
      <4>1. PICK moved, e, d :
              moved = SubSeq(b, 1, m) /\ e = b[m + 1] /\ d = before.dest
        OBVIOUS
      <4>2. moved \in Seq(Nodes) /\ e \in Nodes /\ d \in Seq(Nodes)
        BY <1>4, <3>4, <4>1
      <4>3. Append(d \o moved, e) = d \o Append(moved, e)
        BY <4>2, AppendToConcat
      <4>4. Head(c) = b[m + 1]
        BY <3>1, <3>4
      <4> QED
        BY <3>2, <3>4, <4>1, <4>3, <4>4
    <3>6. Append(content[dest], node)' = DestAfter(m + 1)'
      BY <1>1, <1>2, <1>3, <2>2, <3>5 DEF DestAfter
    <3>7. content'[src'] = SrcAfter(m + 1)' /\ m + 1 <= Len(b)
      <4>1. (m + 1) + 1 = m + 2 /\ m + 1 <= Len(b)
        BY <1>4, <3>1, <3>3
      <4>2. SrcAfter(m + 1)' = SubSeq(b, m + 2, Len(b))
        BY <1>1, <4>1 DEF SrcAfter
      <4>3. content'[src'] = SubSeq(b, m + 2, Len(b))
        BY <1>1, <1>3, <3>1, <3>4
      <4> QED
        BY <4>1, <4>2, <4>3
    <3> QED
      BY <1>1, <3>6, <3>7 DEF QueuesAfter
  <2> QED
    BY <2>1, <2>2
<1>6. MovedSoFar' = m
  BY <1>1 DEF MovedSoFar
<1> QED
  BY <1>1, <1>5, <1>6 DEF TransferInv, WillEnd

(* The other half: it is at the end of the destination.                    *)
LEMMA TransferPuts ==
  ASSUME TypeOK, FrameInv, ScanInv, TransferInv, Link, at = "transfer_ins"
  PROVE  TransferInv'
<1> PICK m : m = MovedSoFar
  OBVIOUS
<1>1. /\ at' = "transfer" /\ qtd' = qtd - 1
      /\ UNCHANGED <<dest, src, before>>
  BY DEF Link, InsReturns, OneLess
<1>2. /\ dest \in Heads /\ node \in Nodes
      /\ content' = [content EXCEPT ![dest] = Append(@, node)]
  BY LinkAppends
<1>3. /\ content'[dest] = Append(content[dest], node)
      /\ src # dest => content'[src] = content[src]
  BY <1>2 DEF TypeOK
<1>4. /\ QueuesAfter(m + 1, Append(content[dest], node))
      /\ m >= 0 /\ qtd # 0 /\ m \in Int /\ qtd \in Int
      /\ IF before.qtd = QFLAG_TRANSFER_ALL THEN qtd < 0 ELSE qtd >= 0
  BY BeforeType DEF TransferInv
<1>5. QueuesAfter(m + 1, content[dest])'
  BY <1>1, <1>3, <1>4 DEF QueuesAfter, DestAfter, SrcAfter
<1>6. MovedSoFar' = m + 1
  BY <1>1, BeforeType DEF MovedSoFar
<1>7. IF before.qtd = QFLAG_TRANSFER_ALL THEN qtd - 1 < 0 ELSE qtd - 1 >= 0
  BY <1>4
<1> QED
  BY <1>1, <1>4, <1>5, <1>6, <1>7 DEF TransferInv, WillEnd

LEMMA TransferStep == IInv /\ TransferInv /\ [Next]_vars => TransferInv'
<1> SUFFICES ASSUME IInv, TransferInv, [Next]_vars PROVE TransferInv'
  OBVIOUS
<1>0. TypeOK /\ Represents /\ FrameInv /\ ScanInv
  BY DEF IInv
<1>1. CASE UNCHANGED vars
  BY <1>1 DEF vars, memory, links, frame, TransferInv, QueuesAfter, DestAfter,
              SrcAfter, MovedSoFar
<1>2. CASE Calls(Heads)
  <2>1. CASE \E h, d \in Heads, n \in Qtds :
               WillEnd(h, d, n) /\ qhead_transfer(h, d, n)
    BY <1>0, <2>1, QtdsAssumption, TransferStarts
  <2>2. CASE at' \in {"idle", "ins", "destroy"}
    BY <2>2 DEF TransferInv
  <2> QED
    BY <1>2, <2>1, <2>2
       DEF Calls, OutOfMemory, Refuse, Return, qnode_create, qnode_destroy,
           qhead_create, qhead_destroy, qhead_rm, rm_null, qhead_ins, ins_null,
           transfer_refused
<1>3. CASE ScanOn
  BY <1>3 DEF ScanOn, InInsertion, TransferInv, QueuesAfter, DestAfter,
              SrcAfter, MovedSoFar
<1>4. CASE Found
  <2>1. at # "transfer_ins"
    BY <1>0, <1>4, LooseNotFound DEF Found, FrameInv
  <2> QED
    BY <1>4, <2>1 DEF Found, InsReturns, Return, InInsertion, TransferInv
<1>5. CASE Link
  <2>1. CASE at = "transfer_ins"
    BY <1>0, <1>5, <2>1, TransferPuts
  <2>2. CASE at # "transfer_ins"
    BY <1>5, <2>2 DEF Link, InsReturns, Return, TransferInv
  <2> QED
    BY <2>1, <2>2
<1>6. CASE TransferOne
  BY <1>0, <1>6, TransferTakes
<1>7. CASE TransferDone \/ FreeNode \/ FreeHead
  BY <1>7 DEF TransferDone, FreeNode, FreeHead, Return, TransferInv
<1> QED
  BY <1>1, <1>2, <1>3, <1>4, <1>5, <1>6, <1>7 DEF Next, Loops

(* A destruction frees the first node of what is left of the queue.        *)
LEMMA FreeNodeTakes ==
  ASSUME TypeOK, Represents, FrameInv, FreeNode
  PROVE  /\ dest \in Heads /\ content[dest] \in Seq(Nodes)
         /\ content[dest] # <<>> /\ q = Head(content[dest])
         /\ content' = [content EXCEPT ![dest] = Tail(@)]
         /\ nodes' = nodes \ {q}
<1>1. /\ at = "destroy" /\ q # NULL /\ dest \in Heads
      /\ content[dest] \in Seq(Nodes)
      /\ nodes' = nodes \ {q}
      /\ content' = [content EXCEPT ![dest] = Seqs!AfterRm(@)]
  BY DEF FreeNode, free, FrameInv, TypeOK
<1>2. Linked(next, q, content[dest])
  BY <1>1 DEF Represents, PointersSpell, BeingDestroyed
<1>3. content[dest] # <<>> /\ q = content[dest][1]
  BY <1>1, <1>2 DEF Linked
<1>4. content[dest] # <<>> => Head(content[dest]) = content[dest][1]
  BY <1>1, HeadTailProperties
<1> QED
  BY <1>1, <1>3, <1>4 DEF Seqs!AfterRm

LEMMA DestroyStep == IInv /\ DestroyInv /\ [Next]_vars => DestroyInv'
<1> SUFFICES ASSUME IInv, DestroyInv, [Next]_vars PROVE DestroyInv'
  OBVIOUS
<1>0. TypeOK /\ Represents /\ FrameInv
  BY DEF IInv
<1>1. CASE UNCHANGED vars
  BY <1>1 DEF vars, memory, frame, DestroyInv, OnQueue
<1>2. ASSUME NEW h \in Heads, qhead_destroy(h) PROVE DestroyInv'
  <2>1. /\ dest' = h /\ content' = content /\ UNCHANGED <<nodes, heads>>
        /\ before' = [dest |-> content[h], src |-> <<>>, qtd |-> 0,
                      heads |-> heads, nodes |-> nodes]
    BY <1>2 DEF qhead_destroy, memory
  <2>2. /\ before'.dest = content[h]
        /\ before'.heads = heads /\ before'.nodes = nodes
    BY <2>1
  <2> QED
    BY <2>1, <2>2 DEF DestroyInv, OnQueue
<1>3. CASE FreeNode
  <2> PICK c : c = content[dest]
    OBVIOUS
  <2>1. /\ dest \in Heads /\ c \in Seq(Nodes) /\ c # <<>> /\ q = Head(c)
        /\ content'[dest] = Tail(c) /\ nodes' = nodes \ {q}
        /\ at = "destroy" /\ UNCHANGED <<heads, dest, before>>
    BY <1>0, <1>3, FreeNodeTakes DEF FreeNode, TypeOK
  <2>2. IsInjective(c)
    BY <1>0, <2>1 DEF Represents, NodesOnce
  <2>3. Range(Tail(c)) = Range(c) \ {q}
    BY <2>1, <2>2, TailOnce
  <2>4. /\ Range(c) \subseteq Range(before.dest)
        /\ nodes = before.nodes \ (Range(before.dest) \ Range(c))
        /\ heads = before.heads
    BY <2>1 DEF DestroyInv, OnQueue
  <2>5. q \in Range(c)
    <3>1. Len(c) >= 1 /\ Head(c) = c[1] /\ DOMAIN c = 1 .. Len(c)
          /\ Len(c) \in Nat
      BY <2>1, LenProperties, EmptySeq, HeadTailProperties
    <3> QED
      BY <2>1, <3>1 DEF Range
  <2> QED
    BY <2>1, <2>3, <2>4, <2>5 DEF DestroyInv, OnQueue
<1>4. CASE at' # "destroy"
  BY <1>4 DEF DestroyInv
<1>5. CASE Calls(Heads)
  BY <1>2, <1>4, <1>5
     DEF Calls, OutOfMemory, Refuse, Return, qnode_create, qnode_destroy,
         qhead_create, qhead_rm, rm_null, qhead_ins, ins_null,
         qhead_transfer, transfer_refused
<1>6. CASE ScanOn \/ Found \/ Link \/ TransferOne \/ TransferDone \/ FreeHead
  BY <1>4, <1>6
     DEF ScanOn, Found, Link, InInsertion, InsReturns, Return, TransferOne,
         TransferDone, FreeHead
<1> QED
  BY <1>1, <1>3, <1>5, <1>6 DEF Next, Loops

(* What is found when the loop of the transfer ends.                       *)
LEMMA DoneDelivers ==
  ASSUME TypeOK, Represents, FrameInv, TransferInv, TransferDone
  PROVE  IF src = dest
           THEN content[src] = Rotated(before.src, before.qtd)
           ELSE /\ content[dest] = before.dest \o SubSeq(before.src, 1, Moved)
                /\ content[src] = SubSeq(before.src, Moved + 1, Len(before.src))
                /\ before.qtd = QFLAG_TRANSFER_ALL =>
                     content[dest] = Seqs!qhead_transfer(before.src, before.dest)
<1> PICK m : m = MovedSoFar
  OBVIOUS
<1> PICK b : b = before.src
  OBVIOUS
<1>1. /\ at = "transfer" /\ src \in heads /\ dest \in heads
      /\ qtd = 0 \/ qhead_empty(src)
  BY DEF TransferDone, Transferring, FrameInv
<1>2. /\ b \in Seq(Nodes) /\ before.dest \in Seq(Nodes)
      /\ m \in Nat /\ qtd \in Int /\ before.qtd \in Int /\ m = before.qtd - qtd
      /\ Len(b) \in Nat
  <2>1. m \in Int /\ m >= 0
    BY <1>1, BeforeType DEF TransferInv
  <2> QED
    BY <2>1, BeforeType, LenProperties DEF MovedSoFar
<1>3. /\ QueuesAfter(m, content[dest]) /\ WillEnd(src, dest, before.qtd)
      /\ src # dest => Range(b) \cap Range(before.dest) = {}
      /\ IF before.qtd = QFLAG_TRANSFER_ALL THEN qtd < 0 ELSE qtd >= 0
  BY <1>1 DEF TransferInv
<1>4. qtd = 0 \/ content[src] = <<>>
  BY <1>1, EmptyQueue
<1>5. CASE src = dest
  <2>1. content[src] = Rotated(b, m)
    BY <1>3, <1>5 DEF QueuesAfter, DestAfter
  <2>2. CASE qtd = 0
    <3>1. m = before.qtd
      BY <1>2, <2>2
    <3> QED
      BY <1>5, <2>1, <3>1
  <2>3. CASE content[src] = <<>>
    <3>1. b = <<>>
      BY <1>2, <2>1, <2>3, RotatedStep
    <3> QED
      BY <1>5, <2>3, <3>1 DEF Rotated
  <2> QED
    BY <1>4, <2>2, <2>3
<1>6. CASE src # dest
  <2>1. /\ content[dest] = before.dest \o SubSeq(b, 1, m)
        /\ content[src] = SubSeq(b, m + 1, Len(b)) /\ m <= Len(b)
    BY <1>3, <1>6 DEF QueuesAfter, DestAfter, SrcAfter
  <2>2. content[src] = <<>> => m = Len(b)
    BY <1>2, <2>1, NextTaken
  <2>3. Moved = m
    <3>1. CASE before.qtd = QFLAG_TRANSFER_ALL
      BY <1>3, <1>4, <2>2, <3>1 DEF Moved
    <3>2. CASE before.qtd # QFLAG_TRANSFER_ALL
      <4>1. before.qtd \in Nat /\ before.qtd >= m
        BY <1>2, <1>3, <3>2
      <4>2. /\ Min({before.qtd, Len(b)}) \in {before.qtd, Len(b)}
            /\ Min({before.qtd, Len(b)}) <= before.qtd
            /\ Min({before.qtd, Len(b)}) <= Len(b)
        <5>1. {before.qtd, Len(b)} \subseteq Nat /\ {before.qtd, Len(b)} # {}
          BY <1>2, <4>1
        <5> QED
          BY <5>1, MinIsLeast
      <4>3. m = before.qtd \/ m = Len(b)
        BY <1>2, <1>4, <2>2
      <4>4. Min({before.qtd, Len(b)}) = m
        <5> PICK w : w = Min({before.qtd, Len(b)})
          OBVIOUS
        <5>1. /\ w = before.qtd \/ w = Len(b)
              /\ w <= before.qtd /\ w <= Len(b)
          BY <4>2
        <5> PICK n, l : n = before.qtd /\ l = Len(b)
          OBVIOUS
        <5>2. /\ n \in Nat /\ l \in Nat /\ m \in Nat /\ m <= l /\ m <= n
              /\ (m = n \/ m = l) /\ (w = n \/ w = l) /\ w <= n /\ w <= l
          BY <1>2, <2>1, <4>1, <4>3, <5>1
        <5>3. w = m
          BY <5>2
        <5> QED
          BY <5>3
      <4> QED
        BY <3>2, <4>4 DEF Moved
    <3> QED
      BY <3>1, <3>2
  <2>4. before.qtd = QFLAG_TRANSFER_ALL =>
          content[dest] = Seqs!qhead_transfer(b, before.dest)
    <3> SUFFICES ASSUME before.qtd = QFLAG_TRANSFER_ALL
                 PROVE  content[dest] = Seqs!qhead_transfer(b, before.dest)
      OBVIOUS
    <3>1. m = Len(b)
      BY <1>3, <1>4, <2>2
    <3>2. SubSeq(b, 1, m) = b
      BY <1>2, <3>1, SubSeqFull
    <3>3. Seqs!qhead_transfer(b, before.dest) = before.dest \o b
      BY <1>3, <1>6 DEF Seqs!qhead_transfer, Seqs!Range, Range
    <3> QED
      BY <2>1, <3>2, <3>3
  <2> QED
    BY <1>6, <2>1, <2>3, <2>4
<1> QED
  BY <1>5, <1>6

LEMMA StepDelivers ==
  ASSUME IInv, TransferInv, [Next]_vars, at = "transfer", at' = "idle"
  PROVE  TransferDone
<1>1. vars' # vars
  BY DEF vars, frame
<1> QED
  BY <1>1
     DEF Next, Calls, OutOfMemory, Refuse, Return, qnode_create, qnode_destroy,
         qhead_create, qhead_destroy, qhead_rm, rm_null, qhead_ins, ins_null,
         qhead_transfer, transfer_refused, Loops, ScanOn, Found, Link,
         InInsertion, TransferOne, FreeNode, FreeHead

LEMMA StepFreesHead ==
  ASSUME IInv, [Next]_vars, at = "destroy", at' = "idle"
  PROVE  FreeHead
<1>1. vars' # vars
  BY DEF vars, frame
<1> QED
  BY <1>1
     DEF Next, Calls, OutOfMemory, Refuse, Return, qnode_create, qnode_destroy,
         qhead_create, qhead_destroy, qhead_rm, rm_null, qhead_ins, ins_null,
         qhead_transfer, transfer_refused, Loops, ScanOn, Found, Link,
         InInsertion, TransferOne, TransferDone, FreeNode

LEMMA CallInvInit == Init => CallInv
BY DEF Init, CallInv, TransferInv, DestroyInv

LEMMA InvAlways == Spec => [](IInv /\ CallInv)
<1>1. IInv /\ CallInv /\ [Next]_vars => (IInv /\ CallInv)'
  BY IInvStep, TransferStep, DestroyStep DEF CallInv
<1> QED
  BY <1>1, IInvInit, CallInvInit, PTL DEF Spec

(* However many nodes are transferred, and to whatever queue, the first    *)
(* ones of the source end up at the end of the destination in their order, *)
(* and of all nodes, the scheduler's model of the transfer is right.       *)
THEOREM TransferDeliversHolds == Spec => TransferDelivers
<1>1. IInv /\ CallInv /\ [Next]_vars =>
        [at = "transfer" /\ at' = "idle" =>
           IF src = dest
             THEN content'[src] = Rotated(before.src, before.qtd)
             ELSE /\ content'[dest] = before.dest \o SubSeq(before.src, 1, Moved)
                  /\ content'[src] =
                       SubSeq(before.src, Moved + 1, Len(before.src))
                  /\ before.qtd = QFLAG_TRANSFER_ALL =>
                       content'[dest] = Seqs!qhead_transfer(before.src, before.dest)]_vars
  <2> SUFFICES ASSUME IInv, TransferInv, [Next]_vars,
                      at = "transfer", at' = "idle"
               PROVE  IF src = dest
                        THEN content'[src] = Rotated(before.src, before.qtd)
                        ELSE /\ content'[dest] =
                                  before.dest \o SubSeq(before.src, 1, Moved)
                             /\ content'[src] =
                                  SubSeq(before.src, Moved + 1, Len(before.src))
                             /\ before.qtd = QFLAG_TRANSFER_ALL =>
                                  content'[dest] =
                                    Seqs!qhead_transfer(before.src, before.dest)
    BY DEF CallInv
  <2>1. TransferDone /\ content' = content
    BY StepDelivers DEF TransferDone
  <2> QED
    BY <2>1, DoneDelivers DEF IInv
<1> QED
  BY <1>1, InvAlways, PTL DEF Spec, TransferDelivers

(* A destroyed head takes all its nodes with it, itself, and nothing else. *)
THEOREM DestroyFreesQueueHolds == Spec => DestroyFreesQueue
<1>1. IInv /\ CallInv /\ [Next]_vars =>
        [at = "destroy" /\ at' = "idle" =>
           /\ nodes' = before.nodes \ Range(before.dest)
           /\ heads' = before.heads \ {dest}
           /\ content'[dest] = <<>>]_vars
  <2> SUFFICES ASSUME IInv, DestroyInv, [Next]_vars,
                      at = "destroy", at' = "idle"
               PROVE  /\ nodes' = before.nodes \ Range(before.dest)
                      /\ heads' = before.heads \ {dest}
                      /\ content'[dest] = <<>>
    BY DEF CallInv
  <2>1. FreeHead
    BY StepFreesHead
  <2>2. content[dest] = <<>>
    <3>1. dest \in Heads /\ content[dest] \in Seq(Nodes)
      BY DEF IInv, TypeOK, FrameInv
    <3>2. Linked(next, NULL, content[dest])
      BY <2>1, <3>1 DEF FreeHead, IInv, Represents, PointersSpell, BeingDestroyed
    <3>3. content[dest] # <<>> => content[dest][1] \in Nodes
      <4> PICK c : c = content[dest]
        OBVIOUS
      <4>1. c \in Seq(Nodes) /\ (c # <<>> => Len(c) >= 1) /\ Len(c) \in Nat
        BY <3>1, LenProperties, EmptySeq
      <4> QED
        BY <4>1
    <3> QED
      BY <3>2, <3>3, NullAssumption DEF Linked
  <2>3. Range(content[dest]) = {}
    BY <2>2, EmptySeq DEF Range
  <2> QED
    BY <2>1, <2>2, <2>3 DEF FreeHead, DestroyInv, OnQueue
<1> QED
  BY <1>1, InvAlways, PTL DEF Spec, DestroyFreesQueue
=============================================================================
