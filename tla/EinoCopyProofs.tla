--------------------------- MODULE EinoCopyProofs ---------------------------
(***************************************************************************)
(* For any finite set of children and any outcomes of the source: the list *)
(* of EinoCopy keeps the children apart in the source, closes it with the  *)
(* last child, and is a broadcast as EinoBroadcast has it.                 *)
(*                                                                         *)
(* ListShape says that only the last element of the list can be unfilled,  *)
(* Inside where the children in Recv stand on it, Closing how many         *)
(* children have been counted, and Follows, which a panic of the source    *)
(* ends, that a child has delivered the outcomes up to its place.          *)
(***************************************************************************)
EXTENDS EinoCopy, FiniteSetTheorems, SequenceTheorems, TLAPS

Outcome == Chunks \cup {EOF}
Node == [once : {"fresh", "running", "done"}, item : Outcome \cup {Zero}, next : Nat]

TypeOK ==
  /\ nodes \in Seq(Node)
  /\ cur \in [Children -> Nat]
  /\ pc \in [Children -> {"idle", "once", "fetch", "take", "add", "closeSource"}]
  /\ elem \in [Children -> Nat]
  /\ closedNum \in Nat
  /\ srcCloses \in Nat
  /\ asked \in SUBSET Children
  /\ panicked \in BOOLEAN
  /\ log \in Seq(Outcome)
  /\ got \in [Children -> Seq(Outcome \cup {Zero})]

(* Every element but the last holds a chunk and leads to the next one; the  *)
(* last is empty, or holds EOF, or the source panicked while it was filled. *)
ListShape ==
  LET n == Len(nodes)
  IN  /\ n >= 1
      /\ \A k \in 1 .. n - 1 :
           /\ nodes[k].once = "done"
           /\ nodes[k].item \in Chunks
           /\ nodes[k].item = log[k]
           /\ nodes[k].next = k + 1
      /\ nodes[n].next = 0
      /\ \/ nodes[n].once # "done" /\ nodes[n].item = Zero /\ Len(log) = n - 1
         \/ nodes[n].once = "done" /\ nodes[n].item = Zero /\ Len(log) = n - 1 /\ panicked
         \/ nodes[n].once = "done" /\ nodes[n].item = EOF /\ Len(log) = n /\ log[n] = EOF

(* Whoever fills an element fills the last one, and is alone in it.         *)
Inside ==
  /\ \A c \in Children :
       /\ cur[c] <= Len(nodes)
       /\ elem[c] \in 1 .. Len(nodes)
       /\ pc[c] \in {"once", "fetch"} => cur[c] = elem[c]
       /\ pc[c] = "fetch" => elem[c] = Len(nodes) /\ nodes[elem[c]].once = "running"
       /\ pc[c] = "take" => cur[c] >= elem[c] /\ nodes[elem[c]].once = "done"
       /\ pc[c] \in {"add", "closeSource"} => cur[c] = 0
  /\ \A c, d \in Children : pc[c] = "fetch" /\ pc[d] = "fetch" => c = d

(* The children that are closed, or were left without an element by a panic *)
(* of the source, and are not about to be counted.                          *)
Gone == {c \in Children : cur[c] = 0 /\ pc[c] # "add"}

(* No child is counted that is not gone, and the source is closed by the    *)
(* one who completes the count.                                             *)
Closing ==
  /\ closedNum <= Cardinality(Gone)
  /\ \A c \in Children :
       pc[c] = "closeSource" => closedNum = Cardinality(Children) /\ srcCloses = 0
  /\ \A c, d \in Children : pc[c] = "closeSource" /\ pc[d] = "closeSource" => c = d
  /\ srcCloses <= 1
  /\ srcCloses = 1 => closedNum = Cardinality(Children)
  /\ closedNum = Cardinality(Children) =>
       srcCloses = 1 \/ \E c \in Children : pc[c] = "closeSource"

(* Without a panic exactly the closed children are counted.                 *)
Counted ==
  ~panicked => asked = {c \in Children : cur[c] = 0} /\ closedNum = Cardinality(Gone)

(* The element behind what a child has delivered, or the one that holds EOF.*)
At(c) == IF Len(got[c]) = Len(nodes) THEN Len(nodes) ELSE Len(got[c]) + 1

(* Without a panic a child has delivered the outcomes in front of its       *)
(* place, in their order.                                                   *)
Follows ==
  ~panicked => \A c \in Children :
    /\ Len(got[c]) <= Len(log)
    /\ \A i \in 1 .. Len(got[c]) : got[c][i] = log[i]
    /\ pc[c] = "idle" /\ cur[c] # 0 => cur[c] = At(c)
    /\ pc[c] \in {"once", "fetch", "take"} => elem[c] = At(c)

IInv == TypeOK /\ ListShape /\ Inside /\ Closing /\ Counted /\ Follows

USE CopyAssumption DEF Outcome

LEMMA NodeFacts ==
  ASSUME NEW s \in Seq(Node), NEW k \in 1 .. Len(s), NEW e \in Node
  PROVE  /\ [s EXCEPT ![k] = e] \in Seq(Node)
         /\ Len([s EXCEPT ![k] = e]) = Len(s)
         /\ \A i \in 1 .. Len(s) : [s EXCEPT ![k] = e][i] = IF i = k THEN e ELSE s[i]
  BY ExceptSeq

(* What the three steps that touch the list do to it.                       *)
LEMMA OnceFirstNodes ==
  ASSUME TypeOK, Inside, NEW c \in Children, OnceFirst(c)
  PROVE  /\ nodes' \in Seq(Node) /\ Len(nodes') = Len(nodes)
         /\ \A i \in 1 .. Len(nodes) : i # elem[c] => nodes'[i] = nodes[i]
         /\ nodes'[elem[c]].once = "running"
         /\ nodes'[elem[c]].item = nodes[elem[c]].item
         /\ nodes'[elem[c]].next = nodes[elem[c]].next
<1> DEFINE k == elem[c]
           e == [nodes[k] EXCEPT !.once = "running"]
<1>1. nodes \in Seq(Node) /\ k \in 1 .. Len(nodes) /\ nodes[k] \in Node
  BY DEF TypeOK, Inside
<1>2. /\ e \in Node
      /\ e.once = "running" /\ e.item = nodes[k].item /\ e.next = nodes[k].next
  BY <1>1 DEF Node
<1>3. nodes' = [nodes EXCEPT ![k] = e]
  BY DEF OnceFirst
<1> HIDE DEF k, e
<1>4. /\ nodes' \in Seq(Node) /\ Len(nodes') = Len(nodes)
      /\ \A i \in 1 .. Len(nodes) : nodes'[i] = IF i = k THEN e ELSE nodes[i]
  BY <1>1, <1>2, <1>3, NodeFacts
<1>5. QED
  BY <1>1, <1>2, <1>4 DEF k

LEMMA PanicNodes ==
  ASSUME TypeOK, Inside, NEW c \in Children, FetchPanic(c)
  PROVE  /\ nodes' \in Seq(Node) /\ Len(nodes') = Len(nodes)
         /\ \A i \in 1 .. Len(nodes) : i # elem[c] => nodes'[i] = nodes[i]
         /\ nodes'[elem[c]].once = "done"
         /\ nodes'[elem[c]].item = nodes[elem[c]].item
         /\ nodes'[elem[c]].next = nodes[elem[c]].next
<1> DEFINE k == elem[c]
           e == [nodes[k] EXCEPT !.once = "done"]
<1>1. nodes \in Seq(Node) /\ k \in 1 .. Len(nodes) /\ nodes[k] \in Node
  BY DEF TypeOK, Inside
<1>2. /\ e \in Node
      /\ e.once = "done" /\ e.item = nodes[k].item /\ e.next = nodes[k].next
  BY <1>1 DEF Node
<1>3. nodes' = [nodes EXCEPT ![k] = e]
  BY DEF FetchPanic
<1> HIDE DEF k, e
<1>4. /\ nodes' \in Seq(Node) /\ Len(nodes') = Len(nodes)
      /\ \A i \in 1 .. Len(nodes) : nodes'[i] = IF i = k THEN e ELSE nodes[i]
  BY <1>1, <1>2, <1>3, NodeFacts
<1>5. QED
  BY <1>1, <1>2, <1>4 DEF k

LEMMA FetchNodes ==
  ASSUME TypeOK, Inside, NEW c \in Children, NEW o \in Outcome, Fetch(c, o)
  PROVE  LET n == Len(nodes)
         IN  /\ nodes' \in Seq(Node) /\ elem[c] = n
             /\ \A i \in 1 .. n - 1 : nodes'[i] = nodes[i]
             /\ nodes'[n].once = "done" /\ nodes'[n].item = o
             /\ o = EOF => Len(nodes') = n /\ nodes'[n].next = 0
             /\ o # EOF => /\ Len(nodes') = n + 1 /\ nodes'[n].next = n + 1
                          /\ nodes'[n + 1] = Fresh
<1> DEFINE n == Len(nodes)
<1>1. n \in Nat /\ elem[c] = n /\ n \in 1 .. n
  BY DEF TypeOK, Inside, Fetch
<1>2. CASE o = EOF
  <2> DEFINE e == [once |-> "done", item |-> o, next |-> 0]
  <2>1. e \in Node /\ nodes' = [nodes EXCEPT ![n] = e]
    BY <1>1, <1>2 DEF Fetch, Node
  <2>2. nodes' \in Seq(Node) /\ Len(nodes') = n
        /\ \A i \in 1 .. n : nodes'[i] = IF i = n THEN e ELSE nodes[i]
    BY <1>1, <2>1, NodeFacts DEF TypeOK
  <2>3. QED
    BY <1>1, <1>2, <2>2
<1>3. CASE o # EOF
  <2> DEFINE e == [once |-> "done", item |-> o, next |-> n + 1]
             s == [nodes EXCEPT ![n] = e]
  <2>1. e \in Node /\ nodes' = Append(s, Fresh)
    BY <1>1, <1>3 DEF Fetch, Node
  <2>2. s \in Seq(Node) /\ Len(s) = n
        /\ \A i \in 1 .. n : s[i] = IF i = n THEN e ELSE nodes[i]
    BY <1>1, <2>1, NodeFacts DEF TypeOK
  <2>3. Fresh \in Node
    BY DEF Fresh, Node
  <2>4. nodes' \in Seq(Node) /\ Len(nodes') = n + 1 /\ nodes'[n + 1] = Fresh
        /\ \A i \in 1 .. n : nodes'[i] = s[i]
    <3> HIDE DEF s
    <3>1. QED
      BY <2>1, <2>2, <2>3, AppendProperties
  <2>5. \A i \in 1 .. n : nodes'[i] = IF i = n THEN e ELSE nodes[i]
    BY <2>2, <2>4
  <2>6. QED
    <3> HIDE DEF s
    <3>1. QED
      BY <1>1, <1>3, <2>4, <2>5
<1>4. QED
  BY <1>2, <1>3

LEMMA TypeStep == TypeOK /\ Inside /\ [Next]_vars => TypeOK'
<1> SUFFICES ASSUME TypeOK, Inside, [Next]_vars
             PROVE  TypeOK'
  OBVIOUS
<1>1. ASSUME NEW c \in Children, PeekLoad(c)
      PROVE  TypeOK'
  BY <1>1 DEF TypeOK, PeekLoad, Goto
<1>2. ASSUME NEW c \in Children, OnceFirst(c)
      PROVE  TypeOK'
  BY <1>2, OnceFirstNodes DEF TypeOK, OnceFirst, Goto
<1>3. ASSUME NEW c \in Children, OnceDone(c)
      PROVE  TypeOK'
  BY <1>3 DEF TypeOK, OnceDone, Goto
<1>4. ASSUME NEW c \in Children, NEW o \in Outcomes, Fetch(c, o)
      PROVE  TypeOK'
  <2>1. o \in Outcome
    BY DEF Outcomes
  <2>2. nodes' \in Seq(Node)
    BY <1>4, <2>1, FetchNodes
  <2>3. cur' \in [Children -> Nat] /\ log' \in Seq(Outcome)
    BY <1>4, <2>1 DEF TypeOK, Fetch
  <2>4. QED
    BY <1>4, <2>2, <2>3 DEF TypeOK, Fetch, Goto
<1>5. ASSUME NEW c \in Children, FetchPanic(c)
      PROVE  TypeOK'
  BY <1>5, PanicNodes DEF TypeOK, FetchPanic, Goto
<1>6. ASSUME NEW c \in Children, Take(c)
      PROVE  TypeOK'
  <2>1. nodes[elem[c]] \in Node
    BY DEF TypeOK, Inside
  <2>2. nodes[elem[c]].item \in Outcome \cup {Zero} /\ nodes[elem[c]].next \in Nat
    BY <2>1 DEF Node
  <2>3. cur' \in [Children -> Nat] /\ got' \in [Children -> Seq(Outcome \cup {Zero})]
    BY <1>6, <2>2 DEF TypeOK, Take
  <2>4. QED
    BY <1>6, <2>3 DEF TypeOK, Take, Goto
<1>7. ASSUME NEW c \in Children, CloseAgain(c)
      PROVE  TypeOK'
  BY <1>7 DEF TypeOK, CloseAgain
<1>8. ASSUME NEW c \in Children, CloseMark(c)
      PROVE  TypeOK'
  BY <1>8 DEF TypeOK, CloseMark, Goto
<1>9. ASSUME NEW c \in Children, CloseAdd(c)
      PROVE  TypeOK'
  BY <1>9 DEF TypeOK, CloseAdd, Goto
<1>10. ASSUME NEW c \in Children, CloseSource(c)
       PROVE  TypeOK'
  BY <1>10 DEF TypeOK, CloseSource, Goto
<1>11. CASE UNCHANGED vars
  BY <1>11 DEF TypeOK, vars
<1>12. QED
  BY <1>1, <1>2, <1>3, <1>4, <1>5, <1>6, <1>7, <1>8, <1>9, <1>10, <1>11 DEF Next

LEMMA ListStep == TypeOK /\ ListShape /\ Inside /\ [Next]_vars => ListShape'
<1> SUFFICES ASSUME TypeOK, ListShape, Inside, [Next]_vars
             PROVE  ListShape'
  OBVIOUS
<1> DEFINE n == Len(nodes)
<1>0. n \in Nat /\ n >= 1 /\ Len(log) \in Nat
  BY DEF TypeOK, ListShape
<1>1. ASSUME NEW c \in Children, OnceFirst(c)
      PROVE  ListShape'
  <2>1. elem[c] = n /\ UNCHANGED <<log, panicked>>
    BY <1>1 DEF OnceFirst, Inside, ListShape
  <2>2. \A i \in 1 .. n - 1 : nodes'[i] = nodes[i]
    BY <1>0, <1>1, <2>1, OnceFirstNodes
  <2>3. /\ Len(nodes') = n /\ nodes'[n].once = "running"
        /\ nodes'[n].item = nodes[n].item /\ nodes'[n].next = nodes[n].next
    BY <1>1, <2>1, OnceFirstNodes
  <2>4. nodes[n].once = "fresh"
    BY <1>1, <2>1 DEF OnceFirst
  <2>5. QED
    BY <1>0, <2>1, <2>2, <2>3, <2>4 DEF ListShape
<1>2. ASSUME NEW c \in Children, NEW o \in Outcomes, Fetch(c, o)
      PROVE  ListShape'
  <2>1. o \in Outcome
    BY DEF Outcomes
  <2>2. elem[c] = n /\ pc[c] = "fetch" /\ nodes[n].once = "running"
    BY <1>2 DEF Fetch, Inside
  <2>3. Len(log) = n - 1
    BY <2>2 DEF ListShape
  <2>4. /\ Len(log') = n /\ log'[n] = o
        /\ \A i \in 1 .. n - 1 : log'[i] = log[i]
    BY <1>0, <1>2, <2>1, <2>3 DEF Fetch, TypeOK
  <2>5. CASE o = EOF
    <3>1. /\ \A i \in 1 .. n - 1 : nodes'[i] = nodes[i]
          /\ Len(nodes') = n /\ nodes'[n].once = "done" /\ nodes'[n].item = EOF
          /\ nodes'[n].next = 0
      BY <1>2, <2>1, <2>5, FetchNodes
    <3>2. QED
      BY <1>0, <2>4, <2>5, <3>1 DEF ListShape
  <2>6. CASE o # EOF
    <3>1. /\ \A i \in 1 .. n - 1 : nodes'[i] = nodes[i]
          /\ Len(nodes') = n + 1 /\ nodes'[n].once = "done" /\ nodes'[n].item = o
          /\ nodes'[n].next = n + 1 /\ nodes'[n + 1] = Fresh
      BY <1>2, <2>1, <2>6, FetchNodes
    <3>2. o \in Chunks
      BY <2>1, <2>6
    <3>3. \A i \in 1 .. n : /\ nodes'[i].once = "done" /\ nodes'[i].item \in Chunks
                            /\ nodes'[i].item = log'[i] /\ nodes'[i].next = i + 1
      <4> TAKE i \in 1 .. n
      <4>1. CASE i = n
        BY <2>4, <3>1, <3>2, <4>1
      <4>2. CASE i # n
        <5>1. i \in 1 .. n - 1
          BY <1>0, <4>2
        <5>2. QED
          BY <2>4, <3>1, <5>1 DEF ListShape
      <4>3. QED
        BY <4>1, <4>2
    <3>4. QED
      BY <1>0, <2>4, <3>1, <3>3 DEF ListShape, Fresh
  <2>7. QED
    BY <2>5, <2>6
<1>3. ASSUME NEW c \in Children, FetchPanic(c)
      PROVE  ListShape'
  <2>1. elem[c] = n /\ nodes[n].once = "running" /\ log' = log /\ panicked'
    BY <1>3 DEF FetchPanic, Inside
  <2>2. \A i \in 1 .. n - 1 : nodes'[i] = nodes[i]
    BY <1>0, <1>3, <2>1, PanicNodes
  <2>3. /\ Len(nodes') = n /\ nodes'[n].once = "done"
        /\ nodes'[n].item = nodes[n].item /\ nodes'[n].next = nodes[n].next
    BY <1>3, <2>1, PanicNodes
  <2>4. QED
    BY <1>0, <2>1, <2>2, <2>3 DEF ListShape
<1>4. ASSUME UNCHANGED <<nodes, log, panicked>>
      PROVE  ListShape'
  BY <1>4 DEF ListShape
<1>5. QED
  BY <1>1, <1>2, <1>3, <1>4
  DEF Next, vars, PeekLoad, OnceDone, Take, CloseAgain, CloseMark, CloseAdd, CloseSource

(* A child is only where the list has elements, and filling one is not      *)
(* disturbed by anybody else.                                               *)
LEMMA InsideStep == TypeOK /\ ListShape /\ Inside /\ [Next]_vars => Inside'
<1> SUFFICES ASSUME TypeOK, ListShape, Inside, [Next]_vars
             PROVE  Inside'
  OBVIOUS
<1> DEFINE n == Len(nodes)
<1>0. n \in Nat /\ n >= 1
  BY DEF TypeOK, ListShape
<1>1. ASSUME NEW c \in Children, PeekLoad(c)
      PROVE  Inside'
  <2>1. cur[c] \in 1 .. n
    BY <1>0, <1>1 DEF PeekLoad, TypeOK, Inside
  <2>2. QED
    BY <1>1, <2>1 DEF PeekLoad, Goto, TypeOK, Inside
<1>2. ASSUME NEW c \in Children, OnceFirst(c)
      PROVE  Inside'
  <2>1. /\ elem[c] = n /\ nodes[n].once = "fresh"
        /\ \A d \in Children : pc[d] # "fetch"
    BY <1>2 DEF OnceFirst, Inside, ListShape
  <2>2. Len(nodes') = n /\ nodes'[n].once = "running"
    BY <1>2, <2>1, OnceFirstNodes
  <2>3. \A d \in Children : nodes[elem[d]].once = "done" => nodes'[elem[d]].once = "done"
    <3> TAKE d \in Children
    <3>1. elem[d] \in 1 .. n
      BY DEF Inside
    <3>2. QED
      BY <1>2, <2>1, <3>1, OnceFirstNodes
  <2>4. QED
    BY <1>2, <2>1, <2>2, <2>3 DEF OnceFirst, Goto, TypeOK, Inside
<1>3. ASSUME NEW c \in Children, OnceDone(c)
      PROVE  Inside'
  <2>1. cur[c] >= elem[c]
    BY <1>0, <1>3 DEF OnceDone, Inside, TypeOK
  <2>2. QED
    BY <1>3, <2>1 DEF OnceDone, Goto, TypeOK, Inside
<1>4. ASSUME NEW c \in Children, NEW o \in Outcomes, Fetch(c, o)
      PROVE  Inside'
  <2>1. o \in Outcome
    BY DEF Outcomes
  <2>2. elem[c] = n /\ cur[c] = n /\ pc[c] = "fetch"
    BY <1>4 DEF Fetch, Inside
  <2>3. Len(nodes') \in {n, n + 1} /\ nodes'[n].once = "done"
        /\ \A i \in 1 .. n - 1 : nodes'[i] = nodes[i]
    BY <1>4, <2>1, FetchNodes
  <2>4. \A d \in Children :
          /\ nodes[elem[d]].once = "done" => nodes'[elem[d]].once = "done"
          /\ d # c => pc[d] # "fetch" /\ cur'[d] = cur[d]
    <3> TAKE d \in Children
    <3>1. elem[d] \in 1 .. n
      BY DEF Inside
    <3>2. nodes[elem[d]].once = "done" => nodes'[elem[d]].once = "done"
      BY <1>0, <2>3, <3>1
    <3>3. d # c => pc[d] # "fetch" /\ cur'[d] = cur[d]
      BY <1>4, <2>2 DEF Fetch, TypeOK, Inside
    <3>4. QED
      BY <3>2, <3>3
  <2>5. cur'[c] >= n /\ cur'[c] <= Len(nodes')
    BY <1>0, <1>4, <2>1, <2>2, FetchNodes DEF Fetch, TypeOK
  <2>6. pc' = [pc EXCEPT ![c] = "take"] /\ elem' = elem
    BY <1>4 DEF Fetch, Goto
  <2>7. QED
    BY <1>0, <2>2, <2>3, <2>4, <2>5, <2>6 DEF TypeOK, Inside
<1>5. ASSUME NEW c \in Children, FetchPanic(c)
      PROVE  Inside'
  <2>1. elem[c] = n /\ pc[c] = "fetch"
    BY <1>5 DEF FetchPanic, Inside
  <2>2. Len(nodes') = n /\ nodes'[n].once = "done"
    BY <1>5, <2>1, PanicNodes
  <2>3. \A d \in Children :
          /\ nodes[elem[d]].once = "done" => nodes'[elem[d]].once = "done"
          /\ d # c => pc[d] # "fetch"
    <3> TAKE d \in Children
    <3>1. elem[d] \in 1 .. n
      BY DEF Inside
    <3>2. nodes[elem[d]].once = "done" => nodes'[elem[d]].once = "done"
      BY <1>5, <2>1, <2>2, <3>1, PanicNodes
    <3>3. d # c => pc[d] # "fetch"
      BY <2>1 DEF Inside
    <3>4. QED
      BY <3>2, <3>3
  <2>4. pc' = [pc EXCEPT ![c] = "idle"] /\ UNCHANGED <<elem, cur>>
    BY <1>5 DEF FetchPanic, Goto
  <2>5. QED
    BY <2>2, <2>3, <2>4 DEF TypeOK, Inside
<1>6. ASSUME NEW c \in Children, Take(c)
      PROVE  Inside'
  <2>1. elem[c] \in 1 .. n
    BY DEF Inside
  <2>2. nodes[elem[c]].next <= n
    BY <1>0, <2>1 DEF ListShape
  <2>3. /\ UNCHANGED <<nodes, elem>> /\ pc' = [pc EXCEPT ![c] = "idle"]
        /\ cur' = cur \/ cur' = [cur EXCEPT ![c] = nodes[elem[c]].next]
    BY <1>6 DEF Take, Goto
  <2>4. QED
    BY <2>2, <2>3 DEF TypeOK, Inside
<1>7. ASSUME NEW c \in Children, CloseMark(c)
      PROVE  Inside'
  BY <1>0, <1>7 DEF CloseMark, Goto, TypeOK, Inside
<1>8. ASSUME NEW c \in Children, CloseAdd(c)
      PROVE  Inside'
  <2>1. /\ UNCHANGED <<nodes, elem, cur>> /\ cur[c] = 0
        /\ pc' = [pc EXCEPT ![c] = "closeSource"] \/ pc' = [pc EXCEPT ![c] = "idle"]
    BY <1>8 DEF CloseAdd, Goto, Inside
  <2>2. QED
    BY <2>1 DEF TypeOK, Inside
<1>9. ASSUME NEW c \in Children, CloseSource(c)
      PROVE  Inside'
  BY <1>9 DEF CloseSource, Goto, TypeOK, Inside
<1>10. ASSUME UNCHANGED <<nodes, elem, cur, pc>>
       PROVE  Inside'
  BY <1>10 DEF Inside
<1>11. QED
  BY <1>1, <1>2, <1>3, <1>4, <1>5, <1>6, <1>7, <1>8, <1>9, <1>10
  DEF Next, vars, CloseAgain

LEMMA GoneFacts ==
  /\ IsFiniteSet(Gone) /\ Cardinality(Gone) \in Nat /\ Cardinality(Children) \in Nat
  /\ Cardinality(Gone) <= Cardinality(Children)
  /\ Cardinality(Gone) = Cardinality(Children) => Gone = Children
  BY FS_Subset, FS_CardinalityType DEF Gone

(* A step at which nobody is counted and nobody comes or goes at the source. *)
LEMMA NotCounted ==
  ASSUME TypeOK, Closing, Gone' = Gone, UNCHANGED <<closedNum, srcCloses>>,
         \A d \in Children : pc'[d] = "closeSource" <=> pc[d] = "closeSource"
  PROVE  Closing'
  BY DEF Closing, TypeOK

LEMMA CountStep ==
  TypeOK /\ ListShape /\ Inside /\ Closing /\ Counted /\ [Next]_vars
    => Closing' /\ Counted'
<1> SUFFICES ASSUME TypeOK, ListShape, Inside, Closing, Counted, [Next]_vars
             PROVE  Closing' /\ Counted'
  OBVIOUS
<1>1. ASSUME NEW c \in Children,
             PeekLoad(c) \/ OnceFirst(c) \/ OnceDone(c) \/ FetchPanic(c)
      PROVE  Closing' /\ Counted'
  <2>1. UNCHANGED <<cur, closedNum, srcCloses, asked>> /\ (panicked => panicked')
    BY <1>1 DEF PeekLoad, OnceFirst, OnceDone, FetchPanic, TypeOK
  <2>2. /\ pc[c] \notin {"add", "closeSource"}
        /\ \E l \in {"idle", "once", "fetch", "take"} : pc' = [pc EXCEPT ![c] = l]
    BY <1>1 DEF PeekLoad, OnceFirst, OnceDone, FetchPanic, Goto
  <2>3. Gone' = Gone
    BY <2>1, <2>2 DEF Gone, TypeOK
  <2>4. Closing'
    BY <2>1, <2>2, <2>3, NotCounted DEF TypeOK
  <2>5. Counted'
    BY <2>1, <2>3 DEF Counted
  <2>6. QED
    BY <2>4, <2>5
<1>2. ASSUME NEW c \in Children, NEW o \in Outcomes, Fetch(c, o)
      PROVE  Closing' /\ Counted'
  <2>1. /\ UNCHANGED <<closedNum, srcCloses, asked, panicked>>
        /\ pc[c] = "fetch" /\ pc' = [pc EXCEPT ![c] = "take"]
    BY <1>2 DEF Fetch, Goto
  <2>2. cur[c] # 0
    BY <2>1 DEF Inside, TypeOK
  <2>3. cur' = cur \/ cur' = [cur EXCEPT ![c] = Len(nodes) + 1]
    BY <1>2 DEF Fetch
  <2>4. \A d \in Children : cur'[d] = 0 <=> cur[d] = 0
    BY <2>2, <2>3 DEF TypeOK
  <2>5. Gone' = Gone
    BY <2>1, <2>2, <2>4 DEF Gone, TypeOK
  <2>6. Closing'
    BY <2>1, <2>5, NotCounted DEF TypeOK
  <2>7. Counted'
    BY <2>1, <2>4, <2>5 DEF Counted
  <2>8. QED
    BY <2>6, <2>7
<1>3. ASSUME NEW c \in Children, Take(c)
      PROVE  Closing' /\ Counted'
  <2>1. /\ UNCHANGED <<closedNum, srcCloses, asked, panicked>>
        /\ pc[c] = "take" /\ pc' = [pc EXCEPT ![c] = "idle"]
    BY <1>3 DEF Take, Goto
  <2>2. cur[c] # 0 /\ elem[c] \in 1 .. Len(nodes) /\ nodes[elem[c]].once = "done"
    BY <2>1 DEF Inside, TypeOK
  <2>3. CASE panicked
    <3>1. cur' = cur \/ cur' = [cur EXCEPT ![c] = nodes[elem[c]].next]
      BY <1>3 DEF Take
    <3>2. Gone \subseteq Gone'
      BY <2>1, <2>2, <3>1 DEF Gone, TypeOK
    <3>3. Gone' \subseteq Children
      BY DEF Gone
    <3>4. Cardinality(Gone) <= Cardinality(Gone') /\ Cardinality(Gone') \in Nat
      BY <3>2, <3>3, FS_Subset, FS_CardinalityType
    <3>5. closedNum <= Cardinality(Gone')
      BY <3>4, GoneFacts DEF Closing, TypeOK
    <3>6. \A d \in Children : pc'[d] = "closeSource" <=> pc[d] = "closeSource"
      BY <2>1 DEF TypeOK
    <3>7. QED
      BY <2>1, <2>3, <3>5, <3>6 DEF Closing, Counted
  <2>4. CASE ~panicked
    <3>1. nodes[elem[c]].item # EOF => nodes[elem[c]].next # 0
      BY <2>2, <2>4 DEF ListShape, TypeOK
    <3>2. \A d \in Children : cur'[d] = 0 <=> cur[d] = 0
      BY <1>3, <2>2, <3>1 DEF Take, TypeOK
    <3>3. Gone' = Gone
      BY <2>1, <3>2 DEF Gone, TypeOK
    <3>4. Closing'
      BY <2>1, <3>3, NotCounted DEF TypeOK
    <3>5. Counted'
      BY <2>1, <3>2, <3>3 DEF Counted
    <3>6. QED
      BY <3>4, <3>5
  <2>5. QED
    BY <2>3, <2>4
<1>4. ASSUME NEW c \in Children, CloseAgain(c)
      PROVE  Closing' /\ Counted'
  <2>1. UNCHANGED <<cur, pc, closedNum, srcCloses, panicked>>
        /\ cur[c] = 0 /\ asked' = asked \cup {c}
    BY <1>4 DEF CloseAgain
  <2>2. Gone' = Gone
    BY <2>1 DEF Gone
  <2>3. Closing'
    BY <2>1, <2>2, NotCounted
  <2>4. Counted'
    BY <2>1, <2>2 DEF Counted
  <2>5. QED
    BY <2>3, <2>4
<1>5. ASSUME NEW c \in Children, CloseMark(c)
      PROVE  Closing' /\ Counted'
  <2>1. /\ UNCHANGED <<closedNum, srcCloses, panicked>>
        /\ pc[c] = "idle" /\ pc' = [pc EXCEPT ![c] = "add"]
        /\ cur[c] # 0 /\ cur' = [cur EXCEPT ![c] = 0] /\ asked' = asked \cup {c}
    BY <1>5 DEF CloseMark, Goto
  <2>2. Gone' = Gone
    BY <2>1 DEF Gone, TypeOK
  <2>3. Closing'
    BY <2>1, <2>2, NotCounted DEF TypeOK
  <2>4. Counted'
    BY <2>1, <2>2 DEF Counted, TypeOK
  <2>5. QED
    BY <2>3, <2>4
<1>6. ASSUME NEW c \in Children, CloseAdd(c)
      PROVE  Closing' /\ Counted'
  <2> DEFINE all == closedNum + 1 = Cardinality(Children)
  <2>1. /\ UNCHANGED <<cur, srcCloses, asked, panicked>>
        /\ closedNum' = closedNum + 1 /\ pc[c] = "add" /\ cur[c] = 0
        /\ pc' = [pc EXCEPT ![c] = IF all THEN "closeSource" ELSE "idle"]
    BY <1>6 DEF CloseAdd, Goto, Inside
  <2>2. Gone' = Gone \cup {c} /\ c \notin Gone /\ Gone' \subseteq Children
    BY <2>1 DEF Gone, TypeOK
  <2>3. Cardinality(Gone') = Cardinality(Gone) + 1
    BY <2>2, GoneFacts, FS_AddElement
  <2>4. Cardinality(Gone') <= Cardinality(Children)
    BY <2>2, FS_Subset
  <2>5. closedNum' <= Cardinality(Gone') /\ closedNum < Cardinality(Children)
    BY <2>1, <2>3, <2>4, GoneFacts DEF Closing, TypeOK
  <2>6. srcCloses = 0 /\ \A d \in Children : pc[d] # "closeSource"
    BY <2>5, GoneFacts DEF Closing, TypeOK
  <2>7. \A d \in Children : pc'[d] = "closeSource" <=> d = c /\ all
    BY <2>1, <2>6 DEF TypeOK
  <2>8. Closing'
    BY <2>1, <2>5, <2>6, <2>7 DEF Closing
  <2>9. Counted'
    BY <2>1, <2>3 DEF Counted
  <2>10. QED
    BY <2>8, <2>9
<1>7. ASSUME NEW c \in Children, CloseSource(c)
      PROVE  Closing' /\ Counted'
  <2>1. /\ UNCHANGED <<cur, closedNum, asked, panicked>> /\ srcCloses' = srcCloses + 1
        /\ pc[c] = "closeSource" /\ pc' = [pc EXCEPT ![c] = "idle"]
    BY <1>7 DEF CloseSource, Goto
  <2>2. Gone' = Gone
    BY <2>1 DEF Gone, TypeOK
  <2>3. closedNum = Cardinality(Children) /\ srcCloses' = 1
        /\ \A d \in Children : pc'[d] # "closeSource"
    BY <2>1 DEF Closing, TypeOK
  <2>4. Closing'
    BY <2>1, <2>2, <2>3 DEF Closing
  <2>5. Counted'
    BY <2>1, <2>2 DEF Counted
  <2>6. QED
    BY <2>4, <2>5
<1>8. CASE UNCHANGED vars
  <2>1. Gone' = Gone
    BY <1>8 DEF vars, Gone
  <2>2. QED
    BY <1>8, <2>1 DEF vars, Closing, Counted
<1>9. QED
  BY <1>1, <1>2, <1>3, <1>4, <1>5, <1>6, <1>7, <1>8 DEF Next

(* A filled element without a panic: a chunk of the source with an element  *)
(* behind it, or EOF at the end of the list.                                *)
LEMMA Filled ==
  ASSUME TypeOK, ListShape, ~panicked,
         NEW k \in 1 .. Len(nodes), nodes[k].once = "done"
  PROVE  /\ k <= Len(log) /\ nodes[k].item = log[k]
         /\ \/ /\ k < Len(nodes) /\ nodes[k].item \in Chunks /\ nodes[k].item # EOF
               /\ nodes[k].next = k + 1
            \/ k = Len(nodes) /\ k = Len(log) /\ nodes[k].item = EOF
<1>1. Len(nodes) \in Nat /\ Len(log) \in Nat
  BY DEF TypeOK
<1>2. Len(log) >= Len(nodes) - 1
  BY <1>1 DEF ListShape
<1>3. CASE k = Len(nodes)
  BY <1>1, <1>3 DEF ListShape
<1>4. CASE k # Len(nodes)
  <2>1. k \in 1 .. Len(nodes) - 1
    BY <1>1, <1>4
  <2>2. QED
    BY <1>1, <1>2, <2>1 DEF ListShape
<1>5. QED
  BY <1>3, <1>4

(* What Take does to a child that follows the source: it delivers the next  *)
(* outcome, or it is asked again after EOF and delivers nothing new.        *)
LEMMA TakeEffect ==
  ASSUME TypeOK, ListShape, Inside, Follows, ~panicked, NEW c \in Children, Take(c)
  PROVE  LET g == Len(got[c])
         IN  /\ cur[c] # 0 /\ cur'[c] # 0 /\ g <= Len(log)
             /\ \A d \in Children : d # c => got'[d] = got[d] /\ cur'[d] = cur[d]
             /\ \/ /\ g < Len(log) /\ got'[c] = Append(got[c], log[g + 1])
                   /\ cur'[c] = IF g + 1 = Len(nodes) THEN g + 1 ELSE g + 2
                   /\ g + 1 <= Len(nodes)
                \/ g = Len(nodes) /\ cur'[c] = Len(nodes) /\ got'[c] = got[c]
<1> DEFINE g == Len(got[c])
           k == elem[c]
           n == Len(nodes)
<1>1. /\ n \in Nat /\ g \in Nat /\ Len(log) \in Nat /\ cur[c] \in Nat /\ k \in 1 .. n
      /\ got[c] \in Seq(Outcome \cup {Zero})
  BY DEF TypeOK, Inside
<1>2. pc[c] = "take" /\ nodes[k].once = "done" /\ cur[c] >= k /\ cur[c] <= n
  BY DEF Take, Inside
<1>3. /\ k = IF g = n THEN n ELSE g + 1
      /\ g <= Len(log) /\ \A i \in 1 .. g : got[c][i] = log[i]
  BY <1>2 DEF Follows, At
<1>4. /\ k <= Len(log) /\ nodes[k].item = log[k]
      /\ \/ k < n /\ nodes[k].item # EOF /\ nodes[k].next = k + 1
         \/ k = n /\ k = Len(log) /\ nodes[k].item = EOF
  BY <1>1, <1>2, Filled
<1>5. /\ got' = [got EXCEPT ![c] = IF got[c] # <<>> /\ got[c][g] = EOF THEN got[c]
                                   ELSE Append(got[c], nodes[k].item)]
      /\ cur' = IF nodes[k].item = EOF THEN cur ELSE [cur EXCEPT ![c] = nodes[k].next]
  BY DEF Take
<1>6. \A d \in Children : d # c => got'[d] = got[d] /\ cur'[d] = cur[d]
  BY <1>5 DEF TypeOK
<1>7. CASE g = n
  <2>1. k = n /\ nodes[k].item = EOF /\ log[n] = EOF /\ cur[c] = n
    BY <1>1, <1>2, <1>3, <1>4, <1>7
  <2>2. got[c] # <<>> /\ got[c][g] = EOF
    BY <1>1, <1>3, <1>7, <2>1
  <2>3. got'[c] = got[c] /\ cur'[c] = cur[c]
    BY <1>5, <2>1, <2>2 DEF TypeOK
  <2>4. QED
    BY <1>1, <1>3, <1>6, <1>7, <2>1, <2>3
<1>8. CASE g # n
  <2>1. k = g + 1
    BY <1>3, <1>8
  <2>2. g >= 1 => got[c][g] # EOF
    <3>1. SUFFICES ASSUME g >= 1
                   PROVE  got[c][g] # EOF
      OBVIOUS
    <3>2. g \in 1 .. n - 1 /\ g \in 1 .. g
      BY <1>1, <2>1, <3>1
    <3>3. log[g] = nodes[g].item /\ nodes[g].item \in Chunks
      BY <3>2 DEF ListShape
    <3>4. QED
      BY <1>3, <3>2, <3>3
  <2>3. got[c] # <<>> => g >= 1
    BY <1>1
  <2>4. got'[c] = Append(got[c], log[g + 1])
    BY <1>4, <1>5, <2>1, <2>2, <2>3 DEF TypeOK
  <2>5. cur'[c] = IF g + 1 = n THEN g + 1 ELSE g + 2
    <3>1. CASE k < n /\ nodes[k].item # EOF /\ nodes[k].next = k + 1
      BY <1>1, <1>5, <2>1, <3>1 DEF TypeOK
    <3>2. CASE k = n /\ nodes[k].item = EOF
      BY <1>1, <1>2, <1>5, <2>1, <3>2 DEF TypeOK
    <3>3. QED
      BY <1>4, <3>1, <3>2
  <2>6. QED
    BY <1>1, <1>2, <1>3, <1>4, <1>6, <2>1, <2>4, <2>5
<1>9. QED
  BY <1>7, <1>8

LEMMA FollowStep ==
  TypeOK /\ ListShape /\ Inside /\ Follows /\ [Next]_vars => Follows'
<1> SUFFICES ASSUME TypeOK, ListShape, Inside, Follows, [Next]_vars, ~panicked'
             PROVE  Follows'
  BY DEF Follows
<1>0. ~panicked /\ \A c \in Children : ~FetchPanic(c)
  BY DEF Next, vars, PeekLoad, OnceFirst, OnceDone, Fetch, FetchPanic, Take,
         CloseAgain, CloseMark, CloseAdd, CloseSource, TypeOK
<1>1. ASSUME NEW c \in Children, PeekLoad(c)
      PROVE  Follows'
  BY <1>0, <1>1 DEF PeekLoad, Goto, Follows, At, TypeOK
<1>2. ASSUME NEW c \in Children, OnceFirst(c)
      PROVE  Follows'
  <2>1. Len(nodes') = Len(nodes)
    BY <1>2, OnceFirstNodes
  <2>2. UNCHANGED <<log, got, cur, elem>> /\ pc[c] = "once"
        /\ pc' = [pc EXCEPT ![c] = "fetch"]
    BY <1>2 DEF OnceFirst, Goto
  <2>3. QED
    BY <1>0, <2>1, <2>2 DEF Follows, At, TypeOK
<1>3. ASSUME NEW c \in Children, OnceDone(c)
      PROVE  Follows'
  BY <1>0, <1>3 DEF OnceDone, Goto, Follows, At, TypeOK
<1>4. ASSUME NEW c \in Children, NEW o \in Outcomes, Fetch(c, o)
      PROVE  Follows'
  <2> DEFINE n == Len(nodes)
  <2>1. o \in Outcome
    BY DEF Outcomes
  <2>2. n \in Nat /\ Len(nodes') \in {n, n + 1}
    BY <1>4, <2>1, FetchNodes DEF TypeOK
  <2>3. elem[c] = n /\ pc[c] = "fetch" /\ Len(log) = n - 1 /\ n >= 1
    BY <1>4 DEF Fetch, Inside, ListShape
  <2>4. Len(log') = n /\ \A i \in 1 .. n - 1 : log'[i] = log[i]
    BY <1>4, <2>1, <2>2, <2>3 DEF Fetch, TypeOK
  <2>5. /\ UNCHANGED <<got, elem>> /\ pc' = [pc EXCEPT ![c] = "take"]
        /\ \A d \in Children : d # c => cur'[d] = cur[d]
    BY <1>4 DEF Fetch, Goto, TypeOK
  <2>6. \A d \in Children : /\ Len(got[d]) \in Nat /\ Len(got[d]) <= n - 1
                            /\ (At(d))' = At(d)
    <3> TAKE d \in Children
    <3>1. Len(got[d]) \in Nat /\ Len(got[d]) <= n - 1
      BY <1>0, <2>3 DEF Follows, TypeOK
    <3>2. Len(got[d]) # n /\ Len(got[d]) # Len(nodes')
      BY <2>2, <3>1
    <3>3. QED
      BY <2>5, <3>1, <3>2 DEF At
  <2> HIDE DEF n
  <2>7. \A d \in Children : Len(got[d]) <= Len(log')
                            /\ \A i \in 1 .. Len(got[d]) : got[d][i] = log'[i]
    <3> TAKE d \in Children
    <3>1. \A i \in 1 .. Len(got[d]) : i \in 1 .. n - 1 /\ got[d][i] = log[i]
      BY <1>0, <2>2, <2>6 DEF Follows
    <3>2. QED
      BY <2>2, <2>4, <2>6, <3>1
  <2>8. \A d \in Children :
          /\ pc'[d] = "idle" /\ cur'[d] # 0 => cur'[d] = At(d)
          /\ pc'[d] \in {"once", "fetch", "take"} => elem'[d] = At(d)
    BY <1>0, <2>3, <2>5 DEF Follows, TypeOK
  <2>9. QED
    BY <2>5, <2>6, <2>7, <2>8 DEF Follows
<1>5. ASSUME NEW c \in Children, Take(c)
      PROVE  Follows'
  <2> DEFINE n == Len(nodes)
             g == Len(got[c])
  <2>1. /\ UNCHANGED <<nodes, elem, log>> /\ pc' = [pc EXCEPT ![c] = "idle"]
        /\ \A d \in Children : d # c => got'[d] = got[d] /\ cur'[d] = cur[d]
    BY <1>0, <1>5, TakeEffect DEF Take, Goto
  <2>2. /\ n \in Nat /\ g \in Nat /\ Len(log) \in Nat /\ log \in Seq(Outcome)
        /\ got[c] \in Seq(Outcome \cup {Zero})
    BY DEF TypeOK
  <2>3. g <= Len(log) /\ \A i \in 1 .. g : got[c][i] = log[i]
    BY <1>0 DEF Follows
  <2>4. /\ Len(got'[c]) <= Len(log) /\ \A i \in 1 .. Len(got'[c]) : got'[c][i] = log[i]
        /\ cur'[c] = IF Len(got'[c]) = n THEN n ELSE Len(got'[c]) + 1
    <3>1. CASE /\ g < Len(log) /\ got'[c] = Append(got[c], log[g + 1])
               /\ cur'[c] = IF g + 1 = n THEN g + 1 ELSE g + 2
      <4>1. log[g + 1] \in Outcome \cup {Zero}
        BY <2>2, <3>1
      <4>2. Len(got'[c]) = g + 1 /\ got'[c][g + 1] = log[g + 1]
            /\ \A i \in 1 .. g : got'[c][i] = got[c][i]
        BY <2>2, <3>1, <4>1, AppendProperties
      <4>3. QED
        BY <2>2, <2>3, <3>1, <4>2
    <3>2. CASE g = n /\ cur'[c] = n /\ got'[c] = got[c]
      BY <2>2, <2>3, <3>2
    <3>3. QED
      BY <1>0, <1>5, <3>1, <3>2, TakeEffect
  <2>5. \A d \in Children : d # c => /\ (At(d))' = At(d) /\ pc'[d] = pc[d]
                                     /\ got'[d] = got[d] /\ cur'[d] = cur[d]
    BY <2>1 DEF At, TypeOK
  <2>6. (At(c))' = cur'[c] /\ pc'[c] = "idle"
    BY <2>1, <2>4 DEF At, TypeOK
  <2>7. QED
    BY <1>0, <2>1, <2>4, <2>5, <2>6 DEF Follows
<1>6. ASSUME NEW c \in Children, CloseAgain(c) \/ CloseMark(c)
      PROVE  Follows'
  <2>1. UNCHANGED <<nodes, elem, log, got>>
    BY <1>6 DEF CloseAgain, CloseMark
  <2>2. \A d \in Children : \/ pc'[d] = pc[d] /\ cur'[d] = cur[d]
                            \/ cur'[d] = 0 /\ pc'[d] = "add"
    BY <1>6 DEF CloseAgain, CloseMark, Goto, TypeOK
  <2>3. QED
    BY <1>0, <2>1, <2>2 DEF Follows, At
<1>7. ASSUME NEW c \in Children, CloseAdd(c) \/ CloseSource(c)
      PROVE  Follows'
  <2>1. UNCHANGED <<nodes, elem, log, got, cur>>
    BY <1>7 DEF CloseAdd, CloseSource
  <2>2. pc[c] \in {"add", "closeSource"}
        /\ \E l \in {"closeSource", "idle"} : pc' = [pc EXCEPT ![c] = l]
    BY <1>7 DEF CloseAdd, CloseSource, Goto
  <2>3. cur[c] = 0
    BY <2>2 DEF Inside
  <2>4. \A d \in Children :
          \/ pc'[d] = pc[d]
          \/ cur[d] = 0 /\ pc'[d] \in {"closeSource", "idle"}
    <3>1. PICK l \in {"closeSource", "idle"} : pc' = [pc EXCEPT ![c] = l]
      BY <2>2
    <3>2. pc'[c] \in {"closeSource", "idle"}
      BY <3>1 DEF TypeOK
    <3>3. \A d \in Children : d # c => pc'[d] = pc[d]
      BY <3>1 DEF TypeOK
    <3>4. QED
      BY <2>3, <3>2, <3>3
  <2>5. QED
    BY <1>0, <2>1, <2>4 DEF Follows, At
<1>8. CASE UNCHANGED vars
  BY <1>0, <1>8 DEF vars, Follows, At
<1>9. QED
  BY <1>0, <1>1, <1>2, <1>3, <1>4, <1>5, <1>6, <1>7, <1>8 DEF Next

LEMMA InitInv == Init => IInv
<1> SUFFICES ASSUME Init
             PROVE  IInv
  OBVIOUS
<1> USE DEF Init
<1>1. /\ nodes \in Seq(Node) /\ Len(nodes) = 1 /\ nodes[1] = Fresh
      /\ log \in Seq(Outcome) /\ Len(log) = 0
      /\ \A c \in Children : Len(got[c]) = 0
  BY DEF Fresh, Node
<1>2. TypeOK
  <2>1. <<>> \in Seq(Outcome \cup {Zero})
    OBVIOUS
  <2>2. got \in [Children -> Seq(Outcome \cup {Zero})]
    BY <2>1
  <2>3. QED
    BY <1>1, <2>2 DEF TypeOK
<1>3. ListShape /\ Inside /\ Follows
  BY <1>1 DEF ListShape, Inside, Follows, At, Fresh
<1>4. Gone = {}
  BY DEF Gone
<1>5. Closing /\ Counted
  BY <1>4, FS_EmptySet DEF Closing, Counted
<1>6. QED
  BY <1>2, <1>3, <1>5 DEF IInv

LEMMA Inductive == SafetySpec => []IInv
<1>1. IInv /\ [Next]_vars => IInv'
  BY TypeStep, ListStep, InsideStep, CountStep, FollowStep DEF IInv
<1>2. QED
  BY InitInv, <1>1, PTL DEF SafetySpec

-----------------------------------------------------------------------------

LEMMA AllGone ==
  ASSUME IInv, closedNum = Cardinality(Children)
  PROVE  \A c \in Children : cur[c] = 0 /\ pc[c] # "fetch"
<1>1. Gone = Children
  BY GoneFacts DEF IInv, Closing, TypeOK
<1>2. QED
  BY <1>1 DEF Gone, IInv, Inside, TypeOK

LEMMA AloneInSource == IInv => OneSourceUser
<1> SUFFICES ASSUME IInv
             PROVE  OneSourceUser
  OBVIOUS
<1> DEFINE users == {c \in Children : pc[c] \in {"fetch", "closeSource"}}
<1>1. \A c, d \in users : c = d
  BY AllGone DEF IInv, Inside, Closing
<1>2. Cardinality(users) <= 1
  <2>1. CASE users = {}
    BY <2>1, FS_EmptySet
  <2>2. CASE users # {}
    <3>1. PICK c : c \in users
      BY <2>2
    <3>2. users = {c}
      BY <1>1, <3>1
    <3> HIDE DEF users
    <3>3. QED
      BY <3>2, FS_Singleton
  <2>3. QED
    BY <2>1, <2>2
<1>3. srcCloses > 0 => users = {}
  BY AllGone DEF IInv, TypeOK, Closing
<1>4. QED
  BY <1>2, <1>3 DEF OneSourceUser

(* The children share the list without a lock, and the source is not safe   *)
(* for concurrent use: at most one of them is in the source's Recv or       *)
(* Close, and none after it is closed, even when its Recv panics.           *)
THEOREM SourceUsedByOne == SafetySpec => []OneSourceUser
  BY Inductive, AloneInSource, PTL

LEMMA ClosedOnce == IInv => ClosedUnlessPanic
<1> SUFFICES ASSUME IInv, ~panicked
             PROVE  ClosedWithLastChild
  BY DEF ClosedUnlessPanic
<1>1. srcCloses \in {0, 1}
  BY DEF IInv, TypeOK, Closing
<1>2. srcCloses = 1 => asked = Children
  BY AllGone DEF IInv, Closing, Counted
<1>3. ASSUME asked = Children, \A c \in Children : pc[c] = "idle"
      PROVE  srcCloses = 1
  <2>1. Gone = Children
    BY <1>3 DEF IInv, Counted, Gone
  <2>2. QED
    BY <1>3, <2>1 DEF IInv, Closing, Counted
<1>4. QED
  BY <1>1, <1>2, <1>3 DEF ClosedWithLastChild

(* The close that completes the count closes the source: once, when every   *)
(* child has been closed and not before, as long as the source has not      *)
(* panicked.                                                                *)
THEOREM ClosedWithTheLast == SafetySpec => []ClosedUnlessPanic
  BY Inductive, ClosedOnce, PTL

-----------------------------------------------------------------------------
(* The refinement.  Filling an element is the Fetch of the broadcast, Take  *)
(* its Deliver, CloseMark its CloseChild, CloseSource its CloseSource; the  *)
(* other steps are not seen by it.                                          *)

Open == {c \in Children : cur[c] # 0}

LEMMA Unseen ==
  ASSUME UNCHANGED <<log, got, panicked, srcCloses>>, Open' = Open
  PROVE  [Broadcast!Next]_(Broadcast!vars)
  BY DEF Broadcast!vars, Open

LEMMA FetchRefines ==
  ASSUME IInv, ~panicked, NEW c \in Children, NEW o \in Outcomes, Fetch(c, o)
  PROVE  Broadcast!Next
<1> DEFINE n == Len(nodes)
<1>1. pc[c] = "fetch" /\ elem[c] = n /\ cur[c] = n /\ nodes[n].once = "running"
  BY DEF Fetch, IInv, Inside
<1>2. n \in Nat /\ n >= 1 /\ Len(log) = n - 1 /\ Len(got[c]) \in Nat
  BY <1>1 DEF IInv, TypeOK, ListShape
<1>3. ~(log # <<>> /\ log[Len(log)] = EOF)
  <2>1. SUFFICES ASSUME log # <<>>
                 PROVE  log[Len(log)] # EOF
    OBVIOUS
  <2>2. Len(log) # 0
    BY <2>1 DEF IInv, TypeOK
  <2>3. n - 1 \in 1 .. n - 1
    BY <1>2, <2>2
  <2>4. log[n - 1] = nodes[n - 1].item /\ nodes[n - 1].item \in Chunks
    BY <2>3 DEF IInv, ListShape
  <2>5. QED
    BY <1>2, <2>4
<1>4. ~(srcCloses > 0)
  BY <1>1, AllGone DEF IInv, TypeOK, Closing
<1>5. c \in Open /\ Len(got[c]) = Len(log)
  BY <1>1, <1>2 DEF IInv, Follows, At, Open
<1>6. o \in Chunks \cup {EOF} /\ log' = Append(log, o)
      /\ UNCHANGED <<got, srcCloses, panicked>>
  BY DEF Fetch, Outcomes
<1>7. cur' = cur \/ cur' = [cur EXCEPT ![c] = n + 1]
  BY DEF Fetch
<1>8. Open' = Open
  BY <1>1, <1>2, <1>7 DEF Open, IInv, TypeOK
<1>9. Broadcast!Fetch(o)
  BY <1>3, <1>4, <1>5, <1>6, <1>8 DEF Broadcast!Fetch, Broadcast!Ended, Open
<1>10. QED
  BY <1>6, <1>9 DEF Broadcast!Next

LEMMA TakeRefines ==
  ASSUME IInv, ~panicked, NEW c \in Children, Take(c)
  PROVE  [Broadcast!Next]_(Broadcast!vars)
<1> DEFINE g == Len(got[c])
<1>1. /\ cur[c] # 0 /\ cur'[c] # 0
      /\ \A d \in Children : d # c => got'[d] = got[d] /\ cur'[d] = cur[d]
      /\ \/ g < Len(log) /\ got'[c] = Append(got[c], log[g + 1])
         \/ got'[c] = got[c]
  BY TakeEffect DEF IInv
<1>2. UNCHANGED <<log, srcCloses, panicked>>
  BY DEF Take
<1>3. Open' = Open
  BY <1>1 DEF Open
<1>4. CASE got'[c] = got[c]
  <2>1. got' = got
    BY <1>1, <1>4 DEF IInv, TypeOK, Take
  <2>2. QED
    BY <1>2, <1>3, <2>1, Unseen
<1>5. CASE g < Len(log) /\ got'[c] = Append(got[c], log[g + 1])
  <2>1. got' = [got EXCEPT ![c] = Append(@, log[Len(@) + 1])]
    BY <1>1, <1>5 DEF IInv, TypeOK, Take
  <2>2. c \in Open /\ Len(got[c]) < Len(log)
    BY <1>1, <1>5 DEF Open
  <2>3. Broadcast!Deliver(c)
    BY <1>2, <1>3, <2>1, <2>2 DEF Broadcast!Deliver, Open
  <2>4. QED
    BY <2>3 DEF Broadcast!Next
<1>6. QED
  BY <1>1, <1>4, <1>5

LEMMA CloseRefines ==
  ASSUME IInv, ~panicked, NEW c \in Children, CloseMark(c) \/ CloseSource(c)
  PROVE  [Broadcast!Next]_(Broadcast!vars)
<1>1. CASE CloseMark(c)
  <2>1. /\ UNCHANGED <<log, got, srcCloses, panicked>>
        /\ cur[c] # 0 /\ cur' = [cur EXCEPT ![c] = 0]
    BY <1>1 DEF CloseMark
  <2>2. c \in Open /\ Open' = Open \ {c}
    BY <2>1 DEF Open, IInv, TypeOK
  <2>3. Broadcast!CloseChild(c)
    BY <2>1, <2>2 DEF Broadcast!CloseChild, Open
  <2>4. QED
    BY <2>3 DEF Broadcast!Next
<1>2. CASE CloseSource(c)
  <2>1. /\ UNCHANGED <<log, got, cur, panicked>> /\ srcCloses' = srcCloses + 1
        /\ pc[c] = "closeSource"
    BY <1>2 DEF CloseSource
  <2>2. Open = {} /\ ~(srcCloses > 0) /\ srcCloses' > 0
    BY <2>1, AllGone DEF IInv, Closing, Open
  <2>3. Broadcast!CloseSource
    BY <2>1, <2>2 DEF Broadcast!CloseSource, Open
  <2>4. QED
    BY <2>3 DEF Broadcast!Next
<1>3. QED
  BY <1>1, <1>2

LEMMA StepRefines ==
  ASSUME IInv, [Next]_vars
  PROVE  [Broadcast!Next]_(Broadcast!vars)
<1>1. panicked => panicked'
  BY DEF Next, vars, PeekLoad, OnceFirst, OnceDone, Fetch, FetchPanic, Take,
         CloseAgain, CloseMark, CloseAdd, CloseSource
<1>2. CASE panicked
  BY <1>1, <1>2 DEF Broadcast!Next, Broadcast!Broken
<1>3. CASE ~panicked
  <2>1. ASSUME NEW c \in Children,
               \/ PeekLoad(c) \/ OnceFirst(c) \/ OnceDone(c)
               \/ CloseAgain(c) \/ CloseAdd(c)
        PROVE  [Broadcast!Next]_(Broadcast!vars)
    <3>1. UNCHANGED <<log, got, cur, srcCloses, panicked>>
      BY <2>1 DEF PeekLoad, OnceFirst, OnceDone, CloseAgain, CloseAdd
    <3>2. QED
      BY <3>1, Unseen DEF Open
  <2>2. ASSUME NEW c \in Children, FetchPanic(c)
        PROVE  [Broadcast!Next]_(Broadcast!vars)
    <3>1. UNCHANGED <<log, got, cur, srcCloses>> /\ panicked'
      BY <2>2 DEF FetchPanic
    <3>2. Broadcast!Panic
      BY <1>3, <3>1 DEF Broadcast!Panic, IInv, TypeOK
    <3>3. QED
      BY <3>2 DEF Broadcast!Next
  <2>3. CASE UNCHANGED vars
    BY <2>3, Unseen DEF vars, Open
  <2>4. QED
    BY <1>3, <2>1, <2>2, <2>3, FetchRefines, TakeRefines, CloseRefines DEF Next
<1>4. QED
  BY <1>2, <1>3

LEMMA InitRefines == Init => Broadcast!Init
  BY CopyAssumption DEF Init, Broadcast!Init

(* Copy keeps what it promises: every copy sees the outcomes of the source  *)
(* in order and without gaps, nothing is read past EOF, before a copy needs *)
(* it or after the last Close, until a Recv of the source panics.           *)
THEOREM CopyBroadcasts == SafetySpec => ImplementsBroadcast
<1>1. SafetySpec => [][Broadcast!Next]_(Broadcast!vars)
  BY Inductive, StepRefines, PTL DEF SafetySpec
<1>2. QED
  BY <1>1, InitRefines, PTL DEF SafetySpec, ImplementsBroadcast, Broadcast!Spec

(* What a copy has been given, apart from a repeated EOF.                   *)
GivesPrefix ==
  panicked \/ \A c \in Children : /\ Len(got[c]) <= Len(log)
                                 /\ got[c] = SubSeq(log, 1, Len(got[c]))

LEMMA FollowsGivesPrefix == IInv => GivesPrefix
<1> SUFFICES ASSUME IInv, ~panicked, NEW c \in Children
             PROVE  /\ Len(got[c]) <= Len(log)
                    /\ got[c] = SubSeq(log, 1, Len(got[c]))
  BY DEF GivesPrefix
<1> DEFINE g == Len(got[c])
           s == SubSeq(log, 1, g)
<1>1. /\ got[c] \in Seq(Outcome \cup {Zero}) /\ log \in Seq(Outcome)
      /\ g \in Nat /\ g <= Len(log) /\ \A i \in 1 .. g : got[c][i] = log[i]
  BY DEF IInv, TypeOK, Follows
<1>2. s \in Seq(Outcome \cup {Zero}) /\ Len(s) = g /\ \A i \in 1 .. g : s[i] = log[i]
  BY <1>1
<1> HIDE DEF s
<1>3. got[c] = s
  BY <1>1, <1>2, SeqEqual
<1>4. QED
  BY <1>1, <1>3 DEF s

(* Every Recv of a copy returns the source's outcome at the same place:     *)
(* what a copy has been given is a prefix of what the source gave.          *)
THEOREM CopiesFollowSource == SafetySpec => []GivesPrefix
  BY Inductive, FollowsGivesPrefix, PTL
=============================================================================
