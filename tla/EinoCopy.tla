------------------------------ MODULE EinoCopy ------------------------------
(***************************************************************************)
(* Copy of Go/handwritten_eino/schema/stream.go for a reader that is not   *)
(* an array: parentStreamReader and its childStreamReaders.                *)
(*                                                                         *)
(* The children share a linked list of elements.  The first child to reach *)
(* an element fills it from the source inside the element's sync.Once and  *)
(* hangs the next, empty element behind it; there is no lock.  Each child  *)
(* is used by one goroutine, so its Recv and Close do not overlap; the     *)
(* children run concurrently.  Element k of the list is nodes[k], and 0    *)
(* stands for nil.                                                         *)
(***************************************************************************)
EXTENDS Naturals, Sequences, FiniteSets

CONSTANTS Children,        \* the child readers
          Chunks,          \* the outcomes of the source other than io.EOF
          EOF,             \* io.EOF
          Zero,            \* the zero chunk without error
          MaxItems         \* bound on the outcomes before EOF

ASSUME CopyAssumption ==
  /\ IsFiniteSet(Children)
  /\ Cardinality(Children) >= 2
  /\ MaxItems \in Nat
  /\ EOF \notin Chunks
  /\ Zero \notin Chunks \cup {EOF}

VARIABLES nodes,      \* the elements: once ("fresh", "running", "done"), item, next
          cur,        \* p.subStreamList
          pc,         \* per child: "idle", "once", "fetch", "take", "add",
                      \* "closeSource"
          elem,       \* the local elem of peek
          closedNum,  \* p.closedNum
          srcCloses,  \* number of calls of p.sr.Close
          asked,      \* history: the children whose Close was called
          panicked,   \* history: p.sr.Recv panicked
          log,        \* history: the outcomes of p.sr.Recv
          got         \* history: what each child's Recv returned

vars == <<nodes, cur, pc, elem, closedNum, srcCloses, asked, panicked, log, got>>

Fresh == [once |-> "fresh", item |-> Zero, next |-> 0]

Init ==
  /\ nodes = <<Fresh>>
  /\ cur = [c \in Children |-> 1]
  /\ pc = [c \in Children |-> "idle"]
  /\ elem = [c \in Children |-> 1]
  /\ closedNum = 0
  /\ srcCloses = 0
  /\ asked = {}
  /\ panicked = FALSE
  /\ log = <<>>
  /\ got = [c \in Children |-> <<>>]

Goto(c, l) == pc' = [pc EXCEPT ![c] = l]

-----------------------------------------------------------------------------
(* peek *)

(* elem := p.subStreamList[idx]; a closed child gets ErrRecvAfterClosed,    *)
(* which changes nothing.                                                   *)
PeekLoad(c) ==
  /\ pc[c] = "idle"
  /\ cur[c] # 0
  /\ elem' = [elem EXCEPT ![c] = cur[c]]
  /\ Goto(c, "once")
  /\ UNCHANGED <<nodes, cur, closedNum, srcCloses, asked, panicked, log, got>>

(* elem.once.Do: the first child runs the function, ... *)
OnceFirst(c) ==
  /\ pc[c] = "once"
  /\ nodes[elem[c]].once = "fresh"
  /\ nodes' = [nodes EXCEPT ![elem[c]].once = "running"]
  /\ Goto(c, "fetch")
  /\ UNCHANGED <<cur, elem, closedNum, srcCloses, asked, panicked, log, got>>

(* Mutant of OnceDone: there is no Once, every child runs the function. *)
OnceDoneNoOnce(c) ==
  /\ pc[c] = "once"
  /\ nodes[elem[c]].once # "fresh"
  /\ Goto(c, "fetch")
  /\ UNCHANGED <<nodes, cur, elem, closedNum, srcCloses, asked, panicked, log, got>>

(* ... the others wait until it is done. *)
OnceDone(c) ==
  /\ pc[c] = "once"
  /\ nodes[elem[c]].once = "done"
  /\ Goto(c, "take")
  /\ UNCHANGED <<nodes, cur, elem, closedNum, srcCloses, asked, panicked, log, got>>

(* Mutant of Fetch: an empty element is hung behind EOF too. *)
FetchPastEOF(c, o) ==
  /\ pc[c] = "fetch"
  /\ LET n == Len(nodes) + 1
     IN  /\ nodes' = Append([nodes EXCEPT
                        ![elem[c]] = [once |-> "done", item |-> o, next |-> n]], Fresh)
         /\ cur' = [cur EXCEPT ![c] = n]
  /\ log' = Append(log, o)
  /\ Goto(c, "take")
  /\ UNCHANGED <<elem, closedNum, srcCloses, asked, panicked, got>>

(* p.sr.Recv() returns o inside Do: fill the element, hang the next one.    *)
Fetch(c, o) ==
  /\ pc[c] = "fetch"
  /\ LET k == elem[c]
         n == Len(nodes) + 1
     IN  IF o = EOF
         THEN /\ nodes' = [nodes EXCEPT ![k] = [once |-> "done", item |-> o, next |-> 0]]
              /\ UNCHANGED cur
         ELSE /\ nodes' = Append([nodes EXCEPT
                            ![k] = [once |-> "done", item |-> o, next |-> n]], Fresh)
              /\ cur' = [cur EXCEPT ![c] = n]
  /\ log' = Append(log, o)
  /\ Goto(c, "take")
  /\ UNCHANGED <<elem, closedNum, srcCloses, asked, panicked, got>>

(* Mutant of FetchPanic: a hand-made once, marked done only after f returns. *)
FetchPanicNeverDone(c) ==
  /\ pc[c] = "fetch"
  /\ panicked' = TRUE
  /\ Goto(c, "idle")
  /\ UNCHANGED <<nodes, cur, elem, closedNum, srcCloses, asked, log, got>>

(* p.sr.Recv() panics inside Do, as a user's convert function may: the Once *)
(* counts as done, the element keeps its zero item and nil next, and the    *)
(* panic leaves peek.                                                       *)
FetchPanic(c) ==
  /\ pc[c] = "fetch"
  /\ nodes' = [nodes EXCEPT ![elem[c]].once = "done"]
  /\ panicked' = TRUE
  /\ Goto(c, "idle")
  /\ UNCHANGED <<cur, elem, closedNum, srcCloses, asked, log, got>>

(* Mutant of Take: the list is read again after Do, which has moved on. *)
TakeCurrent(c) ==
  /\ pc[c] = "take"
  /\ LET e == nodes[cur[c]]
     IN  /\ got' = [got EXCEPT ![c] =
               IF @ # <<>> /\ @[Len(@)] = EOF THEN @ ELSE Append(@, e.item)]
         /\ cur' = IF e.item = EOF THEN cur ELSE [cur EXCEPT ![c] = e.next]
  /\ Goto(c, "idle")
  /\ UNCHANGED <<nodes, elem, closedNum, srcCloses, asked, panicked, log>>

(* Return the element's item; move on unless it is EOF. *)
Take(c) ==
  /\ pc[c] = "take"
  /\ LET e == nodes[elem[c]]
     IN  /\ got' = [got EXCEPT ![c] =
               IF @ # <<>> /\ @[Len(@)] = EOF THEN @ ELSE Append(@, e.item)]
         /\ cur' = IF e.item = EOF THEN cur ELSE [cur EXCEPT ![c] = e.next]
  /\ Goto(c, "idle")
  /\ UNCHANGED <<nodes, elem, closedNum, srcCloses, asked, panicked, log>>

-----------------------------------------------------------------------------
(* close *)

(* p.subStreamList[idx] == nil: return. *)
CloseAgain(c) ==
  /\ pc[c] = "idle"
  /\ cur[c] = 0
  /\ asked' = asked \cup {c}
  /\ UNCHANGED <<nodes, cur, pc, elem, closedNum, srcCloses, panicked, log, got>>

CloseMark(c) ==
  /\ pc[c] = "idle"
  /\ cur[c] # 0
  /\ cur' = [cur EXCEPT ![c] = 0]
  /\ asked' = asked \cup {c}
  /\ Goto(c, "add")
  /\ UNCHANGED <<nodes, elem, closedNum, srcCloses, panicked, log, got>>

(* Mutant of CloseAdd: the count is read again after the increment. *)
CloseAddStale(c) ==
  /\ pc[c] = "add"
  /\ closedNum' = closedNum + 1
  /\ Goto(c, IF \A d \in Children : cur[d] = 0 THEN "closeSource" ELSE "idle")
  /\ UNCHANGED <<nodes, cur, elem, srcCloses, asked, panicked, log, got>>

(* atomic.AddUint32(&p.closedNum, 1) *)
CloseAdd(c) ==
  /\ pc[c] = "add"
  /\ closedNum' = closedNum + 1
  /\ Goto(c, IF closedNum' = Cardinality(Children) THEN "closeSource" ELSE "idle")
  /\ UNCHANGED <<nodes, cur, elem, srcCloses, asked, panicked, log, got>>

CloseSource(c) ==
  /\ pc[c] = "closeSource"
  /\ srcCloses' = srcCloses + 1
  /\ Goto(c, "idle")
  /\ UNCHANGED <<nodes, cur, elem, closedNum, asked, panicked, log, got>>

-----------------------------------------------------------------------------
(* The outcomes the source may still have: EOF at the bound. *)
Outcomes == IF Len(log) < MaxItems THEN Chunks \cup {EOF} ELSE {EOF}

Next ==
  \E c \in Children :
    \/ PeekLoad(c) \/ OnceFirst(c) \/ OnceDone(c) \/ Take(c)
    \/ \E o \in Outcomes : Fetch(c, o)
    \/ FetchPanic(c)
    \/ CloseAgain(c) \/ CloseMark(c) \/ CloseAdd(c) \/ CloseSource(c)

SafetySpec == Init /\ [][Next]_vars

(* A goroutine inside Recv or Close goes on when it can, and the source     *)
(* answers; nobody has to call Recv or Close.                               *)
Fairness ==
  \A c \in Children :
    /\ WF_vars(OnceFirst(c) \/ OnceDone(c) \/ Take(c)
               \/ FetchPanic(c) \/ \E o \in Outcomes : Fetch(c, o))
    /\ WF_vars(CloseAdd(c) \/ CloseSource(c))

Spec == SafetySpec /\ Fairness

-----------------------------------------------------------------------------

(* The source is not safe for concurrent use, and the list alone keeps the  *)
(* children apart: at most one of them is in p.sr.Recv, and none is while   *)
(* or after the source is closed.                                           *)
OneSourceUser ==
  LET users == {c \in Children : pc[c] \in {"fetch", "closeSource"}}
  IN  /\ Cardinality(users) <= 1
      /\ srcCloses > 0 => users = {}

(* When every child has been closed the source is closed, exactly once, and *)
(* never before ("when all children are closed nobody needs the original    *)
(* stream any more, so it is closed too", says the comment in close).       *)
ClosedWithLastChild ==
  /\ srcCloses <= 1
  /\ srcCloses = 1 => asked = Children
  /\ asked = Children /\ (\A c \in Children : pc[c] = "idle") => srcCloses = 1

(* The same, as long as the source has not panicked. *)
ClosedUnlessPanic == panicked \/ ClosedWithLastChild

(* A Recv returns although another child is inside the Once of its element, *)
(* whether that child gets an outcome or a panic.                           *)
RecvReturns == \A c \in Children : pc[c] = "once" ~> pc[c] = "idle"

(* Until the source panics, Copy keeps what EinoBroadcast promises: every   *)
(* child sees the outcomes of the source in order and without gaps, nothing *)
(* is read past EOF, before it is needed, or after the last Close.          *)
Broadcast == INSTANCE EinoBroadcast WITH
  open <- {c \in Children : cur[c] # 0},
  srcClosed <- srcCloses > 0,
  broken <- panicked

ImplementsBroadcast == Broadcast!Spec
=============================================================================
