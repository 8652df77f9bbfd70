--------------------------- MODULE ConcPoolsProofs ---------------------------
(***************************************************************************)
(* For any number of tasks and any limit: the pool of ConcPools keeps its  *)
(* limit and runs every task once, under a ResultContextPool the results   *)
(* and the first error are what Wait promises, and under a Stream the      *)
(* callbacks are called in order.                                          *)
(*                                                                         *)
(* The pool does not know who uses it: PoolMove is what either user does   *)
(* to it, PoolInv what that keeps.  ResultInv and StreamInv say the rest   *)
(* for each user.                                                          *)
(***************************************************************************)
EXTENDS ConcPools, FiniteSetTheorems, SequenceTheorems, TLAPS

(* The tasks that were given to the pool. *)
Submitted == {t \in Tasks : IF use = "results" THEN gpc[t] = "done" ELSE sgo[t] = "done"}

Ended == waited \in {"returned", "panicked"}

PoolTypeOK ==
  /\ use \in {"results", "stream"}
  /\ gpc \in [Tasks -> {"new", "indexed", "done"}]
  /\ sgo \in [Tasks -> {"new", "queued", "done"}]
  /\ wst \in [Workers -> {"off", "run", "range", "parked", "unwind", "recover", "exit", "gone"}]
  /\ wtask \in [Workers -> 0 .. NumTasks]
  /\ slots \in Nat
  /\ recovered \in 0 .. NumTasks
  /\ waited \in {"no", "waiting", "returned", "panicked"}
  /\ runs \in [Tasks -> Nat]

Started == {w \in Workers : wst[w] # "off"}

(* A submitted task was started once.  As no more workers were started than *)
(* tasks were submitted, there is one left for the next task.               *)
OneStart ==
  /\ \A t \in Tasks : runs[t] = IF t \in Submitted THEN 1 ELSE 0
  /\ Cardinality(Started) <= Cardinality(Submitted)

(* What a worker runs, or panicked in, was submitted, and nobody else runs  *)
(* it.                                                                      *)
OwnTask ==
  /\ \A w \in Workers : wst[w] \in {"run", "unwind", "recover"} => wtask[w] \in Submitted
  /\ \A v, w \in Workers :
       wst[v] = "run" /\ wst[w] = "run" /\ wtask[v] = wtask[w] => v = w

(* Wait begins after the last Go and ends after the last worker.            *)
WaitIsLast ==
  /\ waited # "no" => Submitted = Tasks
  /\ Ended => Live = {} /\ (waited = "panicked" <=> recovered # None)

PoolInv == PoolTypeOK /\ OneStart /\ OwnTask /\ WaitIsLast /\ LimitRespected

(* A task has panicked, and its panic is kept or on its way to be.          *)
Panicked ==
  \/ recovered # None
  \/ \E w \in Workers : wst[w] \in {"unwind", "recover"} \/ bpc[w] = "panicCancel"

ResultTypeOK ==
  /\ cancelOnError \in BOOLEAN /\ collectErrored \in BOOLEAN
  /\ cancelled \in {"no", "caller", "error", "panic", "wait"}
  /\ aggLen \in 0 .. NumTasks
  /\ results \in Seq(0 .. NumTasks)
  /\ errored \in SUBSET Tasks
  /\ errs \in Seq(Tasks \X {"ok", "own", "ctx"})
  /\ bpc \in [Workers -> {"f", "fail", "cancel", "panicCancel"}]
  /\ outcome \in [Workers -> {"ok", "own", "ctx"}]
  /\ \A w \in Workers : bpc[w] # "f" => wst[w] = "run"

(* The slice is not longer than the indices given out; a submitted task has *)
(* its result in its place, or runs, unless a task has panicked.            *)
ResultsKept ==
  /\ \A t \in Tasks : gpc[t] # "new" <=> t <= aggLen
  /\ Len(results) <= aggLen
  /\ \A k \in 1 .. Len(results) : results[k] \in {k, None}
  /\ \A t \in Submitted :
       \/ t <= Len(results) /\ results[t] = t
       \/ \E w \in Workers : wst[w] = "run" /\ bpc[w] = "f" /\ wtask[w] = t
       \/ Panicked
  /\ waited = "returned" => collected = Collect

(* A task gives up for a context that somebody has cancelled: an error that *)
(* is recorded by then, the caller, a panic, or Wait, when all is over.     *)
Cause ==
  /\ \A w \in Workers : /\ bpc[w] = "fail" /\ outcome[w] = "ctx" => cancelled # "no"
                        /\ bpc[w] = "cancel" => errs # <<>>
  /\ cancelled = "wait" => Ended
  /\ FirstErrorIsCause

ResultInv == use = "results" => ResultTypeOK /\ ResultsKept /\ Cause

StreamTypeOK ==
  /\ chOf \in [Tasks -> 0 .. NumTasks]
  /\ free \in SUBSET Channels
  /\ slot \in [Channels -> Seq(0 .. NumTasks + 1)]
  /\ queue \in Seq(Channels)
  /\ queueClosed \in BOOLEAN
  /\ cb \in {"range", "receive", "call", "put", "gone"}
  /\ cbCh \in 0 .. NumTasks
  /\ callback \in 0 .. NumTasks + 1
  /\ swait \in {"no", "pool", "callbacks", "returned", "panicked"}
  /\ returned \in SUBSET Tasks
  /\ called \in Seq(Tasks)

(* The tasks that have a channel, and those whose channel is still to be    *)
(* received from, when e tasks were queued and d taken from the queue.      *)
Holders(e, d) == (IF cb \in {"receive", "call", "put"} THEN d ELSE d + 1) .. e
Unreceived(e, d) == (IF cb = "receive" THEN d ELSE d + 1) .. e

(* Tasks 1 to e have been queued and 1 to d taken out again.                *)
InLine(e, d) ==
  /\ d <= e
  /\ \A t \in Tasks : sgo[t] # "new" <=> t <= e
  /\ Len(queue) = e - d
  /\ \A i \in 1 .. e - d : queue[i] = chOf[d + i]
  /\ cb \in {"receive", "call", "put"} => d >= 1 /\ cbCh = chOf[d]

(* No two of these tasks have the same channel, and the others are free.    *)
OwnChannel(e, d) ==
  /\ \A t \in Holders(e, d) : chOf[t] \in Channels
  /\ \A t, u \in Holders(e, d) : chOf[t] = chOf[u] => t = u
  /\ free = Channels \ {chOf[t] : t \in Holders(e, d)}

(* A channel holds what its task sent, once the task has ended.             *)
HoldsCallback(e, d) ==
  /\ \A c \in Channels : (\A t \in Unreceived(e, d) : chOf[t] # c) => slot[c] = <<>>
  /\ \A t \in Unreceived(e, d) :
       /\ slot[chOf[t]] \in {<<>>, <<t>>, <<None>>, <<Noop>>}
       /\ slot[chOf[t]] = <<t>> <=> t \in returned
  /\ \A t \in Tasks : sgo[t] = "queued" => t \in Unreceived(e, d) /\ slot[chOf[t]] = <<>>
  /\ \A w \in Workers : wst[w] = "run" =>
       wtask[w] \in Unreceived(e, d) /\ slot[chOf[wtask[w]]] = <<>>

(* The callbacks called are those of the tasks taken out so far.            *)
Calls(e, d) ==
  /\ cb = "call" => callback \in {d, None, Noop} /\ (callback = d <=> d \in returned)
  /\ \A i \in 1 .. Len(called) :
       /\ called[i] \in returned
       /\ called[i] < (IF cb \in {"receive", "call"} THEN d ELSE d + 1)
  /\ \A i, j \in 1 .. Len(called) : i < j => called[i] < called[j]
  /\ \A t \in returned :
       \/ t \in Unreceived(e, d)
       \/ cb = "call" /\ t = d
       \/ \E i \in 1 .. Len(called) : called[i] = t

(* The callbacker ends after the pool, and Wait after the callbacker.       *)
CallbackerIsLast ==
  /\ queueClosed => Ended
  /\ cb = "gone" => queueClosed /\ queue = <<>>
  /\ swait \in {"returned", "panicked"} => cb = "gone"

Line(e, d) == InLine(e, d) /\ OwnChannel(e, d) /\ HoldsCallback(e, d) /\ Calls(e, d)

InOrder == StreamTypeOK /\ CallbackerIsLast /\ \E e, d \in 0 .. NumTasks : Line(e, d)

StreamInv == use = "stream" => InOrder

(* Nobody touches what belongs to the other user.                           *)
Apart ==
  /\ use = "stream" => errs = <<>> /\ cancelled = "no"
  /\ use = "results" => called = <<>> /\ swait = "no"

IInv == PoolInv /\ ResultInv /\ StreamInv /\ Apart

-----------------------------------------------------------------------------
(* Numbers and sets of them *)

(* The least number of a set.  It follows from < being well-founded. *)
LEMMA MinExists ==
  ASSUME NEW S \in SUBSET Nat, S # {}
  PROVE  \E n \in S : \A m \in S : n <= m
<1> DEFINE R == OpToRel(<, Nat)
<1>1. IsWellFoundedOn(R, Nat)
  BY NatLessThanWellFounded
<1>2. \A x, y \in Nat : <<y, x>> \in R <=> y < x
  BY DEF OpToRel
<1> HIDE DEF R
<1>3. PICK x \in S : \A y \in S : ~(<<y, x>> \in R)
  BY <1>1, WFMin
<1>4. x \in Nat /\ \A y \in S : y \in Nat /\ ~(y < x)
  BY <1>2, <1>3
<1>5. QED
  BY <1>4

LEMMA MinMember ==
  ASSUME NEW S \in SUBSET Nat, S # {}
  PROVE  Min(S) \in S /\ \A y \in S : Min(S) <= y
  BY MinExists DEF Min

LEMMA MaxMember ==
  ASSUME NEW S \in SUBSET Nat, S # {}, NEW b \in Nat, \A y \in S : y <= b
  PROVE  Max(S) \in S /\ \A y \in S : y <= Max(S)
<1> DEFINE U == {n \in Nat : \A y \in S : y <= n}
<1>1. PICK m \in U : \A k \in U : m <= k
  BY MinExists
<1>2. m \in S
  <2>1. SUFFICES ASSUME m \notin S PROVE FALSE
    OBVIOUS
  <2>2. PICK z : z \in S
    OBVIOUS
  <2>3. m - 1 \in Nat /\ \A y \in S : y <= m - 1
    BY <2>1, <2>2
  <2>4. QED
    BY <2>3, <1>1
<1>3. \E x \in S : \A y \in S : x >= y
  BY <1>2
<1>4. QED
  BY <1>3 DEF Max

LEMMA TaskSets ==
  ASSUME NEW S \in SUBSET Tasks
  PROVE  /\ IsFiniteSet(S) /\ Cardinality(S) \in Nat /\ Cardinality(S) <= NumTasks
         /\ Cardinality(S) = NumTasks => S = Tasks
         /\ Cardinality(Tasks) = NumTasks
<1>1. IsFiniteSet(Tasks) /\ Cardinality(Tasks) = NumTasks
  BY PoolAssumption, FS_Interval DEF Tasks
<1>2. QED
  BY <1>1, FS_Subset, FS_CardinalityType

-----------------------------------------------------------------------------
(* The pool *)

Submits(t) ==
  /\ t \in Tasks \ Submitted /\ Submitted' = Submitted \cup {t}
  /\ GoSpawns(t) \/ \E w \in Workers : GoHandsOff(t, w)

Works(w) == BodyReturns(w) \/ BodyPanics(w) \/ WorkerStep(w)

Waits == (WaitCloses /\ Submitted = Tasks) \/ WaitEnds

PoolMove ==
  \/ \E t \in Tasks : Submits(t)
  \/ Submitted' = Submitted /\ ((\E w \in Workers : Works(w)) \/ Waits \/ UNCHANGED poolVars)

LEMMA UserTypes ==
  PoolTypeOK /\ [PoolsNext]_allVars =>
    /\ use' = use
    /\ gpc' \in [Tasks -> {"new", "indexed", "done"}]
    /\ sgo' \in [Tasks -> {"new", "queued", "done"}]
<1> SUFFICES ASSUME PoolTypeOK, [PoolsNext]_allVars
             PROVE  /\ use' = use
                    /\ gpc' \in [Tasks -> {"new", "indexed", "done"}]
                    /\ sgo' \in [Tasks -> {"new", "queued", "done"}]
  OBVIOUS
<1> USE DEF PoolTypeOK
<1>1. CASE UNCHANGED allVars
  BY <1>1 DEF allVars, resultVars, streamVars, goVars
<1>2. CASE Results(Next)
  <2>1. use' = use /\ sgo' = sgo
    BY <1>2 DEF Results, streamVars, goVars
  <2>2. \/ gpc' = gpc
        \/ \E t \in Tasks : \E l \in {"indexed", "done"} : gpc' = [gpc EXCEPT ![t] = l]
    BY <1>2 DEF Results, Next, NextIndex, Submit, TaskStep, FReturns, FPanics, PanicCancels,
                AddErr, ErrorCancels, Wait, WaitReturns, CallerCancels
  <2>3. QED
    BY <2>1, <2>2
<1>3. CASE Streaming(StreamNext)
  <2>1. use' = use /\ gpc' = gpc
    BY <1>3 DEF Streaming, resultVars
  <2>2. \/ sgo' = sgo
        \/ \E t \in Tasks : \E l \in {"queued", "done"} : sgo' = [sgo EXCEPT ![t] = l]
    BY <1>3 DEF Streaming, StreamNext, Enqueue, SubmitTask, StreamTask, TaskReturns, TaskPanics,
                Callbacker, Dequeue, ReceiveCallback, CallCallback, PutChannel, CallbackerEnds,
                StreamWaits, CloseQueue, StreamWaitEnds, goVars, streamVars
  <2>3. QED
    BY <2>1, <2>2
<1>4. QED
  BY <1>1, <1>2, <1>3 DEF PoolsNext

LEMMA PoolMoves == PoolTypeOK /\ ResultInv /\ [PoolsNext]_allVars => PoolMove
<1> SUFFICES ASSUME PoolTypeOK, ResultInv, [PoolsNext]_allVars
             PROVE  PoolMove
  OBVIOUS
<1>0. use' = use
  BY UserTypes
<1>1. CASE UNCHANGED allVars
  BY <1>1 DEF allVars, resultVars, streamVars, goVars, PoolMove, Submitted
<1>2. CASE Results(Next)
  <2>0. /\ Submitted = {t \in Tasks : gpc[t] = "done"}
        /\ Submitted' = {t \in Tasks : gpc'[t] = "done"}
    BY <1>0, <1>2 DEF Results, Submitted
  <2>1. ASSUME NEW t \in Tasks, NextIndex(t)
        PROVE  PoolMove
    <3>1. gpc[t] = "new" /\ gpc' = [gpc EXCEPT ![t] = "indexed"] /\ UNCHANGED poolVars
      BY <1>2, <2>1 DEF NextIndex, Results, ResultInv, ResultsKept, ResultTypeOK, PoolTypeOK
    <3>2. Submitted' = Submitted
      BY <2>0, <3>1 DEF PoolTypeOK
    <3>3. QED
      BY <3>1, <3>2 DEF PoolMove
  <2>2. ASSUME NEW t \in Tasks, Submit(t)
        PROVE  PoolMove
    <3>1. gpc[t] = "indexed" /\ gpc' = [gpc EXCEPT ![t] = "done"]
          /\ (GoSpawns(t) \/ \E w \in Workers : GoHandsOff(t, w))
      BY <2>2 DEF Submit
    <3>2. t \notin Submitted /\ Submitted' = Submitted \cup {t}
      BY <2>0, <3>1 DEF PoolTypeOK
    <3>3. Submits(t)
      BY <3>1, <3>2 DEF Submits
    <3>4. QED
      BY <3>3 DEF PoolMove
  <2>3. ASSUME NEW w \in Workers, TaskStep(w)
        PROVE  PoolMove
    <3>1. Submitted' = Submitted
      BY <2>0, <2>3
      DEF TaskStep, FReturns, FPanics, PanicCancels, AddErr, ErrorCancels
    <3>2. Works(w) \/ UNCHANGED poolVars
      BY <2>3 DEF TaskStep, FReturns, FPanics, PanicCancels, AddErr, ErrorCancels, Works
    <3>3. QED
      BY <3>1, <3>2 DEF PoolMove
  <2>4. CASE Wait
    <3>1. Submitted' = Submitted /\ Submitted = Tasks /\ WaitCloses
      BY <2>0, <2>4 DEF Wait
    <3>2. QED
      BY <3>1 DEF PoolMove, Waits
  <2>5. CASE WaitReturns
    <3>1. Submitted' = Submitted /\ WaitEnds
      BY <2>0, <2>5 DEF WaitReturns
    <3>2. QED
      BY <3>1 DEF PoolMove, Waits
  <2>6. CASE CallerCancels
    <3>1. Submitted' = Submitted /\ UNCHANGED poolVars
      BY <2>0, <2>6 DEF CallerCancels
    <3>2. QED
      BY <3>1 DEF PoolMove
  <2>7. QED
    BY <1>2, <2>1, <2>2, <2>3, <2>4, <2>5, <2>6 DEF Results, Next
<1>3. CASE Streaming(StreamNext)
  <2>0. /\ Submitted = {t \in Tasks : sgo[t] = "done"}
        /\ Submitted' = {t \in Tasks : sgo'[t] = "done"}
    BY <1>0, <1>3 DEF Streaming, Submitted
  <2>1. ASSUME NEW t \in Tasks, Enqueue(t)
        PROVE  PoolMove
    <3>1. sgo[t] = "new" /\ sgo' = [sgo EXCEPT ![t] = "queued"] /\ UNCHANGED poolVars
      BY <2>1 DEF Enqueue
    <3>2. Submitted' = Submitted
      BY <2>0, <3>1 DEF PoolTypeOK
    <3>3. QED
      BY <3>1, <3>2 DEF PoolMove
  <2>2. ASSUME NEW t \in Tasks, SubmitTask(t)
        PROVE  PoolMove
    <3>1. sgo[t] = "queued" /\ sgo' = [sgo EXCEPT ![t] = "done"]
          /\ (GoSpawns(t) \/ \E w \in Workers : GoHandsOff(t, w))
      BY <2>2 DEF SubmitTask
    <3>2. t \notin Submitted /\ Submitted' = Submitted \cup {t}
      BY <2>0, <3>1 DEF PoolTypeOK
    <3>3. Submits(t)
      BY <3>1, <3>2 DEF Submits
    <3>4. QED
      BY <3>3 DEF PoolMove
  <2>3. ASSUME NEW w \in Workers, StreamTask(w)
        PROVE  PoolMove
    <3>1. Submitted' = Submitted /\ Works(w)
      BY <2>0, <2>3 DEF StreamTask, TaskReturns, TaskPanics, streamVars, goVars, Works
    <3>2. QED
      BY <3>1 DEF PoolMove
  <2>4. CASE Callbacker \/ StreamWaitEnds
    <3>1. sgo' = sgo /\ UNCHANGED poolVars
      BY <2>4 DEF Callbacker, Dequeue, ReceiveCallback, CallCallback, PutChannel,
                  CallbackerEnds, StreamWaitEnds, goVars
    <3>2. Submitted' = Submitted
      BY <2>0, <3>1
    <3>3. QED
      BY <3>1, <3>2 DEF PoolMove
  <2>5. CASE StreamWaits
    <3>1. Submitted' = Submitted /\ Submitted = Tasks /\ WaitCloses
      BY <2>0, <2>5 DEF StreamWaits
    <3>2. QED
      BY <3>1 DEF PoolMove, Waits
  <2>6. CASE CloseQueue
    <3>1. Submitted' = Submitted /\ WaitEnds
      BY <2>0, <2>6 DEF CloseQueue
    <3>2. QED
      BY <3>1 DEF PoolMove, Waits
  <2>7. QED
    BY <1>3, <2>1, <2>2, <2>3, <2>4, <2>5, <2>6 DEF Streaming, StreamNext
<1>4. QED
  BY <1>1, <1>2, <1>3 DEF PoolsNext

(* The worker that GoSpawns starts, and what starting it leaves as it was.  *)
LEMMA SpawnedWorker ==
  ASSUME PoolInv, NEW t \in Tasks \ Submitted
  PROVE  LET off == {w \in Workers : wst[w] = "off"} IN Min(off) \in off
<1> DEFINE off == {w \in Workers : wst[w] = "off"}
<1>1. Started \in SUBSET Tasks /\ Submitted \in SUBSET Tasks
  BY DEF Started, Submitted, Workers, Tasks
<1>2. Cardinality(Submitted) < NumTasks
  BY <1>1, TaskSets, PoolAssumption
<1>3. Started # Tasks
  BY <1>1, <1>2, TaskSets DEF PoolInv, OneStart
<1>4. off # {}
  BY <1>1, <1>3 DEF Started, Workers, Tasks
<1>5. off \in SUBSET Nat
  BY DEF Workers
<1>6. QED
  BY <1>4, <1>5, MinMember

LEMMA StartedWorker ==
  ASSUME PoolInv, NEW t \in Tasks, Submits(t)
  PROVE  \E w \in Workers :
           /\ wst[w] \in {"off", "parked"}
           /\ wst' = [wst EXCEPT ![w] = "run"] /\ wtask' = [wtask EXCEPT ![w] = t]
           /\ runs' = [runs EXCEPT ![t] = @ + 1]
           /\ UNCHANGED <<recovered, waited, tasksClosed>>
           /\ \/ wst[w] = "off" /\ (Limit > 0 => slots < Limit /\ slots' = slots + 1)
                                /\ (Limit = 0 => slots' = slots)
              \/ wst[w] = "parked" /\ slots' = slots
<1>1. CASE GoSpawns(t)
  <2> DEFINE w == Min({v \in Workers : wst[v] = "off"})
  <2>1. w \in Workers /\ wst[w] = "off"
    BY SpawnedWorker DEF Submits
  <2>2. /\ wst' = [wst EXCEPT ![w] = "run"] /\ wtask' = [wtask EXCEPT ![w] = t]
        /\ runs' = [runs EXCEPT ![t] = @ + 1]
        /\ UNCHANGED <<recovered, waited, tasksClosed>>
        /\ (Limit # 0 => slots < Limit /\ slots' = slots + 1) /\ (Limit = 0 => slots' = slots)
    BY <1>1 DEF GoSpawns, Start
  <2> HIDE DEF w
  <2>3. Limit > 0 <=> Limit # 0
    BY PoolAssumption
  <2>4. QED
    BY <2>1, <2>2, <2>3
<1>2. CASE \E w \in Workers : GoHandsOff(t, w)
  BY <1>2 DEF GoHandsOff, Start
<1>3. QED
  BY <1>1, <1>2 DEF Submits

(* Seen from the limiter: a worker takes a token when it starts and gives   *)
(* it back before its panic is kept.                                        *)
LEMMA HoldingFacts ==
  /\ Holding = {w \in Workers : wst[w] \notin {"off", "gone", "recover"}}
  /\ IsFiniteSet(Holding) /\ Cardinality(Holding) \in Nat
<1>1. Holding = {w \in Workers : wst[w] \notin {"off", "gone", "recover"}}
  BY DEF Holding, Live
<1>2. Holding \in SUBSET Tasks
  BY <1>1 DEF Workers, Tasks
<1>3. QED
  BY <1>1, <1>2, TaskSets

LEMMA LimitStep == PoolInv /\ PoolMove => LimitRespected' /\ slots' \in Nat
<1> SUFFICES ASSUME PoolInv, PoolMove
             PROVE  LimitRespected' /\ slots' \in Nat
  OBVIOUS
<1>0. wst \in [Workers -> {"off", "run", "range", "parked", "unwind", "recover", "exit", "gone"}]
      /\ slots \in Nat /\ Limit \in Nat
  BY PoolAssumption DEF PoolInv, PoolTypeOK
<1>1. Holding' = {w \in Workers : wst'[w] \notin {"off", "gone", "recover"}}
  BY DEF Holding, Live
<1>2. ASSUME NEW t \in Tasks, Submits(t)
      PROVE  LimitRespected' /\ slots' \in Nat
  <2>1. PICK w \in Workers :
           /\ wst[w] \in {"off", "parked"} /\ wst' = [wst EXCEPT ![w] = "run"]
           /\ \/ wst[w] = "off" /\ (Limit > 0 => slots < Limit /\ slots' = slots + 1)
                                /\ (Limit = 0 => slots' = slots)
              \/ wst[w] = "parked" /\ slots' = slots
    BY <1>2, StartedWorker
  <2>2. Holding' = Holding \cup {w}
    BY <1>0, <1>1, <2>1, HoldingFacts
  <2>3. w \in Holding <=> wst[w] = "parked"
    BY <2>1, HoldingFacts
  <2>4. Cardinality(Holding') = IF wst[w] = "parked" THEN Cardinality(Holding)
                                ELSE Cardinality(Holding) + 1
    BY <2>2, <2>3, HoldingFacts, FS_AddElement
  <2>5. QED
    BY <1>0, <2>1, <2>4, HoldingFacts DEF PoolInv, LimitRespected
<1>3. ASSUME NEW w \in Workers, Works(w)
      PROVE  LimitRespected' /\ slots' \in Nat
  <2>1. CASE WorkerReleases(w)
    <3>1. /\ wst[w] \in {"unwind", "exit"}
          /\ wst' = [wst EXCEPT ![w] = IF @ = "unwind" THEN "recover" ELSE "gone"]
          /\ slots' = IF Limit = 0 THEN slots ELSE slots - 1
      BY <2>1 DEF WorkerReleases
    <3>2. Holding' = Holding \ {w} /\ w \in Holding
      BY <1>0, <1>1, <3>1, HoldingFacts
    <3>3. Cardinality(Holding') = Cardinality(Holding) - 1 /\ Cardinality(Holding') \in Nat
      <4>1. Cardinality(Holding') = Cardinality(Holding) - 1
        BY <3>2, HoldingFacts, FS_RemoveElement
      <4>2. IsFiniteSet(Holding')
        BY <3>2, HoldingFacts, FS_RemoveElement
      <4>3. QED
        BY <4>1, <4>2, FS_CardinalityType
    <3>4. QED
      BY <1>0, <3>1, <3>3, HoldingFacts DEF PoolInv, LimitRespected
  <2>2. CASE ~WorkerReleases(w)
    <3>1. slots' = slots /\ \E l \in {"range", "unwind", "parked", "exit", "gone"} :
            /\ wst' = [wst EXCEPT ![w] = l]
            /\ wst[w] = "recover" <=> l = "gone" 
            /\ wst[w] \notin {"off", "gone"}
      BY <1>3, <2>2 DEF Works, BodyReturns, BodyPanics, WorkerStep, WorkerParks, WorkerEnds,
                        WorkerRecovers
    <3>2. Holding' = Holding
      BY <1>0, <1>1, <3>1, HoldingFacts
    <3>3. QED
      BY <1>0, <3>1, <3>2 DEF PoolInv, LimitRespected
  <2>3. QED
    BY <2>1, <2>2
<1>4. CASE Waits \/ UNCHANGED poolVars
  <2>1. UNCHANGED <<wst, slots>>
    BY <1>4 DEF Waits, WaitCloses, WaitEnds, poolVars
  <2>2. Holding' = Holding
    BY <1>1, <2>1, HoldingFacts
  <2>3. QED
    BY <1>0, <2>1, <2>2 DEF PoolInv, LimitRespected
<1>5. QED
  BY <1>2, <1>3, <1>4 DEF PoolMove

(* What a step does to the worker that takes it.                            *)
LEMMA WorkingWorker ==
  ASSUME PoolInv, NEW w \in Workers, Works(w)
  PROVE  /\ wst[w] \notin {"off", "gone"} /\ w \in Live
         /\ \E l \in {"range", "parked", "unwind", "recover", "exit", "gone"} :
              wst' = [wst EXCEPT ![w] = l] /\ (l = "recover" => wst[w] = "unwind")
                                           /\ (l = "unwind" => wst[w] = "run")
         /\ UNCHANGED <<wtask, runs, waited>>
         /\ IF wst[w] = "recover"
            THEN recovered' = IF recovered = None THEN wtask[w] ELSE recovered
            ELSE recovered' = recovered
<1>1. CASE WorkerReleases(w)
  BY <1>1 DEF WorkerReleases, Live
<1>2. CASE WorkerRecovers(w)
  BY <1>2 DEF WorkerRecovers, Live
<1>3. CASE BodyReturns(w) \/ BodyPanics(w) \/ WorkerParks(w) \/ WorkerEnds(w)
  BY <1>3 DEF BodyReturns, BodyPanics, WorkerParks, WorkerEnds, Live
<1>4. QED
  BY <1>1, <1>2, <1>3 DEF Works, WorkerStep

LEMMA WaitingStep ==
  Waits \/ UNCHANGED poolVars => UNCHANGED <<wst, wtask, slots, recovered, runs>>
  BY DEF Waits, WaitCloses, WaitEnds, poolVars

LEMMA PoolTypeStep == PoolInv /\ PoolMove /\ slots' \in Nat
                        /\ use' = use
                        /\ gpc' \in [Tasks -> {"new", "indexed", "done"}]
                        /\ sgo' \in [Tasks -> {"new", "queued", "done"}] => PoolTypeOK'
<1> SUFFICES ASSUME PoolInv, PoolMove, slots' \in Nat, use' = use,
                    gpc' \in [Tasks -> {"new", "indexed", "done"}],
                    sgo' \in [Tasks -> {"new", "queued", "done"}]
             PROVE  PoolTypeOK'
  OBVIOUS
<1>0. PoolTypeOK /\ Submitted \in SUBSET Tasks
  BY DEF PoolInv, Submitted
<1>1. ASSUME NEW t \in Tasks, Submits(t)
      PROVE  PoolTypeOK'
  <2>1. PICK w \in Workers :
           /\ wst' = [wst EXCEPT ![w] = "run"] /\ wtask' = [wtask EXCEPT ![w] = t]
           /\ runs' = [runs EXCEPT ![t] = @ + 1]
           /\ UNCHANGED <<recovered, waited>>
    BY <1>1, StartedWorker
  <2>2. t \in 0 .. NumTasks
    BY PoolAssumption DEF Tasks
  <2>3. wtask' \in [Workers -> 0 .. NumTasks]
    BY <1>0, <2>1, <2>2 DEF PoolTypeOK
  <2>4. runs' \in [Tasks -> Nat]
    BY <1>0, <2>1 DEF PoolTypeOK
  <2>5. QED
    BY <1>0, <2>1, <2>3, <2>4 DEF PoolTypeOK
<1>2. ASSUME NEW w \in Workers, Works(w)
      PROVE  PoolTypeOK'
  <2>1. wtask[w] \in 0 .. NumTasks
    BY <1>0 DEF PoolTypeOK
  <2>2. recovered' \in 0 .. NumTasks
    BY <1>0, <1>2, <2>1, WorkingWorker DEF PoolTypeOK
  <2>3. wst' \in [Workers -> {"off", "run", "range", "parked", "unwind", "recover",
                              "exit", "gone"}]
    BY <1>0, <1>2, WorkingWorker DEF PoolTypeOK
  <2>4. UNCHANGED <<wtask, runs, waited>>
    BY <1>2, WorkingWorker
  <2>5. QED
    BY <1>0, <2>2, <2>3, <2>4 DEF PoolTypeOK
<1>3. CASE Waits \/ UNCHANGED poolVars
  <2>1. waited' \in {"no", "waiting", "returned", "panicked"}
    BY <1>0, <1>3 DEF PoolTypeOK, Waits, WaitCloses, WaitEnds, poolVars
  <2>2. QED
    BY <1>0, <1>3, <2>1, WaitingStep DEF PoolTypeOK
<1>4. QED
  BY <1>1, <1>2, <1>3 DEF PoolMove

LEMMA StartStep == PoolInv /\ PoolMove => OneStart' /\ OwnTask'
<1> SUFFICES ASSUME PoolInv, PoolMove
             PROVE  OneStart' /\ OwnTask'
  OBVIOUS
<1>0. /\ wst \in [Workers -> {"off", "run", "range", "parked", "unwind", "recover", "exit", "gone"}]
      /\ wtask \in [Workers -> 0 .. NumTasks] /\ runs \in [Tasks -> Nat]
      /\ Started \in SUBSET Tasks /\ Submitted \in SUBSET Tasks
  BY DEF PoolInv, PoolTypeOK, Started, Submitted, Workers, Tasks
<1>1. ASSUME NEW t \in Tasks, Submits(t)
      PROVE  OneStart' /\ OwnTask'
  <2>1. PICK w \in Workers :
           /\ wst' = [wst EXCEPT ![w] = "run"] /\ wtask' = [wtask EXCEPT ![w] = t]
           /\ runs' = [runs EXCEPT ![t] = @ + 1]
    BY <1>1, StartedWorker
  <2>2. t \notin Submitted /\ Submitted' = Submitted \cup {t}
    BY <1>1 DEF Submits
  <2>3. \A u \in Tasks : runs'[u] = IF u \in Submitted' THEN 1 ELSE 0
    BY <1>0, <2>1, <2>2 DEF PoolInv, OneStart
  <2>4. Started' = Started \cup {w}
    BY <1>0, <2>1 DEF Started
  <2>5. Cardinality(Started') <= Cardinality(Started) + 1
        /\ Cardinality(Submitted') = Cardinality(Submitted) + 1
    <3>1. IsFiniteSet(Started) /\ IsFiniteSet(Submitted) /\ Cardinality(Started) \in Nat
      BY <1>0, TaskSets
    <3>2. Cardinality(Started') = IF w \in Started THEN Cardinality(Started)
                                  ELSE Cardinality(Started) + 1
      BY <2>4, <3>1, FS_AddElement
    <3>3. Cardinality(Submitted') = Cardinality(Submitted) + 1
      BY <2>2, <3>1, FS_AddElement
    <3>4. QED
      BY <3>1, <3>2, <3>3
  <2>6. Cardinality(Started') <= Cardinality(Submitted')
    <3>1. Started' \in SUBSET Tasks
      BY <1>0, <2>4 DEF Workers, Tasks
    <3>2. Cardinality(Started') \in Nat /\ Cardinality(Started) \in Nat
          /\ Cardinality(Submitted) \in Nat
      BY <1>0, <3>1, TaskSets
    <3>3. QED
      BY <2>5, <3>2 DEF PoolInv, OneStart
  <2>7. OneStart'
    BY <2>3, <2>6 DEF OneStart
  <2>8. OwnTask'
    BY <1>0, <2>1, <2>2 DEF PoolInv, OwnTask
  <2>9. QED
    BY <2>7, <2>8
<1>2. ASSUME NEW w \in Workers, Works(w), Submitted' = Submitted
      PROVE  OneStart' /\ OwnTask'
  <2>1. PICK l \in {"range", "parked", "unwind", "recover", "exit", "gone"} :
          wst' = [wst EXCEPT ![w] = l] /\ (l = "recover" => wst[w] = "unwind")
                                       /\ (l = "unwind" => wst[w] = "run")
    BY <1>2, WorkingWorker
  <2>2. UNCHANGED <<wtask, runs>> /\ wst[w] # "off"
    BY <1>2, WorkingWorker
  <2>3. Started' = Started
    BY <1>0, <2>1, <2>2 DEF Started
  <2>4. OneStart'
    BY <1>2, <2>2, <2>3 DEF PoolInv, OneStart
  <2>5. \A v \in Workers : /\ wst'[v] = "run" => wst[v] = "run"
                           /\ wst'[v] \in {"run", "unwind", "recover"} =>
                                wst[v] \in {"run", "unwind", "recover"}
    BY <1>0, <2>1
  <2>6. OwnTask'
    BY <1>2, <2>2, <2>5 DEF PoolInv, OwnTask
  <2>7. QED
    BY <2>4, <2>6
<1>3. ASSUME Waits \/ UNCHANGED poolVars, Submitted' = Submitted
      PROVE  OneStart' /\ OwnTask'
  <2>1. Started' = Started
    BY <1>3, WaitingStep DEF Started
  <2>2. QED
    BY <1>3, <2>1, WaitingStep DEF PoolInv, OneStart, OwnTask
<1>4. QED
  BY <1>1, <1>2, <1>3 DEF PoolMove

LEMMA LastStep == PoolInv /\ PoolMove => WaitIsLast'
<1> SUFFICES ASSUME PoolInv, PoolMove
             PROVE  WaitIsLast'
  OBVIOUS
<1>1. ASSUME NEW t \in Tasks, Submits(t)
      PROVE  WaitIsLast'
  <2>1. waited = "no"
    BY <1>1 DEF Submits, PoolInv, WaitIsLast
  <2>2. waited' = waited
    BY <1>1, StartedWorker
  <2>3. QED
    BY <2>1, <2>2 DEF WaitIsLast, Ended
<1>2. ASSUME NEW w \in Workers, Works(w), Submitted' = Submitted
      PROVE  WaitIsLast'
  <2>1. w \in Live /\ waited' = waited
    BY <1>2, WorkingWorker
  <2>2. ~Ended
    BY <2>1 DEF PoolInv, WaitIsLast
  <2>3. QED
    BY <1>2, <2>1, <2>2 DEF PoolInv, WaitIsLast, Ended
<1>3. ASSUME Waits \/ UNCHANGED poolVars, Submitted' = Submitted
      PROVE  WaitIsLast'
  <2>1. UNCHANGED <<wst, recovered>>
    BY <1>3, WaitingStep
  <2>2. Live' = Live
    BY <2>1 DEF Live
  <2>3. \/ waited' = "waiting" /\ Submitted = Tasks
        \/ waited' = (IF recovered = None THEN "returned" ELSE "panicked")
           /\ Live = {} /\ waited = "waiting"
        \/ waited' = waited
    BY <1>3 DEF Waits, WaitCloses, WaitEnds, poolVars
  <2>4. QED
    BY <1>3, <2>1, <2>2, <2>3 DEF PoolInv, WaitIsLast, Ended
<1>4. QED
  BY <1>1, <1>2, <1>3 DEF PoolMove

LEMMA PoolStep == PoolInv /\ ResultInv /\ [PoolsNext]_allVars => PoolInv'
<1> SUFFICES ASSUME PoolInv, ResultInv, [PoolsNext]_allVars
             PROVE  PoolInv'
  OBVIOUS
<1>1. PoolMove
  BY PoolMoves DEF PoolInv
<1>2. PoolTypeOK'
  BY <1>1, PoolTypeStep, LimitStep, UserTypes DEF PoolInv
<1>3. QED
  BY <1>1, <1>2, StartStep, LastStep, LimitStep DEF PoolInv

-----------------------------------------------------------------------------
(* The ResultContextPool *)

LEMMA CollectSame == UNCHANGED <<results, errored, opts>> => Collect' = Collect
  BY SMT DEF Collect, opts

RInv == PoolInv /\ use = "results" /\ ResultTypeOK /\ ResultsKept /\ Cause

(* A panic is not forgotten: what recovers it keeps it, or another.         *)
LEMMA PanicStays ==
  ASSUME RInv, Results(Next), Panicked
  PROVE  Panicked'
<1>0. /\ wst \in [Workers -> {"off", "run", "range", "parked", "unwind", "recover", "exit", "gone"}]
      /\ bpc \in [Workers -> {"f", "fail", "cancel", "panicCancel"}]
      /\ \A v \in Workers : bpc[v] # "f" => wst[v] = "run"
  BY DEF RInv, PoolInv, PoolTypeOK, ResultTypeOK
<1>1. ASSUME NEW t \in Tasks, NextIndex(t)
      PROVE  Panicked'
  BY <1>1 DEF NextIndex, Panicked, poolVars, bodyVars
<1>2. ASSUME NEW t \in Tasks, Submit(t)
      PROVE  Panicked'
  <2>1. Submits(t)
    <3>1. gpc[t] = "indexed" /\ gpc' = [gpc EXCEPT ![t] = "done"] /\ use' = use
          /\ (GoSpawns(t) \/ \E w \in Workers : GoHandsOff(t, w))
      BY <1>2 DEF Submit, Results
    <3>2. t \notin Submitted /\ Submitted' = Submitted \cup {t}
      BY <3>1 DEF Submitted, RInv, PoolInv, PoolTypeOK
    <3>3. QED
      BY <3>1, <3>2 DEF Submits
  <2>2. PICK w \in Workers :
          /\ wst[w] \in {"off", "parked"}
          /\ wst' = [wst EXCEPT ![w] = "run"] /\ recovered' = recovered
    BY <2>1, StartedWorker DEF RInv
  <2>3. bpc' = bpc
    BY <1>2 DEF Submit, bodyVars
  <2>4. QED
    BY <1>0, <2>2, <2>3 DEF Panicked
<1>3. ASSUME NEW w \in Workers, TaskStep(w)
      PROVE  Panicked'
  <2>1. CASE bpc' = bpc /\ WorkerStep(w)
    <3>1. Works(w)
      BY <2>1 DEF Works
    <3>2. PICK l \in {"range", "parked", "unwind", "recover", "exit", "gone"} :
              wst' = [wst EXCEPT ![w] = l]
      BY <3>1, WorkingWorker DEF RInv
    <3>3. CASE recovered # None
      BY <3>1, <3>3, WorkingWorker DEF RInv, Panicked
    <3>4. CASE recovered = None /\ wst[w] = "recover"
      <4>1. wtask[w] \in Tasks
        BY <3>4 DEF RInv, PoolInv, OwnTask, Submitted
      <4>2. recovered' = wtask[w]
        BY <3>1, <3>4, WorkingWorker DEF RInv
      <4>3. QED
        BY <4>1, <4>2 DEF Panicked, Tasks, None
    <3>5. CASE wst[w] = "unwind"
      <4>1. wst'[w] = "recover"
        BY <1>0, <2>1, <3>5 DEF WorkerStep, WorkerParks, WorkerEnds, WorkerReleases,
                                WorkerRecovers
      <4>2. QED
        BY <4>1 DEF Panicked
    <3>6. CASE recovered = None /\ wst[w] \notin {"unwind", "recover"}
      <4>1. PICK v \in Workers : wst[v] \in {"unwind", "recover"} \/ bpc[v] = "panicCancel"
        BY <3>6 DEF Panicked
      <4>2. wst'[v] \in {"unwind", "recover"} \/ bpc'[v] = "panicCancel"
        BY <1>0, <2>1, <3>2, <3>6, <4>1
      <4>3. QED
        BY <4>2 DEF Panicked
    <3>7. QED
      BY <3>3, <3>4, <3>5, <3>6
  <2>2. CASE PanicCancels(w)
    <3>1. wst'[w] = "unwind"
      BY <1>0, <2>2 DEF PanicCancels, BodyPanics
    <3>2. QED
      BY <3>1 DEF Panicked
  <2>3. CASE FPanics(w)
    <3>1. wst'[w] = "unwind" \/ bpc'[w] = "panicCancel"
      BY <1>0, <2>3 DEF FPanics, BodyPanics, Step
    <3>2. QED
      BY <3>1 DEF Panicked
  <2>4. CASE (\E o \in {"ok", "own", "ctx"} : FReturns(w, o)) \/ AddErr(w) \/ ErrorCancels(w)
    <3>1. /\ wst[w] = "run" /\ bpc[w] # "panicCancel" /\ recovered' = recovered
          /\ \E l \in {"range", "run"} : wst' = [wst EXCEPT ![w] = l]
          /\ \E b \in {"f", "fail", "cancel"} : bpc' = [bpc EXCEPT ![w] = b]
      <4>1. /\ wst[w] = "run" /\ bpc[w] # "panicCancel"
            /\ \E b \in {"f", "fail", "cancel"} : bpc' = [bpc EXCEPT ![w] = b]
        BY <2>4 DEF FReturns, AddErr, ErrorCancels, Step
      <4>2. UNCHANGED poolVars \/ BodyReturns(w)
        BY <2>4 DEF FReturns, AddErr, ErrorCancels
      <4>3. CASE UNCHANGED poolVars
        <5>1. wst' = [wst EXCEPT ![w] = "run"] /\ recovered' = recovered
          BY <1>0, <4>1, <4>3 DEF poolVars
        <5>2. QED
          BY <4>1, <5>1
      <4>4. QED
        BY <4>1, <4>2, <4>3 DEF BodyReturns
    <3>2. QED
      BY <1>0, <3>1 DEF Panicked
  <2>5. QED
    BY <1>3, <2>1, <2>2, <2>3, <2>4 DEF TaskStep, bodyVars
<1>4. CASE Wait \/ WaitReturns \/ CallerCancels
  BY <1>4 DEF Wait, WaitReturns, CallerCancels, WaitCloses, WaitEnds, Panicked, bodyVars, poolVars
<1>5. QED
  BY <1>1, <1>2, <1>3, <1>4 DEF Results, Next

(* What RInv says of a worker inside its task.                              *)
LEMMA RunningTask ==
  ASSUME RInv, NEW w \in Workers, wst[w] = "run"
  PROVE  /\ wtask[w] \in Submitted /\ wtask[w] \in Tasks /\ wtask[w] <= aggLen
         /\ ~Ended /\ w \in Live
<1>1. wtask[w] \in Submitted
  BY DEF RInv, PoolInv, OwnTask
<1>2. w \in Live
  BY DEF Live
<1>3. wtask[w] \in Tasks /\ gpc[wtask[w]] = "done"
  BY <1>1 DEF RInv, Submitted
<1>4. QED
  BY <1>1, <1>2, <1>3 DEF RInv, PoolInv, WaitIsLast, ResultsKept

(* How a step inside a task changes its worker.                             *)
LEMMA TaskMoves ==
  ASSUME RInv, NEW w \in Workers, wst[w] = "run", UNCHANGED poolVars \/ BodyReturns(w)
  PROVE  /\ \E l \in {"run", "range"} : wst' = [wst EXCEPT ![w] = l]
         /\ UNCHANGED <<wtask, waited, recovered>>
<1>1. CASE UNCHANGED poolVars
  <2>1. wst' = [wst EXCEPT ![w] = "run"]
    BY <1>1 DEF poolVars, RInv, PoolInv, PoolTypeOK
  <2>2. QED
    BY <1>1, <2>1 DEF poolVars
<1>2. CASE BodyReturns(w)
  BY <1>2 DEF BodyReturns
<1>3. QED
  BY <1>1, <1>2

LEMMA IndexStep ==
  ASSUME RInv, NEW t \in Tasks, Results(NextIndex(t))
  PROVE  (ResultTypeOK /\ ResultsKept /\ Cause)'
<1>0. /\ t = aggLen + 1 /\ aggLen' = t /\ gpc' = [gpc EXCEPT ![t] = "indexed"]
      /\ UNCHANGED <<poolVars, opts, results, errored, errs, cancelled, bodyVars, collected, use>>
      /\ gpc \in [Tasks -> {"new", "indexed", "done"}]
      /\ use = "results"
  BY DEF Results, NextIndex, RInv, PoolInv, PoolTypeOK
<1>1. aggLen' \in 0 .. NumTasks
  BY <1>0, PoolAssumption DEF Tasks
<1>2. ResultTypeOK'
  BY <1>0, <1>1 DEF RInv, ResultTypeOK, opts, poolVars, bodyVars
<1>3. gpc[t] = "new"
  BY <1>0 DEF RInv, ResultsKept, ResultTypeOK, Tasks
<1>4. Submitted' = Submitted /\ Panicked' = Panicked /\ Ended' = Ended
  BY <1>0, <1>3 DEF Submitted, Panicked, Ended, poolVars, bodyVars
<1>5. \A u \in Tasks : gpc'[u] # "new" <=> u <= aggLen'
  <2>1. aggLen \in Nat /\ \A u \in Tasks : u \in Nat
    BY DEF RInv, ResultTypeOK, Tasks
  <2>2. \A u \in Tasks : gpc[u] # "new" <=> u <= aggLen
    BY DEF RInv, ResultsKept
  <2>3. QED
    BY <1>0, <2>1, <2>2
<1>6. Len(results') <= aggLen'
  BY <1>0 DEF RInv, ResultsKept, ResultTypeOK
<1>7. waited' = "returned" => collected' = Collect'
  BY <1>0, CollectSame DEF poolVars, RInv, ResultsKept
<1>8. ResultsKept'
  BY <1>0, <1>4, <1>5, <1>6, <1>7 DEF RInv, ResultsKept, poolVars, bodyVars
<1>9. Cause'
  BY <1>0, <1>4 DEF RInv, Cause, FirstErrorIsCause, poolVars, bodyVars, opts
<1>10. QED
  BY <1>2, <1>8, <1>9

LEMMA SubmitStep ==
  ASSUME RInv, NEW t \in Tasks, Results(Submit(t)), Panicked => Panicked'
  PROVE  (ResultTypeOK /\ ResultsKept /\ Cause)'
<1>0. /\ gpc[t] = "indexed" /\ gpc' = [gpc EXCEPT ![t] = "done"]
      /\ UNCHANGED <<opts, aggVars, errs, cancelled, bodyVars, collected, use>>
      /\ gpc \in [Tasks -> {"new", "indexed", "done"}]
      /\ use = "results"
  BY DEF Results, Submit, RInv, PoolInv, PoolTypeOK
<1>1. t \notin Submitted /\ Submitted' = Submitted \cup {t}
  BY <1>0 DEF Submitted
<1>2. Submits(t)
  BY <1>0, <1>1 DEF Results, Submit, Submits
<1>3. PICK w \in Workers :
        /\ wst[w] \in {"off", "parked"} /\ wst' = [wst EXCEPT ![w] = "run"]
        /\ wtask' = [wtask EXCEPT ![w] = t] /\ UNCHANGED <<recovered, waited>>
  BY <1>2, StartedWorker DEF RInv
<1>4. /\ wst \in [Workers -> {"off", "run", "range", "parked", "unwind", "recover", "exit", "gone"}]
      /\ wtask \in [Workers -> 0 .. NumTasks]
      /\ \A v \in Workers : bpc[v] # "f" => wst[v] = "run"
  BY DEF RInv, PoolInv, PoolTypeOK, ResultTypeOK
<1>5. ~Ended /\ ~Ended'
  BY <1>1, <1>3 DEF RInv, PoolInv, WaitIsLast, Ended
<1>6. ResultTypeOK'
  BY <1>0, <1>3, <1>4 DEF RInv, ResultTypeOK, opts, aggVars, bodyVars
<1>7. \A u \in Submitted' :
         \/ u <= Len(results') /\ results'[u] = u
         \/ \E v \in Workers : wst'[v] = "run" /\ bpc'[v] = "f" /\ wtask'[v] = u
         \/ Panicked'
  <2>1. wst'[w] = "run" /\ bpc'[w] = "f" /\ wtask'[w] = t
    BY <1>0, <1>3, <1>4 DEF bodyVars
  <2>2. \A v \in Workers : wst[v] = "run" => v # w
    BY <1>3
  <2>3. \A v \in Workers \ {w} : wst'[v] = wst[v] /\ wtask'[v] = wtask[v] /\ bpc'[v] = bpc[v]
    BY <1>0, <1>3, <1>4 DEF bodyVars
  <2>4. QED
    BY <1>0, <1>1, <2>1, <2>2, <2>3 DEF RInv, ResultsKept, aggVars
<1>8. \A u \in Tasks : gpc'[u] # "new" <=> gpc[u] # "new"
  BY <1>0
<1>9. ResultsKept'
  BY <1>0, <1>5, <1>7, <1>8 DEF RInv, ResultsKept, aggVars, Ended
<1>10. Cause'
  <2>1. FirstErrorIsCause'
    BY <1>0 DEF RInv, Cause, FirstErrorIsCause
  <2>2. QED
    BY <1>0, <1>5, <2>1 DEF RInv, Cause, bodyVars
<1>11. QED
  BY <1>6, <1>9, <1>10

LEMMA ReturnStep ==
  ASSUME RInv, NEW w \in Workers, NEW o \in {"ok", "own", "ctx"}, Results(FReturns(w, o)),
         Panicked => Panicked'
  PROVE  (ResultTypeOK /\ ResultsKept /\ Cause)'
<1> DEFINE i == wtask[w]
           size == IF i > Len(results) THEN aggLen ELSE Len(results)
<1>0. /\ wst[w] = "run" /\ bpc[w] = "f"
      /\ \E b \in {"f", "fail"} : bpc' = [bpc EXCEPT ![w] = b]
      /\ o = "ctx" => cancelled # "no"
      /\ outcome' = [outcome EXCEPT ![w] = o]
      /\ UNCHANGED <<opts, gpc, aggLen, errs, cancelled, collected, use>>
      /\ use = "results"
      /\ results' = [k \in 1 .. size |->
              IF k = i THEN i ELSE IF k <= Len(results) THEN results[k] ELSE None]
      /\ errored' = IF o = "ok" THEN errored ELSE errored \cup {i}
      /\ IF o = "ok" THEN BodyReturns(w) ELSE bpc' = [bpc EXCEPT ![w] = "fail"] /\ UNCHANGED poolVars
  BY DEF Results, FReturns, Step
<1>1. i \in Submitted /\ i \in Tasks /\ i <= aggLen /\ ~Ended
  BY <1>0, RunningTask
<1>2. /\ wst \in [Workers -> {"off", "run", "range", "parked", "unwind", "recover", "exit", "gone"}]
      /\ wtask \in [Workers -> 0 .. NumTasks]
      /\ aggLen \in Nat /\ aggLen <= NumTasks /\ results \in Seq(0 .. NumTasks)
      /\ Len(results) \in Nat /\ Len(results) <= aggLen /\ NumTasks \in Nat
      /\ bpc \in [Workers -> {"f", "fail", "cancel", "panicCancel"}]
      /\ \A v \in Workers : bpc[v] # "f" => wst[v] = "run"
  BY PoolAssumption DEF RInv, PoolInv, PoolTypeOK, ResultTypeOK, ResultsKept
<1>3. PICK l \in {"run", "range"} : wst' = [wst EXCEPT ![w] = l]
  BY <1>0, TaskMoves
<1>4. UNCHANGED <<wtask, waited, recovered>> /\ ~Ended'
  BY <1>0, <1>1, TaskMoves DEF Ended
<1>5. /\ size \in Nat /\ i <= size /\ Len(results) <= size /\ size <= aggLen
  BY <1>1, <1>2 DEF Tasks
<1>6. /\ Len(results') = size
      /\ \A k \in 1 .. size : results'[k] =
           IF k = i THEN i ELSE IF k <= Len(results) THEN results[k] ELSE None
      /\ results' \in Seq(0 .. NumTasks)
  <2>1. \A k \in 1 .. Len(results) : results[k] \in 0 .. NumTasks
    BY <1>2, ElementOfSeq
  <2>2. None \in 0 .. NumTasks /\ i \in 0 .. NumTasks
    BY <1>1, <1>2 DEF None, Tasks
  <2> HIDE DEF i, size
  <2>3. \A k \in 1 .. size : ~(k <= Len(results)) \/ k \in 1 .. Len(results)
    BY <1>5, <1>2
  <2>4. results' \in [1 .. size -> 0 .. NumTasks]
    BY <1>0, <2>1, <2>2, <2>3
  <2>5. results' \in Seq(0 .. NumTasks)
    BY <1>5, <2>4, SeqDef
  <2>6. Len(results') \in Nat /\ 1 .. Len(results') = 1 .. size
    BY <2>4, <2>5, LenProperties
  <2>7. Len(results') = size
    BY <1>5, <2>6
  <2>8. QED
    BY <1>0, <2>5, <2>7
<1>7. ResultTypeOK'
  <2>1. bpc' \in [Workers -> {"f", "fail", "cancel", "panicCancel"}]
    BY <1>0, <1>2
  <2>2. outcome' \in [Workers -> {"ok", "own", "ctx"}]
    BY <1>0 DEF RInv, ResultTypeOK
  <2>3. \A v \in Workers : bpc'[v] # "f" => wst'[v] = "run"
    <3>1. CASE o = "ok"
      <4>1. bpc' = [bpc EXCEPT ![w] = "f"]
        BY <3>1 DEF Results, FReturns, Step
      <4>2. QED
        BY <1>2, <1>3, <4>1
    <3>2. CASE o # "ok"
      BY <1>0, <1>2, <3>2 DEF poolVars
    <3>3. QED
      BY <3>1, <3>2
  <2>4. errored' \in SUBSET Tasks
    BY <1>0, <1>1 DEF RInv, ResultTypeOK
  <2>5. QED
    BY <1>0, <1>6, <2>1, <2>2, <2>3, <2>4 DEF RInv, ResultTypeOK, opts
<1>8. \A k \in 1 .. Len(results') : results'[k] \in {k, None}
  <2>1. \A k \in 1 .. Len(results) : results[k] \in {k, None}
    BY DEF RInv, ResultsKept
  <2> HIDE DEF i, size
  <2>2. SUFFICES ASSUME NEW k \in 1 .. size
                 PROVE  results'[k] \in {k, None}
    BY <1>6
  <2>3. k <= Len(results) => k \in 1 .. Len(results)
    BY <1>2, <1>5
  <2>4. QED
    BY <1>6, <2>1, <2>3
<1>9. Submitted' = Submitted
  BY <1>0 DEF Submitted
<1>10. \A u \in Submitted' :
         \/ u <= Len(results') /\ results'[u] = u
         \/ \E v \in Workers : wst'[v] = "run" /\ bpc'[v] = "f" /\ wtask'[v] = u
         \/ Panicked'
  <2> SUFFICES ASSUME NEW u \in Submitted, ~Panicked'
               PROVE  \/ u <= Len(results') /\ results'[u] = u
                      \/ \E v \in Workers : wst'[v] = "run" /\ bpc'[v] = "f" /\ wtask'[v] = u
    BY <1>9
  <2>0. u \in Nat /\ u >= 1
    BY DEF Submitted, Tasks
  <2>1. CASE u = i
    BY <1>5, <1>6, <2>0, <2>1
  <2>2. CASE u <= Len(results) /\ results[u] = u
    <3> HIDE DEF i, size
    <3>1. u \in 1 .. size
      BY <1>2, <1>5, <2>0, <2>2
    <3>2. QED
      BY <1>5, <1>6, <2>2, <3>1
  <2>3. CASE u # i /\ \E v \in Workers : wst[v] = "run" /\ bpc[v] = "f" /\ wtask[v] = u
    BY <1>0, <1>2, <1>3, <1>4, <2>3
  <2>4. QED
    BY <2>1, <2>2, <2>3 DEF RInv, ResultsKept
<1>11. Len(results') <= aggLen'
  BY <1>0, <1>5, <1>6
<1>12. ResultsKept'
  BY <1>0, <1>4, <1>8, <1>10, <1>11 DEF RInv, ResultsKept, Ended
<1>13. \A v \in Workers : /\ bpc'[v] = "fail" /\ outcome'[v] = "ctx" => cancelled' # "no"
                          /\ bpc'[v] = "cancel" => errs' # <<>>
  <2>1. outcome \in [Workers -> {"ok", "own", "ctx"}]
    BY DEF RInv, ResultTypeOK
  <2>2. outcome'[w] = o
    BY <1>0, <2>1
  <2>3. bpc'[w] # "cancel"
    BY <1>0, <1>2
  <2>4. \A v \in Workers \ {w} : outcome'[v] = outcome[v] /\ bpc'[v] = bpc[v]
    BY <1>0, <1>2, <2>1
  <2>5. QED
    BY <1>0, <2>2, <2>3, <2>4 DEF RInv, Cause
<1>14. FirstErrorIsCause'
  BY <1>0 DEF RInv, Cause, FirstErrorIsCause
<1>15. Cause'
  BY <1>0, <1>1, <1>13, <1>14 DEF RInv, Cause
<1>16. QED
  BY <1>7, <1>12, <1>15

(* A panic, or the step of a worker outside its task.                       *)
LEMMA PanicStep ==
  ASSUME RInv, NEW w \in Workers, Results(FPanics(w) \/ PanicCancels(w))
  PROVE  (ResultTypeOK /\ ResultsKept /\ Cause)'
<1>0. /\ wst \in [Workers -> {"off", "run", "range", "parked", "unwind", "recover", "exit", "gone"}]
      /\ bpc \in [Workers -> {"f", "fail", "cancel", "panicCancel"}]
      /\ \A v \in Workers : bpc[v] # "f" => wst[v] = "run"
      /\ use = "results"
  BY DEF RInv, PoolInv, PoolTypeOK, ResultTypeOK
<1>1. /\ UNCHANGED <<opts, gpc, aggVars, errs, outcome, collected, use, waited>>
      /\ cancelled' = IF cancelled = "no" /\ cancelled' # "no" THEN "panic" ELSE cancelled
      /\ wst[w] = "run"
      /\ \/ wst' = wst /\ bpc' = [bpc EXCEPT ![w] = "panicCancel"]
         \/ wst' = [wst EXCEPT ![w] = "unwind"] /\ bpc' = [bpc EXCEPT ![w] = "f"]
  <2>1. CASE FPanics(w) /\ cancelOnError
    BY <2>1 DEF Results, FPanics, Step, poolVars
  <2>2. CASE FPanics(w) /\ ~cancelOnError
    <3>1. bpc' = [bpc EXCEPT ![w] = "f"]
      BY <1>0, <2>2 DEF Results, FPanics
    <3>2. QED
      BY <2>2, <3>1 DEF Results, FPanics, BodyPanics
  <2>3. CASE PanicCancels(w)
    BY <2>3 DEF Results, PanicCancels, BodyPanics, Cancel
  <2>4. QED
    BY <2>1, <2>2, <2>3 DEF Results
<1>2. Panicked' /\ ~Ended /\ ~Ended'
  <2>1. Panicked'
    BY <1>0, <1>1 DEF Panicked
  <2>2. ~Ended
    BY <1>1, RunningTask
  <2>3. QED
    BY <1>1, <2>1, <2>2 DEF Ended
<1>3. ResultTypeOK'
  BY <1>0, <1>1 DEF RInv, ResultTypeOK, opts, aggVars
<1>4. ResultsKept'
  BY <1>1, <1>2 DEF RInv, ResultsKept, Ended, aggVars
<1>5. \A v \in Workers : bpc'[v] \in {"fail", "cancel"} => bpc'[v] = bpc[v]
  BY <1>0, <1>1
<1>6. FirstErrorIsCause'
  BY <1>1 DEF RInv, Cause, FirstErrorIsCause
<1>7. Cause'
  <2>1. cancelled # "no" => cancelled' # "no"
    BY <1>1
  <2>2. errs' = errs /\ outcome' = outcome
    BY <1>1
  <2>3. \A v \in Workers : /\ bpc'[v] = "fail" /\ outcome'[v] = "ctx" => cancelled' # "no"
                           /\ bpc'[v] = "cancel" => errs' # <<>>
    BY <1>5, <2>1, <2>2 DEF RInv, Cause
  <2>4. cancelled' # "wait"
    BY <1>1, <1>2 DEF RInv, Cause
  <2>5. QED
    BY <1>6, <2>3, <2>4 DEF Cause
<1>8. QED
  BY <1>3, <1>4, <1>7

LEMMA ErrorStep ==
  ASSUME RInv, NEW w \in Workers, Results(AddErr(w) \/ ErrorCancels(w)), Panicked => Panicked'
  PROVE  (ResultTypeOK /\ ResultsKept /\ Cause)'
<1>0. /\ wst \in [Workers -> {"off", "run", "range", "parked", "unwind", "recover", "exit", "gone"}]
      /\ bpc \in [Workers -> {"f", "fail", "cancel", "panicCancel"}]
      /\ \A v \in Workers : bpc[v] # "f" => wst[v] = "run"
      /\ use = "results" /\ errs \in Seq(Tasks \X {"ok", "own", "ctx"})
      /\ outcome \in [Workers -> {"ok", "own", "ctx"}]
  BY DEF RInv, PoolInv, PoolTypeOK, ResultTypeOK
<1>1. /\ UNCHANGED <<opts, gpc, aggVars, outcome, collected, use>>
      /\ wst[w] = "run" /\ bpc[w] \in {"fail", "cancel"}
      /\ \E b \in {"f", "cancel"} : bpc' = [bpc EXCEPT ![w] = b]
      /\ UNCHANGED poolVars \/ BodyReturns(w)
      /\ \/ bpc[w] = "fail" /\ cancelled' = cancelled
            /\ errs' = Append(errs, <<wtask[w], outcome[w]>>)
         \/ bpc[w] = "cancel" /\ errs' = errs
            /\ cancelled' = (IF cancelled = "no" THEN "error" ELSE cancelled)
            /\ bpc' = [bpc EXCEPT ![w] = "f"]
      /\ \/ BodyReturns(w) /\ bpc' = [bpc EXCEPT ![w] = "f"]
         \/ UNCHANGED poolVars /\ bpc' = [bpc EXCEPT ![w] = "cancel"]
  <2>1. CASE AddErr(w) /\ cancelOnError
    BY <2>1 DEF Results, AddErr, Step
  <2>2. CASE AddErr(w) /\ ~cancelOnError
    BY <2>2 DEF Results, AddErr, Step
  <2>3. CASE ErrorCancels(w)
    BY <2>3 DEF Results, ErrorCancels, Step, Cancel
  <2>4. QED
    BY <2>1, <2>2, <2>3 DEF Results
<1>2. PICK l \in {"run", "range"} : wst' = [wst EXCEPT ![w] = l]
  BY <1>1, TaskMoves
<1>3. UNCHANGED <<wtask, waited, recovered>>
  BY <1>1, TaskMoves
<1>4. wtask[w] \in Tasks /\ ~Ended /\ ~Ended'
  BY <1>1, <1>3, RunningTask DEF Ended
<1>5. <<wtask[w], outcome[w]>> \in Tasks \X {"ok", "own", "ctx"}
  BY <1>0, <1>4
<1>6. \/ errs' = errs
      \/ errs' \in Seq(Tasks \X {"ok", "own", "ctx"}) /\ errs' # <<>>
         /\ errs'[1] = IF errs = <<>> THEN <<wtask[w], outcome[w]>> ELSE errs[1]
  <2> DEFINE S == Tasks \X {"ok", "own", "ctx"}
             x == <<wtask[w], outcome[w]>>
  <2>1. SUFFICES ASSUME errs' = Append(errs, x)
                 PROVE  errs' \in Seq(S) /\ errs' # <<>>
                        /\ errs'[1] = IF errs = <<>> THEN x ELSE errs[1]
    BY <1>1
  <2>2. x \in S /\ errs \in Seq(S)
    BY <1>0, <1>5
  <2> HIDE DEF S, x
  <2>3. QED
    BY <2>1, <2>2, AppendProperties, EmptySeq
<1>7. ResultTypeOK'
  <2>1. \A v \in Workers : bpc'[v] # "f" => wst'[v] = "run"
    <3>1. CASE bpc' = [bpc EXCEPT ![w] = "f"]
      BY <1>0, <1>2, <3>1
    <3>2. CASE UNCHANGED poolVars /\ bpc' = [bpc EXCEPT ![w] = "cancel"]
      BY <1>0, <1>1, <3>2 DEF poolVars
    <3>3. QED
      BY <1>1, <3>1, <3>2
  <2>2. errs' \in Seq(Tasks \X {"ok", "own", "ctx"})
    BY <1>0, <1>6
  <2>3. bpc' \in [Workers -> {"f", "fail", "cancel", "panicCancel"}]
        /\ cancelled' \in {"no", "caller", "error", "panic", "wait"}
    BY <1>0, <1>1 DEF RInv, ResultTypeOK
  <2>4. QED
    BY <1>1, <2>1, <2>2, <2>3 DEF RInv, ResultTypeOK, opts, aggVars
<1>8. ResultsKept'
  <2>1. Submitted' = Submitted
    BY <1>0, <1>1 DEF Submitted
  <2>2. ASSUME NEW t \in Submitted, ~Panicked'
        PROVE  \/ t <= Len(results') /\ results'[t] = t
               \/ \E v \in Workers : wst'[v] = "run" /\ bpc'[v] = "f" /\ wtask'[v] = t
    <3>1. CASE \E v \in Workers : wst[v] = "run" /\ bpc[v] = "f" /\ wtask[v] = t
      <4>1. PICK v \in Workers : wst[v] = "run" /\ bpc[v] = "f" /\ wtask[v] = t
        BY <3>1
      <4>2. v # w
        BY <1>1, <4>1
      <4>3. wst'[v] = "run" /\ bpc'[v] = "f" /\ wtask'[v] = t
        BY <1>0, <1>1, <1>2, <1>3, <4>1, <4>2
      <4>4. QED
        BY <4>3
    <3>2. QED
      BY <1>1, <2>2, <3>1 DEF RInv, ResultsKept, aggVars
  <2>3. QED
    BY <1>1, <1>4, <2>1, <2>2 DEF RInv, ResultsKept, Ended, aggVars
<1>w. cancelled # "wait"
  BY <1>4 DEF RInv, Cause
<1>9. FirstErrorIsCause'
  <2>1. cancelled' = "error" => errs' # <<>>
    <3>1. CASE bpc[w] = "fail"
      BY <1>0, <1>1, <1>5, <3>1, AppendProperties, EmptySeq
    <3>2. CASE bpc[w] = "cancel"
      BY <1>1, <3>2 DEF RInv, Cause
    <3>3. QED
      BY <1>1, <3>1, <3>2
  <2>2. ASSUME errs' # <<>>, errs'[1][2] = "ctx"
        PROVE  cancelled' \in {"caller", "panic"}
    <3>1. CASE errs = <<>>
      <4>1. bpc[w] = "fail" /\ outcome[w] = "ctx" /\ cancelled' = cancelled
        BY <1>1, <1>6, <2>2, <3>1
      <4>2. cancelled # "no" /\ cancelled # "error"
        BY <3>1, <4>1 DEF RInv, Cause, FirstErrorIsCause
      <4>3. cancelled \in {"no", "caller", "error", "panic", "wait"}
        BY DEF RInv, ResultTypeOK
      <4>4. QED
        BY <1>w, <4>1, <4>2, <4>3
    <3>2. CASE errs # <<>>
      <4>1. errs[1][2] = "ctx"
        BY <1>6, <2>2, <3>2
      <4>2. cancelled \in {"caller", "panic"}
        BY <3>2, <4>1 DEF RInv, Cause, FirstErrorIsCause
      <4>3. QED
        BY <1>1, <4>2
    <3>3. QED
      BY <3>1, <3>2
  <2>3. QED
    BY <2>1, <2>2 DEF FirstErrorIsCause
<1>10. Cause'
  <2>1. \A v \in Workers \ {w} : bpc'[v] = bpc[v]
    BY <1>0, <1>1
  <2>2. bpc'[w] # "fail" /\ (bpc'[w] = "cancel" => bpc[w] = "fail")
    BY <1>0, <1>1
  <2>3. errs # <<>> => errs' # <<>>
    BY <1>6
  <2>4. bpc[w] = "fail" => errs' # <<>>
    BY <1>0, <1>1, <1>5, AppendProperties, EmptySeq
  <2>5. (cancelled # "no" => cancelled' # "no") /\ cancelled' # "wait"
    BY <1>1, <1>w
  <2>6. QED
    BY <1>1, <1>9, <2>1, <2>2, <2>3, <2>4, <2>5 DEF RInv, Cause
<1>11. QED
  BY <1>7, <1>8, <1>10

LEMMA OutsideStep ==
  ASSUME RInv, NEW w \in Workers, WorkerStep(w), use' = use, Panicked => Panicked',
         UNCHANGED <<opts, gpc, aggVars, errs, cancelled, bodyVars, collected>>
  PROVE  (ResultTypeOK /\ ResultsKept /\ Cause)'
<1>0. /\ wst \in [Workers -> {"off", "run", "range", "parked", "unwind", "recover", "exit", "gone"}]
      /\ \A v \in Workers : bpc[v] # "f" => wst[v] = "run"
  BY DEF RInv, PoolInv, PoolTypeOK, ResultTypeOK
<1>1. wst[w] # "run" /\ Works(w)
  BY DEF WorkerStep, WorkerParks, WorkerEnds, WorkerReleases, WorkerRecovers, Works
<1>2. PICK l \in {"range", "parked", "unwind", "recover", "exit", "gone"} :
        wst' = [wst EXCEPT ![w] = l]
  BY <1>1, WorkingWorker DEF RInv
<1>3. UNCHANGED <<wtask, waited>> /\ ~Ended /\ ~Ended'
  BY <1>1, WorkingWorker DEF RInv, PoolInv, WaitIsLast, Ended
<1>4. \A v \in Workers : wst[v] = "run" => wst'[v] = "run"
  BY <1>0, <1>1, <1>2
<1>5. ResultTypeOK'
  BY <1>4 DEF RInv, ResultTypeOK, opts, aggVars, bodyVars
<1>6. Submitted' = Submitted
  BY DEF Submitted, RInv
<1>7. ResultsKept'
  BY <1>3, <1>4, <1>6 DEF RInv, ResultsKept, Ended, aggVars, bodyVars
<1>8. Cause'
  BY <1>3 DEF RInv, Cause, FirstErrorIsCause, bodyVars
<1>9. QED
  BY <1>5, <1>7, <1>8

LEMMA WaitStep ==
  ASSUME RInv, Results(Wait) \/ Results(WaitReturns) \/ UNCHANGED allVars, Panicked => Panicked'
  PROVE  (ResultTypeOK /\ ResultsKept /\ Cause)'
<1>0. /\ UNCHANGED <<wst, wtask, recovered, opts, gpc, aggVars, errs, bodyVars, use>>
      /\ use = "results"
      /\ cancelled' = cancelled \/ (cancelled = "no" /\ cancelled' = "wait" /\ Ended')
      /\ \/ UNCHANGED <<waited, collected, cancelled>>
         \/ ~Ended /\ waited' = "waiting" /\ cancelled' = cancelled
         \/ Ended' /\ (waited' = "returned" => collected' = Collect)
  <2>1. CASE Results(Wait)
    BY <2>1 DEF RInv, Results, Wait, WaitCloses, Ended
  <2>2. CASE Results(WaitReturns)
    BY <2>2 DEF RInv, Results, WaitReturns, WaitEnds, Ended, Cancel
  <2>3. CASE UNCHANGED allVars
    BY <2>3 DEF RInv, allVars, poolVars, resultVars, bodyVars
  <2>4. QED
    BY <2>1, <2>2, <2>3
<1>1. Submitted' = Submitted /\ Collect' = Collect
  BY <1>0, CollectSame DEF Submitted, aggVars
<1>2. ResultTypeOK'
  BY <1>0 DEF RInv, ResultTypeOK, opts, aggVars, bodyVars
<1>3. waited' = "returned" => collected' = Collect'
  BY <1>0, <1>1 DEF RInv, ResultsKept
<1>4. ResultsKept'
  BY <1>0, <1>1, <1>3 DEF RInv, ResultsKept, aggVars, bodyVars
<1>5. FirstErrorIsCause'
  BY <1>0 DEF RInv, Cause, FirstErrorIsCause
<1>6. Cause'
  BY <1>0, <1>5 DEF RInv, Cause, bodyVars, Ended
<1>7. QED
  BY <1>2, <1>4, <1>6

(* The caller's context ends: every later context error is its doing.       *)
LEMMA CallerStep ==
  ASSUME RInv, Results(CallerCancels), Panicked => Panicked'
  PROVE  (ResultTypeOK /\ ResultsKept /\ Cause)'
<1>0. /\ UNCHANGED <<poolVars, opts, gpc, aggVars, errs, bodyVars, collected, use>>
      /\ use = "results" /\ cancelled = "no" /\ cancelled' = "caller"
  BY DEF Results, CallerCancels, Cancel
<1>1. Submitted' = Submitted /\ Collect' = Collect
  BY <1>0, CollectSame DEF Submitted, aggVars
<1>2. ResultTypeOK'
  BY <1>0 DEF RInv, ResultTypeOK, opts, aggVars, bodyVars, poolVars
<1>3. ResultsKept'
  BY <1>0, <1>1 DEF RInv, ResultsKept, aggVars, bodyVars, poolVars
<1>4. Cause'
  BY <1>0 DEF RInv, Cause, FirstErrorIsCause, bodyVars
<1>5. QED
  BY <1>2, <1>3, <1>4

LEMMA ResultStep == PoolInv /\ ResultInv /\ [PoolsNext]_allVars => ResultInv'
<1> SUFFICES ASSUME PoolInv, ResultInv, [PoolsNext]_allVars, use' = "results"
             PROVE  (ResultTypeOK /\ ResultsKept /\ Cause)'
  BY DEF ResultInv
<1>1. use' = use /\ RInv
  BY UserTypes DEF PoolInv, RInv, ResultInv
<1>2. CASE UNCHANGED allVars
  <2>1. Panicked => Panicked'
    BY <1>2 DEF Panicked, allVars, poolVars, resultVars, bodyVars
  <2>2. QED
    BY <1>1, <1>2, <2>1, WaitStep
<1>3. CASE Results(Next)
  <2>1. Panicked => Panicked'
    BY <1>1, <1>3, PanicStays
  <2>2. ASSUME NEW t \in Tasks, NextIndex(t) \/ Submit(t)
        PROVE  (ResultTypeOK /\ ResultsKept /\ Cause)'
    <3>1. Results(NextIndex(t)) \/ Results(Submit(t))
      BY <1>3, <2>2 DEF Results
    <3>2. QED
      BY <1>1, <2>1, <3>1, IndexStep, SubmitStep
  <2>3. ASSUME NEW w \in Workers, TaskStep(w)
        PROVE  (ResultTypeOK /\ ResultsKept /\ Cause)'
    <3>1. CASE \E o \in {"ok", "own", "ctx"} : FReturns(w, o)
      <4>1. PICK o \in {"ok", "own", "ctx"} : Results(FReturns(w, o))
        BY <1>3, <3>1 DEF Results
      <4>2. QED
        BY <1>1, <2>1, <4>1, ReturnStep
    <3>2. CASE FPanics(w) \/ PanicCancels(w)
      <4>1. Results(FPanics(w) \/ PanicCancels(w))
        BY <1>3, <3>2 DEF Results
      <4>2. QED
        BY <1>1, <4>1, PanicStep
    <3>3. CASE AddErr(w) \/ ErrorCancels(w)
      <4>1. Results(AddErr(w) \/ ErrorCancels(w))
        BY <1>3, <3>3 DEF Results
      <4>2. QED
        BY <1>1, <2>1, <4>1, ErrorStep
    <3>4. CASE /\ WorkerStep(w)
               /\ UNCHANGED <<opts, gpc, aggVars, errs, cancelled, bodyVars, collected>>
      BY <1>1, <2>1, <3>4, OutsideStep
    <3>5. QED
      BY <2>3, <3>1, <3>2, <3>3, <3>4 DEF TaskStep
  <2>4. CASE Wait \/ WaitReturns
    <3>1. Results(Wait) \/ Results(WaitReturns)
      BY <1>3, <2>4 DEF Results
    <3>2. QED
      BY <1>1, <2>1, <3>1, WaitStep
  <2>5. CASE CallerCancels
    <3>1. Results(CallerCancels)
      BY <1>3, <2>5 DEF Results
    <3>2. QED
      BY <1>1, <2>1, <3>1, CallerStep
  <2>6. QED
    BY <1>3, <2>2, <2>3, <2>4, <2>5 DEF Results, Next
<1>4. QED
  BY <1>1, <1>2, <1>3 DEF PoolsNext, Streaming, RInv

-----------------------------------------------------------------------------
(* The Stream *)

SInv(e, d) ==
  /\ PoolInv /\ use = "stream" /\ StreamTypeOK /\ CallbackerIsLast
  /\ e \in 0 .. NumTasks /\ d \in 0 .. NumTasks
  /\ Line(e, d)

(* The tasks in line are numbers, and those that have a channel were queued. *)
LEMMA LineFacts ==
  ASSUME NEW e, NEW d, SInv(e, d)
  PROVE  /\ e \in Nat /\ d \in Nat /\ e <= NumTasks /\ d <= e /\ NumTasks \in Nat
         /\ Unreceived(e, d) \in SUBSET Holders(e, d)
         /\ Holders(e, d) \in SUBSET Tasks
         /\ \A t \in Holders(e, d) : t <= e
         /\ \A t \in Unreceived(e, d) : t >= d
         /\ cb # "receive" => Unreceived(e, d) = d + 1 .. e
  BY PoolAssumption DEF SInv, Line, InLine, Unreceived, Holders, Tasks

(* When a task is still to be queued a channel is free.                     *)
LEMMA FreeChannel ==
  ASSUME NEW e, NEW d, SInv(e, d), e < NumTasks
  PROVE  Min(free) \in free
<1> DEFINE H == Holders(e, d)
<1>1. H \in SUBSET (1 .. e) /\ e \in Nat
  BY LineFacts DEF Tasks
<1>2. IsFiniteSet(H) /\ Cardinality(H) <= e /\ Cardinality(H) \in Nat
  <2>1. IsFiniteSet(1 .. e) /\ Cardinality(1 .. e) = e
    BY <1>1, FS_Interval
  <2>2. QED
    BY <1>1, <2>1, FS_Subset, FS_CardinalityType
<1>3. SUFFICES ASSUME free = {} PROVE FALSE
  BY MinMember DEF SInv, StreamTypeOK, Channels
<1> DEFINE f == [t \in H |-> chOf[t]]
<1>4. f \in Surjection(H, Channels)
  BY <1>3 DEF SInv, Line, OwnChannel, Surjection
<1>5. Cardinality(Channels) <= Cardinality(H)
  BY <1>2, <1>4, FS_Surjection
<1>6. Cardinality(Channels) = NumTasks
  BY PoolAssumption, FS_Interval DEF Channels
<1>7. QED
  BY <1>1, <1>2, <1>5, <1>6, PoolAssumption

LEMMA EnqueueStep ==
  ASSUME NEW e, NEW d, SInv(e, d), NEW t \in Tasks, Streaming(Enqueue(t))
  PROVE  InOrder'
<1> DEFINE c == Min(free)
<1>1. /\ sgo[t] = "new" /\ \A u \in 1 .. t - 1 : sgo[u] # "new"
      /\ free' = free \ {c} /\ queue' = Append(queue, c) /\ chOf' = [chOf EXCEPT ![t] = c]
      /\ sgo' = [sgo EXCEPT ![t] = "queued"]
      /\ UNCHANGED <<poolVars, slot, queueClosed, swait, cbVars, returned>>
  BY DEF Streaming, Enqueue
<1>2. /\ e \in Nat /\ d \in Nat /\ e <= NumTasks /\ d <= e /\ NumTasks \in Nat
      /\ \A u \in Tasks : sgo[u] # "new" <=> u <= e
      /\ t \in Nat /\ 1 <= t /\ t <= NumTasks
  BY LineFacts DEF SInv, Line, InLine, Tasks
<1>3. t = e + 1
  <2>1. t > e
    BY <1>1, <1>2
  <2>2. ASSUME t # e + 1 PROVE FALSE
    <3>1. e + 1 \in 1 .. t - 1 /\ e + 1 \in Tasks
      BY <1>2, <2>1, <2>2 DEF Tasks
    <3>2. QED
      BY <1>1, <1>2, <3>1
  <2>3. QED
    BY <2>2
<1>4. c \in free /\ c \in Channels
  BY <1>2, <1>3, FreeChannel DEF SInv, StreamTypeOK
<1> HIDE DEF c
<1>5. /\ chOf \in [Tasks -> 0 .. NumTasks] /\ queue \in Seq(Channels)
      /\ sgo \in [Tasks -> {"new", "queued", "done"}]
      /\ returned \in SUBSET Tasks
  BY DEF SInv, StreamTypeOK, PoolInv, PoolTypeOK
<1>6. chOf'[t] = c /\ \A u \in Tasks : u <= e => chOf'[u] = chOf[u]
  BY <1>1, <1>2, <1>3, <1>5
<1>7. /\ Holders(e + 1, d)' = Holders(e, d) \cup {t}
      /\ Unreceived(e + 1, d)' = Unreceived(e, d) \cup {t}
  <2>1. cb' = cb
    BY <1>1 DEF cbVars
  <2>2. d .. e + 1 = (d .. e) \cup {e + 1} /\ d + 1 .. e + 1 = (d + 1 .. e) \cup {e + 1}
    BY <1>2
  <2>3. QED
    BY <1>3, <2>1, <2>2 DEF Holders, Unreceived
<1>8. \A u \in Holders(e, d) : u \in Tasks /\ u <= e /\ u # t /\ chOf'[u] = chOf[u]
  <2>1. \A u \in Holders(e, d) : u \in Tasks /\ u <= e
    BY LineFacts
  <2>2. \A u \in Tasks : u <= e => u # t
    BY <1>2, <1>3
  <2>3. QED
    BY <1>6, <2>1, <2>2
<1>9. \A u \in Holders(e, d) : chOf[u] # c
  BY <1>4 DEF SInv, Line, OwnChannel
<1>10. StreamTypeOK'
  <2>1. queue' \in Seq(Channels)
    BY <1>1, <1>4, <1>5, AppendProperties
  <2>2. chOf' \in [Tasks -> 0 .. NumTasks]
    BY <1>1, <1>4, <1>5 DEF Channels
  <2>3. QED
    BY <1>1, <2>1, <2>2 DEF SInv, StreamTypeOK, cbVars
<1>11. CallbackerIsLast'
  <2>1. ~Ended
    BY <1>1 DEF SInv, PoolInv, WaitIsLast, Ended, Submitted
  <2>2. QED
    BY <1>1, <2>1 DEF SInv, CallbackerIsLast, cbVars
<1>12. InLine(e + 1, d)'
  <2>1. Len(queue) = e - d /\ \A i \in 1 .. e - d : queue[i] = chOf[d + i]
    BY DEF SInv, Line, InLine
  <2>2. Len(queue') = e - d + 1
    BY <1>1, <1>4, <1>5, <2>1, AppendProperties
  <2>3. ASSUME NEW i \in 1 .. e + 1 - d
        PROVE  queue'[i] = chOf'[d + i]
    <3>1. CASE i \in 1 .. e - d
      <4>1. queue'[i] = queue[i]
        BY <1>1, <1>4, <1>5, <2>1, <3>1, AppendProperties
      <4>2. d + i \in Tasks /\ d + i <= e
        BY <1>2, <3>1 DEF Tasks
      <4>3. QED
        BY <1>6, <2>1, <3>1, <4>1, <4>2
    <3>2. CASE i = e - d + 1
      <4>1. queue'[i] = c
        BY <1>1, <1>4, <1>5, <2>1, <3>2, AppendProperties
      <4>2. d + i = t
        BY <1>2, <1>3, <3>2
      <4>3. QED
        BY <1>6, <4>1, <4>2
    <3>3. QED
      BY <1>2, <3>1, <3>2
  <2>4. cb' \in {"receive", "call", "put"} => d >= 1 /\ cbCh' = chOf'[d]
    <3>1. SUFFICES ASSUME cb \in {"receive", "call", "put"}
                   PROVE  d >= 1 /\ cbCh' = chOf'[d]
      BY <1>1 DEF cbVars
    <3>2. d >= 1 /\ cbCh = chOf[d]
      BY <3>1 DEF SInv, Line, InLine
    <3>3. d \in Tasks
      BY <1>2, <3>2 DEF Tasks
    <3>4. QED
      BY <1>1, <1>2, <1>6, <3>2, <3>3 DEF cbVars
  <2>5. \A u \in Tasks : sgo'[u] # "new" <=> u <= e + 1
    <3>1. \A u \in Tasks : u \in Nat
      BY DEF Tasks
    <3>2. QED
      BY <1>1, <1>2, <1>3, <1>5, <3>1
  <2>6. QED
    BY <1>2, <2>2, <2>3, <2>4, <2>5 DEF InLine
<1>13. OwnChannel(e + 1, d)'
  <2>1. /\ \A u \in Holders(e, d) : chOf[u] \in Channels
        /\ \A u, v \in Holders(e, d) : chOf[u] = chOf[v] => u = v
        /\ free = Channels \ {chOf[u] : u \in Holders(e, d)}
    BY DEF SInv, Line, OwnChannel
  <2>2. {chOf'[u] : u \in Holders(e, d) \cup {t}} = {chOf[u] : u \in Holders(e, d)} \cup {c}
    BY <1>6, <1>8
  <2>3. free' = Channels \ {chOf'[u] : u \in Holders(e, d) \cup {t}}
    BY <1>1, <2>1, <2>2
  <2>4. \A u, v \in Holders(e, d) \cup {t} : chOf'[u] = chOf'[v] => u = v
    BY <1>6, <1>8, <1>9, <2>1
  <2>5. \A u \in Holders(e, d) \cup {t} : chOf'[u] \in Channels
    BY <1>4, <1>6, <1>8, <2>1
  <2>6. QED
    BY <1>7, <2>3, <2>4, <2>5 DEF OwnChannel, Channels
<1>14. t \notin returned
  <2>1. SUFFICES ASSUME t \in returned PROVE FALSE
    OBVIOUS
  <2>2. t \notin Unreceived(e, d)
    BY <1>8, LineFacts
  <2>3. t # d
    BY <1>2, <1>3
  <2>4. PICK i \in 1 .. Len(called) : called[i] = t
    BY <2>1, <2>2, <2>3 DEF SInv, Line, Calls
  <2>5. called[i] < (IF cb \in {"receive", "call"} THEN d ELSE d + 1)
    BY <2>4 DEF SInv, Line, Calls
  <2>6. QED
    BY <1>2, <1>3, <2>4, <2>5
<1>15. HoldsCallback(e + 1, d)'
  <2>1. Unreceived(e, d) \in SUBSET Holders(e, d)
    BY LineFacts
  <2>2. slot[c] = <<>>
    BY <1>4, <1>9, <2>1 DEF SInv, Line, HoldsCallback
  <2>3. \A k \in Channels : (\A u \in Unreceived(e, d) \cup {t} : chOf'[u] # k) => slot'[k] = <<>>
    BY <1>1, <1>8, <2>1 DEF SInv, Line, HoldsCallback
  <2>4. \A u \in Unreceived(e, d) \cup {t} :
          /\ slot'[chOf'[u]] \in {<<>>, <<u>>, <<None>>, <<Noop>>}
          /\ slot'[chOf'[u]] = <<u>> <=> u \in returned'
    <3>1. ASSUME NEW u \in Unreceived(e, d)
          PROVE  /\ slot'[chOf'[u]] \in {<<>>, <<u>>, <<None>>, <<Noop>>}
                 /\ slot'[chOf'[u]] = <<u>> <=> u \in returned'
      <4>1. slot' = slot /\ chOf'[u] = chOf[u] /\ returned' = returned
        BY <1>1, <1>8, <2>1
      <4>2. QED
        BY <4>1 DEF SInv, Line, HoldsCallback
    <3>2. slot'[chOf'[t]] = <<>> /\ t \notin returned' /\ <<>> # <<t>>
      BY <1>1, <1>6, <1>14, <2>2
    <3>3. QED
      BY <3>1, <3>2
  <2>5. \A u \in Tasks : sgo'[u] = "queued" =>
          u \in Unreceived(e, d) \cup {t} /\ slot'[chOf'[u]] = <<>>
    BY <1>1, <1>5, <1>6, <1>8, <2>1, <2>2 DEF SInv, Line, HoldsCallback
  <2>6. \A w \in Workers : wst'[w] = "run" =>
          wtask'[w] \in Unreceived(e, d) \cup {t} /\ slot'[chOf'[wtask'[w]]] = <<>>
    BY <1>1, <1>8, <2>1 DEF SInv, Line, HoldsCallback, poolVars
  <2>7. QED
    BY <1>7, <2>3, <2>4, <2>5, <2>6 DEF HoldsCallback, Channels, Noop
<1>16. Calls(e + 1, d)'
  BY <1>1, <1>7 DEF SInv, Line, Calls, cbVars, Noop
<1>17. QED
  BY <1>2, <1>3, <1>10, <1>11, <1>12, <1>13, <1>15, <1>16 DEF InOrder, Line

LEMMA SubmitTaskStep ==
  ASSUME NEW e, NEW d, SInv(e, d), NEW t \in Tasks, Streaming(SubmitTask(t))
  PROVE  InOrder'
<1>1. /\ sgo[t] = "queued" /\ sgo' = [sgo EXCEPT ![t] = "done"] /\ use' = use
      /\ UNCHANGED <<chOf, queueClosed, swait, chVars, cbVars, returned>>
      /\ sgo \in [Tasks -> {"new", "queued", "done"}]
      /\ use = "stream" /\ PoolInv /\ StreamTypeOK /\ CallbackerIsLast /\ Line(e, d)
      /\ e \in 0 .. NumTasks /\ d \in 0 .. NumTasks
  BY DEF Streaming, SubmitTask, SInv, PoolInv, PoolTypeOK
<1>2. t \notin Submitted /\ Submitted' = Submitted \cup {t}
  BY <1>1 DEF Submitted
<1>3. Submits(t)
  BY <1>1, <1>2 DEF Streaming, SubmitTask, Submits
<1>4. PICK w \in Workers :
        /\ wst' = [wst EXCEPT ![w] = "run"]
        /\ wtask' = [wtask EXCEPT ![w] = t] /\ UNCHANGED <<recovered, waited>>
  BY <1>1, <1>3, StartedWorker
<1>5. StreamTypeOK' /\ CallbackerIsLast'
  BY <1>1, <1>4 DEF StreamTypeOK, CallbackerIsLast, Ended, chVars, cbVars
<1>6. Holders(e, d)' = Holders(e, d) /\ Unreceived(e, d)' = Unreceived(e, d)
  BY <1>1 DEF Holders, Unreceived, cbVars
<1>7. InLine(e, d)' /\ OwnChannel(e, d)' /\ Calls(e, d)'
  <2>1. \A u \in Tasks : sgo'[u] # "new" <=> sgo[u] # "new"
    BY <1>1
  <2>2. InLine(e, d)'
    BY <1>1, <2>1 DEF Line, InLine, chVars, cbVars
  <2>3. OwnChannel(e, d)'
    BY <1>1, <1>6 DEF Line, OwnChannel, chVars
  <2>4. Calls(e, d)'
    BY <1>1, <1>6 DEF Line, Calls, cbVars
  <2>5. QED
    BY <2>2, <2>3, <2>4
<1>8. HoldsCallback(e, d)'
  <2>1. t \in Unreceived(e, d) /\ slot[chOf[t]] = <<>>
    BY <1>1 DEF Line, HoldsCallback
  <2>2. ASSUME NEW v \in Workers, wst'[v] = "run"
        PROVE  wtask'[v] \in Unreceived(e, d) /\ slot[chOf[wtask'[v]]] = <<>>
    <3>1. wst \in [Workers -> {"off", "run", "range", "parked", "unwind", "recover",
                               "exit", "gone"}]
          /\ wtask \in [Workers -> 0 .. NumTasks]
      BY <1>1 DEF PoolInv, PoolTypeOK
    <3>2. CASE v = w
      BY <1>4, <2>1, <3>1, <3>2
    <3>3. CASE v # w
      <4>1. wst[v] = "run" /\ wtask'[v] = wtask[v]
        BY <1>4, <2>2, <3>1, <3>3
      <4>2. QED
        BY <1>1, <4>1 DEF Line, HoldsCallback
    <3>4. QED
      BY <3>2, <3>3
  <2>3. \A u \in Tasks : sgo'[u] = "queued" => sgo[u] = "queued"
    BY <1>1
  <2>4. UNCHANGED <<slot, chOf, returned>>
    BY <1>1 DEF chVars
  <2>5. /\ \A c \in Channels : (\A u \in Unreceived(e, d) : chOf[u] # c) => slot[c] = <<>>
        /\ \A u \in Unreceived(e, d) :
             /\ slot[chOf[u]] \in {<<>>, <<u>>, <<None>>, <<Noop>>}
             /\ slot[chOf[u]] = <<u>> <=> u \in returned
        /\ \A u \in Tasks : sgo[u] = "queued" => u \in Unreceived(e, d) /\ slot[chOf[u]] = <<>>
    BY <1>1 DEF Line, HoldsCallback
  <2>6. QED
    BY <1>6, <2>2, <2>3, <2>4, <2>5 DEF HoldsCallback, Channels, Noop
<1>9. QED
  BY <1>1, <1>5, <1>7, <1>8 DEF InOrder, Line

(* A task ends: it sends the callback f.                                    *)
LEMMA EndStep ==
  ASSUME NEW e, NEW d, SInv(e, d), NEW w \in Workers, NEW f \in {wtask[w], None, Noop},
         wst[w] = "run", \E l \in {"range", "unwind"} : wst' = [wst EXCEPT ![w] = l],
         UNCHANGED <<use, wtask, waited, sgo, chOf, queueClosed, swait, free, queue, cbVars>>,
         SendCallback(w, f),
         returned' = IF f = wtask[w] THEN returned \cup {f} ELSE returned
  PROVE  InOrder'
<1> DEFINE t == wtask[w]
           c == chOf[t]
<1>1. /\ use = "stream" /\ PoolInv /\ StreamTypeOK /\ CallbackerIsLast /\ Line(e, d)
      /\ e \in 0 .. NumTasks /\ d \in 0 .. NumTasks
      /\ wst \in [Workers -> {"off", "run", "range", "parked", "unwind", "recover", "exit", "gone"}]
      /\ slot \in [Channels -> Seq(0 .. NumTasks + 1)]
      /\ returned \in SUBSET Tasks
  BY DEF SInv, PoolInv, PoolTypeOK, StreamTypeOK
<1>2. t \in Submitted /\ t \in Tasks
  BY <1>1 DEF PoolInv, OwnTask, Submitted
<1>3. sgo[t] = "done"
  BY <1>1, <1>2 DEF Submitted
<1>4. t \in Unreceived(e, d) /\ slot[c] = <<>> /\ slot' = [slot EXCEPT ![c] = <<f>>]
  BY <1>1 DEF Line, HoldsCallback, SendCallback
<1>5. /\ Holders(e, d)' = Holders(e, d) /\ Unreceived(e, d)' = Unreceived(e, d)
      /\ Unreceived(e, d) \in SUBSET Holders(e, d) /\ Holders(e, d) \in SUBSET Tasks
  BY LineFacts DEF Holders, Unreceived, cbVars
<1>6. /\ \A u \in Unreceived(e, d) : chOf[u] \in Channels
      /\ \A u \in Unreceived(e, d) \ {t} : chOf[u] # c
  BY <1>1, <1>4, <1>5 DEF Line, OwnChannel
<1>7. c \in Channels /\ slot'[c] = <<f>> /\ \A k \in Channels \ {c} : slot'[k] = slot[k]
  BY <1>1, <1>4, <1>6
<1>8. t # None /\ t # Noop /\ f \in 0 .. NumTasks + 1
  BY <1>2, PoolAssumption DEF Tasks, None, Noop
<1>9. t \notin returned
  <2>1. <<>> # <<t>>
    OBVIOUS
  <2>2. QED
    BY <1>1, <1>4, <2>1 DEF Line, HoldsCallback
<1>10. t \in returned' <=> f = t
  BY <1>9
<1>11. \A u \in Tasks \ {t} : u \in returned' <=> u \in returned
  OBVIOUS
<1> HIDE DEF c, t
<1>12. StreamTypeOK' /\ CallbackerIsLast'
  <2>1. <<f>> \in Seq(0 .. NumTasks + 1)
    BY <1>8
  <2>2. slot' \in [Channels -> Seq(0 .. NumTasks + 1)]
    BY <1>1, <1>4, <2>1
  <2>3. returned' \in SUBSET Tasks
    BY <1>1, <1>2 DEF t
  <2>4. StreamTypeOK'
    BY <1>1, <2>2, <2>3 DEF StreamTypeOK, cbVars
  <2>5. CallbackerIsLast'
    BY <1>1 DEF CallbackerIsLast, Ended, cbVars
  <2>6. QED
    BY <2>4, <2>5
<1>13. InLine(e, d)' /\ OwnChannel(e, d)'
  BY <1>1, <1>5 DEF Line, InLine, OwnChannel, cbVars
<1>14. Calls(e, d)'
  <2>1. /\ cb = "call" => callback \in {d, None, Noop} /\ (callback = d <=> d \in returned)
        /\ \A i \in 1 .. Len(called) :
             /\ called[i] \in returned
             /\ called[i] < (IF cb \in {"receive", "call"} THEN d ELSE d + 1)
        /\ \A i, j \in 1 .. Len(called) : i < j => called[i] < called[j]
        /\ \A u \in returned :
             \/ u \in Unreceived(e, d)
             \/ cb = "call" /\ u = d
             \/ \E i \in 1 .. Len(called) : called[i] = u
    BY <1>1 DEF Line, Calls
  <2>2. cb = "call" => d # t
    BY <1>4, LineFacts DEF t
  <2>3. cb = "call" => (d \in returned' <=> d \in returned)
    BY <2>2 DEF t
  <2>4. \A u \in returned : u \in returned'
    OBVIOUS
  <2>5. \A u \in returned' : u \in returned \/ u = t
    BY DEF t
  <2>6. \A u \in returned' :
             \/ u \in Unreceived(e, d)
             \/ cb = "call" /\ u = d
             \/ \E i \in 1 .. Len(called) : called[i] = u
    BY <1>4, <2>1, <2>5
  <2>7. UNCHANGED <<cb, callback, called>>
    BY DEF cbVars
  <2>8. QED
    BY <1>5, <2>1, <2>3, <2>4, <2>6, <2>7 DEF Calls, Noop
<1>15. HoldsCallback(e, d)'
  <2>1. /\ \A k \in Channels : (\A u \in Unreceived(e, d) : chOf[u] # k) => slot[k] = <<>>
        /\ \A u \in Unreceived(e, d) :
             /\ slot[chOf[u]] \in {<<>>, <<u>>, <<None>>, <<Noop>>}
             /\ slot[chOf[u]] = <<u>> <=> u \in returned
        /\ \A u \in Tasks : sgo[u] = "queued" => u \in Unreceived(e, d) /\ slot[chOf[u]] = <<>>
        /\ \A v \in Workers : wst[v] = "run" =>
             wtask[v] \in Unreceived(e, d) /\ slot[chOf[wtask[v]]] = <<>>
    BY <1>1 DEF Line, HoldsCallback
  <2>2. \A u \in Unreceived(e, d) \ {t} : slot'[chOf[u]] = slot[chOf[u]]
    BY <1>6, <1>7
  <2>3. \A k \in Channels : (\A u \in Unreceived(e, d) : chOf[u] # k) => slot'[k] = <<>>
    BY <1>4, <1>7, <2>1 DEF c
  <2>4. \A u \in Unreceived(e, d) :
             /\ slot'[chOf[u]] \in {<<>>, <<u>>, <<None>>, <<Noop>>}
             /\ slot'[chOf[u]] = <<u>> <=> u \in returned'
    <3>1. slot'[chOf[t]] \in {<<t>>, <<None>>, <<Noop>>} /\ (slot'[chOf[t]] = <<t>> <=> f = t)
      <4>1. slot'[chOf[t]] = <<f>> /\ f \in {t, None, Noop}
        BY <1>7 DEF c, t
      <4>2. <<f>> = <<t>> <=> f = t
        OBVIOUS
      <4>3. QED
        BY <4>1, <4>2
    <3>2. \A u \in Unreceived(e, d) \ {t} : u \in returned' <=> u \in returned
      BY <1>5, <1>11
    <3>3. QED
      BY <1>10, <2>1, <2>2, <3>1, <3>2
  <2>5. \A u \in Tasks : sgo[u] = "queued" => u \in Unreceived(e, d) /\ slot'[chOf[u]] = <<>>
    BY <1>3, <2>1, <2>2
  <2>6. \A v \in Workers : wst'[v] = "run" =>
             wtask[v] \in Unreceived(e, d) /\ slot'[chOf[wtask[v]]] = <<>>
    <3>1. SUFFICES ASSUME NEW v \in Workers, wst'[v] = "run"
                   PROVE  wtask[v] \in Unreceived(e, d) /\ slot'[chOf[wtask[v]]] = <<>>
      OBVIOUS
    <3>2. v # w /\ wst[v] = "run"
      BY <1>1, <3>1
    <3>3. wtask[v] # t
      BY <1>1, <3>2 DEF PoolInv, OwnTask, t
    <3>4. QED
      BY <2>1, <2>2, <3>2, <3>3
  <2>7. QED
    BY <1>5, <2>3, <2>4, <2>5, <2>6 DEF HoldsCallback, Channels, Noop
<1>16. QED
  BY <1>1, <1>12, <1>13, <1>14, <1>15 DEF InOrder, Line

(* A step that leaves the channels alone and starts no task.                *)
LEMMA AsideStep ==
  ASSUME NEW e, NEW d, SInv(e, d),
         UNCHANGED <<use, wtask, sgo, chOf, chVars, cbVars, returned>>,
         \A v \in Workers : wst'[v] = "run" => wst[v] = "run",
         queueClosed' \in BOOLEAN,
         swait' \in {"no", "pool", "callbacks", "returned", "panicked"},
         CallbackerIsLast'
  PROVE  InOrder'
<1>1. /\ StreamTypeOK /\ Line(e, d)
      /\ e \in 0 .. NumTasks /\ d \in 0 .. NumTasks
  BY DEF SInv
<1>2. StreamTypeOK'
  BY <1>1 DEF StreamTypeOK, chVars, cbVars
<1>3. Holders(e, d)' = Holders(e, d) /\ Unreceived(e, d)' = Unreceived(e, d)
  BY DEF Holders, Unreceived, cbVars
<1>4. InLine(e, d)' /\ OwnChannel(e, d)' /\ Calls(e, d)'
  BY <1>1, <1>3 DEF Line, InLine, OwnChannel, Calls, chVars, cbVars, Noop
<1>5. HoldsCallback(e, d)'
  BY <1>1, <1>3 DEF Line, HoldsCallback, chVars, cbVars, Noop, Channels
<1>6. QED
  BY <1>1, <1>2, <1>4, <1>5 DEF InOrder, Line

LEMMA DequeueStep ==
  ASSUME NEW e, NEW d, SInv(e, d), Streaming(Dequeue)
  PROVE  InOrder'
<1>1. /\ cb = "range" /\ queue # <<>> /\ cbCh' = Head(queue) /\ queue' = Tail(queue)
      /\ cb' = "receive" /\ use' = use
      /\ UNCHANGED <<poolVars, goVars, free, slot, callback, cbPanicked, called, returned>>
      /\ StreamTypeOK /\ CallbackerIsLast /\ Line(e, d)
      /\ e \in 0 .. NumTasks /\ queue \in Seq(Channels)
  BY DEF Streaming, Dequeue, SInv, StreamTypeOK
<1>2. e \in Nat /\ d \in Nat /\ e <= NumTasks /\ d <= e /\ NumTasks \in Nat
  BY LineFacts
<1>3. /\ Len(queue) = e - d /\ \A i \in 1 .. e - d : queue[i] = chOf[d + i]
  BY <1>1 DEF Line, InLine
<1>4. /\ Len(queue) \in Nat /\ Len(queue) # 0
      /\ Head(queue) \in Channels /\ queue' \in Seq(Channels)
      /\ Len(queue') = Len(queue) - 1
      /\ \A i \in 1 .. Len(queue') : queue'[i] = queue[i + 1]
      /\ Head(queue) = queue[1]
  BY <1>1, HeadTailProperties, EmptySeq
<1>5. d < e /\ cbCh' = chOf[d + 1]
  BY <1>1, <1>2, <1>3, <1>4
<1>6. /\ Holders(e, d + 1)' = Holders(e, d) /\ Unreceived(e, d + 1)' = Unreceived(e, d)
  BY <1>1, <1>2 DEF Holders, Unreceived
<1>7. StreamTypeOK' /\ CallbackerIsLast'
  <2>1. cbCh' \in 0 .. NumTasks
    BY <1>1, <1>4 DEF Channels
  <2>2. StreamTypeOK'
    BY <1>1, <1>4, <2>1 DEF StreamTypeOK, goVars
  <2>3. swait \notin {"returned", "panicked"}
    BY <1>1 DEF CallbackerIsLast
  <2>4. CallbackerIsLast'
    BY <1>1, <2>3 DEF CallbackerIsLast, Ended, goVars, poolVars
  <2>5. QED
    BY <2>2, <2>4
<1>8. InLine(e, d + 1)'
  <2>1. \A i \in 1 .. e - (d + 1) : queue'[i] = chOf[(d + 1) + i]
    <3>1. SUFFICES ASSUME NEW i \in 1 .. e - (d + 1)
                   PROVE  queue'[i] = chOf[(d + 1) + i]
      OBVIOUS
    <3>2. i \in 1 .. Len(queue') /\ i + 1 \in 1 .. e - d /\ d + (i + 1) = (d + 1) + i
      BY <1>2, <1>3, <1>4
    <3>3. QED
      BY <1>3, <1>4, <3>2
  <2>2. Len(queue') = e - (d + 1) /\ d + 1 <= e /\ d + 1 >= 1
    BY <1>2, <1>3, <1>4, <1>5
  <2>3. UNCHANGED <<sgo, chOf>>
    BY <1>1 DEF goVars
  <2>4. \A u \in Tasks : sgo[u] # "new" <=> u <= e
    BY <1>1 DEF Line, InLine
  <2>5. QED
    BY <1>5, <2>1, <2>2, <2>3, <2>4 DEF InLine
<1>9. OwnChannel(e, d + 1)'
  BY <1>1, <1>6 DEF Line, OwnChannel, goVars, Channels
<1>10. HoldsCallback(e, d + 1)'
  BY <1>1, <1>6 DEF Line, HoldsCallback, goVars, poolVars, Channels, Noop
<1>11. Calls(e, d + 1)'
  BY <1>1, <1>6 DEF Line, Calls
<1>12. d + 1 \in 0 .. NumTasks
  BY <1>2, <1>5
<1>13. QED
  BY <1>1, <1>7, <1>8, <1>9, <1>10, <1>11, <1>12 DEF InOrder, Line

LEMMA ReceiveStep ==
  ASSUME NEW e, NEW d, SInv(e, d), Streaming(ReceiveCallback)
  PROVE  InOrder'
<1>1. /\ cb = "receive" /\ slot[cbCh] # <<>> /\ callback' = Head(slot[cbCh])
      /\ slot' = [slot EXCEPT ![cbCh] = <<>>] /\ cb' = "call" /\ use' = use
      /\ UNCHANGED <<poolVars, goVars, free, queue, cbCh, cbPanicked, called, returned>>
      /\ StreamTypeOK /\ CallbackerIsLast /\ Line(e, d)
      /\ e \in 0 .. NumTasks /\ d \in 0 .. NumTasks
      /\ slot \in [Channels -> Seq(0 .. NumTasks + 1)]
  BY DEF Streaming, ReceiveCallback, SInv, StreamTypeOK
<1>2. e \in Nat /\ d \in Nat /\ e <= NumTasks /\ d <= e /\ NumTasks \in Nat
  BY LineFacts
<1>3. d >= 1 /\ cbCh = chOf[d]
  BY <1>1 DEF Line, InLine
<1>4. Unreceived(e, d) = d .. e /\ Unreceived(e, d)' = d + 1 .. e
      /\ Holders(e, d) = d .. e /\ Holders(e, d)' = d .. e
  BY <1>1 DEF Unreceived, Holders
<1>5. d \in d .. e /\ \A u \in d .. e : u # d <=> u \in d + 1 .. e
  BY <1>2
<1>6. /\ \A u \in d .. e : chOf[u] \in Channels
      /\ \A u \in d + 1 .. e : chOf[u] # cbCh
  <2>1. /\ \A u \in d .. e : chOf[u] \in Channels
        /\ \A t, u \in d .. e : chOf[t] = chOf[u] => t = u
    BY <1>1, <1>4 DEF Line, OwnChannel
  <2>2. \A u \in d + 1 .. e : u \in d .. e /\ u # d
    BY <1>2
  <2>3. QED
    BY <1>3, <1>5, <2>1, <2>2
<1>7. slot'[cbCh] = <<>> /\ \A k \in Channels \ {cbCh} : slot'[k] = slot[k]
  BY <1>1, <1>3, <1>5, <1>6
<1>8. slot[cbCh] \in {<<d>>, <<None>>, <<Noop>>} /\ (slot[cbCh] = <<d>> <=> d \in returned)
  BY <1>1, <1>3, <1>4, <1>5 DEF Line, HoldsCallback
<1>9. callback' \in {d, None, Noop} /\ (callback' = d <=> d \in returned)
  <2>1. \A x : Head(<<x>>) = x
    OBVIOUS
  <2>2. \A x, y : <<x>> = <<y>> <=> x = y
    OBVIOUS
  <2>3. PICK x \in {d, None, Noop} : slot[cbCh] = <<x>>
    BY <1>8
  <2>4. callback' = x
    BY <1>1, <2>1, <2>3
  <2>5. QED
    BY <1>8, <2>2, <2>3, <2>4
<1>10. d \in Tasks
  BY <1>2, <1>3 DEF Tasks
<1>11. StreamTypeOK' /\ CallbackerIsLast'
  <2>1. callback' \in 0 .. NumTasks + 1
    BY <1>2, <1>9 DEF None, Noop
  <2>2. slot' \in [Channels -> Seq(0 .. NumTasks + 1)]
    BY <1>1, EmptySeq
  <2>3. StreamTypeOK'
    BY <1>1, <2>1, <2>2 DEF StreamTypeOK, goVars
  <2>4. CallbackerIsLast'
    BY <1>1 DEF CallbackerIsLast, Ended, goVars, poolVars
  <2>5. QED
    BY <2>3, <2>4
<1>12. InLine(e, d)' /\ OwnChannel(e, d)'
  BY <1>1, <1>3, <1>4 DEF Line, InLine, OwnChannel, goVars
<1>13. HoldsCallback(e, d)'
  <2>1. /\ \A k \in Channels : (\A u \in d .. e : chOf[u] # k) => slot[k] = <<>>
        /\ \A u \in d .. e :
             /\ slot[chOf[u]] \in {<<>>, <<u>>, <<None>>, <<Noop>>}
             /\ slot[chOf[u]] = <<u>> <=> u \in returned
        /\ \A u \in Tasks : sgo[u] = "queued" => u \in d .. e /\ slot[chOf[u]] = <<>>
        /\ \A v \in Workers : wst[v] = "run" =>
             wtask[v] \in d .. e /\ slot[chOf[wtask[v]]] = <<>>
    BY <1>1, <1>4 DEF Line, HoldsCallback
  <2>2. \A u \in d + 1 .. e : u \in d .. e /\ slot'[chOf[u]] = slot[chOf[u]]
    BY <1>5, <1>6, <1>7, <1>2
  <2>3. \A k \in Channels : (\A u \in d + 1 .. e : chOf[u] # k) => slot'[k] = <<>>
    BY <1>3, <1>5, <1>7, <2>1
  <2>4. \A u \in d + 1 .. e :
             /\ slot'[chOf[u]] \in {<<>>, <<u>>, <<None>>, <<Noop>>}
             /\ slot'[chOf[u]] = <<u>> <=> u \in returned
    BY <2>1, <2>2
  <2>5. \A u \in Tasks : sgo[u] = "queued" => u \in d + 1 .. e /\ slot'[chOf[u]] = <<>>
    BY <1>1, <1>3, <1>5, <2>1, <2>2
  <2>6. \A v \in Workers : wst[v] = "run" =>
             wtask[v] \in d + 1 .. e /\ slot'[chOf[wtask[v]]] = <<>>
    BY <1>1, <1>3, <1>5, <2>1, <2>2
  <2>7. UNCHANGED <<sgo, chOf, wst, wtask, returned>>
    BY <1>1 DEF goVars, poolVars
  <2>8. QED
    BY <1>4, <2>3, <2>4, <2>5, <2>6, <2>7 DEF HoldsCallback, Channels, Noop
<1>14. Calls(e, d)'
  <2>1. /\ \A i \in 1 .. Len(called) : called[i] \in returned /\ called[i] < d
        /\ \A i, j \in 1 .. Len(called) : i < j => called[i] < called[j]
        /\ \A u \in returned :
             \/ u \in d .. e
             \/ \E i \in 1 .. Len(called) : called[i] = u
    BY <1>1, <1>4 DEF Line, Calls
  <2>2. \A u \in returned :
             \/ u \in d + 1 .. e
             \/ u = d
             \/ \E i \in 1 .. Len(called) : called[i] = u
    BY <1>5, <2>1
  <2>3. QED
    BY <1>1, <1>4, <1>9, <2>1, <2>2 DEF Calls, Noop
<1>15. QED
  BY <1>1, <1>11, <1>12, <1>13, <1>14 DEF InOrder, Line

LEMMA CallStep ==
  ASSUME NEW e, NEW d, SInv(e, d), Streaming(CallCallback)
  PROVE  InOrder'
<1>1. /\ cb = "call" /\ cb' = "put" /\ use' = use
      /\ called' = IF callback \in Tasks THEN Append(called, callback) ELSE called
      /\ UNCHANGED <<poolVars, goVars, chVars, cbCh, callback, returned>>
      /\ StreamTypeOK /\ CallbackerIsLast /\ Line(e, d)
      /\ e \in 0 .. NumTasks /\ d \in 0 .. NumTasks
      /\ called \in Seq(Tasks)
  BY DEF Streaming, CallCallback, SInv, StreamTypeOK
<1>2. e \in Nat /\ d \in Nat /\ e <= NumTasks /\ d <= e /\ NumTasks \in Nat
  BY LineFacts
<1>3. d >= 1 /\ d \in Tasks
  BY <1>1, <1>2 DEF Line, InLine, Tasks
<1>4. callback \in Tasks <=> d \in returned
  <2>1. callback \in {d, None, Noop} /\ (callback = d <=> d \in returned)
    BY <1>1 DEF Line, Calls
  <2>2. None \notin Tasks /\ Noop \notin Tasks
    BY <1>2 DEF Tasks, None, Noop
  <2>3. QED
    BY <1>3, <2>1, <2>2
<1>5. callback \in Tasks => callback = d
  BY <1>1, <1>4 DEF Line, Calls
<1>6. Unreceived(e, d) = d + 1 .. e /\ Unreceived(e, d)' = d + 1 .. e
      /\ Holders(e, d) = d .. e /\ Holders(e, d)' = d .. e
  BY <1>1 DEF Unreceived, Holders
<1>7. called' \in Seq(Tasks)
  BY <1>1, AppendProperties
<1>8. StreamTypeOK' /\ CallbackerIsLast'
  <2>1. StreamTypeOK'
    BY <1>1, <1>7 DEF StreamTypeOK, goVars, chVars
  <2>2. CallbackerIsLast'
    BY <1>1 DEF CallbackerIsLast, Ended, goVars, poolVars, chVars
  <2>3. QED
    BY <2>1, <2>2
<1>9. InLine(e, d)' /\ OwnChannel(e, d)' /\ HoldsCallback(e, d)'
  <2>1. InLine(e, d)'
    BY <1>1 DEF Line, InLine, goVars, chVars
  <2>2. OwnChannel(e, d)'
    BY <1>1, <1>6 DEF Line, OwnChannel, goVars, chVars, Channels
  <2>3. HoldsCallback(e, d)'
    BY <1>1, <1>6 DEF Line, HoldsCallback, goVars, poolVars, chVars, Channels, Noop
  <2>4. QED
    BY <2>1, <2>2, <2>3
<1>10. Calls(e, d)'
  <2>1. /\ \A i \in 1 .. Len(called) : called[i] \in returned /\ called[i] < d
        /\ \A i, j \in 1 .. Len(called) : i < j => called[i] < called[j]
        /\ \A u \in returned :
             \/ u \in d + 1 .. e
             \/ u = d
             \/ \E i \in 1 .. Len(called) : called[i] = u
    BY <1>1, <1>6 DEF Line, Calls
  <2>2. Len(called) \in Nat /\ \A i \in 1 .. Len(called) : called[i] \in Nat
    <3>1. \A i \in 1 .. Len(called) : called[i] \in Tasks
      BY <1>1, ElementOfSeq
    <3>2. QED
      BY <1>1, <3>1, LenProperties DEF Tasks
  <2>3. CASE callback \notin Tasks
    <3>1. called' = called /\ d \notin returned
      BY <1>1, <1>4, <2>3
    <3>2. \A i \in 1 .. Len(called) : called[i] < d + 1
      BY <1>2, <2>1, <2>2
    <3>3. QED
      BY <1>1, <1>6, <2>1, <3>1, <3>2 DEF Calls
  <2>4. CASE callback \in Tasks
    <3>1. called' = Append(called, d) /\ d \in returned
      BY <1>1, <1>4, <1>5, <2>4
    <3>2. /\ Len(called') = Len(called) + 1
          /\ \A i \in 1 .. Len(called) : called'[i] = called[i]
          /\ called'[Len(called) + 1] = d
      BY <1>1, <1>3, <3>1, AppendProperties
    <3>3. \A i \in 1 .. Len(called') : i \in 1 .. Len(called) \/ i = Len(called) + 1
      BY <2>2, <3>2
    <3>4. \A i \in 1 .. Len(called') : called'[i] \in returned /\ called'[i] < d + 1
      BY <1>2, <2>1, <2>2, <3>1, <3>2, <3>3
    <3>5. ASSUME NEW i \in 1 .. Len(called'), NEW j \in 1 .. Len(called'), i < j
          PROVE  called'[i] < called'[j]
      <4>1. i \in 1 .. Len(called)
        BY <2>2, <3>2, <3>5
      <4>2. QED
        BY <2>1, <3>2, <3>3, <3>5, <4>1
    <3>6. \A u \in returned :
             \/ u \in d + 1 .. e
             \/ \E i \in 1 .. Len(called') : called'[i] = u
      <4>1. Len(called) + 1 \in 1 .. Len(called') /\ \A i \in 1 .. Len(called) : i \in 1 .. Len(called')
        BY <2>2, <3>2
      <4>2. QED
        BY <2>1, <3>2, <4>1
    <3>7. QED
      BY <1>1, <1>6, <3>4, <3>5, <3>6 DEF Calls
  <2>5. QED
    BY <2>3, <2>4
<1>11. QED
  BY <1>1, <1>8, <1>9, <1>10 DEF InOrder, Line

LEMMA PutStep ==
  ASSUME NEW e, NEW d, SInv(e, d), Streaming(PutChannel)
  PROVE  InOrder'
<1>1. /\ cb = "put" /\ cb' = "range" /\ use' = use /\ free' = free \cup {cbCh}
      /\ UNCHANGED <<poolVars, goVars, slot, queue, cbCh, callback, cbPanicked, called, returned>>
      /\ StreamTypeOK /\ CallbackerIsLast /\ Line(e, d)
      /\ e \in 0 .. NumTasks /\ d \in 0 .. NumTasks
  BY DEF Streaming, PutChannel, SInv
<1>2. e \in Nat /\ d \in Nat /\ e <= NumTasks /\ d <= e /\ NumTasks \in Nat
  BY LineFacts
<1>3. cbCh = chOf[d]
  BY <1>1 DEF Line, InLine
<1>4. Unreceived(e, d) = d + 1 .. e /\ Unreceived(e, d)' = d + 1 .. e
      /\ Holders(e, d) = d .. e /\ Holders(e, d)' = d + 1 .. e
  BY <1>1 DEF Unreceived, Holders
<1>5. d \in d .. e /\ \A u \in d .. e : u # d <=> u \in d + 1 .. e
  BY <1>2
<1>6. d + 1 .. e \in SUBSET (d .. e)
  BY <1>2
<1>7. /\ \A u \in d .. e : chOf[u] \in Channels
      /\ \A t, u \in d .. e : chOf[t] = chOf[u] => t = u
      /\ free = Channels \ {chOf[u] : u \in d .. e}
  BY <1>1, <1>4 DEF Line, OwnChannel
<1>8. free' = Channels \ {chOf[u] : u \in d + 1 .. e}
  BY <1>1, <1>3, <1>5, <1>6, <1>7
<1>9. StreamTypeOK' /\ CallbackerIsLast'
  <2>1. free' \in SUBSET Channels
    BY <1>8
  <2>2. StreamTypeOK'
    BY <1>1, <2>1 DEF StreamTypeOK, goVars
  <2>3. CallbackerIsLast'
    BY <1>1 DEF CallbackerIsLast, Ended, goVars, poolVars
  <2>4. QED
    BY <2>2, <2>3
<1>10. InLine(e, d)'
  BY <1>1 DEF Line, InLine, goVars
<1>11. OwnChannel(e, d)'
  BY <1>1, <1>4, <1>6, <1>7, <1>8 DEF OwnChannel, goVars, Channels
<1>12. HoldsCallback(e, d)' /\ Calls(e, d)'
  BY <1>1, <1>4 DEF Line, HoldsCallback, Calls, goVars, poolVars, Channels, Noop
<1>13. QED
  BY <1>1, <1>9, <1>10, <1>11, <1>12 DEF InOrder, Line

LEMMA GoneStep ==
  ASSUME NEW e, NEW d, SInv(e, d), Streaming(CallbackerEnds)
  PROVE  InOrder'
<1>1. /\ cb = "range" /\ queue = <<>> /\ queueClosed /\ cb' = "gone" /\ use' = use
      /\ UNCHANGED <<poolVars, goVars, chVars, cbCh, callback, cbPanicked, called, returned>>
      /\ StreamTypeOK /\ CallbackerIsLast /\ Line(e, d)
      /\ e \in 0 .. NumTasks /\ d \in 0 .. NumTasks
  BY DEF Streaming, CallbackerEnds, SInv
<1>2. Unreceived(e, d)' = Unreceived(e, d) /\ Holders(e, d)' = Holders(e, d)
  BY <1>1 DEF Unreceived, Holders
<1>3. StreamTypeOK' /\ CallbackerIsLast'
  BY <1>1 DEF StreamTypeOK, CallbackerIsLast, Ended, goVars, poolVars, chVars
<1>4. InLine(e, d)' /\ OwnChannel(e, d)'
  BY <1>1, <1>2 DEF Line, InLine, OwnChannel, goVars, chVars, Channels
<1>5. HoldsCallback(e, d)' /\ Calls(e, d)'
  BY <1>1, <1>2 DEF Line, HoldsCallback, Calls, goVars, chVars, poolVars, Channels, Noop
<1>6. QED
  BY <1>1, <1>3, <1>4, <1>5 DEF InOrder, Line

LEMMA StreamStep == PoolInv /\ ResultInv /\ StreamInv /\ [PoolsNext]_allVars => StreamInv'
<1> SUFFICES ASSUME PoolInv, ResultInv, StreamInv, [PoolsNext]_allVars, use' = "stream"
             PROVE  InOrder'
  BY DEF StreamInv
<1>1. use' = use /\ use = "stream"
  BY UserTypes DEF PoolInv
<1>2. PICK e \in 0 .. NumTasks, d \in 0 .. NumTasks : Line(e, d)
  BY <1>1 DEF StreamInv, InOrder
<1>3. SInv(e, d)
  BY <1>1, <1>2 DEF StreamInv, InOrder, SInv
<1>4. CASE UNCHANGED allVars
  <2>1. UNCHANGED <<use, wtask, wst, waited, sgo, chOf, chVars, cbVars, returned, queueClosed, swait>>
    BY <1>4 DEF allVars, poolVars, streamVars, goVars
  <2>2. CallbackerIsLast'
    BY <1>3, <2>1 DEF SInv, CallbackerIsLast, Ended, chVars, cbVars
  <2>3. queueClosed' \in BOOLEAN /\ swait' \in {"no", "pool", "callbacks", "returned", "panicked"}
    BY <1>3, <2>1 DEF SInv, StreamTypeOK
  <2>4. QED
    BY <1>3, <2>1, <2>2, <2>3, AsideStep
<1>5. CASE Streaming(StreamNext)
  <2>1. ASSUME NEW t \in Tasks, Enqueue(t) \/ SubmitTask(t)
        PROVE  InOrder'
    <3>1. Streaming(Enqueue(t)) \/ Streaming(SubmitTask(t))
      BY <1>5, <2>1 DEF Streaming
    <3>2. QED
      BY <1>3, <3>1, EnqueueStep, SubmitTaskStep
  <2>2. ASSUME NEW w \in Workers, NEW f \in Tasks \cup {None}, TaskReturns(w, f)
        PROVE  InOrder'
    <3>1. /\ f \in {wtask[w], None} /\ wst[w] = "run" /\ wst' = [wst EXCEPT ![w] = "range"]
          /\ UNCHANGED <<use, wtask, waited, sgo, chOf, queueClosed, swait, free, queue, cbVars>>
          /\ SendCallback(w, f) /\ returned' = (returned \cup {f}) \ {None}
      BY <1>1, <2>2 DEF TaskReturns, BodyReturns, goVars
    <3>2. wtask[w] \in Tasks /\ returned \in SUBSET Tasks /\ None \notin Tasks
      BY <1>3, <3>1 DEF SInv, PoolInv, OwnTask, Submitted, StreamTypeOK, None, Tasks
    <3>3. returned' = IF f = wtask[w] THEN returned \cup {f} ELSE returned
      BY <3>1, <3>2
    <3>4. QED
      BY <1>3, <3>1, <3>3, EndStep
  <2>3. ASSUME NEW w \in Workers, TaskPanics(w)
        PROVE  InOrder'
    <3>1. /\ wst[w] = "run" /\ wst' = [wst EXCEPT ![w] = "unwind"]
          /\ UNCHANGED <<use, wtask, waited, sgo, chOf, queueClosed, swait, free, queue, cbVars>>
          /\ SendCallback(w, Noop) /\ returned' = returned
      BY <1>1, <2>3 DEF TaskPanics, BodyPanics, goVars
    <3>2. wtask[w] \in Tasks /\ Noop \notin Tasks
      BY <1>3, <3>1, PoolAssumption DEF SInv, PoolInv, OwnTask, Submitted, Noop, Tasks
    <3>3. returned' = IF Noop = wtask[w] THEN returned \cup {Noop} ELSE returned
      BY <3>1, <3>2
    <3>4. QED
      BY <1>3, <3>1, <3>3, EndStep
  <2>4. ASSUME NEW w \in Workers, WorkerStep(w), UNCHANGED streamVars
        PROVE  InOrder'
    <3>1. Works(w)
      BY <2>4 DEF Works
    <3>2. UNCHANGED <<use, wtask, waited, sgo, chOf, chVars, cbVars, returned, queueClosed, swait>>
      BY <1>1, <1>3, <2>4, <3>1, WorkingWorker DEF SInv, streamVars, goVars
    <3>3. \A v \in Workers : wst'[v] = "run" => wst[v] = "run"
      BY <1>3, <3>1, WorkingWorker DEF SInv, PoolInv, PoolTypeOK
    <3>4. CallbackerIsLast'
      BY <1>3, <3>2 DEF SInv, CallbackerIsLast, Ended, chVars, cbVars
    <3>5. queueClosed' \in BOOLEAN /\ swait' \in {"no", "pool", "callbacks", "returned", "panicked"}
      BY <1>3, <3>2 DEF SInv, StreamTypeOK
    <3>6. QED
      BY <1>3, <3>2, <3>3, <3>4, <3>5, AsideStep
  <2>5. CASE Callbacker
    <3>1. \/ Streaming(Dequeue) \/ Streaming(ReceiveCallback) \/ Streaming(CallCallback)
          \/ Streaming(PutChannel) \/ Streaming(CallbackerEnds)
      BY <1>5, <2>5 DEF Streaming, Callbacker
    <3>2. QED
      BY <1>3, <3>1, DequeueStep, ReceiveStep, CallStep, PutStep, GoneStep
  <2>6. CASE StreamWaits \/ CloseQueue \/ StreamWaitEnds
    <3>1. UNCHANGED <<use, wst, wtask, sgo, chOf, chVars, cbVars, returned>>
      BY <1>1, <2>6 DEF StreamWaits, CloseQueue, StreamWaitEnds, WaitCloses, WaitEnds, poolVars
    <3>2. CASE StreamWaits
      <4>1. ~Ended /\ swait' = "pool" /\ queueClosed' = queueClosed
        BY <3>2 DEF StreamWaits, WaitCloses, Ended
      <4>2. queueClosed' = FALSE /\ CallbackerIsLast'
        BY <1>3, <3>1, <4>1 DEF SInv, CallbackerIsLast, StreamTypeOK, cbVars
      <4>3. QED
        BY <1>3, <3>1, <4>1, <4>2, AsideStep
    <3>3. CASE CloseQueue
      <4>1. Ended' /\ swait' = "callbacks" /\ queueClosed' = TRUE
        BY <3>3 DEF CloseQueue, WaitEnds, Ended
      <4>2. CallbackerIsLast'
        BY <1>3, <3>1, <4>1 DEF SInv, CallbackerIsLast, cbVars, chVars
      <4>3. QED
        BY <1>3, <3>1, <4>1, <4>2, AsideStep
    <3>4. CASE StreamWaitEnds
      <4>1. cb = "gone" /\ swait' \in {"returned", "panicked"} /\ UNCHANGED <<queueClosed, waited>>
        BY <3>4 DEF StreamWaitEnds, poolVars
      <4>2. CallbackerIsLast' /\ queueClosed' \in BOOLEAN
        BY <1>3, <3>1, <4>1 DEF SInv, CallbackerIsLast, Ended, StreamTypeOK, cbVars, chVars
      <4>3. QED
        BY <1>3, <3>1, <4>1, <4>2, AsideStep
    <3>5. QED
      BY <2>6, <3>2, <3>3, <3>4
  <2>7. QED
    BY <1>5, <2>1, <2>2, <2>3, <2>4, <2>5, <2>6 DEF Streaming, StreamNext, StreamTask
<1>6. QED
  BY <1>1, <1>4, <1>5 DEF PoolsNext, Results

-----------------------------------------------------------------------------
(* The invariant *)

LEMMA InitPool == PoolsInit => PoolInv
<1> SUFFICES ASSUME PoolsInit PROVE PoolInv
  OBVIOUS
<1>1. /\ use \in {"results", "stream"}
      /\ gpc = [t \in Tasks |-> "new"] /\ sgo = [t \in Tasks |-> "new"]
      /\ wst = [w \in Workers |-> "off"] /\ wtask = [w \in Workers |-> 0]
      /\ slots = 0 /\ recovered = 0 /\ waited = "no" /\ runs = [t \in Tasks |-> 0]
  BY DEF PoolsInit, Init, StreamInit, PoolInit, None
<1>2. Submitted = {} /\ Started = {} /\ Live = {} /\ Holding = {}
  BY <1>1 DEF Submitted, Started, Live, Holding
<1>3. PoolTypeOK
  BY <1>1, PoolAssumption DEF PoolTypeOK
<1>4. Cardinality({}) = 0
  BY FS_EmptySet
<1>5. OneStart
  BY <1>1, <1>2, <1>4 DEF OneStart
<1>6. OwnTask /\ WaitIsLast
  BY <1>1 DEF OwnTask, WaitIsLast, Ended
<1>7. LimitRespected
  BY <1>1, <1>2, <1>4, PoolAssumption DEF LimitRespected
<1>8. QED
  BY <1>3, <1>5, <1>6, <1>7 DEF PoolInv

LEMMA InitInv == PoolsInit => IInv
<1> SUFFICES ASSUME PoolsInit PROVE IInv
  OBVIOUS
<1>1. PoolInv
  BY InitPool
<1>2. ResultInv
  <2>1. /\ cancelOnError \in BOOLEAN /\ collectErrored \in BOOLEAN
        /\ gpc = [t \in Tasks |-> "new"] /\ aggLen = 0 /\ results = <<>> /\ errored = {}
        /\ errs = <<>> /\ cancelled = "no" /\ bpc = [w \in Workers |-> "f"]
        /\ outcome = [w \in Workers |-> "ok"] /\ waited = "no"
    BY DEF PoolsInit, Init, PoolInit
  <2>2. ResultTypeOK
    <3>1. results \in Seq(0 .. NumTasks) /\ errs \in Seq(Tasks \X {"ok", "own", "ctx"})
      BY <2>1, EmptySeq
    <3>2. bpc \in [Workers -> {"f", "fail", "cancel", "panicCancel"}]
          /\ \A w \in Workers : bpc[w] = "f"
      BY <2>1
    <3>3. /\ cancelOnError \in BOOLEAN /\ collectErrored \in BOOLEAN
          /\ cancelled \in {"no", "caller", "error", "panic", "wait"}
          /\ errored \in SUBSET Tasks
          /\ outcome \in [Workers -> {"ok", "own", "ctx"}]
      BY <2>1
    <3>4. 0 \in 0 .. NumTasks
      BY PoolAssumption
    <3>5. aggLen \in 0 .. NumTasks
      BY <2>1, <3>4
    <3>6. QED
      BY <3>1, <3>2, <3>3, <3>5 DEF ResultTypeOK
  <2>3. Len(results) = 0
    BY <2>1
  <2>4. ASSUME use = "results" PROVE ResultsKept
    <3>1. Submitted = {}
      BY <2>1, <2>4 DEF Submitted
    <3>2. QED
      BY <2>1, <2>3, <3>1, PoolAssumption DEF ResultsKept, Tasks
  <2>5. Cause
    BY <2>1 DEF Cause, FirstErrorIsCause
  <2>6. QED
    BY <2>2, <2>4, <2>5 DEF ResultInv
<1>3. StreamInv
  <2>1. /\ sgo = [t \in Tasks |-> "new"] /\ chOf = [t \in Tasks |-> 0]
        /\ free = Channels /\ slot = [c \in Channels |-> <<>>] /\ queue = <<>>
        /\ queueClosed = FALSE /\ cb = "range" /\ cbCh = 0 /\ callback = 0 /\ swait = "no"
        /\ returned = {} /\ called = <<>> /\ wst = [w \in Workers |-> "off"]
    BY DEF PoolsInit, StreamInit, PoolInit, None
  <2>2. StreamTypeOK
    <3>1. /\ <<>> \in Seq(0 .. NumTasks + 1) /\ queue \in Seq(Channels)
          /\ called \in Seq(Tasks)
      BY <2>1, EmptySeq
    <3>2. slot \in [Channels -> Seq(0 .. NumTasks + 1)] /\ chOf \in [Tasks -> 0 .. NumTasks]
      BY <2>1, <3>1, PoolAssumption
    <3>3. /\ free \in SUBSET Channels /\ queueClosed \in BOOLEAN
          /\ cb \in {"range", "receive", "call", "put", "gone"}
          /\ swait \in {"no", "pool", "callbacks", "returned", "panicked"}
          /\ returned \in SUBSET Tasks
      BY <2>1
    <3>4. 0 \in 0 .. NumTasks /\ 0 \in 0 .. NumTasks + 1
      BY PoolAssumption
    <3>5. cbCh \in 0 .. NumTasks /\ callback \in 0 .. NumTasks + 1
      BY <2>1, <3>4
    <3>6. QED
      BY <3>1, <3>2, <3>3, <3>5 DEF StreamTypeOK
  <2>3. CallbackerIsLast
    BY <2>1 DEF CallbackerIsLast
  <2>4. Holders(0, 0) = {} /\ Unreceived(0, 0) = {}
    BY <2>1 DEF Holders, Unreceived
  <2>5. Len(queue) = 0 /\ Len(called) = 0
    BY <2>1
  <2>6. InLine(0, 0)
    BY <2>1, <2>5, PoolAssumption DEF InLine, Tasks
  <2>7. OwnChannel(0, 0)
    BY <2>1, <2>4 DEF OwnChannel
  <2>8. HoldsCallback(0, 0)
    BY <2>1, <2>4 DEF HoldsCallback
  <2>9. Calls(0, 0)
    BY <2>1, <2>5 DEF Calls
  <2>10. Line(0, 0) /\ 0 \in 0 .. NumTasks
    BY <2>6, <2>7, <2>8, <2>9, PoolAssumption DEF Line
  <2>11. QED
    BY <2>2, <2>3, <2>10 DEF StreamInv, InOrder
<1>4. Apart
  BY DEF PoolsInit, Init, StreamInit, Apart
<1>5. QED
  BY <1>1, <1>2, <1>3, <1>4 DEF IInv

LEMMA Inductive == PoolsSafetySpec => []IInv
<1>1. IInv /\ [PoolsNext]_allVars => IInv'
  <2>1. Apart /\ PoolTypeOK /\ [PoolsNext]_allVars => Apart'
    <3>1. SUFFICES ASSUME Apart, PoolTypeOK, [PoolsNext]_allVars PROVE Apart'
      OBVIOUS
    <3>2. CASE UNCHANGED allVars
      BY <3>1, <3>2 DEF Apart, allVars, resultVars, streamVars, cbVars, goVars, opts
    <3>3. CASE Results(Next)
      <4>1. UNCHANGED <<use, called, swait>> /\ use = "results"
        BY <3>3 DEF Results, streamVars, cbVars, goVars
      <4>2. QED
        BY <3>1, <4>1 DEF Apart
    <3>4. CASE Streaming(StreamNext)
      <4>1. UNCHANGED <<use, errs, cancelled>> /\ use = "stream"
        BY <3>4 DEF Streaming, resultVars
      <4>2. QED
        BY <3>1, <4>1 DEF Apart
    <3>5. QED
      BY <3>1, <3>2, <3>3, <3>4 DEF PoolsNext
  <2>2. QED
    BY <2>1, PoolStep, ResultStep, StreamStep DEF IInv, PoolInv
<1>2. QED
  BY <1>1, InitInv, PTL DEF PoolsSafetySpec

-----------------------------------------------------------------------------
(* The theorems *)

(* As many workers are started as the limiter has slots, and the slot of a  *)
(* worker whose task panicked comes back (pool.go, limiter).                *)
THEOREM PoolKeepsLimit == PoolsSafetySpec => []LimitRespected
<1>1. IInv => LimitRespected
  BY DEF IInv, PoolInv
<1>2. QED
  BY <1>1, Inductive, PTL

(* When Wait has ended without a panic each index of the slice holds the    *)
(* result of its task.                                                      *)
LEMMA AllResults ==
  ASSUME IInv, use = "results", Ended, recovered = None
  PROVE  /\ Len(results) = NumTasks /\ results \in Seq(0 .. NumTasks)
         /\ \A t \in Tasks : results[t] = t
<1>1. Live = {} /\ Submitted = Tasks
  BY DEF IInv, PoolInv, WaitIsLast, Ended
<1>2. \A w \in Workers : wst[w] \in {"off", "gone"}
  BY <1>1 DEF Live
<1>3. ResultTypeOK /\ ResultsKept
  BY DEF IInv, ResultInv
<1>4. ~Panicked
  BY <1>2, <1>3 DEF Panicked, ResultTypeOK
<1>5. \A t \in Tasks : t <= Len(results) /\ results[t] = t
  BY <1>1, <1>2, <1>3, <1>4 DEF ResultsKept
<1>6. results \in Seq(0 .. NumTasks) /\ aggLen <= NumTasks /\ Len(results) <= aggLen
      /\ aggLen \in Nat /\ Len(results) \in Nat /\ NumTasks \in Nat
  BY <1>3, PoolAssumption DEF ResultTypeOK, ResultsKept
<1>7. NumTasks <= Len(results)
  <2>1. CASE NumTasks = 0
    BY <1>6, <2>1
  <2>2. CASE NumTasks # 0
    BY <1>5, <1>6, <2>2 DEF Tasks
  <2>3. QED
    BY <2>1, <2>2
<1>8. QED
  BY <1>5, <1>6, <1>7

(* Every task given to the pool has been run once when Wait ends, Wait      *)
(* panics exactly if a task did, and otherwise each task has left a result  *)
(* (Pool.Wait and resultAggregator.save).                                   *)
THEOREM PoolRunsAllOnce == PoolsSafetySpec => []AllRunOnce
<1>1. IInv => AllRunOnce
  <2>1. SUFFICES ASSUME IInv, Ended
                 PROVE  /\ \A t \in Tasks : runs[t] = 1
                        /\ waited = "panicked" <=> recovered # None
                        /\ recovered = None /\ use = "results" => ToSet(results) = Tasks
    BY DEF AllRunOnce, Ended
  <2>2. \A t \in Tasks : runs[t] = 1
    BY <2>1 DEF IInv, PoolInv, WaitIsLast, OneStart, Ended
  <2>3. waited = "panicked" <=> recovered # None
    BY <2>1 DEF IInv, PoolInv, WaitIsLast
  <2>4. ASSUME recovered = None, use = "results"
        PROVE  ToSet(results) = Tasks
    <3>1. /\ Len(results) = NumTasks /\ results \in Seq(0 .. NumTasks)
          /\ \A t \in Tasks : results[t] = t
      BY <2>1, <2>4, AllResults
    <3>2. DOMAIN results = Tasks
      BY <3>1, LenProperties DEF Tasks
    <3>3. QED
      BY <3>1, <3>2 DEF ToSet
  <2>5. QED
    BY <2>2, <2>3, <2>4
<1>2. QED
  BY <1>1, Inductive, PTL

(* The error that WithFirstError picks is never one that the pool's own     *)
(* cancellation caused: ContextPool.Go records an error before it cancels,  *)
(* so a context error comes first only if the caller or a panic cancelled.  *)
THEOREM FirstErrorExplains == PoolsSafetySpec => []FirstErrorIsCause
<1>1. IInv => FirstErrorIsCause
  <2>1. SUFFICES ASSUME IInv PROVE FirstErrorIsCause
    OBVIOUS
  <2>2. CASE use = "results"
    BY <2>1, <2>2 DEF IInv, ResultInv, Cause
  <2>3. CASE use = "stream"
    BY <2>1, <2>3 DEF IInv, Apart, FirstErrorIsCause
  <2>4. QED
    BY <2>1, <2>2, <2>3 DEF IInv, PoolInv, PoolTypeOK
<1>2. QED
  BY <1>1, Inductive, PTL

Rank(K, k) == Cardinality({i \in K : i <= k})

(* A finite set of numbers has an element of each rank, so that the CHOOSE  *)
(* of Collect finds one.                                                    *)
LEMMA RankExists ==
  ASSUME NEW K \in SUBSET Tasks, NEW j \in 1 .. Cardinality(K)
  PROVE  \E k \in K : Rank(K, k) = j
<1>1. /\ IsFiniteSet(K) /\ Cardinality(K) \in Nat /\ K \in SUBSET Nat /\ j \in Nat /\ j >= 1
      /\ \A k \in K : k <= NumTasks /\ k \in Nat
      /\ NumTasks \in Nat
  BY TaskSets, PoolAssumption DEF Tasks
<1>2. ASSUME NEW L \in SUBSET K, L # {}
      PROVE  \E m \in L : \A i \in L : i <= m
  <2>1. Max(L) \in L /\ \A i \in L : i <= Max(L)
    BY <1>1, <1>2, MaxMember
  <2>2. QED
    BY <2>1
<1>3. \A k \in K : {i \in K : i <= k} \in SUBSET Tasks
  OBVIOUS
<1>4. \A k \in K : Rank(K, k) \in Nat
  BY <1>3, TaskSets DEF Rank
<1> DEFINE S == {k \in K : Rank(K, k) >= j}
<1>5. S # {}
  <2>1. K # {}
    <3>1. Cardinality({}) = 0
      BY FS_EmptySet
    <3>2. QED
      BY <1>1, <3>1
  <2>2. PICK m \in K : \A i \in K : i <= m
    BY <1>2, <2>1
  <2>3. {i \in K : i <= m} = K
    BY <2>2
  <2>4. QED
    BY <1>1, <2>2, <2>3 DEF Rank
<1>6. PICK k \in S : \A i \in S : k <= i
  BY <1>1, <1>5, MinExists
<1>7. k \in K /\ k \in Nat /\ Rank(K, k) >= j /\ Rank(K, k) \in Nat
  BY <1>1, <1>4, <1>6
<1>8. ASSUME Rank(K, k) # j PROVE FALSE
  <2> DEFINE L == {i \in K : i < k}
  <2> HIDE DEF S
  <2>0. ~(k < k) /\ \A i \in K : i <= k <=> i < k \/ i = k
    BY <1>1, <1>7
  <2>1. L \in SUBSET K /\ L \in SUBSET Tasks /\ k \notin L
    BY <2>0
  <2>2. IsFiniteSet(L) /\ Cardinality(L) \in Nat
    BY <2>1, TaskSets
  <2>3. {i \in K : i <= k} = L \cup {k}
    BY <1>7, <2>0
  <2>4. Rank(K, k) = Cardinality(L) + 1
    BY <2>1, <2>2, <2>3, FS_AddElement DEF Rank
  <2>5. Cardinality(L) >= j
    BY <1>1, <1>7, <1>8, <2>2, <2>4
  <2>6. L # {}
    <3>1. Cardinality({}) = 0
      BY FS_EmptySet
    <3>2. QED
      BY <1>1, <2>5, <3>1
  <2>7. PICK m \in L : \A i \in L : i <= m
    BY <1>2, <2>1, <2>6
  <2>8. {i \in K : i <= m} = L
    <3>1. m \in K /\ m < k
      BY <2>7
    <3>2. \A i \in K : i <= m => i < k
      BY <1>1, <1>7, <3>1
    <3>3. QED
      BY <2>7, <3>2
  <2>9. m \in S /\ m < k
    BY <2>5, <2>7, <2>8 DEF Rank, S
  <2>10. QED
    BY <1>1, <1>6, <1>7, <2>9
<1>9. QED
  BY <1>7, <1>8

(* Elements of lower rank are smaller.                                      *)
LEMMA RankOrders ==
  ASSUME NEW K \in SUBSET Tasks, NEW k \in K, NEW l \in K, Rank(K, k) < Rank(K, l)
  PROVE  k < l
<1>1. k \in Nat /\ l \in Nat
  BY DEF Tasks
<1>2. SUFFICES ASSUME l <= k PROVE FALSE
  BY <1>1
<1>3. {i \in K : i <= l} \in SUBSET {i \in K : i <= k} /\ {i \in K : i <= k} \in SUBSET Tasks
      /\ {i \in K : i <= l} \in SUBSET Tasks
  <2>1. \A i \in K : i <= l => i <= k
    BY <1>1, <1>2 DEF Tasks
  <2>2. QED
    BY <2>1
<1>4. Rank(K, l) <= Rank(K, k) /\ Rank(K, l) \in Nat /\ Rank(K, k) \in Nat
  BY <1>3, TaskSets, FS_Subset DEF Rank
<1>5. QED
  BY <1>4

(* The results are in the order of the calls of Go, without those of failed *)
(* tasks unless they are asked for (resultAggregator.collect).              *)
THEOREM ResultsOrdered == PoolsSafetySpec => []ResultsInOrder
<1>1. IInv => ResultsInOrder
  <2>1. SUFFICES ASSUME IInv, use = "results", waited = "returned"
                 PROVE  /\ \A i, j \in 1 .. Len(collected) :
                             i < j => collected[i] < collected[j]
                        /\ ~collectErrored => ToSet(collected) \cap errored = {}
                        /\ collectErrored \/ errored = {} => Len(collected) = NumTasks
    BY DEF ResultsInOrder
  <2>2. Ended /\ recovered = None
    BY <2>1 DEF IInv, PoolInv, WaitIsLast, Ended
  <2>3. /\ Len(results) = NumTasks /\ results \in Seq(0 .. NumTasks)
        /\ \A t \in Tasks : results[t] = t
    BY <2>1, <2>2, AllResults
  <2>4. collected = Collect /\ errored \in SUBSET Tasks
    BY <2>1 DEF IInv, ResultInv, ResultsKept, ResultTypeOK
  <2>5. CASE collectErrored \/ errored = {}
    <3>1. collected = results
      BY <2>4, <2>5 DEF Collect
    <3>2. \A i, j \in 1 .. Len(collected) : i < j => collected[i] < collected[j]
      BY <2>3, <3>1 DEF Tasks
    <3>3. QED
      BY <2>3, <2>5, <3>1, <3>2
  <2>6. CASE ~collectErrored /\ errored # {}
    <3> DEFINE last == Max(errored)
               K == {k \in 1 .. last : k \notin errored}
               n == Cardinality(K)
               R(j) == CHOOSE k \in K : Rank(K, k) = j
    <3>1. last \in Tasks
      <4>1. errored \in SUBSET Nat /\ \A y \in errored : y <= NumTasks
        BY <2>4, PoolAssumption DEF Tasks
      <4>2. QED
        BY <2>4, <2>6, <4>1, MaxMember, PoolAssumption
    <3>2. K \in SUBSET Tasks /\ n \in Nat
      <4>1. K \in SUBSET Tasks
        BY <3>1, PoolAssumption DEF Tasks
      <4>2. QED
        BY <4>1, TaskSets
    <3>3. collected = [j \in 1 .. n |-> results[R(j)]]
      BY <2>4, <2>6 DEF Collect, Rank
    <3> HIDE DEF K, n
    <3>4. ASSUME NEW j \in 1 .. n
          PROVE  R(j) \in K /\ Rank(K, R(j)) = j
      <4>1. \E k \in K : Rank(K, k) = j
        BY <3>2, RankExists DEF n
      <4>2. QED
        BY <4>1
    <3> HIDE DEF R
    <3>5. \A j \in 1 .. n : collected[j] = R(j) /\ R(j) \in Tasks
      BY <2>3, <3>2, <3>3, <3>4
    <3>6. collected \in Seq(Tasks) /\ DOMAIN collected = 1 .. n /\ Len(collected) = n
      <4>1. collected \in [1 .. n -> Tasks]
        BY <3>3, <3>5
      <4>2. collected \in Seq(Tasks)
        BY <3>2, <4>1, SeqDef
      <4>3. Len(collected) \in Nat /\ 1 .. Len(collected) = 1 .. n
        BY <4>1, <4>2, LenProperties
      <4>4. QED
        BY <3>2, <4>1, <4>2, <4>3
    <3>7. ASSUME NEW i \in 1 .. n, NEW j \in 1 .. n, i < j
          PROVE  collected[i] < collected[j]
      <4>1. R(i) \in K /\ R(j) \in K /\ Rank(K, R(i)) < Rank(K, R(j))
        BY <3>4, <3>7
      <4>2. R(i) < R(j)
        BY <3>2, <4>1, RankOrders
      <4>3. QED
        BY <3>5, <4>2
    <3>8. ToSet(collected) \cap errored = {}
      <4>1. \A j \in 1 .. n : R(j) \notin errored
        BY <3>4 DEF K
      <4>2. QED
        BY <3>5, <3>6, <4>1 DEF ToSet
    <3>9. QED
      BY <2>6, <3>6, <3>7, <3>8
  <2>7. QED
    BY <2>5, <2>6
<1>2. QED
  BY <1>1, Inductive, PTL

(* Callbacks are called in the order of the calls of Go, once each, none    *)
(* before its task returned it, and all of them before Wait ends, also when *)
(* tasks or callbacks panic (Stream.Go, Stream.callbacker, Stream.Wait).    *)
THEOREM CallbacksOrdered == PoolsSafetySpec => []CallbacksInOrder
<1>1. IInv => CallbacksInOrder
  <2>1. SUFFICES ASSUME IInv PROVE CallbacksInOrder
    OBVIOUS
  <2>2. CASE use = "results"
    BY <2>1, <2>2 DEF IInv, Apart, CallbacksInOrder
  <2>3. CASE use = "stream"
    <3>1. PICK e \in 0 .. NumTasks, d \in 0 .. NumTasks : Line(e, d)
      BY <2>1, <2>3 DEF IInv, StreamInv, InOrder
    <3>2. SInv(e, d)
      BY <2>1, <2>3, <3>1 DEF IInv, StreamInv, InOrder, SInv
    <3>3. called \in Seq(Tasks) /\ DOMAIN called = 1 .. Len(called)
      BY <3>2, LenProperties DEF SInv, StreamTypeOK
    <3>4. ASSUME swait \in {"returned", "panicked"}, NEW t \in returned
          PROVE  \E i \in 1 .. Len(called) : called[i] = t
      <4>1. cb = "gone" /\ queue = <<>> /\ Ended
        BY <3>2, <3>4 DEF SInv, CallbackerIsLast
      <4>2. Submitted = Tasks
        BY <3>2, <4>1 DEF SInv, PoolInv, WaitIsLast, Ended
      <4>3. \A u \in Tasks : u <= e
        BY <2>3, <3>1, <4>2 DEF Line, InLine, Submitted
      <4>4. Len(queue) = 0 /\ Len(queue) = e - d
        BY <3>1, <4>1 DEF Line, InLine
      <4>5. /\ e \in Nat /\ d \in Nat /\ e <= NumTasks
            /\ Unreceived(e, d) = d + 1 .. e
        BY <3>2, <4>1, LineFacts
      <4>6. Unreceived(e, d) = {}
        BY <4>4, <4>5
      <4>7. QED
        BY <3>1, <3>4, <4>1, <4>6 DEF Line, Calls
    <3>5. /\ \A i, j \in 1 .. Len(called) : i < j => called[i] < called[j]
          /\ \A i \in 1 .. Len(called) : called[i] \in returned
      BY <3>1 DEF Line, Calls
    <3>6. QED
      BY <3>3, <3>4, <3>5 DEF CallbacksInOrder
  <2>4. QED
    BY <2>1, <2>2, <2>3 DEF IInv, PoolInv, PoolTypeOK
<1>2. QED
  BY <1>1, Inductive, PTL
=============================================================================
