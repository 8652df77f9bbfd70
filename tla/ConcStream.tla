----------------------------- MODULE ConcStream -----------------------------
(***************************************************************************)
(* Stream of Go/handwritten-conc/stream/stream.go over Pool: tasks run in  *)
(* parallel, the callbacks they return one after the other, in the order   *)
(* of the calls of Go.                                                     *)
(*                                                                         *)
(* A task gets a channel of one slot, which is queued for the callbacker   *)
(* before the task is given to the pool.  Channels go back to a sync.Pool, *)
(* which hands out a free one, or a new one: a channel is a number, one    *)
(* that was never used is free, and as free ones are alike the least is    *)
(* taken.  getCh is noticed by nobody until the channel is queued and is   *)
(* part of that step.  Tasks are named in the order in which they are      *)
(* queued; the callback of a task is the task, None is the nil callback    *)
(* and Noop the one that stands for a panic.                               *)
(***************************************************************************)
EXTENDS ConcPool, Sequences

VARIABLES sgo,         \* the call of Go for a task: "new", "queued", "done"
          chOf,        \* ch in the closure of the task
          free,        \* callbackChPool
          slot,        \* per channel: what it holds
          queue,       \* s.queue
          queueClosed, \* Wait has closed it
          cb,          \* the callbacker: "range", "receive", "call", "put", "gone"
          cbCh,        \* callbackCh of its loop
          callback,    \* what it received
          cbPanicked,  \* its panicCatcher has recovered a panic
          swait,       \* Wait: "no", "pool", "callbacks", "returned", "panicked"
          returned,    \* history: the tasks that returned a callback
          called       \* history: the callbacks called, in that order

goVars == <<sgo, chOf, queueClosed, swait>>
chVars == <<free, slot, queue>>
cbVars == <<cb, cbCh, callback, cbPanicked, called>>
streamVars == <<goVars, chVars, cbVars, returned>>

Channels == 1 .. NumTasks
Noop == NumTasks + 1

\* make(chan callbackCh, s.pool.MaxGoroutines()+1)
QueueSize == Limit + 1

StreamInit ==
  /\ PoolInit
  /\ sgo = [t \in Tasks |-> "new"]
  /\ chOf = [t \in Tasks |-> None]
  /\ free = Channels
  /\ slot = [c \in Channels |-> <<>>]
  /\ queue = <<>>
  /\ queueClosed = FALSE
  /\ cb = "range"
  /\ cbCh = None
  /\ callback = None
  /\ cbPanicked = FALSE
  /\ swait = "no"
  /\ returned = {}
  /\ called = <<>>

(* Go: getCh and s.queue <- ch. *)
Enqueue(t) ==
  /\ sgo[t] = "new"
  /\ \A u \in 1 .. t - 1 : sgo[u] # "new"
  /\ Len(queue) < QueueSize
  /\ LET c == Min(free)
     IN  /\ free' = free \ {c}
         /\ queue' = Append(queue, c)
         /\ chOf' = [chOf EXCEPT ![t] = c]
  /\ sgo' = [sgo EXCEPT ![t] = "queued"]
  /\ UNCHANGED <<poolVars, slot, queueClosed, swait, cbVars, returned>>

(* Go: s.pool.Go. *)
SubmitTask(t) ==
  /\ sgo[t] = "queued"
  /\ GoSpawns(t) \/ \E w \in Workers : GoHandsOff(t, w)
  /\ sgo' = [sgo EXCEPT ![t] = "done"]
  /\ UNCHANGED <<chOf, queueClosed, swait, chVars, cbVars, returned>>

(* ch <- f *)
SendCallback(w, f) ==
  LET c == chOf[wtask[w]]
  IN  /\ slot[c] = <<>>
      /\ slot' = [slot EXCEPT ![c] = <<f>>]

(* The task: callback := f(), which may be nil, and ch <- callback. *)
TaskReturns(w, f) ==
  /\ f \in {wtask[w], None}
  /\ BodyReturns(w)
  /\ SendCallback(w, f)
  /\ returned' = (returned \cup {f}) \ {None}
  /\ UNCHANGED <<goVars, free, queue, cbVars>>

(* Mutant of TaskPanics: the panic goes on and nothing is sent. *)
TaskPanicsSilently(w) ==
  /\ BodyPanics(w)
  /\ UNCHANGED streamVars

(* The task panics: its deferred function sends a callback that does        *)
(* nothing and panics again.                                                *)
TaskPanics(w) ==
  /\ BodyPanics(w)
  /\ SendCallback(w, Noop)
  /\ UNCHANGED <<goVars, free, queue, cbVars, returned>>

(* Mutant of Dequeue: putCh before the callback was received. *)
DequeueAndPut ==
  /\ cb = "range"
  /\ queue # <<>>
  /\ cbCh' = Head(queue)
  /\ queue' = Tail(queue)
  /\ cb' = "receive"
  /\ free' = free \cup {Head(queue)}
  /\ UNCHANGED <<poolVars, goVars, slot, callback, cbPanicked, called, returned>>

(* callbacker: for callbackCh := range s.queue. *)
Dequeue ==
  /\ cb = "range"
  /\ queue # <<>>
  /\ cbCh' = Head(queue)
  /\ queue' = Tail(queue)
  /\ cb' = "receive"
  /\ UNCHANGED <<poolVars, goVars, free, slot, callback, cbPanicked, called, returned>>

(* callback := <-callbackCh *)
ReceiveCallback ==
  /\ cb = "receive"
  /\ slot[cbCh] # <<>>
  /\ callback' = Head(slot[cbCh])
  /\ slot' = [slot EXCEPT ![cbCh] = <<>>]
  /\ cb' = "call"
  /\ UNCHANGED <<poolVars, goVars, free, queue, cbCh, cbPanicked, called, returned>>

(* panicCatcher.Try(callback), unless it is nil; it may panic. *)
CallCallback ==
  /\ cb = "call"
  /\ called' = IF callback \in Tasks THEN Append(called, callback) ELSE called
  /\ cbPanicked' \in IF callback \in Tasks THEN {cbPanicked, TRUE} ELSE {cbPanicked}
  /\ cb' = "put"
  /\ UNCHANGED <<poolVars, goVars, chVars, cbCh, callback, returned>>

PutChannel ==
  /\ cb = "put"
  /\ free' = free \cup {cbCh}
  /\ cb' = "range"
  /\ UNCHANGED <<poolVars, goVars, slot, queue, cbCh, callback, cbPanicked, called, returned>>

(* The queue is closed and empty: callbacker repanics or returns. *)
CallbackerEnds ==
  /\ cb = "range"
  /\ queue = <<>>
  /\ queueClosed
  /\ cb' = "gone"
  /\ UNCHANGED <<poolVars, goVars, chVars, cbCh, callback, cbPanicked, called, returned>>

(* Wait, once the calls of Go have returned: s.pool.Wait. *)
StreamWaits ==
  /\ swait = "no"
  /\ \A t \in Tasks : sgo[t] = "done"
  /\ WaitCloses
  /\ swait' = "pool"
  /\ UNCHANGED <<sgo, chOf, queueClosed, chVars, cbVars, returned>>

(* The pool's Wait has returned or panicked; the deferred function closes   *)
(* the queue and waits for the callbacker.                                  *)
CloseQueue ==
  /\ swait = "pool"
  /\ WaitEnds
  /\ queueClosed' = TRUE
  /\ swait' = "callbacks"
  /\ UNCHANGED <<sgo, chOf, chVars, cbVars, returned>>

(* It panics if a callback did or, failing that, if the pool's Wait did. *)
StreamWaitEnds ==
  /\ swait = "callbacks"
  /\ cb = "gone"
  /\ swait' = IF cbPanicked \/ waited = "panicked" THEN "panicked" ELSE "returned"
  /\ UNCHANGED <<poolVars, sgo, chOf, queueClosed, chVars, cbVars, returned>>

Callbacker == Dequeue \/ ReceiveCallback \/ CallCallback \/ PutChannel \/ CallbackerEnds

StreamTask(w) ==
  \/ \E f \in Tasks \cup {None} : TaskReturns(w, f)
  \/ TaskPanics(w)
  \/ WorkerStep(w) /\ UNCHANGED streamVars

StreamNext ==
  \/ \E t \in Tasks : Enqueue(t) \/ SubmitTask(t)
  \/ \E w \in Workers : StreamTask(w)
  \/ Callbacker
  \/ StreamWaits \/ CloseQueue \/ StreamWaitEnds

-----------------------------------------------------------------------------

(* Callbacks are called in the order of the calls of Go, each once and only *)
(* after its task has returned it, although tasks run and panic in any      *)
(* order and channels are used again; and when Wait ends each one has been  *)
(* called, also behind a callback or a task that panicked.                  *)
CallbacksInOrder ==
  /\ \A i, j \in DOMAIN called : i < j => called[i] < called[j]
  /\ \A i \in DOMAIN called : called[i] \in returned
  /\ swait \in {"returned", "panicked"} =>
       \A t \in returned : \E i \in DOMAIN called : called[i] = t
=============================================================================
