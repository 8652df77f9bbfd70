--------------------------- MODULE ConcResultPool ---------------------------
(***************************************************************************)
(* ResultContextPool over ContextPool over ErrorPool over Pool, of         *)
(* Go/handwritten-conc/pool: a task returns a result and an error, may     *)
(* panic, and runs under a context that the first error or panic cancels   *)
(* when cancelOnError is set.  The context is derived from the caller's    *)
(* (WithContext), which may be cancelled, or run out of time, at any       *)
(* moment.                                                                 *)
(*                                                                         *)
(* A task is named by the index it gets from nextIndex, counted from 1,    *)
(* and its result is the task itself.  An error is the pair of the task    *)
(* and its kind: "own", or "ctx" when the task gave up because it saw the  *)
(* context cancelled.                                                      *)
(***************************************************************************)
EXTENDS ConcPool, Sequences, SequencesExt

VARIABLES cancelOnError,  \* ContextPool.cancelOnError
          collectErrored, \* ResultContextPool.collectErrored
          gpc,       \* the call of Go for a task: "new", "indexed", "done"
          aggLen,    \* agg.len
          results,   \* agg.results
          errored,   \* agg.errored
          errs,      \* errorPool.errs
          cancelled, \* who cancelled the context of the pool first: "no" (nobody),
                     \* "caller", "error", "panic", "wait"
          bpc,       \* per worker, inside the task: "f", "fail", "cancel",
                     \* "panicCancel"
          outcome,   \* per worker: the error of f: "ok" for none, "own", "ctx"
          collected  \* what Wait returned

opts == <<cancelOnError, collectErrored>>
aggVars == <<aggLen, results, errored>>
bodyVars == <<bpc, outcome>>
vars == <<poolVars, opts, gpc, aggVars, errs, cancelled, bodyVars, collected>>

Init ==
  /\ PoolInit
  /\ cancelOnError \in BOOLEAN
  /\ collectErrored \in BOOLEAN
  /\ gpc = [t \in Tasks |-> "new"]
  /\ aggLen = 0
  /\ results = <<>>
  /\ errored = {}
  /\ errs = <<>>
  /\ cancelled = "no"
  /\ bpc = [w \in Workers |-> "f"]
  /\ outcome = [w \in Workers |-> "ok"]
  /\ collected = <<>>

(* Go: nextIndex under the aggregator's mutex. *)
NextIndex(t) ==
  /\ t = aggLen + 1
  /\ gpc' = [gpc EXCEPT ![t] = "indexed"]
  /\ aggLen' = aggLen + 1
  /\ UNCHANGED <<poolVars, opts, results, errored, errs, cancelled, bodyVars, collected>>

(* Go: the select of Pool.Go. *)
Submit(t) ==
  /\ gpc[t] = "indexed"
  /\ GoSpawns(t) \/ \E w \in Workers : GoHandsOff(t, w)
  /\ gpc' = [gpc EXCEPT ![t] = "done"]
  /\ UNCHANGED <<opts, aggVars, errs, cancelled, bodyVars, collected>>

Step(w, from, to) ==
  /\ wst[w] = "run"
  /\ bpc[w] = from
  /\ bpc' = [bpc EXCEPT ![w] = to]

(* A context is cancelled once; what comes later does nothing.              *)
Cancel(by) == cancelled' = IF cancelled = "no" THEN by ELSE cancelled

(* The caller's context, from which the pool's is derived, is cancelled or  *)
(* reaches its deadline.                                                    *)
CallerCancels ==
  /\ cancelled = "no"
  /\ Cancel("caller")
  /\ UNCHANGED <<poolVars, opts, gpc, aggVars, errs, bodyVars, collected>>

(* f panics; with cancelOnError a deferred function cancels first.          *)
FPanics(w) ==
  /\ IF cancelOnError
     THEN Step(w, "f", "panicCancel") /\ UNCHANGED poolVars
     ELSE bpc[w] = "f" /\ BodyPanics(w) /\ UNCHANGED bpc
  /\ UNCHANGED <<opts, gpc, aggVars, errs, cancelled, outcome, collected>>

PanicCancels(w) ==
  /\ bpc[w] = "panicCancel"
  /\ BodyPanics(w)
  /\ Cancel("panic")
  /\ bpc' = [bpc EXCEPT ![w] = "f"]
  /\ UNCHANGED <<opts, gpc, aggVars, errs, outcome, collected>>

(* Mutant of FReturns: results are kept in the order in which tasks finish. *)
FReturnsAppends(w, o) ==
  /\ Step(w, "f", IF o = "ok" THEN "f" ELSE "fail")
  /\ o = "ctx" => cancelled # "no"
  /\ outcome' = [outcome EXCEPT ![w] = o]
  /\ results' = Append(results, wtask[w])
  /\ errored' = IF o = "ok" THEN errored ELSE errored \cup {Len(results')}
  /\ IF o = "ok" THEN BodyReturns(w) ELSE UNCHANGED poolVars
  /\ UNCHANGED <<opts, gpc, aggLen, errs, cancelled, collected>>

(* res, err := f(ctx); f reports a cancelled context only if it is.  Then   *)
(* agg.save under its mutex: grow the slice to the number of indices given  *)
(* out so far, store the result, note the error.  Without an error the task *)
(* is over.                                                                 *)
FReturns(w, o) ==
  /\ Step(w, "f", IF o = "ok" THEN "f" ELSE "fail")
  /\ o = "ctx" => cancelled # "no"
  /\ outcome' = [outcome EXCEPT ![w] = o]
  /\ LET i == wtask[w]
         size == IF i > Len(results) THEN aggLen ELSE Len(results)
     IN  /\ results' = [k \in 1 .. size |->
              IF k = i THEN i ELSE IF k <= Len(results) THEN results[k] ELSE None]
         /\ errored' = IF o = "ok" THEN errored ELSE errored \cup {i}
  /\ IF o = "ok" THEN BodyReturns(w) ELSE UNCHANGED poolVars
  /\ UNCHANGED <<opts, gpc, aggLen, errs, cancelled, collected>>

(* Mutant of AddErr: cancel first, add the error afterwards. *)
AddErrAfterCancel(w) ==
  /\ wst[w] = "run"
  /\ bpc[w] = "fail"
  /\ IF cancelOnError /\ cancelled = "no"
     THEN Cancel("error") /\ UNCHANGED <<errs, bpc, poolVars>>
     ELSE /\ errs' = Append(errs, <<wtask[w], outcome[w]>>)
          /\ bpc' = [bpc EXCEPT ![w] = "f"]
          /\ BodyReturns(w)
          /\ UNCHANGED cancelled
  /\ UNCHANGED <<opts, gpc, aggVars, outcome, collected>>

(* errorPool.addErr under its mutex, by ContextPool before it cancels, by   *)
(* ErrorPool otherwise.                                                     *)
AddErr(w) ==
  /\ Step(w, "fail", IF cancelOnError THEN "cancel" ELSE "f")
  /\ errs' = Append(errs, <<wtask[w], outcome[w]>>)
  /\ IF cancelOnError THEN UNCHANGED poolVars ELSE BodyReturns(w)
  /\ UNCHANGED <<opts, gpc, aggVars, cancelled, outcome, collected>>

ErrorCancels(w) ==
  /\ Step(w, "cancel", "f")
  /\ BodyReturns(w)
  /\ Cancel("error")
  /\ UNCHANGED <<opts, gpc, aggVars, errs, outcome, collected>>

(* The calls of Go have returned; the owner calls Wait. *)
Wait ==
  /\ \A t \in Tasks : gpc[t] = "done"
  /\ WaitCloses
  /\ UNCHANGED <<opts, gpc, aggVars, errs, cancelled, bodyVars, collected>>

(* resultAggregator.collect: the results in front of each errored index;    *)
(* those behind the last one are not appended.                              *)
Collect ==
  IF collectErrored \/ errored = {} THEN results
  ELSE LET last == Max(errored)
           kept == {k \in 1 .. last : k \notin errored}
       IN  [j \in 1 .. Cardinality(kept) |->
              results[CHOOSE k \in kept : Cardinality({i \in kept : i <= k}) = j]]

(* Pool.Wait ends; the context is cancelled in any case, and unless Wait    *)
(* panics the results are collected.                                        *)
WaitReturns ==
  /\ WaitEnds
  /\ Cancel("wait")
  /\ collected' = IF waited' = "returned" THEN Collect ELSE <<>>
  /\ UNCHANGED <<opts, gpc, aggVars, errs, bodyVars>>

(* The steps of a worker. *)
TaskStep(w) ==
  \/ \E o \in {"ok", "own", "ctx"} : FReturns(w, o)
  \/ FPanics(w) \/ PanicCancels(w) \/ AddErr(w) \/ ErrorCancels(w)
  \/ /\ WorkerStep(w)
     /\ UNCHANGED <<opts, gpc, aggVars, errs, cancelled, bodyVars, collected>>

Next ==
  \/ \E t \in Tasks : NextIndex(t) \/ Submit(t)
  \/ \E w \in Workers : TaskStep(w)
  \/ Wait \/ WaitReturns \/ CallerCancels

-----------------------------------------------------------------------------
(* The first error recorded, the one WithFirstError returns, is never a     *)
(* consequence of the pool's own cancellation by an error: if it is one of  *)
(* a task that gave up for the context, the caller or a panic had cancelled *)
(* that; and when an error cancels the context it is recorded already.      *)
FirstErrorIsCause ==
  /\ errs # <<>> /\ errs[1][2] = "ctx" => cancelled \in {"caller", "panic"}
  /\ cancelled = "error" => errs # <<>>
=============================================================================
