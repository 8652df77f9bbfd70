----------------------------- MODULE ConcPools -----------------------------
(***************************************************************************)
(* A pool of Go/handwritten-conc as its users have it: under a             *)
(* ResultContextPool, or under a Stream.                                   *)
(***************************************************************************)
EXTENDS ConcResultPool, ConcStream

VARIABLE use \* "results" or "stream"

resultVars == <<opts, gpc, aggVars, errs, cancelled, bodyVars, collected>>
allVars == <<use, poolVars, resultVars, streamVars>>

PoolsInit ==
  /\ use \in {"results", "stream"}
  /\ Init
  /\ StreamInit
  /\ use = "stream" => ~cancelOnError /\ ~collectErrored

Results(A) == use = "results" /\ A /\ UNCHANGED <<use, streamVars>>
Streaming(A) == use = "stream" /\ A /\ UNCHANGED <<use, resultVars>>

PoolsNext == Results(Next) \/ Streaming(StreamNext)

PoolsSafetySpec == PoolsInit /\ [][PoolsNext]_allVars

(* Every task function and every callback ends; goroutines run; a call of   *)
(* Go that was begun goes on when its select can, and so does Wait.  Nobody *)
(* is obliged to begin a Go or a Wait.                                      *)
PoolsSpec ==
  /\ PoolsSafetySpec
  /\ \A w \in Workers : /\ WF_allVars(Results(TaskStep(w)))
                        /\ WF_allVars(Streaming(StreamTask(w)))
  /\ \A t \in Tasks : /\ WF_allVars(Results(Submit(t)))
                      /\ WF_allVars(Streaming(SubmitTask(t)))
  /\ WF_allVars(Results(WaitReturns))
  /\ WF_allVars(Streaming(Callbacker))
  /\ WF_allVars(Streaming(CloseQueue \/ StreamWaitEnds))

-----------------------------------------------------------------------------

(* When the pool's Wait ends every task has been run, each exactly once,    *)
(* whatever panicked on the way, and Wait panics exactly if a task did; if  *)
(* none did, every task has left its result.                                *)
AllRunOnce ==
  waited \in {"returned", "panicked"} =>
    /\ \A t \in Tasks : runs[t] = 1
    /\ waited = "panicked" <=> recovered # None
    /\ recovered = None /\ use = "results" => ToSet(results) = Tasks

(* What Wait returns is in the order in which the tasks were submitted, and *)
(* without collectErrored holds no result of a task that failed.            *)
ResultsInOrder ==
  use = "results" /\ waited = "returned" =>
    /\ \A i, j \in 1 .. Len(collected) :
         i < j => collected[i] < collected[j]
    /\ ~collectErrored => ToSet(collected) \cap errored = {}
    /\ collectErrored \/ errored = {} => Len(collected) = NumTasks

Pending ==
  \/ waited = "waiting"
  \/ swait \in {"pool", "callbacks"}
  \/ \E t \in Tasks : gpc[t] = "indexed" \/ sgo[t] = "queued"

(* Neither Wait nor a call of Go hangs, whatever panics.  There are         *)
(* NumTasks calls, so that each ends if again and again none is pending.    *)
PoolTerminates == []<>~Pending
=============================================================================
