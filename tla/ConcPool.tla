------------------------------ MODULE ConcPool ------------------------------
(***************************************************************************)
(* Pool of Go/handwritten-conc/pool/pool.go with its WaitGroup             *)
(* (waitgroup.go) and panic Catcher (panics/panics.go).                    *)
(*                                                                         *)
(* A worker goroutine runs its first task and then tasks it receives from  *)
(* the unbuffered tasks channel, until the channel is closed or a task     *)
(* panics.  What a task does is left to the modules that extend this one:  *)
(* they conjoin BodyReturns and BodyPanics with steps of their own.        *)
(* Several goroutines may be in Go at the same time, each with its task.   *)
(***************************************************************************)
EXTENDS Naturals, FiniteSets, FiniteSetsExt

CONSTANTS NumTasks,  \* number of functions handed to Go
          Limit      \* capacity of the limiter, 0 for no limiter

ASSUME PoolAssumption ==
  /\ NumTasks \in Nat
  /\ Limit \in Nat

Tasks == 1 .. NumTasks
None == 0

(* There is at most one worker for each task. *)
Workers == 1 .. NumTasks

VARIABLES wst,         \* per worker: "off", "run", "range", "parked",
                       \* "unwind", "recover", "exit", "gone"
          wtask,       \* the task of the worker
          slots,       \* tokens in the limiter channel
          tasksClosed, \* close(p.tasks) happened
          recovered,   \* pc.recovered: the task whose panic is kept
          waited,      \* Wait: "no", "waiting", "returned", "panicked"
          runs         \* history: how often each task was started

poolVars == <<wst, wtask, slots, tasksClosed, recovered, waited, runs>>

PoolInit ==
  /\ wst = [w \in Workers |-> "off"]
  /\ wtask = [w \in Workers |-> None]
  /\ slots = 0
  /\ tasksClosed = FALSE
  /\ recovered = None
  /\ waited = "no"
  /\ runs = [t \in Tasks |-> 0]

Live == {w \in Workers : wst[w] \notin {"off", "gone"}}

Start(w, t) ==
  /\ wst' = [wst EXCEPT ![w] = "run"]
  /\ wtask' = [wtask EXCEPT ![w] = t]
  /\ runs' = [runs EXCEPT ![t] = @ + 1]

(* Go, branch p.tasks <- f: a worker that waits for a task takes it.        *)
GoHandsOff(t, w) ==
  /\ wst[w] = "parked"
  /\ Start(w, t)
  /\ UNCHANGED <<slots, tasksClosed, recovered, waited>>

(* Go, the other branch: a new worker, if the limiter has a slot, or when   *)
(* there is no limiter and no worker waits.                                 *)
GoSpawns(t) ==
  /\ IF Limit = 0 THEN \A w \in Workers : wst[w] # "parked" ELSE slots < Limit
  /\ Start(Min({w \in Workers : wst[w] = "off"}), t)
  /\ slots' = IF Limit = 0 THEN slots ELSE slots + 1
  /\ UNCHANGED <<tasksClosed, recovered, waited>>

(* worker: for f := range p.tasks. *)
WorkerParks(w) ==
  /\ wst[w] = "range"
  /\ ~tasksClosed
  /\ wst' = [wst EXCEPT ![w] = "parked"]
  /\ UNCHANGED <<wtask, slots, tasksClosed, recovered, waited, runs>>

WorkerEnds(w) ==
  /\ wst[w] \in {"range", "parked"}
  /\ tasksClosed
  /\ wst' = [wst EXCEPT ![w] = "exit"]
  /\ UNCHANGED <<wtask, slots, tasksClosed, recovered, waited, runs>>

BodyReturns(w) ==
  /\ wst[w] = "run"
  /\ wst' = [wst EXCEPT ![w] = "range"]
  /\ UNCHANGED <<wtask, slots, tasksClosed, recovered, waited, runs>>

BodyPanics(w) ==
  /\ wst[w] = "run"
  /\ wst' = [wst EXCEPT ![w] = "unwind"]
  /\ UNCHANGED <<wtask, slots, tasksClosed, recovered, waited, runs>>

(* Mutant of WorkerReleases: a panic skips the release of the slot. *)
WorkerReleasesUnlessPanic(w) ==
  /\ wst[w] \in {"unwind", "exit"}
  /\ wst' = [wst EXCEPT ![w] = IF @ = "unwind" THEN "recover" ELSE "gone"]
  /\ slots' = IF Limit = 0 \/ wst[w] = "unwind" THEN slots ELSE slots - 1
  /\ UNCHANGED <<wtask, tasksClosed, recovered, waited, runs>>

(* The deferred limiter.release(); a worker that did not panic is done.     *)
WorkerReleases(w) ==
  /\ wst[w] \in {"unwind", "exit"}
  /\ wst' = [wst EXCEPT ![w] = IF @ = "unwind" THEN "recover" ELSE "gone"]
  /\ slots' = IF Limit = 0 THEN slots ELSE slots - 1
  /\ UNCHANGED <<wtask, tasksClosed, recovered, waited, runs>>

(* Mutant of WorkerRecovers: wg.Done without keeping the panic. *)
WorkerRecoversSilently(w) ==
  /\ wst[w] = "recover"
  /\ wst' = [wst EXCEPT ![w] = "gone"]
  /\ UNCHANGED <<wtask, slots, tasksClosed, recovered, waited, runs>>

(* Mutant of WorkerRecovers: wg.Done is not deferred, a panic skips it. *)
WorkerRecoversNotDone(w) ==
  /\ wst[w] = "recover"
  /\ recovered' = IF recovered = None THEN wtask[w] ELSE recovered
  /\ UNCHANGED <<wst, wtask, slots, tasksClosed, waited, runs>>

(* Catcher.Try and wg.Done: the first panic is kept. *)
WorkerRecovers(w) ==
  /\ wst[w] = "recover"
  /\ wst' = [wst EXCEPT ![w] = "gone"]
  /\ recovered' = IF recovered = None THEN wtask[w] ELSE recovered
  /\ UNCHANGED <<wtask, slots, tasksClosed, waited, runs>>

(* Wait: close the channel, wait for the workers, panic or return.          *)
WaitCloses ==
  /\ waited = "no"
  /\ waited' = "waiting"
  /\ tasksClosed' = TRUE
  /\ UNCHANGED <<wst, wtask, slots, recovered, runs>>

WaitEnds ==
  /\ waited = "waiting"
  /\ Live = {}
  /\ waited' = IF recovered = None THEN "returned" ELSE "panicked"
  /\ UNCHANGED <<wst, wtask, slots, tasksClosed, recovered, runs>>

(* The steps of a worker outside its task. *)
WorkerStep(w) ==
  WorkerParks(w) \/ WorkerEnds(w) \/ WorkerReleases(w) \/ WorkerRecovers(w)

-----------------------------------------------------------------------------

(* The workers that hold a token of the limiter. *)
Holding == {w \in Live : wst[w] # "recover"}

(* With a limiter, every running worker holds a token, so no more than      *)
(* Limit tasks run at a time, and tokens of panicked workers come back.     *)
LimitRespected == Limit > 0 => slots = Cardinality(Holding) /\ slots <= Limit
=============================================================================
