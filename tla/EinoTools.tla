----------------------------- MODULE EinoTools -----------------------------
(***************************************************************************)
(* ToolsNode of Go/handwritten_eino/compose/tool_node.go with the          *)
(* interrupt and resume machinery it calls (compose/interrupt.go,          *)
(* internal/core/address.go, interrupt.go, resume.go).                     *)
(*                                                                         *)
(* A message holds one tool call per element of Calls.  A run of the node  *)
(* turns them into tasks, executes the tasks in sequence or in parallel    *)
(* (task 1, 0 in the code, in the caller, the others in goroutines) and    *)
(* collects the results; if a tool interrupts, the node returns a          *)
(* composite interrupt instead.  The graph that runs the node again with   *)
(* the saved state is not in the repository: Resume is what it would do    *)
(* through the functions of package core.                                  *)
(*                                                                         *)
(* A result is the number of the run that produced it.                     *)
(***************************************************************************)
EXTENDS Naturals, FiniteSets, Sequences

CONSTANTS NumCalls,   \* tool calls of the message
          MaxRuns,    \* bound on the runs of the node: the first and its resumptions
          ToolLists,  \* the tool sets tried: what the tool of each call is
          Modes,      \* "invoke", "stream": which entry point a run uses
          Handovers   \* whether Resume names the saved points by the addresses
                      \* the run will have (TRUE) or passes on the maps of
                      \* SignalToPersistenceMaps unchanged (FALSE)

ToolSorts == {"plain", "enhanced", "streamOnly", "unknown"}
Calls == 1 .. NumCalls

ASSUME ToolsAssumption ==
  /\ NumCalls \in Nat \ {0}
  /\ MaxRuns \in Nat \ {0}
  /\ ToolLists \subseteq [Calls -> ToolSorts]
  /\ Modes \subseteq {"invoke", "stream"}
  /\ Handovers \subseteq BOOLEAN

VARIABLES tools,    \* the tool list (and the calls' tools in it)
          handler,  \* unknownToolHandler is set
          seq,      \* executeSequentically
          run,      \* number of the current run
          mode,     \* its entry point
          pc,       \* caller: "enter", "tasks", "collect", "ret"
          rinfo,    \* globalResumeInfo of the run's context
          restored, \* what GetInterruptState gave the node: executed results
          task,     \* per call: the toolCallTask
          gor,      \* per call: "idle", "started", "done"
          handed,   \* per call: what its context offers the tool
          out,      \* what the last run returned
          started,  \* history: the runs that called the tool of each call
          last      \* history: per call, how its tool ended last, and in which run

config == <<tools, handler, seq>>
vars == <<config, run, mode, pc, rinfo, restored, task, gor, handed, out, started, last>>

-----------------------------------------------------------------------------
(* Addresses.  GetCurrentAddress looks its value up under addrCtx{}, not   *)
(* under the key addrCtxKey{} it is stored at, and so finds nothing: an    *)
(* address is always the one segment that is appended.                     *)
Seg(type, id, sub) == [type |-> type, id |-> id, sub |-> sub]
CurrentAddress == <<>>
NodeAddr == Append(CurrentAddress, Seg("node", <<"name", 0>>, <<>>))
(* appendToolAddressSegment: the tool's name, then the call's id. *)
ToolAddr(c) == Append(CurrentAddress, Seg("tool", <<"name", c>>, <<"call", c>>))
(* WrapInterruptAndRerunIfNeeded: the call's id alone. *)
WrapAddr(c) == Append(CurrentAddress, Seg("tool", <<"call", c>>, <<>>))

(* Saved points: 0 is the node, c the tool of call c. *)
NoResume == [addr |-> <<>>, state |-> <<>>, data |-> {}, stateUsed |-> {}, dataUsed |-> {}]
NotHanded == [interrupted |-> FALSE, state |-> 0, target |-> FALSE]

(* Mutant of HandPoint: the resume data does not reach the tool. *)
HandPointNoData(r, p) == [interrupted |-> TRUE, state |-> r.state[p], target |-> FALSE]

(* AppendAddressSegment in a context with resume information r: the points *)
(* at this address whose state nobody took; taking one marks it, and its   *)
(* resume data if the caller sent any.                                     *)
PointsAt(r, a) == {p \in DOMAIN r.addr : r.addr[p] = a /\ p \notin r.stateUsed}
TakePoint(r, p) == [r EXCEPT !.stateUsed = @ \cup {p}, !.dataUsed = @ \cup ({p} \cap r.data)]
HandPoint(r, p) == [interrupted |-> TRUE, state |-> r.state[p], target |-> p \in r.data \ r.dataUsed]

-----------------------------------------------------------------------------
NewTask == [executed |-> FALSE, val |-> 0, err |-> "none"]
NothingOut == [kind |-> "none", executed |-> <<>>, rerun |-> {}, state |-> <<>>, msgs |-> <<>>]

Init ==
  /\ tools \in ToolLists
  /\ handler \in BOOLEAN
  /\ seq \in BOOLEAN
  /\ run = 1
  /\ mode \in Modes
  /\ pc = "enter"
  /\ rinfo = NoResume
  /\ restored = <<>>
  /\ task = [c \in Calls |-> NewTask]
  /\ gor = [c \in Calls |-> "idle"]
  /\ handed = [c \in Calls |-> NotHanded]
  /\ out = NothingOut
  /\ started = [c \in Calls |-> {}]
  /\ last = [c \in Calls |-> [run |-> 0, how |-> "none"]]

(* convTools: the StreamableTool it finds stays in the `if`'s own st, so a *)
(* tool that is nothing else is refused.                                   *)
ConvRefuses == \E c \in Calls : tools[c] = "streamOnly"

(* GetInterruptState: Invoke asks for a *toolsInterruptAndReturnState, but *)
(* both entry points save a *toolsInterruptAndRerunState.                  *)
StateFits == mode = "stream"

Fail(kind) ==
  /\ out' = [NothingOut EXCEPT !.kind = kind]
  /\ pc' = "ret"

(* Mutant of TasksFor: the lookup copies the result and forgets executed. *)
TasksForNotExecuted(results) ==
  [c \in Calls |-> IF c \in DOMAIN results
                     THEN [NewTask EXCEPT !.val = results[c]]
                     ELSE NewTask]

(* genToolCallTasks *)
TasksFor(results) ==
  [c \in Calls |-> IF c \in DOMAIN results
                     THEN [NewTask EXCEPT !.executed = TRUE, !.val = results[c]]
                     ELSE NewTask]

(* Invoke or Stream up to the execution of the tasks. *)
Enter ==
  /\ pc = "enter"
  /\ LET at == PointsAt(rinfo, NodeAddr)
         taken == at # {}
     IN /\ rinfo' = IF taken THEN TakePoint(rinfo, 0) ELSE rinfo
        /\ restored' = IF taken /\ StateFits THEN rinfo.state[0] ELSE <<>>
  /\ \/ /\ ConvRefuses
        /\ Fail("error")
        /\ UNCHANGED task
     \/ /\ ~ConvRefuses
        /\ \/ /\ \E c \in Calls \ DOMAIN restored' : tools[c] = "unknown" /\ ~handler
              /\ Fail("error")
              /\ UNCHANGED task
           \/ /\ \A c \in Calls \ DOMAIN restored' : tools[c] = "unknown" => handler
              /\ task' = TasksFor(restored')
              /\ pc' = "tasks"
              /\ UNCHANGED out
  /\ UNCHANGED <<config, run, mode, gor, handed, started, last>>

(* A failing toolArgumentsHandler ends the run before any task starts. *)
ArgumentsFail ==
  /\ pc = "tasks"
  /\ \A c \in Calls : gor[c] = "idle"
  /\ \E c \in Calls : ~task[c].executed /\ tools[c] # "unknown"
  /\ Fail("error")
  /\ UNCHANGED <<config, run, mode, rinfo, restored, task, gor, handed, started, last>>

-----------------------------------------------------------------------------
(* Executing the tasks. *)

(* runToolCallTaskByInvoke leaves an executed task alone; its Stream       *)
(* counterpart does not, but the loops skip such a task, except that a     *)
(* list of one task is run unconditionally.                                *)
Skipped(c) == task[c].executed /\ (mode = "invoke" \/ seq \/ NumCalls > 1)

InCaller(c) == seq \/ c = 1
Reached(c) == seq => \A d \in 1 .. (c - 1) : gor[d] = "done" \/ Skipped(d)

StartTask(c) ==
  /\ pc = "tasks" \/ (pc = "ret" /\ out.kind = "panic" /\ ~InCaller(c))
  /\ gor[c] = "idle"
  /\ ~Skipped(c)
  /\ Reached(c)
  /\ gor' = [gor EXCEPT ![c] = "started"]
  /\ LET at == PointsAt(rinfo, ToolAddr(c))
     IN IF at = {}
          THEN UNCHANGED <<rinfo, handed>>
          ELSE /\ rinfo' = TakePoint(rinfo, c)
               /\ handed' = [handed EXCEPT ![c] = HandPoint(rinfo, c)]
  /\ started' = [started EXCEPT ![c] = @ \cup {run}]
  /\ UNCHANGED <<config, run, mode, pc, restored, task, out, last>>

(* The tool returns: a result, an error, a signal with state               *)
(* (StatefulInterrupt) or the deprecated interrupt error.                  *)
Ended(c, how) ==
  /\ gor' = [gor EXCEPT ![c] = "done"]
  /\ last' = [last EXCEPT ![c] = [run |-> run, how |-> how]]

ToolReturns(c) ==
  /\ gor[c] = "started"
  /\ \/ /\ Ended(c, "result")
        /\ task' = [task EXCEPT ![c].executed = TRUE, ![c].val = run]
     \/ \E e \in {"fail", "signal", "deprecated"} :
          /\ Ended(c, e)
          /\ task' = [task EXCEPT ![c].err = e]
  /\ UNCHANGED <<config, run, mode, pc, rinfo, restored, handed, out, started>>

(* A panic of a goroutine becomes the task's error; one in the caller      *)
(* leaves the node at once.                                                *)
ToolPanics(c) ==
  /\ gor[c] = "started"
  /\ Ended(c, "fail")
  /\ \/ /\ ~InCaller(c)
        /\ task' = [task EXCEPT ![c].err = "fail"]
        /\ UNCHANGED <<pc, out>>
     \/ /\ InCaller(c)
        /\ Fail("panic")
        /\ UNCHANGED task
  /\ UNCHANGED <<config, run, mode, rinfo, restored, handed, started>>

(* Mutant of AllDone: Wait is forgotten, the caller goes on after its own task. *)
AllDoneInCaller == \A c \in Calls : InCaller(c) => gor[c] = "done" \/ (Skipped(c) /\ gor[c] = "idle")

(* wg.Wait *)
AllDone == \A c \in Calls : gor[c] = "done" \/ (Skipped(c) /\ gor[c] = "idle")

Wait ==
  /\ pc = "tasks"
  /\ AllDone
  /\ pc' = "collect"
  /\ UNCHANGED <<config, run, mode, rinfo, restored, task, gor, handed, out, started, last>>

-----------------------------------------------------------------------------
(* Collecting. *)
Interrupted == {c \in Calls : task[c].err \in {"signal", "deprecated"}}
Results == [c \in {d \in Calls : task[d].executed} |-> task[c].val]

(* Mutant of SavedStates: the results of this run only. *)
SavedStatesThisRun ==
  [p \in {0} \cup Interrupted |->
     IF p = 0 THEN [c \in DOMAIN Results \ DOMAIN restored |-> Results[c]]
              ELSE IF task[p].err = "signal" THEN run ELSE 0]

(* The saved states: the node's own and, for each interrupted call, the    *)
(* one of its signal (none for the deprecated error).                      *)
SavedStates ==
  [p \in {0} \cup Interrupted |->
     IF p = 0 THEN Results ELSE IF task[p].err = "signal" THEN run ELSE 0]

(* The output messages.  Invoke builds one for an enhanced tool only, and  *)
(* then replaces it by one made of the (empty) plain output; the other     *)
(* slots stay nil.  Stream keeps each tool's results at its index.         *)
Message(c) ==
  IF mode = "stream" THEN [form |-> "full", val |-> task[c].val]
  ELSE IF tools[c] = "enhanced" THEN [form |-> "empty", val |-> 0]
  ELSE [form |-> "nil", val |-> 0]

(* To save the results Stream reads the tools' streams to their end        *)
(* (concatStreamReader); one that ends in an error costs the interrupt.    *)
StreamMayBreak == mode = "stream" /\ DOMAIN Results \ DOMAIN restored # {}

(* Invoke turns the result of an enhanced tool into message parts, if      *)
(* nothing before it interrupted, and gives up if that fails.              *)
PartsMayFail ==
  /\ mode = "invoke"
  /\ \E c \in Calls : /\ tools[c] = "enhanced" /\ task[c].executed
                       /\ \A d \in 1 .. (c - 1) : task[d].err = "none"

Collect ==
  /\ pc = "collect"
  /\ pc' = "ret"
  /\ \/ /\ \/ \E c \in Calls : task[c].err = "fail"
           \/ PartsMayFail
           \/ Interrupted # {} /\ StreamMayBreak
        /\ out' = [NothingOut EXCEPT !.kind = "error"]
     \/ /\ \A c \in Calls : task[c].err # "fail"
        /\ Interrupted # {}
        /\ out' = [NothingOut EXCEPT !.kind = "interrupt", !.executed = Results,
                                         !.rerun = Interrupted, !.state = SavedStates]
     \/ /\ \A c \in Calls : task[c].err = "none"
        /\ out' = [NothingOut EXCEPT !.kind = "output", !.msgs = [c \in Calls |-> Message(c)]]
  /\ UNCHANGED <<config, run, mode, rinfo, restored, task, gor, handed, started, last>>

-----------------------------------------------------------------------------
(* The next run.  Its context carries the saved addresses and states       *)
(* (PopulateInterruptState) and data for some of the interrupted tools     *)
(* (BatchResumeWithData).  With FALSE the addresses are the ones the       *)
(* signals have: nil for the node's, WrapAddr for a tool's.                *)
SavedAddr(byAddress) ==
  [p \in DOMAIN out.state |->
     IF byAddress THEN IF p = 0 THEN NodeAddr ELSE ToolAddr(p)
     ELSE IF p = 0 THEN CurrentAddress ELSE WrapAddr(p)]

Resume ==
  /\ pc = "ret"
  /\ out.kind = "interrupt"
  /\ run < MaxRuns
  /\ \E byAddress \in Handovers, data \in SUBSET out.rerun :
       rinfo' = [NoResume EXCEPT !.addr = SavedAddr(byAddress), !.state = out.state, !.data = data]
  /\ run' = run + 1
  /\ mode' \in Modes
  /\ pc' = "enter"
  /\ restored' = <<>>
  /\ task' = [c \in Calls |-> NewTask]
  /\ gor' = [c \in Calls |-> "idle"]
  /\ handed' = [c \in Calls |-> NotHanded]
  /\ out' = NothingOut
  /\ UNCHANGED <<config, started, last>>

-----------------------------------------------------------------------------
Next ==
  \/ Enter \/ ArgumentsFail \/ Wait \/ Collect \/ Resume
  \/ \E c \in Calls : StartTask(c) \/ ToolReturns(c) \/ ToolPanics(c)

(* Goroutines are scheduled and tools return; nobody has to resume. *)
Spec ==
  /\ Init /\ [][Next]_vars
  /\ WF_vars(Enter) /\ WF_vars(Wait) /\ WF_vars(Collect)
  /\ \A c \in 1 .. NumCalls : WF_vars(StartTask(c)) /\ WF_vars(ToolReturns(c))

-----------------------------------------------------------------------------

(* The node was given its saved state in this run. *)
StateReached == 0 \in DOMAIN rinfo.addr /\ rinfo.addr[0] = NodeAddr

(* A resumed Stream never calls a tool again whose result was saved        *)
(* (comment at tool_node.go:447), and what it finally returns for a call   *)
(* is what the one successful call of the tool produced, in the position   *)
(* of that call, however many resumptions that took.                       *)
ResumeKeepsResults ==
  mode = "stream" =>
    /\ StateReached => \A c \in DOMAIN rinfo.state[0] : run \notin started[c]
    /\ pc = "ret" /\ out.kind = "output" =>
         \A c \in Calls : /\ out.msgs[c].val \in started[c]
                          /\ c \in DOMAIN restored => out.msgs[c].val = restored[c]

(* A composite interrupt accounts for every call: it is either to be run   *)
(* again, with its own saved point, or its result is saved, and a result   *)
(* an earlier interrupt saved is still in it.                              *)
InterruptAccountsForAll ==
  pc = "ret" /\ out.kind = "interrupt" =>
    /\ out.rerun # {}
    /\ out.rerun \cap DOMAIN out.executed = {}
    /\ out.rerun \cup DOMAIN out.executed = Calls
    /\ DOMAIN out.state = {0} \cup out.rerun
    /\ out.state[0] = out.executed
    /\ \A c \in DOMAIN restored : c \in DOMAIN out.executed /\ out.executed[c] = restored[c]

(* The call of c ended the run before in an interrupt, with the state that *)
(* is the number of that run, or the deprecated way, which has none.       *)
Stopped(c) == last[c].run = run - 1 /\ last[c].how \in {"signal", "deprecated"}
OwnState(c) == IF last[c].how = "signal" THEN run - 1 ELSE 0

(* Over any number of interrupts, what a tool is handed when it is called   *)
(* again is the state that its own call before saved, and never that of     *)
(* another call or of an older run; and if the run was given the points by  *)
(* address, every tool that was interrupted is handed it, together with the *)
(* resume data sent to it.                                                  *)
ResumeReachesTool ==
  \A c \in Calls :
    gor[c] = "started" =>
      /\ handed[c].interrupted => Stopped(c) /\ handed[c].state = OwnState(c)
      /\ Stopped(c) /\ StateReached =>
           handed[c] = [interrupted |-> TRUE, state |-> OwnState(c), target |-> c \in rinfo.data]

(* A run returns once its tools have, and unless a panic took the caller   *)
(* away none of its goroutines is left running.                            *)
ReturnsWhenAllDone ==
  /\ []((pc = "ret" /\ out.kind # "panic") => \A c \in Calls : gor[c] # "started")
  /\ (pc = "enter") ~> (pc = "ret")

(* The promise of the comment at tool_node.go:447, for every entry point:  *)
(* a tool whose result was saved is not run again.                         *)
SavedToolsNotRunAgain ==
  StateReached => \A c \in DOMAIN rinfo.state[0] : run \notin started[c]
=============================================================================
