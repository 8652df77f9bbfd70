-------------------------- MODULE EinoToolsProofs --------------------------
(***************************************************************************)
(* The tools node, and at the end the channel of package internal.         *)
(*                                                                         *)
(* For any number of calls and of runs, any tool lists, entry points and   *)
(* handovers: the tools node of EinoTools accounts for every call in an    *)
(* interrupt, keeps the results that a resumed Stream was given, and gives *)
(* saved states back to the tools they belong to.                          *)
(*                                                                         *)
(* The invariant follows a result through four places: the task of a call, *)
(* the composite interrupt, the resume information and the restored state. *)
(* In each a result is one that its tool produced (Partial), and a saved   *)
(* state never covers all calls, which is why the list of one task that    *)
(* runToolCallTask does not skip has nothing restored.                     *)
(***************************************************************************)
EXTENDS EinoTools, UnboundedChan, SequenceTheorems, FiniteSetTheorems, TLAPS

Task == [executed : BOOLEAN, val : Nat, err : {"none", "fail", "signal", "deprecated"}]

TypeOK ==
  /\ tools \in [Calls -> ToolSorts]
  /\ handler \in BOOLEAN
  /\ seq \in BOOLEAN
  /\ run \in Nat \ {0}
  /\ mode \in {"invoke", "stream"}
  /\ pc \in {"enter", "tasks", "collect", "ret"}
  /\ task \in [Calls -> Task]
  /\ gor \in [Calls -> {"idle", "started", "done"}]
  /\ DOMAIN handed = Calls
  /\ handed = [c \in Calls |-> handed[c]]
  /\ started \in [Calls -> SUBSET (1 .. run)]
  /\ last \in [Calls -> [run : Nat, how : {"none", "result", "fail", "signal", "deprecated"}]]

(* Results of some of the calls, each produced by a run that called the tool. *)
Partial(results) ==
  /\ DOMAIN results \subseteq Calls
  /\ DOMAIN results # Calls
  /\ \A c \in DOMAIN results : results[c] \in started[c]

(* The resume information: points of the node and the calls, all named by   *)
(* the addresses of the next run or all by those of the signals.            *)
RunAddr(p) == IF p = 0 THEN NodeAddr ELSE ToolAddr(p)
SignalAddr(p) == IF p = 0 THEN CurrentAddress ELSE WrapAddr(p)

ResumeInfo ==
  /\ rinfo = [addr |-> rinfo.addr, state |-> rinfo.state, data |-> rinfo.data,
              stateUsed |-> rinfo.stateUsed, dataUsed |-> rinfo.dataUsed]
  /\ DOMAIN rinfo.addr \subseteq {0} \cup Calls
  /\ \/ \A p \in DOMAIN rinfo.addr : rinfo.addr[p] = RunAddr(p)
     \/ \A p \in DOMAIN rinfo.addr : rinfo.addr[p] = SignalAddr(p)
  /\ 0 \in DOMAIN rinfo.addr => Partial(rinfo.state[0])

(* What a run has done before its tasks were built: nothing.                *)
Entering ==
  pc = "enter" =>
    /\ 0 \notin rinfo.stateUsed
    /\ restored = <<>>
    /\ \A c \in Calls : gor[c] = "idle"

(* A run restores the whole saved state that it reaches, or nothing.        *)
Restored ==
  /\ Partial(restored)
  /\ mode # "stream" => restored = <<>>
  /\ mode = "stream" /\ pc # "enter" /\ StateReached => restored = rinfo.state[0]

(* A panic of the caller leaves its task as it was.                         *)
Panicked == pc = "ret" /\ out.kind = "panic"
Built == pc \in {"tasks", "collect"} \/ Panicked

Idle(c) ==
  /\ task[c].err = "none"
  /\ task[c].executed => c \in DOMAIN restored
  /\ run \notin started[c]
  /\ handed[c] = NotHanded
  /\ c \notin rinfo.stateUsed
  /\ c \notin rinfo.dataUsed

Done(c) ==
  \/ task[c].executed /\ task[c].val = run /\ task[c].err = "none"
  \/ ~task[c].executed /\ task[c].err # "none"
  \/ ~task[c].executed /\ Panicked

(* A call whose result was restored is not started; any other call is idle, *)
(* runs with an untouched task, or has ended.                               *)
CallState ==
  \A c \in Calls :
    /\ gor[c] = "idle" => Idle(c)
    /\ gor[c] # "idle" => run \in started[c] /\ c \notin DOMAIN restored
    /\ gor[c] = "started" => task[c].err = "none" /\ ~task[c].executed
    /\ gor[c] = "done" => Done(c)
    /\ c \in DOMAIN restored /\ Built =>
         task[c].executed /\ task[c].val = restored[c] /\ task[c].err = "none"

(* The caller collects when all goroutines have ended.                      *)
Returning ==
  /\ pc # "tasks" /\ ~Panicked => \A c \in Calls : gor[c] # "started"
  /\ pc = "collect" => \A c \in Calls : c \in DOMAIN restored \/ gor[c] = "done"
  /\ pc = "ret" /\ out.kind = "interrupt" => Partial(out.executed)

(* A tool that is called is handed the point that is at its own address,    *)
(* with the resume data sent to it, and nothing if there is none.           *)
HandedByAddress ==
  \A c \in Calls :
    gor[c] = "started" =>
      IF c \in DOMAIN rinfo.addr /\ rinfo.addr[c] = ToolAddr(c)
        THEN handed[c] = [interrupted |-> TRUE, state |-> rinfo.state[c], target |-> c \in rinfo.data]
        ELSE handed[c] = NotHanded

(* How a tool ended is in its task until the run is over, then in the       *)
(* interrupt the run returned, then in the points the next run is given.    *)
EndInTask ==
  \A c \in Calls :
    /\ gor[c] # "done" => last[c].run < run
    /\ gor[c] = "done" =>
         /\ last[c].run = run
         /\ \A e \in {"signal", "deprecated"} : task[c].err = e <=> last[c].how = e

EndInInterrupt ==
  pc = "ret" /\ out.kind = "interrupt" =>
    \A c \in Calls :
      /\ c \in out.rerun <=> last[c].run = run /\ last[c].how \in {"signal", "deprecated"}
      /\ c \in out.rerun => out.state[c] = IF last[c].how = "signal" THEN run ELSE 0

EndInPoints ==
  \A c \in Calls :
    gor[c] # "done" =>
      /\ c \in DOMAIN rinfo.addr <=> Stopped(c)
      /\ c \in DOMAIN rinfo.addr => rinfo.state[c] = OwnState(c)

Ends == EndInTask /\ EndInInterrupt /\ EndInPoints

IInv ==
  /\ TypeOK
  /\ ResumeInfo
  /\ Entering
  /\ Restored
  /\ CallState
  /\ Returning
  /\ ResumeKeepsResults
  /\ InterruptAccountsForAll
  /\ HandedByAddress
  /\ Ends

-----------------------------------------------------------------------------
(* An address is the one segment that was appended, and segments differ by  *)
(* what they are of: the node, a tool by name and call, a call alone.       *)
LEMMA AddrValues ==
  /\ NodeAddr = <<Seg("node", <<"name", 0>>, <<>>)>>
  /\ \A c : ToolAddr(c) = <<Seg("tool", <<"name", c>>, <<"call", c>>)>>
  /\ \A c : WrapAddr(c) = <<Seg("tool", <<"call", c>>, <<>>)>>
  BY DEF NodeAddr, ToolAddr, WrapAddr, CurrentAddress

LEMMA AddrsDiffer ==
  ASSUME NEW c, NEW d
  PROVE  /\ ToolAddr(c) = ToolAddr(d) => c = d
         /\ NodeAddr # ToolAddr(c)
         /\ NodeAddr # CurrentAddress
         /\ NodeAddr # WrapAddr(c)
         /\ ToolAddr(c) # CurrentAddress
         /\ ToolAddr(c) # WrapAddr(d)
<1>1. \A s, t : <<s>> = <<t>> => s = t
  OBVIOUS
<1>2. \A s : <<s>> # <<>>
  OBVIOUS
<1>3. /\ Seg("node", <<"name", 0>>, <<>>) # Seg("tool", <<"name", c>>, <<"call", c>>)
      /\ Seg("node", <<"name", 0>>, <<>>) # Seg("tool", <<"call", c>>, <<>>)
  BY DEF Seg
<1>4. Seg("tool", <<"name", c>>, <<"call", c>>) # Seg("tool", <<"call", d>>, <<>>)
  BY DEF Seg
<1>5. Seg("tool", <<"name", c>>, <<"call", c>>) = Seg("tool", <<"name", d>>, <<"call", d>>) => c = d
  BY DEF Seg
<1> QED
  BY AddrValues, <1>1, <1>2, <1>3, <1>4, <1>5 DEF CurrentAddress

(* 0 stands for the node and is no call.                                    *)
LEMMA CallsNat == Calls \subseteq Nat \ {0} /\ Calls # {} /\ 1 \in Calls
  BY ToolsAssumption DEF Calls

(* AppendAddressSegment finds at an address only the point that belongs     *)
(* there, and finds it whenever the run was given the points by address.    *)
LEMMA PointsFound ==
  ASSUME ResumeInfo
  PROVE  /\ \A p \in PointsAt(rinfo, NodeAddr) : p = 0 /\ StateReached
         /\ StateReached /\ 0 \notin rinfo.stateUsed => PointsAt(rinfo, NodeAddr) # {}
         /\ \A c \in Calls :
              /\ \A p \in PointsAt(rinfo, ToolAddr(c)) :
                   p = c /\ c \in DOMAIN rinfo.addr /\ rinfo.addr[c] = ToolAddr(c)
              /\ c \in DOMAIN rinfo.addr /\ rinfo.addr[c] = ToolAddr(c) /\ c \notin rinfo.stateUsed
                   => PointsAt(rinfo, ToolAddr(c)) # {}
<1>1. ASSUME NEW p \in PointsAt(rinfo, NodeAddr)
      PROVE  p = 0 /\ StateReached
  BY <1>1, AddrsDiffer, CallsNat DEF PointsAt, ResumeInfo, RunAddr, SignalAddr, StateReached
<1>2. StateReached /\ 0 \notin rinfo.stateUsed => PointsAt(rinfo, NodeAddr) # {}
  BY DEF PointsAt, StateReached
<1>3. ASSUME NEW c \in Calls, NEW p \in PointsAt(rinfo, ToolAddr(c))
      PROVE  p = c /\ c \in DOMAIN rinfo.addr /\ rinfo.addr[c] = ToolAddr(c)
  <2>1. p \in DOMAIN rinfo.addr /\ rinfo.addr[p] = ToolAddr(c)
    BY <1>3 DEF PointsAt
  <2>2. rinfo.addr[p] = RunAddr(p) \/ rinfo.addr[p] = SignalAddr(p)
    BY <2>1 DEF ResumeInfo
  <2>3. p = c
    BY <2>1, <2>2, AddrsDiffer DEF RunAddr, SignalAddr
  <2> QED
    BY <2>1, <2>3
<1>4. ASSUME NEW c \in Calls, c \in DOMAIN rinfo.addr, rinfo.addr[c] = ToolAddr(c),
             c \notin rinfo.stateUsed
      PROVE  PointsAt(rinfo, ToolAddr(c)) # {}
  BY <1>4 DEF PointsAt
<1> QED
  BY <1>1, <1>2, <1>3, <1>4

-----------------------------------------------------------------------------
LEMMA InitInv == Init => IInv
<1> SUFFICES ASSUME Init PROVE IInv
  OBVIOUS
<1> USE CallsNat DEF Init
<1>1. TypeOK
  BY ToolsAssumption DEF TypeOK, Task, NewTask, NotHanded
<1>2. ResumeInfo
  BY DEF ResumeInfo, NoResume
<1>3. Entering
  BY DEF Entering, NoResume
<1>4. Restored
  BY DEF Restored, Partial
<1>5. CallState
  BY DEF CallState, Idle, NewTask, NoResume, Built, Panicked
<1>6. Returning
  BY DEF Returning, Panicked
<1>7. ResumeKeepsResults /\ InterruptAccountsForAll /\ HandedByAddress
  BY DEF ResumeKeepsResults, InterruptAccountsForAll, HandedByAddress, StateReached, NoResume
<1>8. Ends
  <2>1. \A c \in Calls : last[c].run = 0 /\ last[c].how = "none"
    OBVIOUS
  <2> QED
    BY <2>1 DEF Ends, EndInTask, EndInInterrupt, EndInPoints, Stopped, NoResume
<1> QED
  BY <1>1, <1>2, <1>3, <1>4, <1>5, <1>6, <1>7, <1>8 DEF IInv

-----------------------------------------------------------------------------
(* Enter restores the whole saved state that it reaches (by Stream), and    *)
(* the tasks that it builds are executed where a result was restored.       *)
LEMMA EnterInv == IInv /\ Enter => IInv'
<1> SUFFICES ASSUME IInv, Enter PROVE IInv'
  OBVIOUS
<1> USE CallsNat
<1>i. TypeOK /\ ResumeInfo /\ Entering /\ Restored /\ CallState /\ Ends
  BY DEF IInv
<1>e. /\ pc = "enter"
      /\ UNCHANGED <<tools, handler, seq, run, mode, gor, handed, started, last>>
  BY DEF Enter, config
<1>n. /\ 0 \notin rinfo.stateUsed
      /\ \A c \in Calls : gor[c] = "idle" /\ Idle(c)
  BY <1>i, <1>e DEF Entering, CallState
<1>r. /\ rinfo'.addr = rinfo.addr
      /\ rinfo'.state = rinfo.state
      /\ rinfo'.data = rinfo.data
      /\ rinfo'.stateUsed \subseteq rinfo.stateUsed \cup {0}
      /\ rinfo'.dataUsed \subseteq rinfo.dataUsed \cup {0}
      /\ rinfo' = [addr |-> rinfo'.addr, state |-> rinfo'.state, data |-> rinfo'.data,
                   stateUsed |-> rinfo'.stateUsed, dataUsed |-> rinfo'.dataUsed]
  <2>1. CASE rinfo' = rinfo
    BY <2>1, <1>i DEF ResumeInfo
  <2>2. CASE rinfo' = TakePoint(rinfo, 0)
    <3> DEFINE a == rinfo.addr  s == rinfo.state  d == rinfo.data
               su == rinfo.stateUsed  du == rinfo.dataUsed
    <3>1. rinfo = [addr |-> a, state |-> s, data |-> d, stateUsed |-> su, dataUsed |-> du]
      BY <1>i DEF ResumeInfo
    <3> HIDE DEF a, s, d, su, du
    <3>2. rinfo' = [addr |-> a, state |-> s, data |-> d,
                    stateUsed |-> su \cup {0}, dataUsed |-> du \cup ({0} \cap d)]
      BY <2>2, <3>1 DEF TakePoint
    <3> QED
      BY <3>1, <3>2
  <2> QED
    BY <2>1, <2>2 DEF Enter
<1>s. /\ restored' = <<>> \/ (mode = "stream" /\ 0 \in DOMAIN rinfo.addr /\ restored' = rinfo.state[0])
      /\ mode = "stream" /\ StateReached => restored' = rinfo.state[0]
  <2>1. PointsAt(rinfo, NodeAddr) # {} <=> StateReached
    BY <1>i, <1>n, PointsFound
  <2> QED
    BY <2>1 DEF Enter, StateFits, StateReached
<1>p. Partial(restored')
  BY <1>s, <1>i DEF Partial, ResumeInfo
<1>k. \/ pc' = "ret" /\ out'.kind = "error" /\ task' = task
      \/ pc' = "tasks" /\ out' = out /\ task' = TasksFor(restored')
  BY DEF Enter, Fail, NothingOut
<1>t. /\ task' \in [Calls -> Task]
      /\ \A c \in Calls : task'[c].err = "none" /\ (task'[c].executed => c \in DOMAIN restored')
      /\ pc' = "tasks" => \A c \in DOMAIN restored' :
           task'[c].executed /\ task'[c].val = restored'[c]
  <2>1. CASE pc' = "ret" /\ task' = task
    <3>1. \A c \in Calls : task[c].err = "none" /\ ~task[c].executed
      BY <1>n, <1>i, <1>e DEF Idle, Entering
    <3> QED
      BY <2>1, <3>1, <1>i DEF TypeOK
  <2>2. CASE pc' = "tasks" /\ task' = TasksFor(restored')
    <3>1. ASSUME NEW c \in DOMAIN restored' PROVE c \in Calls /\ restored'[c] \in Nat
      <4>1. c \in Calls /\ restored'[c] \in started[c]
        BY <1>p DEF Partial
      <4>2. started[c] \subseteq 1 .. run /\ run \in Nat
        BY <4>1, <1>i DEF TypeOK
      <4> QED
        BY <4>1, <4>2
    <3>2. /\ \A c \in DOMAIN restored' :
                task'[c] = [executed |-> TRUE, val |-> restored'[c], err |-> "none"]
          /\ \A c \in Calls \ DOMAIN restored' :
                task'[c] = [executed |-> FALSE, val |-> 0, err |-> "none"]
      BY <2>2, <3>1 DEF TasksFor, NewTask
    <3>3. task' = [c \in Calls |-> task'[c]]
      BY <2>2 DEF TasksFor
    <3>4. ASSUME NEW c \in Calls
          PROVE  /\ task'[c] \in Task
                 /\ task'[c].err = "none"
                 /\ task'[c].executed => c \in DOMAIN restored'
                 /\ c \in DOMAIN restored' => task'[c].executed /\ task'[c].val = restored'[c]
      <4>1. CASE c \in DOMAIN restored'
        <5>1. task'[c] = [executed |-> TRUE, val |-> restored'[c], err |-> "none"]
          BY <4>1, <3>2
        <5>2. restored'[c] \in Nat
          BY <4>1, <3>1
        <5> QED
          BY <5>1, <5>2, <4>1 DEF Task
      <4>2. CASE c \notin DOMAIN restored'
        <5>1. task'[c] = [executed |-> FALSE, val |-> 0, err |-> "none"]
          BY <4>2, <3>2
        <5> QED
          BY <5>1, <4>2 DEF Task
      <4> QED
        BY <4>1, <4>2
    <3>5. task' \in [Calls -> Task]
      BY <3>3, <3>4
    <3> QED
      BY <3>1, <3>4, <3>5
  <2> QED
    BY <1>k, <2>1, <2>2
<1>1. TypeOK'
  BY <1>i, <1>e, <1>k, <1>t DEF TypeOK
<1>2. ResumeInfo'
  BY <1>i, <1>e, <1>r DEF ResumeInfo, Partial
<1>3. Entering'
  BY <1>k DEF Entering
<1>4. Restored'
  BY <1>i, <1>e, <1>s, <1>p, <1>r DEF Restored, Partial, StateReached, TypeOK
<1>5. CallState'
  BY <1>e, <1>n, <1>r, <1>t, <1>k, <1>i DEF CallState, Idle, Built, Panicked
<1>6. Returning'
  BY <1>e, <1>n, <1>k DEF Returning, Panicked
<1>7. ResumeKeepsResults'
  <2>1. \A c \in Calls : run \notin started[c]
    BY <1>n DEF Idle
  <2>2. StateReached' => \A c \in DOMAIN rinfo'.state[0] : run \notin started[c]
    BY <2>1, <1>r, <1>i DEF ResumeInfo, Partial, StateReached
  <2>3. ~(pc' = "ret" /\ out'.kind = "output")
    BY <1>k
  <2> QED
    BY <2>2, <2>3, <1>e DEF ResumeKeepsResults, StateReached
<1>8. InterruptAccountsForAll'
  BY <1>k DEF InterruptAccountsForAll
<1>9. HandedByAddress'
  BY <1>e, <1>n DEF HandedByAddress
<1>10. Ends'
  <2>1. EndInTask'
    BY <1>e, <1>n, <1>i DEF Ends, EndInTask
  <2>2. EndInInterrupt'
    BY <1>k DEF EndInInterrupt
  <2>3. EndInPoints'
    BY <1>e, <1>r, <1>i DEF Ends, EndInPoints, Stopped, OwnState
  <2> QED
    BY <2>1, <2>2, <2>3 DEF Ends
<1> QED
  BY <1>1, <1>2, <1>3, <1>4, <1>5, <1>6, <1>7, <1>8, <1>9, <1>10 DEF IInv

(* Fail and the waiting for the goroutines only move the caller.            *)
LEMMA ArgumentsFailInv == IInv /\ ArgumentsFail => IInv'
<1> SUFFICES ASSUME IInv, ArgumentsFail PROVE IInv'
  OBVIOUS
<1>e. /\ pc = "tasks" /\ pc' = "ret" /\ out'.kind = "error"
      /\ \A c \in Calls : gor[c] = "idle"
      /\ UNCHANGED <<tools, handler, seq, run, mode, rinfo, restored, task, gor, handed, started, last>>
  BY DEF ArgumentsFail, Fail, NothingOut, config
<1>1. TypeOK' /\ ResumeInfo' /\ Entering' /\ Restored'
  BY <1>e DEF IInv, TypeOK, ResumeInfo, Entering, Restored, Partial, StateReached
<1>2. CallState'
  BY <1>e DEF IInv, CallState, Idle, Built, Panicked
<1>3. Returning'
  BY <1>e DEF Returning, Panicked
<1>4. ResumeKeepsResults'
  BY <1>e DEF IInv, ResumeKeepsResults, StateReached
<1>5. InterruptAccountsForAll'
  BY <1>e DEF InterruptAccountsForAll
<1>6. HandedByAddress'
  BY <1>e DEF IInv, HandedByAddress
<1>7. Ends'
  BY <1>e DEF IInv, Ends, EndInTask, EndInInterrupt, EndInPoints, Stopped, OwnState
<1> QED
  BY <1>1, <1>2, <1>3, <1>4, <1>5, <1>6, <1>7 DEF IInv

LEMMA WaitInv == IInv /\ Wait => IInv'
<1> SUFFICES ASSUME IInv, Wait PROVE IInv'
  OBVIOUS
<1>e. /\ pc = "tasks" /\ pc' = "collect" /\ AllDone
      /\ UNCHANGED <<tools, handler, seq, run, mode, rinfo, restored, task, gor, handed, out, started, last>>
  BY DEF Wait, config
<1>1. TypeOK' /\ ResumeInfo' /\ Entering' /\ Restored'
  BY <1>e DEF IInv, TypeOK, ResumeInfo, Entering, Restored, Partial, StateReached
<1>2. CallState'
  BY <1>e DEF IInv, CallState, Idle, Done, Built, Panicked
<1>3. Returning'
  <2>1. \A c \in Calls : gor[c] = "done" \/ (gor[c] = "idle" /\ c \in DOMAIN restored)
    BY <1>e DEF IInv, CallState, Idle, AllDone, Skipped
  <2> QED
    BY <1>e, <2>1 DEF Returning, Panicked
<1>4. ResumeKeepsResults' /\ InterruptAccountsForAll' /\ HandedByAddress'
  BY <1>e DEF IInv, ResumeKeepsResults, StateReached, InterruptAccountsForAll, HandedByAddress
<1>5. Ends'
  BY <1>e DEF IInv, Ends, EndInTask, EndInInterrupt, EndInPoints, Stopped, OwnState
<1> QED
  BY <1>1, <1>2, <1>3, <1>4, <1>5 DEF IInv

-----------------------------------------------------------------------------
(* A call whose result was restored is skipped: by Stream only in a list of *)
(* one task it would not be, and there nothing can have been restored.      *)
LEMMA RestoredIsSkipped ==
  ASSUME IInv, Built, NEW c \in DOMAIN restored
  PROVE  c \in Calls /\ Skipped(c)
<1> USE CallsNat
<1>1. c \in Calls /\ task[c].executed
  BY DEF IInv, Restored, Partial, CallState
<1>2. NumCalls > 1
  <2>1. PICK d \in Calls : d \notin DOMAIN restored
    BY DEF IInv, Restored, Partial
  <2>2. c # d
    BY <2>1
  <2> QED
    BY <1>1, <2>2, ToolsAssumption DEF Calls
<1> QED
  BY <1>1, <1>2 DEF Skipped

(* What a context hands a started tool: the point of its own address.       *)
LEMMA StartHands ==
  ASSUME IInv, NEW c \in Calls, StartTask(c)
  PROVE  /\ rinfo'.addr = rinfo.addr
         /\ rinfo'.state = rinfo.state
         /\ rinfo'.data = rinfo.data
         /\ rinfo'.stateUsed \subseteq rinfo.stateUsed \cup {c}
         /\ rinfo'.dataUsed \subseteq rinfo.dataUsed \cup {c}
         /\ rinfo' = [addr |-> rinfo'.addr, state |-> rinfo'.state, data |-> rinfo'.data,
                      stateUsed |-> rinfo'.stateUsed, dataUsed |-> rinfo'.dataUsed]
         /\ handed' = [d \in Calls |-> handed'[d]]
         /\ \A d \in Calls \ {c} : handed'[d] = handed[d]
         /\ IF c \in DOMAIN rinfo.addr /\ rinfo.addr[c] = ToolAddr(c)
              THEN handed'[c] = [interrupted |-> TRUE, state |-> rinfo.state[c], target |-> c \in rinfo.data]
              ELSE handed'[c] = NotHanded
<1>i. /\ ResumeInfo /\ gor[c] = "idle" /\ Idle(c)
      /\ handed = [d \in Calls |-> handed[d]]
  BY DEF IInv, CallState, StartTask, TypeOK
<1>f. /\ \A p \in PointsAt(rinfo, ToolAddr(c)) :
           p = c /\ c \in DOMAIN rinfo.addr /\ rinfo.addr[c] = ToolAddr(c)
      /\ c \in DOMAIN rinfo.addr /\ rinfo.addr[c] = ToolAddr(c) => PointsAt(rinfo, ToolAddr(c)) # {}
  BY <1>i, PointsFound DEF Idle
<1>1. CASE PointsAt(rinfo, ToolAddr(c)) = {}
  <2>1. rinfo' = rinfo /\ handed' = handed
    BY <1>1 DEF StartTask
  <2>2. ~(c \in DOMAIN rinfo.addr /\ rinfo.addr[c] = ToolAddr(c)) /\ handed[c] = NotHanded
    BY <1>1, <1>f, <1>i DEF Idle
  <2> QED
    BY <2>1, <2>2, <1>i DEF ResumeInfo
<1>2. CASE PointsAt(rinfo, ToolAddr(c)) # {}
  <2>1. /\ rinfo' = TakePoint(rinfo, c)
        /\ handed' = [handed EXCEPT ![c] = HandPoint(rinfo, c)]
    BY <1>2 DEF StartTask
  <2>2. c \in DOMAIN rinfo.addr /\ rinfo.addr[c] = ToolAddr(c)
    BY <1>2, <1>f
  <2>3. HandPoint(rinfo, c) = [interrupted |-> TRUE, state |-> rinfo.state[c], target |-> c \in rinfo.data]
    <3>1. (c \in rinfo.data \ rinfo.dataUsed) = (c \in rinfo.data)
      BY <1>i DEF Idle
    <3> QED
      BY <3>1 DEF HandPoint
  <2>4. /\ handed' = [d \in Calls |-> handed'[d]]
        /\ \A d \in Calls \ {c} : handed'[d] = handed[d]
        /\ handed'[c] = HandPoint(rinfo, c)
    BY <2>1, <1>i
  <2>5. rinfo' = [addr |-> rinfo.addr, state |-> rinfo.state, data |-> rinfo.data,
                  stateUsed |-> rinfo.stateUsed \cup {c},
                  dataUsed |-> rinfo.dataUsed \cup ({c} \cap rinfo.data)]
    <3> DEFINE a == rinfo.addr  s == rinfo.state  d == rinfo.data
               su == rinfo.stateUsed  du == rinfo.dataUsed
    <3>1. rinfo = [addr |-> a, state |-> s, data |-> d, stateUsed |-> su, dataUsed |-> du]
      BY <1>i DEF ResumeInfo
    <3> HIDE DEF a, s, d, su, du
    <3>2. rinfo' = [addr |-> a, state |-> s, data |-> d,
                    stateUsed |-> su \cup {c}, dataUsed |-> du \cup ({c} \cap d)]
      BY <2>1, <3>1 DEF TakePoint
    <3> QED
      BY <3>2 DEF a, s, d, su, du
  <2> QED
    BY <2>2, <2>3, <2>4, <2>5
<1> QED
  BY <1>1, <1>2

LEMMA StartTaskInv ==
  ASSUME IInv, NEW c \in Calls, StartTask(c)
  PROVE  IInv'
<1> USE CallsNat
<1>e. /\ pc = "tasks" \/ Panicked
      /\ gor[c] = "idle" /\ ~Skipped(c)
      /\ gor' = [gor EXCEPT ![c] = "started"]
      /\ started' = [started EXCEPT ![c] = @ \cup {run}]
      /\ UNCHANGED <<tools, handler, seq, run, mode, pc, restored, task, out, last>>
  BY DEF StartTask, config, Panicked
<1>i. TypeOK /\ ResumeInfo /\ Restored /\ CallState
  BY DEF IInv
<1>h. /\ rinfo'.addr = rinfo.addr
      /\ rinfo'.state = rinfo.state
      /\ rinfo'.data = rinfo.data
      /\ rinfo'.stateUsed \subseteq rinfo.stateUsed \cup {c}
      /\ rinfo'.dataUsed \subseteq rinfo.dataUsed \cup {c}
      /\ \A d \in Calls \ {c} : handed'[d] = handed[d]
  BY StartHands
<1>n. c \notin DOMAIN restored
  BY <1>e, RestoredIsSkipped DEF Built
<1>s. /\ started \in [Calls -> SUBSET (1 .. run)] /\ run \in 1 .. run
      /\ \A d \in Calls : started[d] \subseteq started'[d]
      /\ started'[c] = started[c] \cup {run}
      /\ \A d \in Calls \ {c} : started'[d] = started[d]
      /\ started' \in [Calls -> SUBSET (1 .. run)]
  BY <1>e, <1>i DEF TypeOK
<1>g. /\ gor'[c] = "started"
      /\ \A d \in Calls \ {c} : gor'[d] = gor[d]
      /\ gor' \in [Calls -> {"idle", "started", "done"}]
  BY <1>e, <1>i DEF TypeOK
<1>p. \A results : Partial(results) => Partial(results)'
  BY <1>s DEF Partial
<1>1. TypeOK'
  <2>1. handed' = [d \in Calls |-> handed'[d]]
    BY StartHands
  <2>2. DOMAIN handed' = Calls
    BY <2>1
  <2> QED
    BY <1>e, <1>i, <1>s, <1>g, <2>1, <2>2 DEF TypeOK
<1>2. ResumeInfo'
  <2>1. rinfo' = [addr |-> rinfo'.addr, state |-> rinfo'.state, data |-> rinfo'.data,
                  stateUsed |-> rinfo'.stateUsed, dataUsed |-> rinfo'.dataUsed]
    BY StartHands
  <2> QED
    BY <2>1, <1>i, <1>h, <1>s DEF ResumeInfo, Partial
<1>3. Entering'
  BY <1>e DEF Entering, Panicked
<1>4. Restored'
  BY <1>e, <1>i, <1>h, <1>s DEF Restored, Partial, StateReached
<1>5. CallState'
  <2> SUFFICES ASSUME NEW d \in Calls
               PROVE  /\ gor'[d] = "idle" => Idle(d)'
                      /\ gor'[d] # "idle" => run' \in started'[d] /\ d \notin DOMAIN restored'
                      /\ gor'[d] = "started" => task'[d].err = "none" /\ ~task'[d].executed
                      /\ gor'[d] = "done" => Done(d)'
                      /\ d \in DOMAIN restored' /\ Built' =>
                           task'[d].executed /\ task'[d].val = restored'[d] /\ task'[d].err = "none"
    BY DEF CallState
  <2>1. CASE d = c
    BY <2>1, <1>e, <1>i, <1>n, <1>s, <1>g DEF CallState, Idle
  <2>2. CASE d # c
    <3>1. Idle(d) => Idle(d)'
      BY <2>2, <1>e, <1>s, <1>h DEF Idle
    <3>2. Done(d) => Done(d)'
      BY <1>e DEF Done, Panicked
    <3> QED
      BY <2>2, <3>1, <3>2, <1>e, <1>i, <1>s, <1>g DEF CallState, Built, Panicked
  <2> QED
    BY <2>1, <2>2
<1>6. Returning'
  BY <1>e DEF Returning, Panicked
<1>7. ResumeKeepsResults'
  <2>1. mode = "stream" /\ StateReached => c \notin DOMAIN rinfo.state[0]
    BY <1>i, <1>n, <1>e DEF Restored, Panicked
  <2>2. mode = "stream" /\ StateReached => DOMAIN rinfo.state[0] \subseteq Calls
    BY <1>i DEF ResumeInfo, StateReached, Partial
  <2>3. ~(pc' = "ret" /\ out'.kind = "output")
    BY <1>e DEF Panicked
  <2> QED
    BY <2>1, <2>2, <2>3, <1>e, <1>h, <1>s DEF IInv, ResumeKeepsResults, StateReached
<1>8. InterruptAccountsForAll'
  BY <1>e DEF InterruptAccountsForAll, Panicked
<1>9. HandedByAddress'
  <2>1. HandedByAddress
    BY DEF IInv
  <2>2. IF c \in DOMAIN rinfo.addr /\ rinfo.addr[c] = ToolAddr(c)
          THEN handed'[c] = [interrupted |-> TRUE, state |-> rinfo.state[c], target |-> c \in rinfo.data]
          ELSE handed'[c] = NotHanded
    BY StartHands
  <2> QED
    BY <2>1, <2>2, <1>h, <1>g DEF HandedByAddress
<1>10. Ends'
  <2>1. EndInTask'
    BY <1>e, <1>g DEF IInv, Ends, EndInTask
  <2>2. EndInInterrupt'
    BY <1>e DEF EndInInterrupt, Panicked
  <2>3. EndInPoints'
    BY <1>e, <1>g, <1>h DEF IInv, Ends, EndInPoints, Stopped, OwnState
  <2> QED
    BY <2>1, <2>2, <2>3 DEF Ends
<1> QED
  BY <1>1, <1>2, <1>3, <1>4, <1>5, <1>6, <1>7, <1>8, <1>9, <1>10 DEF IInv

-----------------------------------------------------------------------------
(* A tool that ends, in whatever way, changes its own task at most; a panic *)
(* in the caller also takes the caller out of the node.                     *)
LEMMA ToolEnds ==
  ASSUME IInv, NEW c \in Calls, gor[c] = "started",
         NEW how \in {"result", "fail", "signal", "deprecated"}, Ended(c, how),
         UNCHANGED <<tools, handler, seq, run, mode, rinfo, restored, handed, started>>,
         (pc' = pc /\ out' = out) \/ Panicked',
         task' \in [Calls -> Task],
         \A d \in Calls \ {c} : task'[d] = task[d],
         Done(c)',
         \A e \in {"signal", "deprecated"} : task'[c].err = e <=> how = e
  PROVE  IInv'
<1>i. TypeOK /\ ResumeInfo /\ Restored /\ CallState /\ Returning /\ Ends
  BY DEF IInv
<1>b. pc = "tasks" \/ Panicked
  BY <1>i DEF Returning
<1>g. /\ gor'[c] = "done"
      /\ \A d \in Calls \ {c} : gor'[d] = gor[d]
      /\ gor' \in [Calls -> {"idle", "started", "done"}]
  BY <1>i DEF TypeOK, Ended
<1>l. /\ last'[c] = [run |-> run, how |-> how]
      /\ \A d \in Calls \ {c} : last'[d] = last[d]
      /\ last' \in [Calls -> [run : Nat, how : {"none", "result", "fail", "signal", "deprecated"}]]
  BY <1>i DEF TypeOK, Ended
<1>p. pc' = "tasks" \/ Panicked'
  BY <1>b DEF Panicked
<1>1. TypeOK'
  BY <1>i, <1>g, <1>l DEF TypeOK, Panicked
<1>2. ResumeInfo' /\ Entering' /\ Restored'
  BY <1>i, <1>b, <1>p DEF ResumeInfo, Entering, Restored, Partial, StateReached, Panicked
<1>3. CallState'
  <2> SUFFICES ASSUME NEW d \in Calls
               PROVE  /\ gor'[d] = "idle" => Idle(d)'
                      /\ gor'[d] # "idle" => run' \in started'[d] /\ d \notin DOMAIN restored'
                      /\ gor'[d] = "started" => task'[d].err = "none" /\ ~task'[d].executed
                      /\ gor'[d] = "done" => Done(d)'
                      /\ d \in DOMAIN restored' /\ Built' =>
                           task'[d].executed /\ task'[d].val = restored'[d] /\ task'[d].err = "none"
    BY DEF CallState
  <2>1. CASE d = c
    BY <2>1, <1>i, <1>g DEF CallState
  <2>2. CASE d # c
    <3>1. Idle(d) => Idle(d)'
      BY <2>2 DEF Idle
    <3>2. Done(d) => Done(d)'
      BY <2>2, <1>b, <1>p DEF Done, Panicked
    <3>3. Built
      BY <1>b DEF Built
    <3> QED
      BY <2>2, <3>1, <3>2, <3>3, <1>i, <1>g DEF CallState
  <2> QED
    BY <2>1, <2>2
<1>4. Returning'
  BY <1>p DEF Returning, Panicked
<1>5. ResumeKeepsResults'
  BY <1>p DEF IInv, ResumeKeepsResults, StateReached, Panicked
<1>6. InterruptAccountsForAll'
  BY <1>p DEF InterruptAccountsForAll, Panicked
<1>7. HandedByAddress'
  BY <1>g DEF IInv, HandedByAddress
<1>8. Ends'
  <2>1. EndInTask'
    <3> SUFFICES ASSUME NEW d \in Calls
                 PROVE  /\ gor'[d] # "done" => last'[d].run < run
                        /\ gor'[d] = "done" =>
                             /\ last'[d].run = run
                             /\ \A e \in {"signal", "deprecated"} : task'[d].err = e <=> last'[d].how = e
      BY DEF EndInTask
    <3>1. CASE d = c
      BY <3>1, <1>g, <1>l
    <3>2. CASE d # c
      BY <3>2, <1>g, <1>l, <1>i DEF Ends, EndInTask
    <3> QED
      BY <3>1, <3>2
  <2>2. EndInInterrupt'
    BY <1>p DEF EndInInterrupt, Panicked
  <2>3. EndInPoints'
    BY <1>g, <1>l, <1>i DEF Ends, EndInPoints, Stopped, OwnState
  <2> QED
    BY <2>1, <2>2, <2>3 DEF Ends
<1> QED
  BY <1>1, <1>2, <1>3, <1>4, <1>5, <1>6, <1>7, <1>8 DEF IInv

LEMMA ToolReturnsInv ==
  ASSUME IInv, NEW c \in Calls, ToolReturns(c)
  PROVE  IInv'
<1>e. /\ gor[c] = "started"
      /\ UNCHANGED <<tools, handler, seq, run, mode, pc, rinfo, restored, handed, out, started>>
  BY DEF ToolReturns, config
<1>i. /\ task \in [Calls -> Task] /\ run \in Nat
      /\ task[c].err = "none" /\ ~task[c].executed
  BY <1>e DEF IInv, TypeOK, CallState
<1>t. task[c] \in Task
  BY <1>i
<1>1. CASE Ended(c, "result") /\ task' = [task EXCEPT ![c].executed = TRUE, ![c].val = run]
  <2>1. /\ task'[c] = [task[c] EXCEPT !.executed = TRUE, !.val = run]
        /\ \A d \in Calls \ {c} : task'[d] = task[d]
        /\ task' = [d \in Calls |-> task'[d]]
    BY <1>1, <1>i
  <2>2. task'[c] \in Task /\ task'[c].executed /\ task'[c].val = run /\ task'[c].err = "none"
    BY <2>1, <1>i, <1>t DEF Task
  <2>3. task' \in [Calls -> Task]
    BY <2>1, <2>2, <1>i
  <2>4. Done(c)'
    BY <2>2, <1>e DEF Done
  <2> QED
    BY <2>1, <2>2, <2>3, <2>4, <1>1, <1>e, ToolEnds
<1>2. ASSUME NEW e \in {"fail", "signal", "deprecated"}, Ended(c, e), task' = [task EXCEPT ![c].err = e]
      PROVE  IInv'
  <2>1. /\ task'[c] = [task[c] EXCEPT !.err = e]
        /\ \A d \in Calls \ {c} : task'[d] = task[d]
        /\ task' = [d \in Calls |-> task'[d]]
    BY <1>2, <1>i
  <2>2. task'[c] \in Task /\ ~task'[c].executed /\ task'[c].err = e /\ e # "none"
    BY <2>1, <1>i, <1>t, <1>2 DEF Task
  <2>3. task' \in [Calls -> Task]
    BY <2>1, <2>2, <1>i
  <2>4. Done(c)'
    BY <2>2, <1>e DEF Done
  <2>5. \A x \in {"signal", "deprecated"} : task'[c].err = x <=> e = x
    BY <2>2
  <2> QED
    BY <2>1, <2>3, <2>4, <2>5, <1>2, <1>e, ToolEnds
<1> QED
  BY <1>1, <1>2 DEF ToolReturns

LEMMA ToolPanicsInv ==
  ASSUME IInv, NEW c \in Calls, ToolPanics(c)
  PROVE  IInv'
<1>e. /\ gor[c] = "started"
      /\ Ended(c, "fail")
      /\ UNCHANGED <<tools, handler, seq, run, mode, rinfo, restored, handed, started>>
  BY DEF ToolPanics, config
<1>i. /\ task \in [Calls -> Task]
      /\ task[c].err = "none" /\ ~task[c].executed
  BY <1>e DEF IInv, TypeOK, CallState
<1>t. task[c] \in Task
  BY <1>i
<1>1. CASE task' = [task EXCEPT ![c].err = "fail"] /\ UNCHANGED <<pc, out>>
  <2>1. /\ task'[c] = [task[c] EXCEPT !.err = "fail"]
        /\ \A d \in Calls \ {c} : task'[d] = task[d]
        /\ task' = [d \in Calls |-> task'[d]]
    BY <1>1, <1>i
  <2>2. task'[c] \in Task /\ ~task'[c].executed /\ task'[c].err = "fail"
    BY <2>1, <1>i, <1>t DEF Task
  <2>3. task' \in [Calls -> Task]
    BY <2>1, <2>2, <1>i
  <2>4. Done(c)'
    BY <2>2, <1>e DEF Done
  <2> QED
    BY <2>1, <2>2, <2>3, <2>4, <1>1, <1>e, ToolEnds
<1>2. CASE Fail("panic") /\ task' = task
  <2>1. Panicked'
    BY <1>2 DEF Fail, Panicked, NothingOut
  <2>2. Done(c)'
    BY <2>1, <1>2, <1>i DEF Done
  <2> QED
    BY <2>1, <2>2, <1>2, <1>i, <1>e, ToolEnds
<1> QED
  BY <1>1, <1>2 DEF ToolPanics

-----------------------------------------------------------------------------
(* When the caller collects every call is executed or has an error, so the  *)
(* calls that interrupted and the results divide the calls between them.    *)
LEMMA CollectInv == IInv /\ Collect => IInv'
<1> SUFFICES ASSUME IInv, Collect PROVE IInv'
  OBVIOUS
<1> USE CallsNat
<1>i. TypeOK /\ ResumeInfo /\ Restored /\ CallState /\ Returning /\ Ends
  BY DEF IInv
<1>e. /\ pc = "collect" /\ pc' = "ret"
      /\ UNCHANGED <<tools, handler, seq, run, mode, rinfo, restored, task, gor, handed, started, last>>
  BY DEF Collect, config
<1>d. \A c \in Calls :
        /\ task[c].executed <=> task[c].err = "none"
        /\ task[c].executed => task[c].val \in started[c]
        /\ c \in DOMAIN restored => task[c].executed /\ task[c].val = restored[c]
  <2> SUFFICES ASSUME NEW c \in Calls
               PROVE  /\ task[c].executed <=> task[c].err = "none"
                      /\ task[c].executed => task[c].val \in started[c]
                      /\ c \in DOMAIN restored => task[c].executed /\ task[c].val = restored[c]
    OBVIOUS
  <2>1. CASE c \in DOMAIN restored
    BY <2>1, <1>e, <1>i DEF CallState, Built, Restored, Partial
  <2>2. CASE c \notin DOMAIN restored
    <3>1. Done(c) /\ run \in started[c]
      BY <2>2, <1>e, <1>i DEF Returning, CallState
    <3> QED
      BY <2>2, <3>1, <1>e DEF Done, Panicked
  <2> QED
    BY <2>1, <2>2
<1>r. /\ DOMAIN Results = {c \in Calls : task[c].executed}
      /\ \A c \in DOMAIN Results : Results[c] = task[c].val
  BY DEF Results
<1>o. \/ out'.kind = "error"
      \/ /\ \A c \in Calls : task[c].err # "fail"
         /\ Interrupted # {}
         /\ out'.kind = "interrupt" /\ out'.executed = Results /\ out'.rerun = Interrupted
         /\ out'.state = SavedStates
      \/ /\ \A c \in Calls : task[c].err = "none"
         /\ out'.kind = "output" /\ out'.msgs = [c \in Calls |-> Message(c)]
  BY DEF Collect, NothingOut
<1>p. Interrupted # {} => Partial(Results)
  <2> SUFFICES ASSUME NEW c \in Interrupted PROVE Partial(Results)
    OBVIOUS
  <2>1. c \in Calls /\ c \notin DOMAIN Results
    BY <1>d, <1>r DEF Interrupted
  <2> QED
    BY <2>1, <1>d, <1>r DEF Partial
<1>1. TypeOK' /\ ResumeInfo' /\ Entering' /\ Restored'
  BY <1>e, <1>i DEF TypeOK, ResumeInfo, Entering, Restored, Partial, StateReached
<1>2. CallState'
  <2>1. \A c \in Calls : Idle(c) <=> Idle(c)'
    BY <1>e DEF Idle
  <2>2. \A c \in Calls : Done(c) => Done(c)'
    BY <1>e DEF Done, Panicked
  <2>3. Built
    BY <1>e DEF Built
  <2> QED
    BY <2>1, <2>2, <2>3, <1>e, <1>i DEF CallState
<1>3. Returning'
  <2>1. \A c \in Calls : gor[c] # "started"
    BY <1>i, <1>e DEF Returning, Panicked
  <2>2. out'.kind = "interrupt" => Partial(Results) /\ out'.executed = Results
    BY <1>o, <1>p
  <2> QED
    BY <2>1, <2>2, <1>e DEF Returning, Partial
<1>4. ResumeKeepsResults'
  <2>1. mode = "stream" /\ StateReached => \A c \in DOMAIN rinfo.state[0] : run \notin started[c]
    BY DEF IInv, ResumeKeepsResults
  <2>2. ASSUME mode = "stream", out'.kind = "output", NEW c \in Calls
        PROVE  /\ out'.msgs[c].val \in started[c]
               /\ c \in DOMAIN restored => out'.msgs[c].val = restored[c]
    <3>1. /\ \A d \in Calls : task[d].err = "none"
          /\ out'.msgs = [d \in Calls |-> Message(d)]
      BY <2>2, <1>o
    <3>2. Message(c) = [form |-> "full", val |-> task[c].val]
      BY <2>2 DEF Message
    <3>3. out'.msgs[c].val = task[c].val /\ task[c].err = "none"
      BY <3>1, <3>2
    <3> QED
      BY <3>3, <1>d
  <2> QED
    BY <2>1, <2>2, <1>e DEF ResumeKeepsResults, StateReached
<1>5. InterruptAccountsForAll'
  <2> SUFFICES ASSUME out'.kind = "interrupt"
               PROVE  /\ out'.rerun # {}
                      /\ out'.rerun \cap DOMAIN out'.executed = {}
                      /\ out'.rerun \cup DOMAIN out'.executed = Calls
                      /\ DOMAIN out'.state = {0} \cup out'.rerun
                      /\ out'.state[0] = out'.executed
                      /\ \A c \in DOMAIN restored : c \in DOMAIN out'.executed /\ out'.executed[c] = restored[c]
    BY <1>e DEF InterruptAccountsForAll
  <2>1. /\ \A c \in Calls : task[c].err # "fail"
        /\ Interrupted # {}
        /\ out'.executed = Results /\ out'.rerun = Interrupted /\ out'.state = SavedStates
    BY <1>o
  <2>2. Interrupted = {c \in Calls : ~task[c].executed}
    BY <2>1, <1>d, <1>i DEF Interrupted, TypeOK, Task
  <2>3. DOMAIN SavedStates = {0} \cup Interrupted /\ SavedStates[0] = Results
    BY DEF SavedStates
  <2>4. DOMAIN restored \subseteq Calls
    BY <1>i DEF Restored, Partial
  <2>5. Results = out'.executed /\ DOMAIN out'.executed = Calls \ Interrupted
    BY <2>1, <2>2, <1>r
  <2>6. /\ out'.rerun # {} /\ out'.rerun \cap DOMAIN out'.executed = {}
        /\ out'.rerun \cup DOMAIN out'.executed = Calls
    BY <2>1, <2>2, <2>5
  <2>7. DOMAIN out'.state = {0} \cup out'.rerun /\ out'.state[0] = out'.executed
    BY <2>1, <2>3
  <2>8. \A c \in DOMAIN restored : c \in DOMAIN out'.executed /\ out'.executed[c] = restored[c]
    BY <2>1, <2>4, <1>r, <1>d
  <2> QED
    BY <2>6, <2>7, <2>8
<1>6. HandedByAddress'
  BY <1>e DEF IInv, HandedByAddress
<1>7. Ends'
  <2>1. EndInTask' /\ EndInPoints'
    BY <1>e, <1>i DEF Ends, EndInTask, EndInPoints, Stopped, OwnState
  <2>2. ASSUME out'.kind = "interrupt", NEW c \in Calls
        PROVE  /\ c \in out'.rerun <=> last[c].run = run /\ last[c].how \in {"signal", "deprecated"}
               /\ c \in out'.rerun => out'.state[c] = IF last[c].how = "signal" THEN run ELSE 0
    <3>1. out'.rerun = Interrupted /\ out'.state = SavedStates
      BY <2>2, <1>o
    <3>2. c \in Interrupted <=> task[c].err \in {"signal", "deprecated"}
      BY DEF Interrupted
    <3>3. CASE gor[c] = "done"
      <4>1. c \in Interrupted <=> last[c].run = run /\ last[c].how \in {"signal", "deprecated"}
        BY <3>2, <3>3, <1>i DEF Ends, EndInTask
      <4>2. c \in Interrupted => SavedStates[c] = IF task[c].err = "signal" THEN run ELSE 0
        BY DEF SavedStates
      <4>3. task[c].err = "signal" <=> last[c].how = "signal"
        BY <3>3, <1>i DEF Ends, EndInTask
      <4> QED
        BY <3>1, <4>1, <4>2, <4>3
    <3>4. CASE gor[c] # "done"
      <4>1. c \in DOMAIN restored /\ last[c].run < run
        BY <3>4, <1>e, <1>i DEF Returning, Ends, EndInTask
      <4>2. task[c].err = "none"
        BY <4>1, <1>d
      <4>3. last[c].run # run
        BY <4>1, <1>i DEF TypeOK
      <4> QED
        BY <3>1, <3>2, <4>2, <4>3
    <3> QED
      BY <3>3, <3>4
  <2>3. EndInInterrupt'
    BY <2>2, <1>e DEF EndInInterrupt
  <2> QED
    BY <2>1, <2>3 DEF Ends
<1> QED
  BY <1>1, <1>2, <1>3, <1>4, <1>5, <1>6, <1>7 DEF IInv

(* The next run is given what the interrupt saved, under one of the two     *)
(* kinds of address; every result in it is of an earlier run.               *)
LEMMA ResumeInv == IInv /\ Resume => IInv'
<1> SUFFICES ASSUME IInv, Resume PROVE IInv'
  OBVIOUS
<1> USE CallsNat
<1>i. TypeOK /\ InterruptAccountsForAll /\ Returning /\ Ends
  BY DEF IInv
<1>e. /\ pc = "ret" /\ out.kind = "interrupt" /\ pc' = "enter"
      /\ run' = run + 1 /\ mode' \in {"invoke", "stream"}
      /\ restored' = <<>>
      /\ task' = [c \in Calls |-> NewTask]
      /\ gor' = [c \in Calls |-> "idle"]
      /\ handed' = [c \in Calls |-> NotHanded]
      /\ out' = NothingOut
      /\ UNCHANGED <<tools, handler, seq, started, last>>
  BY ToolsAssumption DEF Resume, config
<1>r. PICK byAddress \in Handovers, data \in SUBSET out.rerun :
        rinfo' = [NoResume EXCEPT !.addr = SavedAddr(byAddress), !.state = out.state, !.data = data]
  BY DEF Resume
<1>s. rinfo' = [addr |-> SavedAddr(byAddress), state |-> out.state, data |-> data,
                stateUsed |-> {}, dataUsed |-> {}]
  BY <1>r DEF NoResume
<1>a. /\ DOMAIN out.state \subseteq {0} \cup Calls
      /\ out.state[0] = out.executed
      /\ Partial(out.executed)
  BY <1>e, <1>i DEF InterruptAccountsForAll, Returning
<1>t. /\ started \in [Calls -> SUBSET (1 .. run)] /\ run \in Nat \ {0}
      /\ started \in [Calls -> SUBSET (1 .. (run + 1))]
      /\ \A c \in Calls : run + 1 \notin started[c]
  <2>1. started \in [Calls -> SUBSET (1 .. run)] /\ run \in Nat \ {0}
    BY <1>i DEF TypeOK
  <2>2. 1 .. run \subseteq 1 .. (run + 1) /\ run + 1 \notin 1 .. run
    BY <2>1
  <2> QED
    BY <2>1, <2>2
<1>1. TypeOK'
  BY <1>e, <1>i, <1>t DEF TypeOK, Task, NewTask
<1>2. ResumeInfo'
  <2>1. \/ \A p \in DOMAIN out.state : SavedAddr(byAddress)[p] = RunAddr(p)
        \/ \A p \in DOMAIN out.state : SavedAddr(byAddress)[p] = SignalAddr(p)
    BY DEF SavedAddr, RunAddr, SignalAddr
  <2>2. DOMAIN SavedAddr(byAddress) = DOMAIN out.state
    BY DEF SavedAddr
  <2>3. Partial(rinfo'.state[0])
    BY <1>s, <1>a
  <2> QED
    BY <2>1, <2>2, <2>3, <1>s, <1>a, <1>e DEF ResumeInfo, Partial
<1>3. Entering'
  BY <1>e, <1>s DEF Entering
<1>4. Restored'
  BY <1>e DEF Restored, Partial
<1>5. CallState'
  BY <1>e, <1>s, <1>t DEF CallState, Idle, NewTask, Built, Panicked
<1>6. Returning'
  BY <1>e DEF Returning
<1>7. ResumeKeepsResults'
  BY <1>e, <1>s, <1>a, <1>t DEF ResumeKeepsResults, StateReached, Partial
<1>8. InterruptAccountsForAll'
  BY <1>e DEF InterruptAccountsForAll
<1>9. HandedByAddress'
  BY <1>e DEF HandedByAddress
<1>10. Ends'
  <2>1. \A c \in Calls : last[c].run \in Nat /\ last[c].run < run + 1
    <3> TAKE c \in Calls
    <3>1. last[c].run \in Nat /\ run \in Nat
      BY <1>i DEF TypeOK
    <3>2. last[c].run < run \/ last[c].run = run
      BY <1>i DEF Ends, EndInTask
    <3> QED
      BY <3>1, <3>2
  <2>2. EndInTask'
    BY <2>1, <1>e DEF EndInTask
  <2>3. EndInInterrupt'
    BY <1>e DEF EndInInterrupt
  <2>4. EndInPoints'
    <3> SUFFICES ASSUME NEW c \in Calls
                 PROVE  /\ c \in DOMAIN rinfo'.addr <=> Stopped(c)'
                        /\ c \in DOMAIN rinfo'.addr => rinfo'.state[c] = OwnState(c)'
      BY DEF EndInPoints
    <3>1. DOMAIN rinfo'.addr = {0} \cup out.rerun /\ rinfo'.state = out.state
      <4>1. DOMAIN SavedAddr(byAddress) = DOMAIN out.state
        BY DEF SavedAddr
      <4> QED
        BY <4>1, <1>s, <1>e, <1>i DEF InterruptAccountsForAll
    <3>2. c # 0
      OBVIOUS
    <3>3. run' - 1 = run
      BY <1>e, <1>i DEF TypeOK
    <3>4. /\ c \in out.rerun <=> last[c].run = run /\ last[c].how \in {"signal", "deprecated"}
          /\ c \in out.rerun => out.state[c] = IF last[c].how = "signal" THEN run ELSE 0
      BY <1>e, <1>i DEF Ends, EndInInterrupt
    <3> QED
      BY <3>1, <3>2, <3>3, <3>4, <1>e DEF Stopped, OwnState
  <2> QED
    BY <2>2, <2>3, <2>4 DEF Ends
<1> QED
  BY <1>1, <1>2, <1>3, <1>4, <1>5, <1>6, <1>7, <1>8, <1>9, <1>10 DEF IInv

-----------------------------------------------------------------------------
LEMMA NextInv == IInv /\ [Next]_vars => IInv'
<1> SUFFICES ASSUME IInv, [Next]_vars PROVE IInv'
  OBVIOUS
<1>1. CASE UNCHANGED vars
  BY <1>1 DEF IInv, TypeOK, ResumeInfo, Entering, Restored, Partial, CallState, Idle, Done, Built,
              Panicked, Returning, ResumeKeepsResults, InterruptAccountsForAll, HandedByAddress,
              Ends, EndInTask, EndInInterrupt, EndInPoints, Stopped, OwnState,
              StateReached, vars, config
<1>2. CASE \E c \in Calls : StartTask(c) \/ ToolReturns(c) \/ ToolPanics(c)
  BY <1>2, StartTaskInv, ToolReturnsInv, ToolPanicsInv
<1> QED
  BY <1>1, <1>2, EnterInv, ArgumentsFailInv, WaitInv, CollectInv, ResumeInv DEF Next

LEMMA Invariant == Spec => []IInv
  BY InitInv, NextInv, PTL DEF Spec

(* The types of the node's variables.                                       *)
THEOREM ToolsTyped == Spec => []TypeOK
  BY Invariant, PTL DEF IInv

(* A tool whose result was saved is not called again by a resumed Stream    *)
(* (tool_node.go:447), and what Stream returns for a call in the end is     *)
(* what the one successful call of its tool produced.                       *)
THEOREM SavedResultsKept == Spec => []ResumeKeepsResults
  BY Invariant, PTL DEF IInv

(* The composite interrupt of Invoke and Stream names every call: to be run *)
(* again, or with its result, the earlier saved ones included.              *)
THEOREM InterruptComplete == Spec => []InterruptAccountsForAll
  BY Invariant, PTL DEF IInv

(* The points that a run is given are those of the tools that the run       *)
(* before left interrupted, and under one of two sets of addresses.         *)
LEMMA HandedOwnState == IInv => ResumeReachesTool
<1> SUFFICES ASSUME IInv, NEW c \in Calls, gor[c] = "started"
             PROVE  /\ handed[c].interrupted => Stopped(c) /\ handed[c].state = OwnState(c)
                    /\ Stopped(c) /\ StateReached =>
                         handed[c] = [interrupted |-> TRUE, state |-> OwnState(c), target |-> c \in rinfo.data]
  BY DEF ResumeReachesTool
<1>1. IF c \in DOMAIN rinfo.addr /\ rinfo.addr[c] = ToolAddr(c)
        THEN handed[c] = [interrupted |-> TRUE, state |-> rinfo.state[c], target |-> c \in rinfo.data]
        ELSE handed[c] = NotHanded
  BY DEF IInv, HandedByAddress
<1>2. /\ c \in DOMAIN rinfo.addr <=> Stopped(c)
      /\ c \in DOMAIN rinfo.addr => rinfo.state[c] = OwnState(c)
  BY DEF IInv, Ends, EndInPoints
<1>3. StateReached /\ c \in DOMAIN rinfo.addr => rinfo.addr[c] = ToolAddr(c)
  <2>1. c # 0
    BY CallsNat
  <2> QED
    BY <2>1, AddrsDiffer DEF IInv, ResumeInfo, StateReached, RunAddr, SignalAddr
<1>4. CASE c \in DOMAIN rinfo.addr /\ rinfo.addr[c] = ToolAddr(c)
  <2>1. handed[c] = [interrupted |-> TRUE, state |-> OwnState(c), target |-> c \in rinfo.data]
    BY <1>1, <1>2, <1>4
  <2> QED
    BY <2>1, <1>2, <1>4
<1>5. CASE ~(c \in DOMAIN rinfo.addr /\ rinfo.addr[c] = ToolAddr(c))
  <2>1. ~handed[c].interrupted
    BY <1>1, <1>5 DEF NotHanded
  <2> QED
    BY <2>1, <1>2, <1>3, <1>5
<1> QED
  BY <1>4, <1>5

(* Over any number of interrupts AppendAddressSegment hands a tool that is  *)
(* called again the state that its own last call saved and never another;   *)
(* given the points by address, it hands every interrupted tool that state  *)
(* and the resume data sent to it.                                          *)
THEOREM StatesReachTools == Spec => []ResumeReachesTool
  BY Invariant, HandedOwnState, PTL

(* Unless the caller panics, parallelRunToolCall leaves no goroutine behind *)
(* when the node returns: the safety half of ReturnsWhenAllDone.            *)
THEOREM NoneLeftRunning ==
  Spec => []((pc = "ret" /\ out.kind # "panic") => \A c \in Calls : gor[c] # "started")
<1>1. IInv => ((pc = "ret" /\ out.kind # "panic") => \A c \in Calls : gor[c] # "started")
  BY DEF IInv, Returning, Panicked
<1> QED
  BY <1>1, Invariant, PTL

-----------------------------------------------------------------------------
(* UnboundedChan: for every number of goroutines, every payload set and     *)
(* every bound on the sends, the channel is type correct, loses no wakeup,  *)
(* leaves no receiver parked after Close, and delivers first-in first-out.  *)
(* ChanInv is inductive as it stands.  Inside NoLostWakeup, the count of    *)
(* notified receivers needs NoneParkedAfterClose for the steps of a closed  *)
(* channel, and both need the types.                                        *)

ChanInv == ChanTypeOK /\ NoLostWakeup /\ FifoExactlyOnce

(* The two sequence facts behind FIFO: appending on the right of a          *)
(* concatenation, and moving its middle element to the left part.           *)
LEMMA ConcatAppend ==
  ASSUME NEW a \in Seq(Values), NEW b \in Seq(Values), NEW e \in Values
  PROVE  Append(a \o b, e) = a \o Append(b, e)
  OBVIOUS

LEMMA ConcatShift ==
  ASSUME NEW S, NEW a \in Seq(S), NEW b \in Seq(S), b # <<>>
  PROVE  a \o b = Append(a, Head(b)) \o Tail(b)
  OBVIOUS

(* The set of notified receivers is finite, being a set of receivers.       *)
LEMMA WokenFinite == IsFiniteSet(Woken) /\ Cardinality(Woken) \in Nat
<1>1. Woken \subseteq Receivers
  BY DEF Woken
<1>2. QED
  BY <1>1, ChanAssumption, FS_Subset, FS_CardinalityType DEF ChanAssumption

LEMMA ChanTypeStep == ChanTypeOK /\ [ChanNext]_chanVars => ChanTypeOK'
<1> SUFFICES ASSUME ChanTypeOK, [ChanNext]_chanVars
             PROVE  ChanTypeOK'
  OBVIOUS
<1> USE DEF ChanTypeOK
<1>1. ASSUME NEW s \in Senders, NEW v \in Values, Send(s, v)
      PROVE  ChanTypeOK'
  <2>1. buffer' \in Seq(Values) /\ sent' \in Seq(Values)
    BY <1>1 DEF Send
  <2>2. rstate' \in [Receivers -> {"idle", "parked", "woken"}]
    BY <1>1 DEF Send, Signal, Parked
  <2>3. UNCHANGED <<closed, panicked, received>>
    BY <1>1 DEF Send
  <2>4. QED
    BY <2>1, <2>2, <2>3
<1>2. ASSUME NEW s \in Senders, SendPanic(s)
      PROVE  ChanTypeOK'
  BY <1>2 DEF SendPanic
<1>3. ASSUME NEW r \in Receivers, ReceiveWait(r)
      PROVE  ChanTypeOK'
  BY <1>3 DEF ReceiveWait
<1>4. ASSUME NEW r \in Receivers, ReceiveValue(r)
      PROVE  ChanTypeOK'
  BY <1>4 DEF ReceiveValue
<1>5. ASSUME NEW r \in Receivers, ReceiveClosed(r)
      PROVE  ChanTypeOK'
  BY <1>5 DEF ReceiveClosed
<1>6. CASE Close
  BY <1>6 DEF Close, Broadcast
<1>7. CASE UNCHANGED chanVars
  BY <1>7 DEF chanVars
<1>8. QED
  BY <1>1, <1>2, <1>3, <1>4, <1>5, <1>6, <1>7 DEF ChanNext

LEMMA ClosedStep ==
  ChanTypeOK /\ NoneParkedAfterClose /\ [ChanNext]_chanVars => NoneParkedAfterClose'
<1> SUFFICES ASSUME ChanTypeOK, NoneParkedAfterClose, [ChanNext]_chanVars
             PROVE  NoneParkedAfterClose'
  OBVIOUS
<1> USE DEF ChanTypeOK, NoneParkedAfterClose, Parked
<1>1. CASE \E s \in Senders, v \in Values : Send(s, v)
  BY <1>1 DEF Send
<1>2. CASE \E s \in Senders : SendPanic(s)
  BY <1>2 DEF SendPanic
<1>3. CASE \E r \in Receivers : ReceiveWait(r)
  BY <1>3 DEF ReceiveWait
<1>4. CASE \E r \in Receivers : ReceiveValue(r)
  BY <1>4 DEF ReceiveValue
<1>5. CASE \E r \in Receivers : ReceiveClosed(r)
  BY <1>5 DEF ReceiveClosed
<1>6. CASE Close
  BY <1>6 DEF Close, Broadcast
<1>7. CASE UNCHANGED chanVars
  BY <1>7 DEF chanVars
<1>8. QED
  BY <1>1, <1>2, <1>3, <1>4, <1>5, <1>6, <1>7 DEF ChanNext

LEMMA FifoStep ==
  ChanTypeOK /\ FifoExactlyOnce /\ [ChanNext]_chanVars => FifoExactlyOnce'
<1> SUFFICES ASSUME ChanTypeOK, FifoExactlyOnce, [ChanNext]_chanVars
             PROVE  FifoExactlyOnce'
  OBVIOUS
<1> USE DEF ChanTypeOK, FifoExactlyOnce
<1>1. ASSUME NEW s \in Senders, NEW v \in Values, Send(s, v)
      PROVE  FifoExactlyOnce'
  <2>1. sent' = Append(received \o buffer, v)
    BY <1>1 DEF Send
  <2>2. Append(received \o buffer, v) = received \o Append(buffer, v)
    BY ConcatAppend
  <2>3. received' = received /\ buffer' = Append(buffer, v)
    BY <1>1 DEF Send
  <2>4. QED
    BY <2>1, <2>2, <2>3
<1>2. ASSUME NEW r \in Receivers, ReceiveValue(r)
      PROVE  FifoExactlyOnce'
  BY <1>2, ConcatShift DEF ReceiveValue
<1>3. CASE UNCHANGED <<buffer, sent, received>>
  BY <1>3
<1>4. QED
  BY <1>1, <1>2, <1>3
     DEF ChanNext, chanVars, SendPanic, ReceiveWait, ReceiveClosed, Close

LEMMA WakeupStep == ChanInv /\ [ChanNext]_chanVars => NoLostWakeup'
<1> SUFFICES ASSUME ChanInv, [ChanNext]_chanVars, Parked' # {}
             PROVE  Len(buffer') <= Cardinality(Woken')
  BY ClosedStep DEF ChanInv, NoLostWakeup
<1> USE DEF ChanInv, ChanTypeOK
<1>1. ASSUME NEW s \in Senders, NEW v \in Values, Send(s, v)
      PROVE  Len(buffer') <= Cardinality(Woken')
  <2>1. CASE Parked = {} /\ UNCHANGED rstate
    BY <2>1 DEF Parked
  <2>2. ASSUME NEW r \in Parked, rstate' = [rstate EXCEPT ![r] = "woken"]
        PROVE  Len(buffer') <= Cardinality(Woken')
    <3>1. r \notin Woken /\ Woken' = Woken \cup {r}
      BY <2>2 DEF Parked, Woken
    <3>2. Cardinality(Woken') = Cardinality(Woken) + 1
      BY <3>1, WokenFinite, FS_AddElement
    <3>3. Len(buffer) <= Cardinality(Woken)
      BY <2>2 DEF NoLostWakeup
    <3>4. Len(buffer') = Len(buffer) + 1
      BY <1>1 DEF Send
    <3>5. QED
      BY <3>2, <3>3, <3>4, WokenFinite
  <2>3. QED
    BY <1>1, <2>1, <2>2 DEF Send, Signal
<1>2. ASSUME NEW r \in Receivers, ReceiveWait(r)
      PROVE  Len(buffer') <= Cardinality(Woken')
  <2>1. IsFiniteSet(Woken')
    <3>1. Woken' \subseteq Receivers
      BY DEF Woken
    <3>2. QED
      BY <3>1, ChanAssumption, FS_Subset DEF ChanAssumption
  <2>2. Cardinality(Woken') \in Nat
    BY <2>1, FS_CardinalityType
  <2>3. Len(buffer') = 0
    BY <1>2 DEF ReceiveWait
  <2>4. QED
    BY <2>2, <2>3
<1>3. ASSUME NEW r \in Receivers, ReceiveValue(r)
      PROVE  Len(buffer') <= Cardinality(Woken')
  <2>1. Parked # {} /\ Len(buffer) <= Cardinality(Woken)
    BY <1>3 DEF ReceiveValue, Parked, NoLostWakeup
  <2>2. Len(buffer') = Len(buffer) - 1
    BY <1>3 DEF ReceiveValue
  <2>3. Woken' = Woken \ {r}
    BY <1>3 DEF ReceiveValue, Woken
  <2>4. Cardinality(Woken \ {r}) >= Cardinality(Woken) - 1
    <3>1. Cardinality(Woken \ {r}) =
            IF r \in Woken THEN Cardinality(Woken) - 1 ELSE Cardinality(Woken)
      BY WokenFinite, FS_RemoveElement
    <3>2. QED
      BY <3>1, WokenFinite
  <2>5. Len(buffer) \in Nat
    OBVIOUS
  <2>6. Cardinality(Woken \ {r}) \in Nat
    <3>1. IsFiniteSet(Woken \ {r})
      BY WokenFinite, FS_RemoveElement
    <3>2. QED
      BY <3>1, FS_CardinalityType
  <2>7. QED
    BY <2>1, <2>2, <2>3, <2>4, <2>5, <2>6, WokenFinite
<1>4. CASE \E r \in Receivers : ReceiveClosed(r)
  BY <1>4, ClosedStep DEF ReceiveClosed, NoneParkedAfterClose, NoLostWakeup
<1>5. CASE Close
  BY <1>5, ClosedStep DEF Close, NoneParkedAfterClose, NoLostWakeup
<1>6. CASE UNCHANGED <<buffer, rstate>>
  BY <1>6 DEF NoLostWakeup, Parked, Woken
<1>7. QED
  BY <1>1, <1>2, <1>3, <1>4, <1>5, <1>6 DEF ChanNext, chanVars, SendPanic

LEMMA ChanInvStep == ChanInv /\ [ChanNext]_chanVars => ChanInv'
  BY ChanTypeStep, ClosedStep, FifoStep, WakeupStep DEF ChanInv

LEMMA ChanInvInit == ChanInit => ChanInv
<1> SUFFICES ASSUME ChanInit
             PROVE  ChanInv
  OBVIOUS
<1> USE DEF ChanInit
<1>1. ChanTypeOK
  <2>1. <<>> \in Seq(Values)
    OBVIOUS
  <2>2. rstate \in [Receivers -> {"idle", "parked", "woken"}]
    OBVIOUS
  <2>3. QED
    BY <2>1, <2>2 DEF ChanTypeOK
<1>2. Parked = {}
  BY DEF Parked
<1>3. sent = received \o buffer
  OBVIOUS
<1>4. QED
  BY <1>1, <1>2, <1>3
     DEF ChanInv, NoLostWakeup, NoneParkedAfterClose, FifoExactlyOnce

LEMMA ChanInductive == ChanSpec => []ChanInv
  BY ChanInvInit, ChanInvStep, PTL DEF ChanSpec, ChanSafetySpec

(* The state of the channel always has its types. *)
THEOREM ChanTyped == ChanSpec => []ChanTypeOK
<1>1. ChanInv => ChanTypeOK
  BY DEF ChanInv
<1>2. QED
  BY <1>1, ChanInductive, PTL

(* However many receivers compete, a parked receiver never sits on values   *)
(* nobody was notified for: Send's single Signal per value is enough.       *)
THEOREM WakeupsSuffice == ChanSpec => []NoLostWakeup
<1>1. ChanInv => NoLostWakeup
  BY DEF ChanInv
<1>2. QED
  BY <1>1, ChanInductive, PTL

(* What the receivers took, followed by the buffer, is what was sent.       *)
THEOREM Fifo == ChanSpec => []FifoExactlyOnce
<1>1. ChanInv => FifoExactlyOnce
  BY DEF ChanInv
<1>2. QED
  BY <1>1, ChanInductive, PTL
=============================================================================
