----------------------------- MODULE EinoMerge -----------------------------
(***************************************************************************)
(* MergeStreamReaders and InternalMergeNamedStreamReaders of               *)
(* Go/handwritten_eino/schema/stream.go, the multiStreamReader or          *)
(* arrayReader they return, and receiveN of schema/select.go.              *)
(*                                                                         *)
(* A reader to be merged is [kind, left]: an "array" has items left to be  *)
(* read, a "merged" reader a number of streams that have not ended; a      *)
(* "stream", and a reader that is "wrapped" (converted, or a copy), has    *)
(* nothing to say.  Streams are numbered from 1 (0 in the code).  Each has *)
(* a producer that sends and then closes, the goroutine of toStream for a  *)
(* wrapped reader; one goroutine calls recv.  recv selects over the        *)
(* streams that are not closed: with reflect.Select over itemCases while   *)
(* there are more than MaxSelect of them, with a written-out select over   *)
(* nonClosed after that.                                                   *)
(***************************************************************************)
EXTENDS Naturals, Sequences, SequencesExt

CONSTANTS Merges,      \* what may be merged: [named, readers]
          MaxSelect,   \* maxSelectNum, 5 in the code
          Items,       \* the stream items
          MaxItems     \* bound on the items a producer sends

ASSUME MergeAssumption ==
  /\ \A m \in Merges :
       /\ m.named \in BOOLEAN
       /\ m.readers \in Seq(Range(m.readers)) \ {<<>>}
       /\ \A r \in Range(m.readers) :
            /\ r.kind \in {"stream", "wrapped", "array", "merged"}
            /\ r.kind = "array" => r.left \in Seq(Range(r.left))
            /\ r.kind = "merged" => r.left \in Nat
  /\ MaxSelect \in Nat \ {0}
  /\ MaxItems \in Nat

VARIABLES merge,     \* the call: sourceReaderNames is set, and the readers
          typ,       \* sr.typ: "multi" or "array"; an array reader is stream 1
          n,         \* len(msr.sts)
          buf,       \* per stream: what its items channel holds
          sclosed,   \* per stream: its producer closed it
          rclosed,   \* Close was called
          cases,     \* the streams whose select case is still set
          nonClosed, \* msr.nonClosed
          rpc,       \* recv: "idle", "select", "eof", "panic"
          sent,      \* history: what was put into each stream
          got,       \* history: what recv returned of each stream
          ends       \* history: the SourceEOFs recv returned, by source

source == <<merge, typ, n, rclosed>>
vars == <<source, buf, sclosed, cases, nonClosed, rpc, sent, got, ends>>

Streams == 1 .. n
named == merge.named

Open == [items |-> <<>>, closed |-> FALSE]
ArrToStream(items) == [items |-> items, closed |-> TRUE]

(* The streams of one reader; those of the arrays are made of all of them.  *)
StreamsOf(r) ==
  CASE r.kind = "array" -> <<>>
    [] r.kind = "merged" -> [k \in 1 .. r.left |-> Open]
    [] OTHER -> <<Open>>

Arrays(readers) ==
  FlattenSeq([k \in DOMAIN readers |-> IF readers[k].kind = "array" THEN readers[k].left ELSE <<>>])

(* Mutant of MergeStreamReaders: arrays are looked at only if all are.      *)
MergeForgetsArrays(readers) == FlattenSeq([k \in DOMAIN readers |-> StreamsOf(readers[k])])

MergeStreamReaders(readers) ==
  FlattenSeq([k \in DOMAIN readers |-> StreamsOf(readers[k])])
    \o (IF Arrays(readers) = <<>> THEN <<>> ELSE <<ArrToStream(Arrays(readers))>>)

(* Each reader becomes a stream of its own, so that it keeps its name.      *)
MergeNamed(readers) ==
  [k \in DOMAIN readers |->
     IF readers[k].kind = "array" THEN ArrToStream(readers[k].left) ELSE Open]

Init ==
  /\ merge \in Merges
  /\ LET ss == IF named THEN MergeNamed(merge.readers) ELSE MergeStreamReaders(merge.readers)
     IN  /\ n = Len(ss)
         /\ buf = [i \in Streams |-> ss[i].items]
         /\ sclosed = [i \in Streams |-> ss[i].closed]
  /\ typ = IF ~named /\ \A k \in DOMAIN merge.readers : StreamsOf(merge.readers[k]) = <<>>
           THEN "array" ELSE "multi"
  /\ rclosed = FALSE
  /\ cases = Streams
  /\ nonClosed = [i \in Streams |-> i]
  /\ rpc = "idle"
  /\ sent = buf
  /\ got = [i \in Streams |-> <<>>]
  /\ ends = <<>>

(* The producers (stream.send and stream.closeSend). *)
Produce(i, v) ==
  /\ ~sclosed[i]
  /\ ~rclosed
  /\ Len(sent[i]) < MaxItems
  /\ buf' = [buf EXCEPT ![i] = Append(@, v)]
  /\ sent' = [sent EXCEPT ![i] = Append(@, v)]
  /\ UNCHANGED <<source, sclosed, cases, nonClosed, rpc, got, ends>>

CloseStream(i) ==
  /\ ~sclosed[i]
  /\ sclosed' = [sclosed EXCEPT ![i] = TRUE]
  /\ UNCHANGED <<source, buf, cases, nonClosed, rpc, sent, got, ends>>

(* recv: the loop condition, before the first select and after a removal.   *)
LoopHead(active) == IF active = <<>> THEN "eof" ELSE "select"

RecvCall ==
  /\ rpc = "idle"
  /\ typ = "multi"
  /\ rpc' = LoopHead(nonClosed)
  /\ UNCHANGED <<source, buf, sclosed, cases, nonClosed, sent, got, ends>>

(* arrayReader.recv *)
RecvArray ==
  /\ rpc = "idle"
  /\ typ = "array"
  /\ IF n = 0 \/ buf[1] = <<>>
     THEN rpc' = "eof" /\ UNCHANGED <<buf, got>>
     ELSE /\ got' = [got EXCEPT ![1] = Append(@, Head(buf[1]))]
          /\ buf' = [buf EXCEPT ![1] = Tail(@)]
          /\ UNCHANGED rpc
  /\ UNCHANGED <<source, sclosed, cases, nonClosed, sent, ends>>

(* close: closeRecv of every stream, also of those that have ended.         *)
Close ==
  /\ rpc \in {"idle", "eof"}
  /\ typ = "multi"
  /\ ~rclosed
  /\ rclosed' = TRUE
  /\ UNCHANGED <<merge, typ, n, buf, sclosed, cases, nonClosed, rpc, sent, got, ends>>

Dynamic == Len(nonClosed) > MaxSelect

(* The streams recv selects over. *)
Selected == IF Dynamic THEN cases ELSE Range(nonClosed)

SelectItem(i) ==
  /\ rpc = "select"
  /\ i \in Selected
  /\ buf[i] # <<>>
  /\ got' = [got EXCEPT ![i] = Append(@, Head(buf[i]))]
  /\ buf' = [buf EXCEPT ![i] = Tail(@)]
  /\ rpc' = "idle"
  /\ UNCHANGED <<source, sclosed, cases, nonClosed, sent, ends>>

(* The stream recv takes for the one that was closed: the dynamic branch    *)
(* declares a chosen of its own, so the outer one keeps its zero value.     *)
Chosen(i) == IF Dynamic THEN 1 ELSE i

(* The entry of stream j is cut out of nonClosed, if there is one.          *)
Removed(active, j) ==
  IF \E k \in DOMAIN active : active[k] = j
    THEN RemoveAt(active, CHOOSE k \in DOMAIN active : active[k] = j)
    ELSE active

(* The removal loop ranges over the indices nonClosed had at its start, so  *)
(* after a removal its last index is out of range, unless it was that one.  *)
RemovalPanics(active, j) ==
  \E k \in 1 .. Len(active) - 1 : active[k] = j

(* Mutant of SelectClosed: the SourceEOF does not remove the stream. *)
SelectClosedKeeps(i) ==
  /\ rpc = "select"
  /\ i \in Selected
  /\ buf[i] = <<>>
  /\ sclosed[i]
  /\ cases' = IF Dynamic THEN cases \ {i} ELSE cases
  /\ IF RemovalPanics(nonClosed, Chosen(i))
     THEN rpc' = "panic" /\ UNCHANGED <<ends, nonClosed>>
     ELSE IF named
     THEN rpc' = "idle" /\ ends' = Append(ends, Chosen(i)) /\ UNCHANGED nonClosed
     ELSE nonClosed' = Removed(nonClosed, Chosen(i))
          /\ rpc' = LoopHead(nonClosed') /\ UNCHANGED ends
  /\ UNCHANGED <<source, buf, sclosed, sent, got>>

(* Mutant of SelectClosed: nothing is removed, recv selects again. *)
SelectClosedSpins(i) ==
  /\ rpc = "select"
  /\ i \in Selected
  /\ buf[i] = <<>>
  /\ sclosed[i]
  /\ UNCHANGED vars

(* A closed and drained stream is selected: drop its case and its entry.    *)
SelectClosed(i) ==
  /\ rpc = "select"
  /\ i \in Selected
  /\ buf[i] = <<>>
  /\ sclosed[i]
  /\ cases' = IF Dynamic THEN cases \ {i} ELSE cases
  /\ nonClosed' = Removed(nonClosed, Chosen(i))
  /\ IF RemovalPanics(nonClosed, Chosen(i))
     THEN rpc' = "panic" /\ UNCHANGED ends
     ELSE IF named
     THEN rpc' = "idle" /\ ends' = Append(ends, Chosen(i))
     ELSE rpc' = LoopHead(nonClosed') /\ UNCHANGED ends
  /\ UNCHANGED <<source, buf, sclosed, sent, got>>

Next ==
  \/ \E i \in Streams, v \in Items : Produce(i, v)
  \/ \E i \in Streams : CloseStream(i)
  \/ RecvCall \/ RecvArray \/ Close
  \/ \E i \in Streams : SelectItem(i)
  \/ \E i \in Streams : SelectClosed(i)

SafetySpec == Init /\ [][Next]_vars

(* A recv that was begun completes when it can. *)
Spec == SafetySpec /\ WF_vars(\E i \in Streams : SelectItem(i) \/ SelectClosed(i))

-----------------------------------------------------------------------------

Drained(i) == sclosed[i] /\ buf[i] = <<>>

(* EOF comes after every item of every stream, in the order of each, those  *)
(* of the arrays that were merged among them; the end of a named source is  *)
(* reported once, after its last item and before EOF; and unless recv       *)
(* panics no stream is left out of the active list before it ended.         *)
EndsAfterLastItem ==
  /\ rpc # "panic" => \A i \in Streams : Drained(i) \/ i \in Range(nonClosed)
  /\ rpc = "eof" =>
       /\ \A i \in Streams : Drained(i) /\ got[i] = sent[i]
       /\ \A k \in DOMAIN merge.readers : merge.readers[k].kind = "array" =>
            \E items \in Range(got) \cup {<<>>} : merge.readers[k].left \in SubSeqs(items)
  /\ IsInjective(ends)
  /\ \A i \in Range(ends) : Drained(i) /\ got[i] = sent[i]
  /\ named /\ rpc = "eof" => Range(ends) = Streams

(* A recv on streams that have all ended does not block. *)
RecvEnds ==
  (rpc = "select" /\ \A i \in Streams : sclosed[i]) ~> (rpc # "select")

(* recv removes closed streams from the active list and goes on, it does    *)
(* not panic ("the channel is closed ... remove the closed sub-stream from  *)
(* the active list", says the comment above the loop).                      *)
RecvNeverPanics == rpc # "panic"
=============================================================================
