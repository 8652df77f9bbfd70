-------------------------- MODULE EinoMergeProofs --------------------------
(***************************************************************************)
(* For any readers, names and select limit: a merged reader of EinoMerge   *)
(* tells the end of what it reads after everything in it.                  *)
(*                                                                         *)
(* As long as recv does not panic nonClosed is <<1, .., m>>, for only its  *)
(* last entry can be cut out without a panic; the streams behind m have    *)
(* ended, and their ends were reported from the last one down (InOrder).   *)
(***************************************************************************)
EXTENDS EinoMerge, SequenceTheorems, WellFoundedInduction, TLAPS

(* What producers send and what is left in the arrays that are merged.      *)
ReadersOf == UNION {Range(m.readers) : m \in Merges}
Vals == Items \cup UNION {Range(r.left) : r \in {q \in ReadersOf : q.kind = "array"}}

TypeOK ==
  /\ merge \in Merges
  /\ typ \in {"multi", "array"}
  /\ n \in Nat
  /\ buf \in [Streams -> Seq(Vals)]
  /\ sclosed \in [Streams -> BOOLEAN]
  /\ rclosed \in BOOLEAN
  /\ rpc \in {"idle", "select", "eof", "panic"}
  /\ sent \in [Streams -> Seq(Vals)]
  /\ got \in [Streams -> Seq(Vals)]

(* Nothing is lost between a producer and recv, or out of its order.        *)
NothingLost == \A i \in Streams : sent[i] = got[i] \o buf[i]

(* What was left in an array is in one piece in a stream that is complete.  *)
ArraysSent ==
  \A k \in DOMAIN merge.readers : merge.readers[k].kind = "array" =>
    \/ merge.readers[k].left = <<>>
    \/ \E i \in Streams : sclosed[i] /\ merge.readers[k].left \in SubSeqs(sent[i])

(* Arrays alone make one reader without names, which never selects.         *)
ArrayAlone ==
  typ = "array" =>
    /\ ~named
    /\ n <= 1
    /\ \A i \in Streams : sclosed[i]
    /\ rpc \in {"idle", "eof"}

(* The streams up to m are active, those behind it ended from the last on.  *)
InOrder ==
  \E m \in 0 .. n :
    /\ rpc # "panic" => nonClosed = [k \in 1 .. m |-> k]
    /\ \A i \in m + 1 .. n : Drained(i)
    /\ ends = IF named THEN [k \in 1 .. n - m |-> n + 1 - k] ELSE <<>>
    /\ typ = "multi" /\ rpc = "eof" => m = 0

AllDrained == rpc = "eof" => \A i \in Streams : Drained(i)

IInv ==
  /\ TypeOK
  /\ NothingLost
  /\ ArraysSent
  /\ ArrayAlone
  /\ InOrder
  /\ AllDrained

-----------------------------------------------------------------------------
(* A set of numbers that is not empty has a least element.                  *)
LEMMA LeastExists ==
  ASSUME NEW S \in SUBSET Nat, S # {}
  PROVE  \E k \in S : \A j \in S : k <= j
<1> DEFINE R == OpToRel(<, Nat)
<1>1. IsWellFoundedOn(R, Nat)
  BY NatLessThanWellFounded
<1>2. \A x, y \in Nat : <<y, x>> \in R <=> y < x
  BY DEF OpToRel
<1> HIDE DEF R
<1>3. PICK x \in S : \A y \in S : ~(<<y, x>> \in R)
  BY <1>1, WFMin
<1>4. x \in Nat /\ \A y \in S : y \in Nat /\ ~(y < x)
  BY <1>2, <1>3
<1> QED
  BY <1>4

-----------------------------------------------------------------------------
(* FlattenSeq *)

LEMMA SubSeqsHas ==
  ASSUME NEW s, NEW i \in 0 .. Len(s), NEW j \in 0 .. Len(s)
  PROVE  SubSeq(s, i + 1, j) \in SubSeqs(s)
  BY DEF SubSeqs

LEMMA SubSeqsWhole ==
  ASSUME NEW S, NEW s \in Seq(S)
  PROVE  s \in SubSeqs(s)
<1>1. Len(s) \in Nat /\ SubSeq(s, 1, Len(s)) = s
  BY LenProperties
<1>2. 0 \in 0 .. Len(s) /\ Len(s) \in 0 .. Len(s)
  BY <1>1
<1> DEFINE i == 0
<1>3. i + 1 = 1
  OBVIOUS
<1> HIDE DEF i
<1>4. SubSeq(s, i + 1, Len(s)) \in SubSeqs(s)
  BY <1>2, SubSeqsHas DEF i
<1>5. SubSeq(s, 1, Len(s)) \in SubSeqs(s)
  BY <1>3, <1>4
<1> QED
  BY <1>1, <1>5

(* What is in one piece in s is so in whatever s is a front or an end of.   *)
LEMMA SubSeqsConcat ==
  ASSUME NEW S, NEW s \in Seq(S), NEW t \in Seq(S)
  PROVE  /\ SubSeqs(s) \subseteq SubSeqs(s \o t)
         /\ t \in SubSeqs(s \o t)
<1> DEFINE u == s \o t
<1>1. /\ Len(s) \in Nat /\ Len(t) \in Nat /\ u \in Seq(S) /\ Len(u) = Len(s) + Len(t)
      /\ \A i \in 1 .. Len(s) : u[i] = s[i]
      /\ \A i \in 1 .. Len(t) : u[Len(s) + i] = t[i]
  BY ConcatProperties, LenProperties
<1>2. ASSUME NEW i \in 0 .. Len(s), NEW j \in 0 .. Len(s)
      PROVE  SubSeq(s, i + 1, j) \in SubSeqs(u)
  <2>1. SubSeq(s, i + 1, j) = SubSeq(u, i + 1, j)
    BY <1>1
  <2>2. i \in 0 .. Len(u) /\ j \in 0 .. Len(u)
    BY <1>1
  <2> HIDE DEF u
  <2> QED
    BY <2>1, <2>2, SubSeqsHas
<1>3. t \in SubSeqs(u)
  <2>1. SubSeq(u, Len(s) + 1, Len(u)) = t
    BY <1>1
  <2>2. Len(s) \in 0 .. Len(u) /\ Len(u) \in 0 .. Len(u)
    BY <1>1
  <2> HIDE DEF u
  <2>3. SubSeq(u, Len(s) + 1, Len(u)) \in SubSeqs(u)
    BY <2>2, SubSeqsHas
  <2> QED
    BY <2>1, <2>3
<1>4. ASSUME NEW x \in SubSeqs(s) PROVE x \in SubSeqs(u)
  <2>1. PICK i \in 0 .. Len(s), j \in 0 .. Len(s) : x = SubSeq(s, i + 1, j)
    BY DEF SubSeqs
  <2> HIDE DEF u
  <2> QED
    BY <2>1, <1>2
<1> QED
  BY <1>3, <1>4

(* f concatenates the first k of seqs, for every k up to j.                 *)
Flattens(seqs, j, f) ==
  f = [k \in 1 .. j |-> IF k = 1 THEN seqs[k] ELSE f[k - 1] \o seqs[k]]

LEMMA FlattenExists ==
  ASSUME NEW seqs, NEW N \in Nat
  PROVE  \E f : Flattens(seqs, N, f)
<1> DEFINE Bad == {j \in Nat : ~ \E f : Flattens(seqs, j, f)}
<1>1. Bad = {}
  <2> SUFFICES ASSUME Bad # {} PROVE FALSE
    OBVIOUS
  <2>1. PICK j \in Bad : \A i \in Bad : j <= i
    BY LeastExists
  <2>2. j # 0
    <3> DEFINE f == [k \in 1 .. 0 |-> 0]
    <3>1. f = [k \in 1 .. 0 |-> IF k = 1 THEN seqs[k] ELSE f[k - 1] \o seqs[k]]
      OBVIOUS
    <3>2. Flattens(seqs, 0, f)
      BY <3>1 DEF Flattens
    <3> QED
      BY <3>2, <2>1
  <2>3. j - 1 \in Nat /\ j - 1 \notin Bad
    BY <2>1, <2>2
  <2>4. PICK f : Flattens(seqs, j - 1, f)
    BY <2>3
  <2> DEFINE g == [k \in 1 .. j |-> IF k = 1 THEN seqs[k] ELSE f[k - 1] \o seqs[k]]
  <2>5. ASSUME NEW k \in 1 .. j - 1 PROVE g[k] = f[k]
    <3>1. f[k] = IF k = 1 THEN seqs[k] ELSE f[k - 1] \o seqs[k]
      BY <2>4, <2>5 DEF Flattens
    <3>2. k \in 1 .. j
      BY <2>1, <2>5
    <3> QED
      BY <3>1, <3>2
  <2>6. Flattens(seqs, j, g)
    <3>1. \A k \in 1 .. j : k # 1 => k - 1 \in 1 .. j - 1
      BY <2>1
    <3>2. \A k \in 1 .. j : g[k] = IF k = 1 THEN seqs[k] ELSE g[k - 1] \o seqs[k]
      BY <3>1, <2>5
    <3> QED
      BY <3>2 DEF Flattens
  <2> QED
    BY <2>6, <2>1
<1> QED
  BY <1>1

(* FlattenSeq gives a sequence of the elements, with each of seqs in it in  *)
(* one piece.                                                               *)
LEMMA FlattenFacts ==
  ASSUME NEW S, NEW seqs \in Seq(Seq(S))
  PROVE  /\ FlattenSeq(seqs) \in Seq(S)
         /\ \A k \in 1 .. Len(seqs) : seqs[k] \in SubSeqs(FlattenSeq(seqs))
<1>1. Len(seqs) \in Nat /\ \A k \in 1 .. Len(seqs) : seqs[k] \in Seq(S)
  BY LenProperties
<1>2. CASE Len(seqs) = 0
  <2>1. FlattenSeq(seqs) = seqs /\ seqs = <<>>
    BY <1>2, EmptySeq DEF FlattenSeq
  <2> QED
    BY <2>1, <1>2
<1>3. CASE Len(seqs) # 0
  <2> DEFINE N == Len(seqs)
             f == CHOOSE h : Flattens(seqs, N, h)
  <2>1. Flattens(seqs, N, f)
    BY <1>1, FlattenExists
  <2>2. FlattenSeq(seqs) = f[N]
    BY <1>3 DEF FlattenSeq, Flattens
  <2>3. N \in Nat \ {0}
    BY <1>1, <1>3
  <2> HIDE DEF f, N
  <2>4. \A k \in 1 .. N : f[k] = IF k = 1 THEN seqs[k] ELSE f[k - 1] \o seqs[k]
    BY <2>1 DEF Flattens
  <2> DEFINE Good(j) == f[j] \in Seq(S) /\ \A k \in 1 .. j : seqs[k] \in SubSeqs(f[j])
             Bad == {j \in 1 .. N : ~Good(j)}
  <2>5. Bad = {}
    <3>0. SUFFICES ASSUME Bad # {} PROVE FALSE
      OBVIOUS
    <3>1. PICK j \in Bad : \A i \in Bad : j <= i
      <4>1. Bad \in SUBSET Nat
        BY <2>3
      <4> HIDE DEF Bad
      <4> QED
        BY <3>0, <4>1, LeastExists
    <3>2. j \in 1 .. N /\ seqs[j] \in Seq(S)
      BY <3>1, <1>1 DEF N
    <3>3. CASE j = 1
      <4>1. f[1] = seqs[1] /\ seqs[1] \in Seq(S)
        BY <3>2, <3>3, <2>4
      <4>2. seqs[1] \in SubSeqs(f[1])
        BY <4>1, SubSeqsWhole
      <4> QED
        BY <4>1, <4>2, <3>1, <3>3
    <3>4. CASE j # 1
      <4>1. j - 1 \in 1 .. N /\ Good(j - 1)
        <5>1. j - 1 \in 1 .. N /\ ~(j <= j - 1)
          BY <2>3, <3>2, <3>4
        <5>2. j - 1 \notin Bad
          BY <5>1, <3>1
        <5> QED
          BY <5>1, <5>2
      <4>2. f[j] = f[j - 1] \o seqs[j]
        BY <3>2, <3>4, <2>4
      <4>3. f[j] \in Seq(S) /\ SubSeqs(f[j - 1]) \subseteq SubSeqs(f[j]) /\ seqs[j] \in SubSeqs(f[j])
        BY <4>1, <4>2, <3>2, SubSeqsConcat, ConcatProperties
      <4>4. \A k \in 1 .. j : k = j \/ k \in 1 .. j - 1
        BY <3>2
      <4>5. Good(j)
        BY <4>1, <4>3, <4>4
      <4> QED
        BY <4>5, <3>1
    <3> QED
      BY <3>3, <3>4
  <2>6. Good(N)
    <3>1. N \in 1 .. N /\ N \notin Bad
      BY <2>3, <2>5
    <3> QED
      BY <3>1
  <2> QED
    BY <2>2, <2>6 DEF N
<1> QED
  BY <1>2, <1>3

-----------------------------------------------------------------------------
(* The readers that are merged and the streams that are made of them        *)

Stream == [items : Seq(Vals), closed : BOOLEAN]

LEMMA ReadersTyped ==
  ASSUME NEW m \in Merges
  PROVE  /\ m.named \in BOOLEAN
         /\ Len(m.readers) \in Nat \ {0}
         /\ DOMAIN m.readers = 1 .. Len(m.readers)
         /\ \A k \in DOMAIN m.readers :
              /\ m.readers[k].kind \in {"stream", "wrapped", "array", "merged"}
              /\ m.readers[k].kind = "array" => m.readers[k].left \in Seq(Vals)
              /\ m.readers[k].kind = "merged" => m.readers[k].left \in Nat
<1> DEFINE rs == m.readers
<1>1. rs \in Seq(Range(rs)) /\ rs # <<>> /\ m.named \in BOOLEAN
  BY MergeAssumption
<1>2. /\ \A r \in Range(rs) :
           /\ r.kind \in {"stream", "wrapped", "array", "merged"}
           /\ r.kind = "array" => r.left \in Seq(Range(r.left))
           /\ r.kind = "merged" => r.left \in Nat
  BY MergeAssumption
<1>3. Len(rs) \in Nat \ {0} /\ DOMAIN rs = 1 .. Len(rs)
  BY <1>1, LenProperties, EmptySeq
<1>4. \A k \in DOMAIN rs : rs[k] \in Range(rs)
  BY DEF Range
<1>5. ASSUME NEW k \in DOMAIN rs, rs[k].kind = "array" PROVE rs[k].left \in Seq(Vals)
  <2>1. Range(rs[k].left) \subseteq Vals
    BY <1>4, <1>5 DEF Vals, ReadersOf
  <2>2. rs[k].left \in Seq(Range(rs[k].left))
    BY <1>2, <1>4, <1>5
  <2> QED
    BY <2>1, <2>2, SeqMonotonic
<1> QED
  BY <1>1, <1>2, <1>3, <1>4, <1>5

LEMMA StreamsOfTyped ==
  ASSUME NEW m \in Merges, NEW k \in DOMAIN m.readers
  PROVE  StreamsOf(m.readers[k]) \in Seq(Stream)
<1>1. Open \in Stream
  BY DEF Open, Stream
<1>2. CASE m.readers[k].kind = "merged"
  <2>1. StreamsOf(m.readers[k]) = [j \in 1 .. m.readers[k].left |-> Open] /\ m.readers[k].left \in Nat
    BY <1>2, ReadersTyped DEF StreamsOf
  <2> QED
    BY <1>1, <2>1
<1>3. CASE m.readers[k].kind # "merged"
  <2>1. StreamsOf(m.readers[k]) = <<>> \/ StreamsOf(m.readers[k]) = <<Open>>
    BY <1>3 DEF StreamsOf
  <2>2. <<>> \in Seq(Stream) /\ <<Open>> \in Seq(Stream)
    BY <1>1
  <2> QED
    BY <2>1, <2>2
<1> QED
  BY <1>2, <1>3

LEMMA ArraysTyped ==
  ASSUME NEW m \in Merges
  PROVE  /\ Arrays(m.readers) \in Seq(Vals)
         /\ \A k \in DOMAIN m.readers : m.readers[k].kind = "array" =>
              m.readers[k].left \in SubSeqs(Arrays(m.readers))
<1> DEFINE rs == m.readers
           parts == [k \in DOMAIN rs |-> IF rs[k].kind = "array" THEN rs[k].left ELSE <<>>]
<1>1. /\ Len(rs) \in Nat /\ DOMAIN rs = 1 .. Len(rs)
      /\ \A k \in DOMAIN rs : rs[k].kind = "array" => rs[k].left \in Seq(Vals)
  BY ReadersTyped
<1>2. \A k \in DOMAIN rs : parts[k] \in Seq(Vals)
  BY <1>1
<1>3. parts \in Seq(Seq(Vals)) /\ Len(parts) = Len(rs)
  <2>1. parts = [k \in 1 .. Len(rs) |-> parts[k]]
    BY <1>1
  <2> HIDE DEF parts
  <2> QED
    BY <1>1, <1>2, <2>1
<1>4. Arrays(rs) = FlattenSeq(parts)
  BY DEF Arrays
<1>5. \A k \in DOMAIN rs : rs[k].kind = "array" => rs[k].left = parts[k]
  OBVIOUS
<1> HIDE DEF parts
<1>6. FlattenSeq(parts) \in Seq(Vals) /\ \A k \in 1 .. Len(parts) : parts[k] \in SubSeqs(FlattenSeq(parts))
  BY <1>3, FlattenFacts
<1> QED
  BY <1>1, <1>3, <1>4, <1>5, <1>6

(* The streams of merged readers, whichever way they were merged: each      *)
(* array is in one of them that is complete; without names and other        *)
(* streams there is at most that one.                                       *)
Holds(ss, s) == s = <<>> \/ \E i \in 1 .. Len(ss) : ss[i].closed /\ s \in SubSeqs(ss[i].items)

LEMMA MergedStreams ==
  ASSUME NEW m \in Merges
  PROVE  LET ss == MergeStreamReaders(m.readers)
         IN  /\ ss \in Seq(Stream)
             /\ \A k \in DOMAIN m.readers :
                  m.readers[k].kind = "array" => Holds(ss, m.readers[k].left)
             /\ (\A k \in DOMAIN m.readers : StreamsOf(m.readers[k]) = <<>>) =>
                  Len(ss) <= 1 /\ \A i \in 1 .. Len(ss) : ss[i].closed
<1> DEFINE rs == m.readers
           parts == [k \in DOMAIN rs |-> StreamsOf(rs[k])]
           fs == FlattenSeq(parts)
           a == Arrays(rs)
           tail == IF a = <<>> THEN <<>> ELSE <<ArrToStream(a)>>
           ss == fs \o tail
<1>1. Len(rs) \in Nat /\ DOMAIN rs = 1 .. Len(rs)
  BY ReadersTyped
<1>2. a \in Seq(Vals) /\ \A k \in DOMAIN rs : rs[k].kind = "array" => rs[k].left \in SubSeqs(a)
  BY ArraysTyped
<1>3. MergeStreamReaders(rs) = ss
  BY DEF MergeStreamReaders
<1>4. \A k \in DOMAIN rs : parts[k] \in Seq(Stream)
  BY StreamsOfTyped
<1>p. parts = [k \in 1 .. Len(rs) |-> parts[k]]
  BY <1>1
<1>5. fs \in Seq(Stream)
  <2> HIDE DEF parts
  <2>1. parts \in Seq(Seq(Stream))
    BY <1>1, <1>4, <1>p
  <2> QED
    BY <2>1, FlattenFacts
<1>6. tail \in Seq(Stream)
  <2>1. ArrToStream(a) \in Stream
    BY <1>2 DEF ArrToStream, Stream
  <2> QED
    BY <2>1
<1>7. /\ ss \in Seq(Stream) /\ Len(ss) = Len(fs) + Len(tail)
      /\ Len(fs) \in Nat /\ Len(tail) \in Nat
      /\ \A i \in 1 .. Len(tail) : ss[Len(fs) + i] = tail[i]
  <2> HIDE DEF fs, tail
  <2> QED
    BY <1>5, <1>6, ConcatProperties, LenProperties
<1>8. a # <<>> => Len(tail) = 1 /\ tail[1].closed /\ tail[1].items = a
  BY DEF ArrToStream
<1>9. a = <<>> => Len(tail) = 0
  OBVIOUS
<1>10. ASSUME NEW k \in DOMAIN rs, rs[k].kind = "array" PROVE Holds(ss, rs[k].left)
  <2>1. CASE a = <<>>
    <3>1. \A s \in SubSeqs(<<>>) : s = <<>>
      BY DEF SubSeqs
    <3> QED
      BY <3>1, <2>1, <1>2, <1>10 DEF Holds
  <2>2. CASE a # <<>>
    <3>1. /\ Len(fs) + 1 \in 1 .. Len(ss)
          /\ ss[Len(fs) + 1].closed /\ ss[Len(fs) + 1].items = a
      <4> HIDE DEF fs, tail, ss, a
      <4>1. Len(tail) = 1 /\ tail[1].closed /\ tail[1].items = a
        BY <2>2, <1>8
      <4>2. 1 \in 1 .. Len(tail) /\ Len(fs) + 1 \in 1 .. Len(ss)
        BY <4>1, <1>7
      <4>3. ss[Len(fs) + 1] = tail[1]
        BY <4>2, <1>7
      <4> QED
        BY <4>1, <4>2, <4>3
    <3>2. rs[k].left \in SubSeqs(a)
      BY <1>2, <1>10
    <3> HIDE DEF ss, fs, a
    <3> QED
      BY <3>1, <3>2 DEF Holds
  <2> QED
    BY <2>1, <2>2
<1>11. ASSUME \A k \in DOMAIN rs : StreamsOf(rs[k]) = <<>>
       PROVE  Len(ss) <= 1 /\ \A i \in 1 .. Len(ss) : ss[i].closed
  <2>1. Len(fs) = 0
    <3> DEFINE none == {}
    <3>0. <<>> \in Seq(none)
      OBVIOUS
    <3> HIDE DEF none
    <3>1. \A k \in DOMAIN rs : parts[k] \in Seq(none)
      BY <1>11, <3>0
    <3> HIDE DEF parts
    <3>2. parts \in Seq(Seq(none))
      BY <3>1, <1>1, <1>p
    <3>3. fs \in Seq(none)
      BY <3>2, FlattenFacts
    <3> HIDE DEF fs
    <3>4. Len(fs) \in Nat /\ \A i \in 1 .. Len(fs) : fs[i] \in none
      BY <3>3, ElementOfSeq, LenProperties
    <3> USE DEF none
    <3> QED
      BY <3>4
  <2> HIDE DEF fs, tail, ss, a
  <2>2. Len(tail) = 0 \/ (Len(tail) = 1 /\ tail[1].closed)
    BY <1>8, <1>9
  <2>3. CASE Len(tail) = 0
    BY <2>1, <2>3, <1>7
  <2>4. CASE Len(tail) = 1 /\ tail[1].closed
    BY <2>1, <2>4, <1>7
  <2> QED
    BY <2>2, <2>3, <2>4
<1> QED
  BY <1>3, <1>7, <1>10, <1>11

LEMMA NamedStreams ==
  ASSUME NEW m \in Merges
  PROVE  LET ss == MergeNamed(m.readers)
         IN  /\ ss \in Seq(Stream)
             /\ \A k \in DOMAIN m.readers :
                  m.readers[k].kind = "array" => Holds(ss, m.readers[k].left)
<1> DEFINE rs == m.readers
           ss == MergeNamed(rs)
<1>1. /\ Len(rs) \in Nat /\ DOMAIN rs = 1 .. Len(rs)
      /\ \A k \in DOMAIN rs : rs[k].kind = "array" => rs[k].left \in Seq(Vals)
  BY ReadersTyped
<1>2. \A k \in DOMAIN rs :
        ss[k] = IF rs[k].kind = "array" THEN ArrToStream(rs[k].left) ELSE Open
  BY DEF MergeNamed
<1>3. ss = [k \in 1 .. Len(rs) |-> ss[k]]
  BY <1>1 DEF MergeNamed
<1> HIDE DEF ss
<1>4. ASSUME NEW k \in DOMAIN rs PROVE ss[k] \in Stream
  <2>1. CASE rs[k].kind = "array"
    <3>1. ss[k] = [items |-> rs[k].left, closed |-> TRUE] /\ rs[k].left \in Seq(Vals)
      BY <2>1, <1>1, <1>2, <1>4 DEF ArrToStream
    <3> QED
      BY <3>1 DEF Stream
  <2>2. CASE rs[k].kind # "array"
    <3>1. ss[k] = [items |-> <<>>, closed |-> FALSE]
      BY <2>2, <1>2, <1>4 DEF Open
    <3> QED
      BY <3>1 DEF Stream
  <2> QED
    BY <2>1, <2>2
<1>5. ss \in Seq(Stream) /\ Len(ss) = Len(rs)
  BY <1>1, <1>3, <1>4
<1>6. ASSUME NEW k \in DOMAIN rs, rs[k].kind = "array" PROVE Holds(ss, rs[k].left)
  <2>1. ss[k].closed /\ ss[k].items = rs[k].left /\ rs[k].left \in Seq(Vals)
    <3>1. ss[k] = [items |-> rs[k].left, closed |-> TRUE] /\ rs[k].left \in Seq(Vals)
      BY <1>1, <1>2, <1>6 DEF ArrToStream
    <3> QED
      BY <3>1
  <2>2. rs[k].left \in SubSeqs(ss[k].items)
    BY <2>1, SubSeqsWhole
  <2> QED
    BY <2>1, <2>2, <1>1, <1>5 DEF Holds
<1> QED
  BY <1>5, <1>6 DEF ss

-----------------------------------------------------------------------------
LEMMA InitInv == Init => IInv
<1> SUFFICES ASSUME Init PROVE IInv
  OBVIOUS
<1> DEFINE ss == IF named THEN MergeNamed(merge.readers) ELSE MergeStreamReaders(merge.readers)
<1>1. merge \in Merges /\ named \in BOOLEAN
  BY ReadersTyped DEF Init, named
<1>2. /\ n = Len(ss)
      /\ buf = [i \in Streams |-> ss[i].items]
      /\ sclosed = [i \in Streams |-> ss[i].closed]
      /\ sent = buf /\ got = [i \in Streams |-> <<>>]
      /\ nonClosed = [i \in Streams |-> i] /\ ends = <<>>
      /\ rpc = "idle" /\ rclosed = FALSE
      /\ typ \in {"multi", "array"}
      /\ typ = "array" => ~named /\ \A k \in DOMAIN merge.readers : StreamsOf(merge.readers[k]) = <<>>
  BY DEF Init
<1>3. /\ ss \in Seq(Stream)
      /\ \A k \in DOMAIN merge.readers :
           merge.readers[k].kind = "array" => Holds(ss, merge.readers[k].left)
      /\ typ = "array" => Len(ss) <= 1 /\ \A i \in 1 .. Len(ss) : ss[i].closed
  <2>1. CASE named
    BY <2>1, <1>1, <1>2, NamedStreams
  <2>2. CASE ~named
    <3>1. ss = MergeStreamReaders(merge.readers)
      BY <2>2
    <3> HIDE DEF ss
    <3> QED
      BY <3>1, <1>1, <1>2, MergedStreams
  <2> QED
    BY <2>1, <2>2, <1>1
<1> HIDE DEF ss
<1>4. n \in Nat /\ \A i \in Streams : ss[i] \in Stream
  BY <1>2, <1>3, LenProperties, ElementOfSeq DEF Streams
<1>5. \A i \in Streams : ss[i].items \in Seq(Vals) /\ ss[i].closed \in BOOLEAN
  BY <1>4 DEF Stream
<1>6. <<>> \in Seq(Vals)
  OBVIOUS
<1>7. TypeOK
  BY <1>1, <1>2, <1>4, <1>5, <1>6 DEF TypeOK
<1>8. NothingLost
  BY <1>2, <1>5 DEF NothingLost
<1>9. ArraysSent
  BY <1>2, <1>3 DEF ArraysSent, Holds, Streams
<1>10. ArrayAlone
  BY <1>2, <1>3 DEF ArrayAlone, Streams
<1>11. InOrder
  <2>1. n \in 0 .. n /\ n - n = 0 /\ n + 1 .. n = {}
    BY <1>4
  <2>2. ends = IF named THEN [k \in 1 .. n - n |-> n + 1 - k] ELSE <<>>
    BY <1>2, <2>1
  <2> QED
    BY <2>1, <2>2, <1>2 DEF InOrder, Streams
<1>12. AllDrained
  BY <1>2 DEF AllDrained
<1> QED
  BY <1>7, <1>8, <1>9, <1>10, <1>11, <1>12 DEF IInv

-----------------------------------------------------------------------------
(* Actions that leave the ends, the list of the active streams and what was *)
(* closed before alone, and take nothing from a stream that is not empty:   *)
(* the order in which the streams end is kept.                              *)
LEMMA OrderKept ==
  ASSUME IInv,
         UNCHANGED <<merge, typ, n, nonClosed, ends>>,
         rpc' = "panic" => rpc = "panic",
         rpc = "panic" => rpc' = "panic",
         typ = "multi" /\ rpc' = "eof" => rpc = "eof" \/ nonClosed = <<>>,
         \A i \in Streams : Drained(i) => Drained(i)'
  PROVE  InOrder'
<1>1. PICK m \in 0 .. n :
        /\ rpc # "panic" => nonClosed = [k \in 1 .. m |-> k]
        /\ \A i \in m + 1 .. n : Drained(i)
        /\ ends = IF named THEN [k \in 1 .. n - m |-> n + 1 - k] ELSE <<>>
        /\ typ = "multi" /\ rpc = "eof" => m = 0
  BY DEF IInv, InOrder
<1>n. n \in Nat /\ m \in Nat
  BY <1>1 DEF IInv, TypeOK
<1>2. \A i \in m + 1 .. n : i \in Streams
  BY <1>1, <1>n DEF Streams
<1>3. rpc # "panic" /\ nonClosed = <<>> => m = 0
  <2> SUFFICES ASSUME rpc # "panic", nonClosed = <<>> PROVE m = 0
    OBVIOUS
  <2>1. [k \in 1 .. m |-> k] = <<>>
    BY <1>1
  <2>2. DOMAIN [k \in 1 .. m |-> k] = {}
    BY <2>1
  <2> QED
    BY <2>2, <1>n
<1>4. named' = named
  BY DEF named
<1> QED
  BY <1>1, <1>2, <1>3, <1>4 DEF InOrder

(* An item put at the end, and an item taken from the front, of what is     *)
(* still in a stream.                                                       *)
LEMMA ConcatAppends ==
  ASSUME NEW s \in Seq(Vals), NEW t \in Seq(Vals), NEW x \in Vals
  PROVE  Append(s \o t, x) = s \o Append(t, x)
  OBVIOUS

LEMMA ConcatMoves ==
  ASSUME NEW s \in Seq(Vals), NEW t \in Seq(Vals), t # <<>>
  PROVE  /\ Head(t) \in Vals /\ Tail(t) \in Seq(Vals)
         /\ Append(s, Head(t)) \o Tail(t) = s \o t
  OBVIOUS

LEMMA ProduceInv ==
  ASSUME IInv, NEW i \in Streams, NEW v \in Items, Produce(i, v)
  PROVE  IInv'
<1>e. /\ ~sclosed[i]
      /\ buf' = [buf EXCEPT ![i] = Append(@, v)]
      /\ sent' = [sent EXCEPT ![i] = Append(@, v)]
      /\ UNCHANGED <<merge, typ, n, rclosed, sclosed, nonClosed, rpc, got, ends>>
  BY DEF Produce, source
<1>i. TypeOK /\ NothingLost /\ ArraysSent /\ ArrayAlone /\ AllDrained
  BY DEF IInv
<1>s. Streams' = Streams /\ named' = named
  BY <1>e DEF Streams, named
<1>t. /\ buf[i] \in Seq(Vals) /\ sent[i] \in Seq(Vals) /\ got[i] \in Seq(Vals) /\ v \in Vals
      /\ buf'[i] = Append(buf[i], v) /\ sent'[i] = Append(sent[i], v)
      /\ \A j \in Streams \ {i} : buf'[j] = buf[j] /\ sent'[j] = sent[j]
  BY <1>e, <1>i DEF TypeOK, Vals
<1>d. \A j \in Streams : Drained(j) => Drained(j)'
  BY <1>e, <1>t DEF Drained
<1>1. TypeOK'
  BY <1>e, <1>i, <1>s, <1>t DEF TypeOK
<1>2. NothingLost'
  <2>1. sent[i] = got[i] \o buf[i]
    BY <1>i DEF NothingLost
  <2>2. Append(got[i] \o buf[i], v) = got[i] \o Append(buf[i], v)
    BY <1>t, ConcatAppends
  <2> QED
    BY <2>1, <2>2, <1>e, <1>i, <1>s, <1>t DEF NothingLost
<1>3. ArraysSent'
  BY <1>e, <1>i, <1>s, <1>t DEF ArraysSent
<1>4. ArrayAlone'
  BY <1>e, <1>i, <1>s DEF ArrayAlone
<1>5. InOrder'
  BY <1>e, <1>d, OrderKept
<1>6. AllDrained'
  BY <1>e, <1>i, <1>s, <1>d DEF AllDrained
<1> QED
  BY <1>1, <1>2, <1>3, <1>4, <1>5, <1>6 DEF IInv

LEMMA CloseStreamInv ==
  ASSUME IInv, NEW i \in Streams, CloseStream(i)
  PROVE  IInv'
<1>e. /\ sclosed' = [sclosed EXCEPT ![i] = TRUE]
      /\ UNCHANGED <<merge, typ, n, rclosed, buf, nonClosed, rpc, sent, got, ends>>
  BY DEF CloseStream, source
<1>i. TypeOK /\ NothingLost /\ ArraysSent /\ ArrayAlone /\ AllDrained
  BY DEF IInv
<1>s. Streams' = Streams /\ named' = named
  BY <1>e DEF Streams, named
<1>c. \A j \in Streams : sclosed[j] => sclosed'[j]
  BY <1>e, <1>i DEF TypeOK
<1>d. \A j \in Streams : Drained(j) => Drained(j)'
  BY <1>e, <1>c DEF Drained
<1>1. TypeOK'
  BY <1>e, <1>i, <1>s DEF TypeOK
<1>2. NothingLost' /\ ArraysSent' /\ ArrayAlone'
  BY <1>e, <1>i, <1>s, <1>c DEF NothingLost, ArraysSent, ArrayAlone
<1>3. InOrder'
  BY <1>e, <1>d, OrderKept
<1>4. AllDrained'
  BY <1>e, <1>i, <1>s, <1>d DEF AllDrained
<1> QED
  BY <1>1, <1>2, <1>3, <1>4 DEF IInv

-----------------------------------------------------------------------------
LEMMA CloseInv == IInv /\ Close => IInv'
<1> SUFFICES ASSUME IInv, Close PROVE IInv'
  OBVIOUS
<1>e. /\ rclosed' = TRUE
      /\ UNCHANGED <<merge, typ, n, buf, sclosed, nonClosed, rpc, sent, got, ends>>
  BY DEF Close
<1>s. Streams' = Streams /\ named' = named /\ \A i \in Streams : Drained(i) => Drained(i)'
  BY <1>e DEF Streams, named, Drained
<1>1. TypeOK' /\ NothingLost' /\ ArraysSent' /\ ArrayAlone' /\ AllDrained'
  BY <1>e, <1>s DEF IInv, TypeOK, NothingLost, ArraysSent, ArrayAlone, AllDrained
<1>2. InOrder'
  BY <1>e, <1>s, OrderKept DEF IInv
<1> QED
  BY <1>1, <1>2 DEF IInv

(* The end is found by recv itself when nothing is active any more.         *)
LEMMA RecvCallInv == IInv /\ RecvCall => IInv'
<1> SUFFICES ASSUME IInv, RecvCall PROVE IInv'
  OBVIOUS
<1>e. /\ rpc = "idle" /\ typ = "multi"
      /\ rpc' = LoopHead(nonClosed)
      /\ UNCHANGED <<merge, typ, n, rclosed, buf, sclosed, nonClosed, sent, got, ends>>
  BY DEF RecvCall, source
<1>s. Streams' = Streams /\ named' = named /\ \A i \in Streams : Drained(i) => Drained(i)'
  BY <1>e DEF Streams, named, Drained
<1>h. rpc' \in {"eof", "select"} /\ (rpc' = "eof" => nonClosed = <<>>)
  BY <1>e DEF LoopHead
<1>1. TypeOK' /\ NothingLost' /\ ArraysSent' /\ ArrayAlone'
  BY <1>e, <1>s, <1>h DEF IInv, TypeOK, NothingLost, ArraysSent, ArrayAlone
<1>2. InOrder'
  BY <1>e, <1>s, <1>h, OrderKept
<1>3. AllDrained'
  BY <1>2, <1>e DEF AllDrained, InOrder, Streams
<1> QED
  BY <1>1, <1>2, <1>3 DEF IInv

LEMMA RecvArrayInv == IInv /\ RecvArray => IInv'
<1> SUFFICES ASSUME IInv, RecvArray PROVE IInv'
  OBVIOUS
<1>e. /\ rpc = "idle" /\ typ = "array"
      /\ UNCHANGED <<merge, typ, n, rclosed, sclosed, nonClosed, sent, ends>>
  BY DEF RecvArray, source
<1>i. TypeOK /\ NothingLost /\ ArraysSent /\ ArrayAlone /\ AllDrained
  BY DEF IInv
<1>s. Streams' = Streams /\ named' = named
  BY <1>e DEF Streams, named
<1>1. CASE (n = 0 \/ buf[1] = <<>>) /\ rpc' = "eof" /\ UNCHANGED <<buf, got>>
  <2>1. \A i \in Streams : Drained(i)
    BY <1>1, <1>e, <1>i DEF ArrayAlone, Drained, Streams, TypeOK
  <2>2. \A i \in Streams : Drained(i)'
    BY <2>1, <1>1, <1>e DEF Drained
  <2>3. TypeOK' /\ NothingLost' /\ ArraysSent' /\ ArrayAlone' /\ AllDrained'
    BY <1>1, <1>e, <1>i, <1>s, <2>2 DEF TypeOK, NothingLost, ArraysSent, ArrayAlone, AllDrained
  <2>4. InOrder'
    BY <1>1, <1>e, <2>2, OrderKept
  <2> QED
    BY <2>3, <2>4 DEF IInv
<1>2. CASE /\ n # 0 /\ buf[1] # <<>> /\ rpc' = rpc
           /\ got' = [got EXCEPT ![1] = Append(@, Head(buf[1]))]
           /\ buf' = [buf EXCEPT ![1] = Tail(@)]
  <2>1. 1 \in Streams
    BY <1>2, <1>i DEF Streams, TypeOK
  <2>2. /\ buf[1] \in Seq(Vals) /\ got[1] \in Seq(Vals)
        /\ buf'[1] = Tail(buf[1]) /\ got'[1] = Append(got[1], Head(buf[1]))
        /\ \A j \in Streams \ {1} : buf'[j] = buf[j] /\ got'[j] = got[j]
    BY <2>1, <1>2, <1>i DEF TypeOK
  <2>3. /\ Head(buf[1]) \in Vals /\ Tail(buf[1]) \in Seq(Vals)
        /\ got'[1] \o buf'[1] = got[1] \o buf[1]
    BY <2>2, <1>2, ConcatMoves
  <2>4. TypeOK'
    BY <1>2, <1>e, <1>i, <1>s, <2>2, <2>3 DEF TypeOK
  <2>5. NothingLost'
    BY <1>e, <1>i, <1>s, <2>1, <2>2, <2>3 DEF NothingLost
  <2>6. ArraysSent' /\ ArrayAlone' /\ AllDrained'
    BY <1>2, <1>e, <1>i, <1>s DEF ArraysSent, ArrayAlone, AllDrained
  <2>7. InOrder'
    <3>1. \A j \in Streams : Drained(j) => Drained(j)'
      BY <1>2, <1>e, <2>2 DEF Drained
    <3> QED
      BY <3>1, <1>2, <1>e, OrderKept
  <2> QED
    BY <2>4, <2>5, <2>6, <2>7 DEF IInv
<1> QED
  BY <1>1, <1>2 DEF RecvArray

LEMMA SelectItemInv ==
  ASSUME IInv, NEW i \in Streams, SelectItem(i)
  PROVE  IInv'
<1>e. /\ rpc = "select" /\ rpc' = "idle" /\ buf[i] # <<>>
      /\ got' = [got EXCEPT ![i] = Append(@, Head(buf[i]))]
      /\ buf' = [buf EXCEPT ![i] = Tail(@)]
      /\ UNCHANGED <<merge, typ, n, rclosed, sclosed, nonClosed, sent, ends>>
  BY DEF SelectItem, source
<1>i. TypeOK /\ NothingLost /\ ArraysSent /\ ArrayAlone /\ AllDrained
  BY DEF IInv
<1>s. Streams' = Streams /\ named' = named
  BY <1>e DEF Streams, named
<1>2. /\ buf[i] \in Seq(Vals) /\ got[i] \in Seq(Vals)
      /\ buf'[i] = Tail(buf[i]) /\ got'[i] = Append(got[i], Head(buf[i]))
      /\ \A j \in Streams \ {i} : buf'[j] = buf[j] /\ got'[j] = got[j]
  BY <1>e, <1>i DEF TypeOK
<1>3. /\ Head(buf[i]) \in Vals /\ Tail(buf[i]) \in Seq(Vals)
      /\ got'[i] \o buf'[i] = got[i] \o buf[i]
  BY <1>2, <1>e, ConcatMoves
<1>4. TypeOK'
  BY <1>e, <1>i, <1>s, <1>2, <1>3 DEF TypeOK
<1>5. NothingLost'
  BY <1>e, <1>i, <1>s, <1>2, <1>3 DEF NothingLost
<1>6. ArraysSent' /\ ArrayAlone' /\ AllDrained'
  BY <1>e, <1>i, <1>s DEF ArraysSent, ArrayAlone, AllDrained
<1>7. InOrder'
  <2>1. \A j \in Streams : Drained(j) => Drained(j)'
    BY <1>e, <1>2 DEF Drained
  <2> QED
    BY <2>1, <1>e, OrderKept
<1> QED
  BY <1>4, <1>5, <1>6, <1>7 DEF IInv

-----------------------------------------------------------------------------
(* Only the last entry is cut out without a panic, and never while recv     *)
(* selects by reflection, where it takes every closed stream for the first. *)
LEMMA OnlyLastRemoved ==
  ASSUME NEW m \in Nat, nonClosed = [k \in 1 .. m |-> k], NEW i \in Streams, n \in Nat,
         i \in Selected, ~RemovalPanics(nonClosed, Chosen(i))
  PROVE  /\ m # 0 /\ i = m /\ Chosen(i) = i
         /\ Removed(nonClosed, i) = [k \in 1 .. m - 1 |-> k]
<1>1. Len(nonClosed) = m /\ DOMAIN nonClosed = 1 .. m /\ \A k \in 1 .. m : nonClosed[k] = k
  OBVIOUS
<1>2. ~Dynamic
  <2> SUFFICES ASSUME Dynamic PROVE FALSE
    OBVIOUS
  <2>1. m > 1
    BY <1>1, MergeAssumption DEF Dynamic
  <2>2. 1 \in 1 .. Len(nonClosed) - 1 /\ nonClosed[1] = 1
    BY <2>1, <1>1
  <2> QED
    BY <2>2 DEF RemovalPanics, Chosen
<1>3. Chosen(i) = i /\ i \in 1 .. m
  BY <1>1, <1>2 DEF Chosen, Selected, Range
<1>4. i = m
  BY <1>1, <1>3 DEF RemovalPanics
<1>5. \A k \in DOMAIN nonClosed : nonClosed[k] = i <=> k = i
  BY <1>1, <1>3
<1>6. Removed(nonClosed, i) = RemoveAt(nonClosed, m)
  <2>1. i \in DOMAIN nonClosed
    BY <1>1, <1>3
  <2>2. (CHOOSE k \in DOMAIN nonClosed : nonClosed[k] = i) = i
    BY <1>5, <2>1
  <2> QED
    BY <2>1, <2>2, <1>4, <1>5 DEF Removed
<1>7. RemoveAt(nonClosed, m) = [k \in 1 .. m - 1 |-> k]
  <2> DEFINE a == SubSeq(nonClosed, 1, m - 1)
             b == SubSeq(nonClosed, m + 1, Len(nonClosed))
             c == [k \in 1 .. m - 1 |-> k]
  <2>1. m - 1 \in Nat /\ nonClosed \in Seq(Nat)
    BY <1>3
  <2>2. a = c
    BY <2>1, <1>1
  <2>3. b = <<>>
    BY <2>1, <1>1
  <2>4. c \in Seq(Nat)
    BY <2>1
  <2>5. RemoveAt(nonClosed, m) = a \o b
    BY DEF RemoveAt
  <2> HIDE DEF a, b, c
  <2>6. c \o <<>> = c
    BY <2>4, ConcatEmptySeq
  <2> QED
    BY <2>2, <2>3, <2>5, <2>6 DEF c
<1> QED
  BY <1>3, <1>4, <1>6, <1>7

LEMMA SelectClosedInv ==
  ASSUME IInv, NEW i \in Streams, SelectClosed(i)
  PROVE  IInv'
<1>e. /\ rpc = "select" /\ i \in Selected /\ Drained(i)
      /\ nonClosed' = Removed(nonClosed, Chosen(i))
      /\ UNCHANGED <<merge, typ, n, rclosed, buf, sclosed, sent, got>>
  BY DEF SelectClosed, source, Drained
<1>i. TypeOK /\ NothingLost /\ ArraysSent /\ ArrayAlone /\ InOrder
  BY DEF IInv
<1>s. Streams' = Streams /\ named' = named /\ \A j \in Streams : Drained(j)' <=> Drained(j)
  BY <1>e DEF Streams, named, Drained
<1>m. typ = "multi"
  BY <1>e, <1>i DEF ArrayAlone, TypeOK
<1>1. NothingLost' /\ ArraysSent' /\ ArrayAlone'
  BY <1>e, <1>i, <1>s, <1>m DEF NothingLost, ArraysSent, ArrayAlone
<1>2. PICK m \in 0 .. n :
        /\ nonClosed = [k \in 1 .. m |-> k]
        /\ \A j \in m + 1 .. n : Drained(j)
        /\ ends = IF named THEN [k \in 1 .. n - m |-> n + 1 - k] ELSE <<>>
  BY <1>e, <1>i DEF InOrder
<1>n. n \in Nat /\ m \in Nat /\ m <= n
  BY <1>i DEF TypeOK
<1>3. CASE RemovalPanics(nonClosed, Chosen(i))
  <2>1. rpc' = "panic" /\ ends' = ends
    BY <1>3 DEF SelectClosed
  <2>2. TypeOK' /\ AllDrained'
    BY <2>1, <1>e, <1>i, <1>s DEF TypeOK, AllDrained
  <2>3. \A j \in m + 1 .. n : Drained(j)'
    BY <1>2, <1>n, <1>s DEF Streams
  <2>4. InOrder'
    BY <2>1, <2>3, <1>2, <1>e, <1>s DEF InOrder
  <2> QED
    BY <2>2, <2>4, <1>1 DEF IInv
<1>4. CASE ~RemovalPanics(nonClosed, Chosen(i))
  <2>1. /\ m # 0 /\ i = m /\ Chosen(i) = i
        /\ nonClosed' = [k \in 1 .. m - 1 |-> k]
    BY <1>4, <1>2, <1>n, <1>e, OnlyLastRemoved
  <2>2. \/ named /\ rpc' = "idle" /\ ends' = Append(ends, m)
        \/ ~named /\ rpc' = LoopHead(nonClosed') /\ ends' = ends
    BY <1>4, <2>1 DEF SelectClosed
  <2>3. m - 1 \in 0 .. n /\ m - 1 + 1 = m /\ m - 1 \in Nat
    BY <2>1, <1>n
  <2>4. \A j \in m .. n : Drained(j)'
    <3>1. \A j \in m .. n : (j = i \/ j \in m + 1 .. n) /\ j \in Streams
      BY <2>1, <1>n DEF Streams
    <3> QED
      BY <3>1, <1>2, <1>e, <1>s
  <2>5. ends' = IF named THEN [k \in 1 .. n - (m - 1) |-> n + 1 - k] ELSE <<>>
    <3>1. CASE named
      <4> DEFINE e == [k \in 1 .. n - m |-> n + 1 - k]
                 f == [k \in 1 .. n - (m - 1) |-> n + 1 - k]
      <4>1. ends' = Append(e, m)
        BY <3>1, <2>2, <1>2
      <4>2. n - m \in Nat /\ n - (m - 1) = n - m + 1 /\ n + 1 - (n - m + 1) = m
        BY <1>n
      <4>3. Append(e, m) = f
        BY <4>2, <1>n
      <4> QED
        BY <3>1, <4>1, <4>3
    <3>2. CASE ~named
      BY <3>2, <2>2, <1>2
    <3> QED
      BY <3>1, <3>2
  <2>6. rpc' \in {"idle", "select", "eof"} /\ (rpc' = "eof" => nonClosed' = <<>>)
    BY <2>2 DEF LoopHead
  <2>7. rpc' = "eof" => m - 1 = 0
    <3> SUFFICES ASSUME rpc' = "eof" PROVE m - 1 = 0
      OBVIOUS
    <3>1. [k \in 1 .. m - 1 |-> k] = <<>>
      BY <2>1, <2>6
    <3>2. DOMAIN [k \in 1 .. m - 1 |-> k] = {}
      BY <3>1
    <3> QED
      BY <3>2, <2>3
  <2>8. TypeOK'
    BY <2>6, <1>e, <1>i, <1>s DEF TypeOK
  <2>9. InOrder'
    BY <2>1, <2>3, <2>4, <2>5, <2>7, <1>e, <1>s DEF InOrder
  <2>10. AllDrained'
    <3> SUFFICES ASSUME rpc' = "eof", NEW j \in Streams' PROVE Drained(j)'
      BY DEF AllDrained
    <3>1. j \in m .. n
      BY <2>7, <2>3, <1>n, <1>e DEF Streams
    <3> QED
      BY <3>1, <2>4
  <2> QED
    BY <2>8, <2>9, <2>10, <1>1 DEF IInv
<1> QED
  BY <1>3, <1>4

LEMMA NextInv == IInv /\ [Next]_vars => IInv'
<1> SUFFICES ASSUME IInv, [Next]_vars PROVE IInv'
  OBVIOUS
<1>1. CASE UNCHANGED vars
  BY <1>1 DEF IInv, TypeOK, NothingLost, ArraysSent, ArrayAlone, InOrder, AllDrained, Drained,
              Streams, named, vars, source
<1> QED
  BY <1>1, ProduceInv, CloseStreamInv, RecvCallInv, RecvArrayInv, CloseInv, SelectItemInv,
     SelectClosedInv DEF Next

-----------------------------------------------------------------------------
LEMMA InvImplies == IInv => EndsAfterLastItem
<1> SUFFICES ASSUME IInv PROVE EndsAfterLastItem
  OBVIOUS
<1>i. TypeOK /\ NothingLost /\ ArraysSent /\ ArrayAlone /\ AllDrained
  BY DEF IInv
<1>1. PICK m \in 0 .. n :
        /\ rpc # "panic" => nonClosed = [k \in 1 .. m |-> k]
        /\ \A j \in m + 1 .. n : Drained(j)
        /\ ends = IF named THEN [k \in 1 .. n - m |-> n + 1 - k] ELSE <<>>
        /\ typ = "multi" /\ rpc = "eof" => m = 0
  BY DEF IInv, InOrder
<1>n. n \in Nat /\ m \in Nat /\ m <= n
  BY <1>i DEF TypeOK
<1>2. ASSUME NEW i \in Streams, Drained(i) PROVE got[i] = sent[i]
  <2>1. sent[i] = got[i] \o <<>> /\ got[i] \in Seq(Vals)
    BY <1>2, <1>i DEF NothingLost, Drained, TypeOK
  <2> QED
    BY <2>1, ConcatEmptySeq
<1>3. rpc # "panic" => \A i \in Streams : Drained(i) \/ i \in Range(nonClosed)
  <2> SUFFICES ASSUME rpc # "panic", NEW i \in Streams, ~Drained(i) PROVE i \in Range(nonClosed)
    OBVIOUS
  <2>1. i \in 1 .. m
    BY <1>1, <1>n DEF Streams
  <2> QED
    BY <2>1, <1>1 DEF Range
<1>4. ASSUME rpc = "eof"
      PROVE  /\ \A i \in Streams : Drained(i) /\ got[i] = sent[i]
             /\ \A k \in DOMAIN merge.readers : merge.readers[k].kind = "array" =>
                  \E items \in Range(got) \cup {<<>>} : merge.readers[k].left \in SubSeqs(items)
  <2>1. \A i \in Streams : Drained(i) /\ got[i] = sent[i]
    BY <1>2, <1>4, <1>i DEF AllDrained
  <2>2. ASSUME NEW k \in DOMAIN merge.readers, merge.readers[k].kind = "array"
        PROVE  \E items \in Range(got) \cup {<<>>} : merge.readers[k].left \in SubSeqs(items)
    <3>1. CASE merge.readers[k].left = <<>>
      <4>1. <<>> \in Seq(Vals)
        OBVIOUS
      <4>2. <<>> \in SubSeqs(<<>>)
        BY <4>1, SubSeqsWhole
      <4> QED
        BY <4>2, <3>1
    <3>2. CASE \E i \in Streams : merge.readers[k].left \in SubSeqs(sent[i])
      <4>1. PICK i \in Streams : merge.readers[k].left \in SubSeqs(sent[i])
        BY <3>2
      <4>2. got[i] \in Range(got) /\ got[i] = sent[i]
        BY <2>1, <1>i DEF Range, TypeOK
      <4> QED
        BY <4>1, <4>2
    <3> QED
      BY <3>1, <3>2, <2>2, <1>i DEF ArraysSent
  <2> QED
    BY <2>1, <2>2
<1>5. \A i \in Range(ends) : i \in m + 1 .. n
  <2>1. CASE named
    BY <2>1, <1>1, <1>n DEF Range
  <2>2. CASE ~named
    BY <2>2, <1>1 DEF Range
  <2> QED
    BY <2>1, <2>2
<1>6. \A i \in Range(ends) : Drained(i) /\ got[i] = sent[i]
  <2>1. \A i \in m + 1 .. n : i \in Streams
    BY <1>n DEF Streams
  <2> QED
    BY <2>1, <1>1, <1>2, <1>5
<1>7. IsInjective(ends)
  <2>1. CASE named
    BY <2>1, <1>1, <1>n DEF IsInjective
  <2>2. CASE ~named
    BY <2>2, <1>1 DEF IsInjective
  <2> QED
    BY <2>1, <2>2
<1>8. ASSUME named, rpc = "eof" PROVE Range(ends) = Streams
  <2>1. m = 0
    BY <1>8, <1>1, <1>i DEF ArrayAlone, TypeOK
  <2>2. ends = [k \in 1 .. n |-> n + 1 - k]
    BY <2>1, <1>1, <1>8, <1>n
  <2>3. ASSUME NEW i \in 1 .. n PROVE i \in Range(ends)
    <3>1. n + 1 - i \in 1 .. n /\ n + 1 - (n + 1 - i) = i
      BY <1>n
    <3>2. n + 1 - i \in DOMAIN ends /\ ends[n + 1 - i] = i
      BY <3>1, <2>2
    <3> QED
      BY <3>2 DEF Range
  <2>4. \A i \in Range(ends) : i \in 1 .. n
    BY <2>1, <1>5
  <2> QED
    BY <2>3, <2>4 DEF Streams
<1> QED
  BY <1>3, <1>4, <1>6, <1>7, <1>8 DEF EndsAfterLastItem

(* multiStreamReader.recv and arrayReader.recv: however many readers of     *)
(* whatever kind are merged, io.EOF comes after every item of all of them,  *)
(* and a SourceEOF once, after the last item of its source.                 *)
THEOREM MergeEndsLast == SafetySpec => []EndsAfterLastItem
  BY InitInv, NextInv, InvImplies, PTL DEF SafetySpec

(* Whatever closes first, the ends that recv comes to know of are those of  *)
(* the last streams, from the last one down: any other removal panics.      *)
THEOREM EndsFromTheLast == SafetySpec => [](TypeOK /\ InOrder)
<1>1. IInv => TypeOK /\ InOrder
  BY DEF IInv
<1> QED
  BY <1>1, InitInv, NextInv, PTL DEF SafetySpec
=============================================================================
