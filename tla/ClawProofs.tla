----------------------------- MODULE ClawProofs -----------------------------
(***************************************************************************)
(* What several claw processes leave on disk: the sessions of ClawSession, *)
(* and at the end the installed skills of ClawInstall.                     *)
(*                                                                         *)
(* ClawSession: for any number of processes, of starts and of commands,    *)
(* any conversation, and any number of archives that are kept.             *)
(* The invariants come in the layers in which they are proved.  The store  *)
(* (StoreInv) says which values there are, where a process saves and what  *)
(* it may remove.  On it stand the conversations (Conversations), the      *)
(* backups (Backups), and what is found again: by several processes as     *)
(* long as archives can be told apart (Told), by processes one after the   *)
(* other always (Alone), and then the last one (Newest).                   *)
(***************************************************************************)
EXTENDS ClawSession, ClawInstall,
        TLAPS, FiniteSetTheorems, SequenceTheorems, WellFoundedInduction

Kinds == {"text", "use", "result", "summary"}
Messages == [kind : Kinds, ids : SUBSET Nat, gaps : SUBSET Nat]
Sessions == [sid : Nat, msgs : Seq(Messages), said : Nat, upd : Nat]
Contents == [sid : Nat, msgs : Seq(Messages), said : Nat, upd : Nat, mt : Nat]
Names == Seq({"rot", "bak"} \X Nat)
Steps == {"off", "load", "ready", "stat", "rotate", "write", "list", "remove", "saved"}
Saving == {"stat", "rotate", "write", "list", "remove", "saved"}

-----------------------------------------------------------------------------
(* The invariants *)

FilesOK ==
  /\ IsFiniteSet(DOMAIN files)
  /\ DOMAIN files \subseteq Names
  /\ files \in [DOMAIN files -> Contents]

TypeOK ==
  /\ FilesOK
  /\ wall \in Nat
  /\ pc \in [Procs -> Steps]
  /\ last \in [Procs -> Nat]
  /\ path \in [Procs -> Names]
  /\ sess \in [Procs -> Sessions]
  /\ dest \in [Procs -> Names]
  /\ doomed \in [Procs -> SUBSET Names]
  /\ overlap \in BOOLEAN /\ split \in BOOLEAN /\ clash \in BOOLEAN
  /\ current \in Sessions
  /\ clears \subseteq [by : Procs, sid : Nat, bak : Names, old : Sessions]
  /\ reused \subseteq Names

(* Times: some number bounds all that were issued, and no file was written
   in the future. *)
Times ==
  /\ \E b \in Nat : /\ \A n \in DOMAIN files : files[n].upd <= b
                    /\ \A p \in Procs : last[p] <= b
  /\ \A n \in DOMAIN files : files[n].mt <= wall

(* A process saves to the path it resumed, or to a backup beside it. *)
Places ==
  \A p \in Procs :
    /\ Kind(path[p]) \in {"main", "rot"}
    /\ pc[p] \in Saving =>
         \/ dest[p] = path[p]
         \/ Kind(dest[p]) = "bak" /\ Len(dest[p]) = Len(path[p]) + 1

(* It removes archives, and of nothing that is shorter than its own name. *)
Removals ==
  \A p \in Procs : \A a \in doomed[p] :
    /\ pc[p] = "remove"
    /\ Kind(a) = "rot"
    /\ Len(a) > Len(dest[p])

StoreInv == TypeOK /\ Times /\ Places /\ Removals

Whole(s) == ResultsHaveCalls(s.msgs) /\ CoversFirst(s.msgs, s.said)

Conversations ==
  /\ \A n \in DOMAIN files : Whole(files[n])
  /\ \A p \in Procs : Whole(sess[p])

Backed(name, s) ==
  \/ name \in DOMAIN files /\ Session(files[name]) = s
  \/ name \in reused

Backups ==
  /\ \A c \in clears : Kind(c.bak) = "bak" /\ Backed(c.bak, c.old)
  /\ \A p \in Procs :
       pc[p] \in {"list", "remove", "saved"} /\ Kind(dest[p]) = "bak" =>
         Backed(dest[p], sess[p])

(* Whatever is about to be removed, some file that is found is newer. *)
Told ==
  ~clash =>
    /\ Managed # {}
    /\ \A p \in Procs : \A a \in doomed[p] \cap DOMAIN files :
         \E n \in Managed : files[n].mt > files[a].mt

InPlace(p) == path[p] \in DOMAIN files \/ (pc[p] = "write" /\ dest[p] = path[p])

Alone ==
  ~overlap =>
    /\ \A p, q \in Alive : p = q
    /\ Managed # {}
    /\ \A p \in Alive : InPlace(p)

(* The process p is past the time u: what it issues next is later. *)
Past(p, u) == wall > u \/ last[p] >= u

(* No file is newer than the current session, which the file that is found
   first holds. *)
FoundNewest ==
  /\ \A n \in DOMAIN files :
       /\ files[n].upd <= current.upd
       /\ files[n].upd = current.upd => Session(files[n]) = current
  /\ Main \in DOMAIN files => Session(files[Main]) = current
  /\ \E n \in Managed : Session(files[n]) = current

(* The process p continues the current session, or has a newer one. *)
Abreast(p) ==
  /\ path[p] \in DOMAIN files => Session(files[path[p]]) = current
  /\ path[p] # Main => Main \notin DOMAIN files
  /\ Past(p, current.upd)
  /\ pc[p] # "load" =>
       /\ Past(p, sess[p].upd)
       /\ sess[p] = current \/ sess[p].upd > current.upd
  /\ pc[p] \in {"ready", "list", "remove", "saved"} => sess[p] = current
  /\ pc[p] \in Saving /\ Kind(dest[p]) = "bak" => sess[p] = current

Newest ==
  ~overlap /\ ~split => FoundNewest /\ \A p \in Alive : Abreast(p)

IInv == StoreInv /\ Conversations /\ Backups /\ Told /\ Alone /\ Newest

-----------------------------------------------------------------------------
(* Numbers, names and files *)

LEMMA MinExists ==
  ASSUME NEW S \in SUBSET Nat, S # {}
  PROVE  \E n \in S : \A m \in S : n <= m
<1> DEFINE R == OpToRel(<, Nat)
<1>1. IsWellFoundedOn(R, Nat)
  BY NatLessThanWellFounded
<1>2. \A x, y \in Nat : <<y, x>> \in R <=> y < x
  BY DEF OpToRel
<1> HIDE DEF R
<1>3. PICK x \in S : \A y \in S : ~(<<y, x>> \in R)
  BY <1>1, WFMin
<1>4. x \in Nat /\ \A y \in S : y \in Nat /\ ~(y < x)
  BY <1>2, <1>3
<1>5. QED
  BY <1>4

(* A set of numbers below a bound has the maximum that Max chooses. *)
LEMMA MaxMember ==
  ASSUME NEW S \in SUBSET Nat, S # {}, NEW b \in Nat, \A y \in S : y <= b
  PROVE  Max(S) \in S /\ \A y \in S : y <= Max(S)
<1> DEFINE U == {n \in Nat : \A y \in S : y <= n}
<1>1. PICK m \in U : \A k \in U : m <= k
  BY MinExists
<1>2. m \in S
  <2>1. SUFFICES ASSUME m \notin S PROVE FALSE
    OBVIOUS
  <2>2. PICK z : z \in S
    OBVIOUS
  <2>3. m - 1 \in Nat /\ \A y \in S : y <= m - 1
    BY <2>1, <2>2
  <2>4. QED
    BY <2>3, <1>1
<1>3. \E x \in S : \A y \in S : x >= y
  BY <1>2
<1>4. QED
  BY <1>3 DEF Max

LEMMA MaxOfZero ==
  ASSUME NEW i \in Int
  PROVE  Max({0, i}) = IF i > 0 THEN i ELSE 0
<1>1. \E x \in {0, i} : \A y \in {0, i} : x >= y
  OBVIOUS
<1>2. Max({0, i}) \in {0, i} /\ \A y \in {0, i} : Max({0, i}) >= y
  BY <1>1 DEF Max
<1>3. QED
  BY <1>2

LEMMA NamesExtend ==
  ASSUME NEW n \in Names, NEW k \in {"rot", "bak"}, NEW t \in Nat
  PROVE  /\ Append(n, <<k, t>>) \in Names
         /\ Kind(Append(n, <<k, t>>)) = k
         /\ Len(Append(n, <<k, t>>)) = Len(n) + 1
         /\ Append(n, <<k, t>>) # n /\ Append(n, <<k, t>>) # Main
<1>1. n \in Seq({"rot", "bak"} \X Nat) /\ <<k, t>> \in {"rot", "bak"} \X Nat
  BY DEF Names
<1> DEFINE a == Append(n, <<k, t>>)
<1>2. a \in Seq({"rot", "bak"} \X Nat) /\ Len(a) = Len(n) + 1 /\ a[Len(a)] = <<k, t>> /\ Len(n) \in Nat
  BY <1>1, AppendProperties, LenProperties
<1> HIDE DEF a
<1>3. a # <<>> /\ a # n
  BY <1>2, EmptySeq
<1>4. Kind(a) = k
  BY <1>2, <1>3 DEF Kind, Main
<1>5. QED
  BY <1>2, <1>3, <1>4 DEF Names, Main, a

LEMMA MainName == Main \in Names /\ Kind(Main) = "main" /\ Len(Main) = 0
  BY DEF Main, Names, Kind

LEMMA NameKinds ==
  ASSUME NEW n \in Names
  PROVE  Len(n) \in Nat /\ Kind(n) \in {"main", "rot", "bak"} /\ (Kind(n) = "main" => n = Main)
<1>1. n = Main \/ (Len(n) \in 1 .. Len(n) /\ n[Len(n)] \in {"rot", "bak"} \X Nat)
  BY EmptySeq, LenProperties, ElementOfSeq DEF Names, Main
<1>2. QED
  BY <1>1, MainName, LenProperties DEF Kind, Names

(* What is on disk is the session, and has its time. *)
LEMMA DiskForm ==
  ASSUME NEW s \in Sessions, NEW t \in Nat
  PROVE  /\ OnDisk(s, t) \in Contents
         /\ Session(OnDisk(s, t)) = s
         /\ OnDisk(s, t).mt = t
         /\ OnDisk(s, t).upd = s.upd
         /\ OnDisk(s, t).msgs = s.msgs /\ OnDisk(s, t).said = s.said
  BY DEF OnDisk, Session, Sessions, Contents

LEMMA SessionForm ==
  ASSUME NEW f \in Contents
  PROVE  /\ Session(f) \in Sessions /\ Session(f).upd = f.upd /\ f.upd \in Nat /\ f.mt \in Nat
         /\ Session(f).msgs = f.msgs /\ Session(f).said = f.said
  BY DEF Session, Sessions, Contents

LEMMA FileWritten ==
  ASSUME FilesOK, NEW n \in Names, NEW c \in Contents,
         files' = [m \in DOMAIN files \cup {n} |-> IF m = n THEN c ELSE files[m]]
  PROVE  /\ FilesOK'
         /\ DOMAIN files' = DOMAIN files \cup {n}
         /\ files'[n] = c
         /\ \A m \in DOMAIN files \ {n} : files'[m] = files[m]
<1>1. DOMAIN files' = DOMAIN files \cup {n}
  OBVIOUS
<1>2. IsFiniteSet(DOMAIN files')
  BY <1>1, FS_AddElement DEF FilesOK
<1>3. files' \in [DOMAIN files' -> Contents]
  BY <1>1 DEF FilesOK
<1>4. QED
  BY <1>1, <1>2, <1>3 DEF FilesOK

LEMMA FileDropped ==
  ASSUME FilesOK, NEW n,
         files' = [m \in DOMAIN files \ {n} |-> files[m]]
  PROVE  /\ FilesOK'
         /\ DOMAIN files' = DOMAIN files \ {n}
         /\ \A m \in DOMAIN files \ {n} : files'[m] = files[m]
<1>1. DOMAIN files' = DOMAIN files \ {n}
  OBVIOUS
<1>2. IsFiniteSet(DOMAIN files')
  BY <1>1, FS_Subset DEF FilesOK
<1>3. files' \in [DOMAIN files' -> Contents]
  BY <1>1 DEF FilesOK
<1>4. QED
  BY <1>1, <1>2, <1>3 DEF FilesOK

LEMMA FileMoved ==
  ASSUME FilesOK, NEW n \in DOMAIN files, NEW a \in Names, a # n,
         files' = [m \in (DOMAIN files \ {n}) \cup {a} |->
                     IF m = a THEN files[n] ELSE files[m]]
  PROVE  /\ FilesOK'
         /\ DOMAIN files' = (DOMAIN files \ {n}) \cup {a}
         /\ files'[a] = files[n]
         /\ \A m \in DOMAIN files \ {n, a} : files'[m] = files[m]
<1>1. DOMAIN files' = (DOMAIN files \ {n}) \cup {a}
  OBVIOUS
<1>2. IsFiniteSet(DOMAIN files')
  BY <1>1, FS_AddElement, FS_Subset DEF FilesOK
<1>3. files' \in [DOMAIN files' -> Contents]
  BY <1>1 DEF FilesOK
<1>4. QED
  BY <1>1, <1>2, <1>3 DEF FilesOK

LEMMA NowLater ==
  ASSUME TypeOK, NEW p \in Procs
  PROVE  Now(p) \in Nat /\ Now(p) >= wall /\ Now(p) > last[p]
  BY DEF TypeOK, Now

LEMMA FilesTyped ==
  ASSUME TypeOK, NEW n \in DOMAIN files
  PROVE  n \in Names /\ files[n] \in Contents
  BY DEF TypeOK, FilesOK

(* A process that ends forgets everything and leaves the files alone. *)
LEMMA ExitTypes ==
  ASSUME TypeOK, NEW p \in Procs, Exit(p)
  PROVE  /\ pc' \in [Procs -> Steps] /\ last' \in [Procs -> Nat]
         /\ path' \in [Procs -> Names] /\ dest' \in [Procs -> Names]
         /\ sess' \in [Procs -> Sessions] /\ doomed' \in [Procs -> SUBSET Names]
<1>1. NoSession \in Sessions
  BY EmptySeq DEF NoSession, Sessions
<1>2. QED
  BY <1>1, MainName DEF TypeOK, Exit, Goto, Steps

LEMMA IssueTypes ==
  ASSUME TypeOK, NEW p \in Procs, NEW n \in {1, 2}, Issued(p, n)
  PROVE  /\ last' \in [Procs -> Nat]
         /\ last'[p] >= Now(p)
         /\ \A q \in Procs \ {p} : last'[q] = last[q]
         /\ last'[p] = Now(p) + n - 1
<1>1. Now(p) + n - 1 \in Nat /\ Now(p) + n - 1 >= Now(p)
  BY NowLater
<1>2. QED
  BY <1>1 DEF Issued, TypeOK

-----------------------------------------------------------------------------
(* Compaction *)

(* The recursive function of KeepFrom exists: going back from k ends at the
   nearest place in front where the code stops.  A function that satisfies
   the equation need not be computed to be reasoned about. *)
Stops(m, k) == k <= PrefixLen(m) \/ m[k + 1].kind # "result"

GoesBack(m, b) ==
  b = [k \in 0 .. Len(m) - 1 |->
         IF k <= PrefixLen(m) \/ m[k + 1].kind # "result" THEN k
         ELSE IF m[k].kind = "use" THEN k - 1 ELSE b[k - 1]]

LEMMA StopExists ==
  ASSUME NEW m \in Seq(Messages), NEW k \in 0 .. Len(m) - 1
  PROVE  \E j \in 0 .. k : Stops(m, j) /\ \A i \in j + 1 .. k : ~Stops(m, i)
<1> DEFINE D == {d \in Nat : d <= k /\ Stops(m, k - d)}
<1>1. k \in Nat /\ Len(m) \in Nat
  BY LenProperties
<1>2. Stops(m, 0)
  BY DEF Stops, PrefixLen
<1>3. k \in D
  BY <1>1, <1>2
<1>4. PICK d \in D : \A e \in D : d <= e
  BY <1>3, MinExists
<1>5. k - d \in 0 .. k /\ Stops(m, k - d)
  BY <1>1, <1>4
<1>6. ASSUME NEW i \in k - d + 1 .. k, Stops(m, i) PROVE FALSE
  <2>1. k - i \in Nat /\ k - i <= k /\ k - (k - i) = i /\ k - i < d
    BY <1>1, <1>4, <1>6
  <2>2. k - i \in D
    BY <2>1, <1>6
  <2>3. QED
    BY <2>1, <2>2, <1>4
<1>7. QED
  BY <1>5, <1>6

LEMMA BackExists ==
  ASSUME NEW m \in Seq(Messages)
  PROVE  \E b : GoesBack(m, b)
<1> DEFINE At(k, j) == j \in 0 .. k /\ Stops(m, j) /\ \A i \in j + 1 .. k : ~Stops(m, i)
           b == [k \in 0 .. Len(m) - 1 |-> CHOOSE j \in 0 .. k : At(k, j)]
<1>1. Len(m) \in Nat
  BY LenProperties
<1>2. ASSUME NEW k \in 0 .. Len(m) - 1
      PROVE  b[k] \in 0 .. k /\ At(k, b[k])
  BY StopExists
<1>3. ASSUME NEW k \in 0 .. Len(m) - 1, NEW j \in 0 .. k, At(k, j)
      PROVE  b[k] = j
  <2>1. ASSUME b[k] < j PROVE FALSE
    <3>1. j \in b[k] + 1 .. k
      BY <2>1, <1>2, <1>1
    <3>2. QED
      BY <3>1, <1>2, <1>3
  <2>2. ASSUME b[k] > j PROVE FALSE
    <3>1. b[k] \in j + 1 .. k
      BY <2>2, <1>2, <1>1
    <3>2. QED
      BY <3>1, <1>2, <1>3
  <2> HIDE DEF b
  <2>3. QED
    BY <2>1, <2>2, <1>2, <1>1
<1>4. ASSUME NEW k \in 0 .. Len(m) - 1, Stops(m, k)
      PROVE  b[k] = k
  <2>1. At(k, k)
    BY <1>4, <1>1
  <2> HIDE DEF b, At
  <2>2. k \in 0 .. k
    BY <1>1
  <2>3. QED
    BY <2>1, <2>2, <1>3
<1>5. ASSUME NEW k \in 0 .. Len(m) - 1, ~Stops(m, k)
      PROVE  /\ k - 1 \in 0 .. Len(m) - 1
             /\ b[k] = IF m[k].kind = "use" THEN k - 1 ELSE b[k - 1]
  <2>1. k # 0
    BY <1>5 DEF Stops, PrefixLen
  <2>2. k - 1 \in 0 .. Len(m) - 1 /\ k - 1 \in 0 .. k /\ k - 1 + 1 = k
    BY <1>1, <2>1
  <2>3. ASSUME m[k].kind = "use" PROVE b[k] = k - 1
    <3>1. Stops(m, k - 1)
      BY <2>2, <2>3 DEF Stops
    <3>2. At(k, k - 1)
      BY <3>1, <2>2, <1>5, <1>1
    <3> HIDE DEF b, At
    <3>3. QED
      BY <3>2, <2>2, <1>3
  <2>4. b[k] = b[k - 1]  \/ m[k].kind = "use"
    <3> DEFINE j == b[k - 1]
    <3> HIDE DEF b
    <3>1. j \in 0 .. k - 1 /\ At(k - 1, j)
      BY <2>2, <1>2
    <3> HIDE DEF j
    <3>2. j \in 0 .. k /\ \A i \in j + 1 .. k : i = k \/ i \in j + 1 .. k - 1
      BY <3>1, <1>1
    <3>3. At(k, j)
      BY <3>1, <3>2, <1>5
    <3>4. b[k] = j
      BY <3>2, <3>3, <1>3
    <3>5. QED
      BY <3>4 DEF j
  <2> HIDE DEF b
  <2>5. QED
    BY <2>2, <2>3, <2>4
<1>6. \A k \in 0 .. Len(m) - 1 :
        b[k] = IF k <= PrefixLen(m) \/ m[k + 1].kind # "result" THEN k
               ELSE IF m[k].kind = "use" THEN k - 1 ELSE b[k - 1]
  <2> HIDE DEF b
  <2>1. QED
    BY <1>4, <1>5 DEF Stops
<1>7. \E D : b = [k \in D |-> b[k]] /\ D = 0 .. Len(m) - 1
  OBVIOUS
<1> HIDE DEF b
<1>8. GoesBack(m, b)
  BY <1>6, <1>7 DEF GoesBack
<1>9. QED
  BY <1>8

(* What is kept begins with a message that is no result, and holds at least
   the last Preserve messages. *)
LEMMA KeepFromPlace ==
  ASSUME NEW m \in Seq(Messages), ResultsHaveCalls(m), ShouldCompact(m)
  PROVE  /\ KeepFrom(m) \in 0 .. Len(m) - Preserve
         /\ KeepFrom(m) \in 0 .. Len(m) - 1
         /\ KeepFrom(m) >= PrefixLen(m)
         /\ m[KeepFrom(m) + 1].kind # "result"
<1> DEFINE b == CHOOSE f : GoesBack(m, f)
<1>1. GoesBack(m, b)
  BY BackExists
<1>2. KeepFrom(m) = b[Len(m) - Preserve]
  BY DEF KeepFrom, GoesBack
<1> HIDE DEF b
<1>3. Len(m) \in Nat /\ Preserve \in Nat /\ Preserve > 0
  BY LenProperties, PreserveAssumption
<1>4. Len(m) - Preserve \in 0 .. Len(m) - 1
  BY <1>3 DEF ShouldCompact, PrefixLen
<1> DEFINE p == PrefixLen(m)
<1>8. p \in {0, 1} /\ p <= Len(m) - Preserve
  BY <1>3 DEF ShouldCompact, PrefixLen
<1> DEFINE Good(k) == /\ b[k] \in 0 .. k /\ m[b[k] + 1].kind # "result"
                      /\ k >= p => b[k] >= p
           Bad == {k \in 0 .. Len(m) - 1 : ~Good(k)}
<1>5. Bad = {}
  <2>1. SUFFICES ASSUME Bad # {} PROVE FALSE
    OBVIOUS
  <2>2. Bad \in SUBSET Nat
    OBVIOUS
  <2> HIDE DEF Bad
  <2>3. PICK k \in Bad : \A j \in Bad : k <= j
    BY <2>1, <2>2, MinExists
  <2> USE DEF Bad
  <2>4. k \in 0 .. Len(m) - 1 /\ ~Good(k)
    BY <2>3
  <2>5. b[k] = IF k <= PrefixLen(m) \/ m[k + 1].kind # "result" THEN k
               ELSE IF m[k].kind = "use" THEN k - 1 ELSE b[k - 1]
    BY <2>4, <1>1 DEF GoesBack
  <2>6. CASE m[k + 1].kind # "result"
    BY <2>4, <2>5, <2>6, <1>3
  <2>7. CASE m[k + 1].kind = "result"
    <3> HIDE DEF p
    <3>1. k + 1 \in DOMAIN m /\ DOMAIN m = 1 .. Len(m)
      BY <2>4, <1>3, LenProperties
    <3>2. PICK i \in 1 .. k : m[i].kind = "use" /\ \A j \in i + 1 .. k : m[j].kind = "result"
      <4>1. k + 1 - 1 = k
        BY <2>4, <1>3
      <4>2. QED
        BY <3>1, <2>7, <4>1 DEF ResultsHaveCalls
    <3>3. k # 0 /\ k - 1 \in 0 .. Len(m) - 1 /\ k - 1 + 1 = k
      BY <3>2, <2>4, <1>3
    <3>4. ~(k <= PrefixLen(m))
      BY <3>2, <3>3, <2>4, <1>3 DEF PrefixLen
    <3>7. k - 1 >= p
      BY <3>4, <2>4, <1>3, <1>8 DEF p
    <3>5. CASE m[k].kind = "use"
      <4>1. b[k] = k - 1
        BY <3>4, <3>5, <2>5, <2>7
      <4>2. QED
        BY <4>1, <3>3, <3>5, <3>7, <2>4, <1>3
    <3>6. CASE m[k].kind # "use"
      <4>1. b[k] = b[k - 1]
        BY <3>4, <3>6, <2>5, <2>7
      <4>2. k - 1 \notin Bad
        BY <2>3, <2>4, <1>3
      <4>3. Good(k - 1)
        BY <4>2, <3>3
      <4>4. QED
        BY <4>1, <4>3, <3>3, <3>7, <2>4, <1>3, <1>8
    <3>8. QED
      BY <3>5, <3>6
  <2>8. QED
    BY <2>6, <2>7
<1>6. Good(Len(m) - Preserve)
  BY <1>4, <1>5
<1>7. QED
  BY <1>2, <1>3, <1>4, <1>6, <1>8

(* Compaction keeps the conversation whole. *)
LEMMA CompactedShape ==
  ASSUME NEW m \in Seq(Messages), ResultsHaveCalls(m), ShouldCompact(m)
  PROVE  LET r == KeepFrom(m) c == Compacted(m) IN
         /\ c \in Seq(Messages)
         /\ Len(c) = Len(m) - r + 1
         /\ c[1] = Summary(m)
         /\ \A j \in 2 .. Len(c) : c[j] = m[r + j - 1]
<1> DEFINE r == KeepFrom(m)
           h == <<Summary(m)>>
           t == SubSeq(m, r + 1, Len(m))
<1>1. r \in 0 .. Len(m) - 1 /\ Len(m) \in Nat
  BY KeepFromPlace, LenProperties
<1>2. Summary(m) \in Messages
  <2>1. \A i \in 1 .. r : m[i] \in Messages
    BY <1>1, ElementOfSeq
  <2>2. /\ UNION {m[i].ids : i \in Tells(m)} \subseteq Nat
        /\ UNION {m[i].gaps : i \in Tells(m)} \subseteq Nat
    BY <2>1 DEF Messages, Tells
  <2>3. QED
    BY <2>2 DEF Summary, Messages, Kinds
<1>3. h \in Seq(Messages) /\ Len(h) = 1 /\ h[1] = Summary(m)
  BY <1>2
<1> HIDE DEF r, h
<1>4. /\ t \in Seq(Messages) /\ Len(t) = Len(m) - r
      /\ \A i \in 1 .. Len(m) - r : t[i] = m[r + i]
  <2>1. r + 1 \in Int /\ Len(m) \in Int /\ r + 1 <= Len(m) /\ r + 1 .. Len(m) \subseteq 1 .. Len(m)
    BY <1>1
  <2>5. \A i \in r + 1 .. Len(m) : m[i] \in Messages
    BY <2>1, ElementOfSeq
  <2>2. /\ t \in Seq(Messages) /\ Len(t) = Len(m) - (r + 1) + 1
        /\ \A i \in 1 .. Len(m) - (r + 1) + 1 : t[i] = m[r + 1 + i - 1]
    BY <2>1, <2>5, SubSeqProperties
  <2>3. Len(m) - (r + 1) + 1 = Len(m) - r /\ \A i \in Int : r + 1 + i - 1 = r + i
    BY <1>1
  <2> HIDE DEF t
  <2>4. ASSUME NEW i \in 1 .. Len(m) - r PROVE t[i] = m[r + i]
    <3>1. i \in 1 .. Len(m) - (r + 1) + 1 /\ r + 1 + i - 1 = r + i
      BY <1>1
    <3>2. t[i] = m[r + 1 + i - 1]
      BY <3>1, <2>2
    <3>3. QED
      BY <3>1, <3>2
  <2>6. QED
    BY <2>2, <2>3, <2>4
<1> HIDE DEF t
<1>5. Compacted(m) = h \o t
  BY DEF Compacted, r, h, t
<1>6. /\ h \o t \in Seq(Messages) /\ Len(h \o t) = Len(h) + Len(t)
      /\ \A i \in 1 .. Len(h) + Len(t) : (h \o t)[i] = IF i <= Len(h) THEN h[i] ELSE t[i - Len(h)]
  BY <1>3, <1>4, ConcatProperties
<1>7. Len(h \o t) = Len(m) - r + 1
  BY <1>1, <1>3, <1>4, <1>6
<1>8. (h \o t)[1] = Summary(m)
  BY <1>1, <1>3, <1>4, <1>6
<1>9. ASSUME NEW j \in 2 .. Len(h \o t) PROVE (h \o t)[j] = m[r + j - 1]
  <2>1. j - 1 \in 1 .. Len(m) - r /\ r + (j - 1) = r + j - 1 /\ j \in 1 .. Len(h) + Len(t) /\ ~(j <= Len(h))
    BY <1>1, <1>3, <1>4, <1>7
  <2>2. (h \o t)[j] = t[j - 1]
    BY <2>1, <1>3, <1>6
  <2>3. QED
    BY <2>1, <2>2, <1>4
<1>10. QED
  BY <1>5, <1>6, <1>7, <1>8, <1>9 DEF r

LEMMA CompactionKeepsCalls ==
  ASSUME NEW m \in Seq(Messages), ResultsHaveCalls(m), ShouldCompact(m)
  PROVE  ResultsHaveCalls(Compacted(m))
<1> DEFINE r == KeepFrom(m)
           c == Compacted(m)
<1>1. r \in 0 .. Len(m) - 1 /\ Len(m) \in Nat /\ DOMAIN m = 1 .. Len(m) /\ m[r + 1].kind # "result"
  BY KeepFromPlace, LenProperties
<1>2. /\ c \in Seq(Messages) /\ Len(c) = Len(m) - r + 1 /\ c[1] = Summary(m)
      /\ \A j \in 2 .. Len(c) : c[j] = m[r + j - 1]
  BY CompactedShape
<1> HIDE DEF r, c
<1>3. SUFFICES ASSUME NEW j \in DOMAIN c, c[j].kind = "result"
               PROVE  \E i \in 1 .. j - 1 : /\ c[i].kind = "use"
                                            /\ \A k \in i + 1 .. j - 1 : c[k].kind = "result"
  BY DEF ResultsHaveCalls, c
<1>4. DOMAIN c = 1 .. Len(c)
  BY <1>2, LenProperties
<1>5. c[1].kind = "summary"
  BY <1>2 DEF Summary
<1>6. j \in 2 .. Len(c)
  BY <1>1, <1>2, <1>3, <1>4, <1>5
<1> DEFINE x == r + j - 1
<1>7. x \in DOMAIN m /\ m[x].kind = "result" /\ x > r + 1 /\ x = r + j - 1
      /\ r \in Nat /\ j \in Nat /\ x \in Nat /\ Len(c) \in Nat /\ j <= Len(c)
  <2>1. x \in 1 .. Len(m) /\ x >= r + 1
    BY <1>1, <1>2, <1>6
  <2>2. m[x].kind = "result"
    BY <1>2, <1>3, <1>6
  <2>3. x # r + 1
    BY <2>2, <1>1
  <2>4. r \in Nat /\ j \in Nat /\ Len(c) \in Nat /\ j <= Len(c)
    BY <1>1, <1>2, <1>6
  <2>5. x \in Nat /\ x > r + 1
    BY <2>1, <2>3, <2>4
  <2>6. QED
    BY <2>1, <2>2, <2>4, <2>5, <1>1
<1> HIDE DEF x
<1>8. PICK i \in 1 .. x - 1 : m[i].kind = "use" /\ \A k \in i + 1 .. x - 1 : m[k].kind = "result"
  BY <1>7 DEF ResultsHaveCalls
<1>9. i >= r + 1
  <2>1. SUFFICES ASSUME i < r + 1 PROVE FALSE
    BY <1>1, <1>8
  <2>2. r + 1 \in i + 1 .. x - 1
    BY <2>1, <1>1, <1>6, <1>7
  <2>3. QED
    BY <2>2, <1>1, <1>8
<1>10. i - r + 1 \in 2 .. Len(c) /\ i - r + 1 \in 1 .. j - 1 /\ r + (i - r + 1) - 1 = i
  <2>1. i \in Nat /\ i < r + j - 1
    BY <1>7, <1>8
  <2>2. r \in Nat /\ j \in Nat /\ Len(c) \in Nat /\ j <= Len(c)
    BY <1>7
  <2>3. QED
    BY ONLY <2>1, <2>2, <1>9
<1>11. c[i - r + 1].kind = "use"
  BY <1>2, <1>8, <1>10
<1>12. ASSUME NEW k \in i - r + 1 + 1 .. j - 1 PROVE c[k].kind = "result"
  <2>1. i \in Nat /\ i >= r + 1
    BY <1>7, <1>8, <1>9
  <2>3. k \in 2 .. Len(c) /\ r + k - 1 \in i + 1 .. x - 1
    BY <2>1, <1>7
  <2>4. m[r + k - 1].kind = "result"
    BY <2>3, <1>8
  <2>2. QED
    BY <2>3, <2>4, <1>2
<1>13. QED
  BY <1>10, <1>11, <1>12

(* The front of a conversation is a summary or nothing. *)
LEMMA FrontMessage ==
  ASSUME NEW m \in Seq(Messages)
  PROVE  /\ PrefixLen(m) \in {0, 1}
         /\ PrefixLen(m) = 1 <=> m # <<>> /\ m[1].kind = "summary"
         /\ PrefixLen(m) <= Len(m) /\ Len(m) \in Nat /\ DOMAIN m = 1 .. Len(m)
  BY EmptySeq, LenProperties DEF PrefixLen

(* The new summary tells of all messages but those behind an empty line. *)
LEMMA SummaryCovers ==
  ASSUME NEW m \in Seq(Messages), NEW n \in Nat,
         ResultsHaveCalls(m), ShouldCompact(m), CoversFirst(m, n)
  PROVE  LET s == Summary(m)
             away == n - Len(m) + KeepFrom(m)
         IN  /\ away >= 0
             /\ s.kind = "summary" /\ s.gaps \subseteq s.ids /\ s.ids \subseteq 1 .. away
             /\ \A i \in 1 .. away : i \in s.ids \/ LostBehindGap(s, i)
<1> DEFINE r == KeepFrom(m)
           p == PrefixLen(m)
           L == Len(m)
           s == Summary(m)
           T == Tells(m)
           d == n - L
<1>1. /\ r \in Nat /\ L \in Nat /\ r < L /\ p \in {0, 1} /\ p <= r /\ d \in Int
      /\ (p = 1 => m[1].kind = "summary")
  BY KeepFromPlace, FrontMessage
<1>2. \A i \in p + 1 .. L : m[i].ids = {d + i} /\ m[i].gaps \subseteq {d + i}
  BY DEF CoversFirst, InFull
<1>3. /\ s.kind = "summary"
      /\ s.ids = UNION {m[i].ids : i \in T}
      /\ s.gaps = UNION {m[i].gaps : i \in T}
  BY DEF Summary
<1>4. T = {i \in 1 .. r : p = 1 => \A k \in 2 .. i - 1 : m[k].gaps = {}}
  BY DEF Tells
<1>5. p = 0 => d = 0
  BY <1>1 DEF CoversFirst, Away
<1>6. p = 1 => /\ d + 1 >= 0
               /\ m[1].gaps \subseteq m[1].ids /\ m[1].ids \subseteq 1 .. d + 1
               /\ \A i \in 1 .. d + 1 : i \in m[1].ids \/ LostBehindGap(m[1], i)
  BY <1>1 DEF CoversFirst, Away
<1> HIDE DEF r, p, L, s, T, d
<1>7. CASE p = 0
  <2>1. T = 1 .. r /\ \A i \in T : m[i].ids = {i} /\ m[i].gaps \subseteq {i}
    BY <1>1, <1>2, <1>4, <1>5, <1>7
  <2>2. s.ids = 1 .. r
    BY <2>1, <1>3
  <2>3. s.gaps \subseteq 1 .. r
    BY <2>1, <1>3
  <2>4. n - Len(m) + KeepFrom(m) = r
    BY <1>1, <1>5, <1>7 DEF d, r, L
  <2>5. QED
    BY <2>2, <2>3, <2>4, <1>1, <1>3 DEF s
<1>8. CASE p = 1
  <2>1. 1 \in T /\ \A i \in T : i \in 1 .. r
    BY <1>1, <1>4, <1>8
  <2>2. \A i \in T : i = 1 \/ (m[i].ids = {d + i} /\ m[i].gaps \subseteq {d + i})
    BY <2>1, <1>1, <1>2, <1>8
  <2>3. m[1].ids \subseteq s.ids /\ m[1].gaps \subseteq s.gaps
    BY <2>1, <1>3
  <2>4. s.gaps \subseteq s.ids
    BY <2>2, <1>3, <1>6, <1>8
  <2>5. \A x \in s.ids : x \in m[1].ids \/ \E i \in T : i # 1 /\ x = d + i
    BY <2>2, <1>3
  <2>6. s.ids \subseteq 1 .. d + r
    <3>1. ASSUME NEW x \in s.ids PROVE x \in 1 .. d + r
      <4>1. CASE x \in m[1].ids
        BY <4>1, <1>1, <1>6, <1>8
      <4>2. CASE \E i \in T : i # 1 /\ x = d + i
        BY <4>2, <2>1, <1>1, <1>6, <1>8
      <4>3. QED
        BY <4>1, <4>2, <2>5
    <3>2. QED
      BY <3>1
  <2>7. ASSUME NEW i \in 1 .. d + r, i \notin s.ids
        PROVE  \E g \in s.gaps : g < i /\ s.ids \cap (g + 1 .. i) = {}
    <3>1. CASE i <= d + 1
      <4>1. i \in 1 .. d + 1 /\ i \notin m[1].ids
        BY <3>1, <2>3, <2>7, <1>1
      <4>2. PICK g \in m[1].gaps : g < i /\ m[1].ids \cap (g + 1 .. i) = {}
        BY <4>1, <1>6, <1>8 DEF LostBehindGap
      <4>3. g \in Nat
        BY <1>6, <1>8
      <4>4. ASSUME NEW x \in g + 1 .. i PROVE x \notin s.ids
        <5>1. x \notin m[1].ids
          BY <4>2
        <5>2. x <= d + 1
          BY <4>3, <3>1, <2>7, <1>1
        <5>3. ASSUME NEW q \in T, q # 1, x = d + q PROVE FALSE
          <6>1. q \in Nat /\ q >= 2
            BY <5>3, <2>1, <1>1
          <6>2. QED
            BY <6>1, <5>2, <5>3, <1>1
        <5>4. QED
          BY <5>1, <5>3, <2>5
      <4>5. QED
        BY <4>2, <4>4, <2>3
    <3>2. CASE i > d + 1
      <4> DEFINE j == i - d
      <4>1. j \in 2 .. r /\ d + j = i
        BY <3>2, <2>7, <1>1
      <4> HIDE DEF j
      <4>2. m[j].ids = {i}
        BY <4>1, <1>1, <1>2, <1>8
      <4>3. j \notin T
        BY <4>2, <2>7, <1>3
      <4> DEFINE G == {k \in 2 .. j - 1 : m[k].gaps # {}}
      <4>4. G # {} /\ G \in SUBSET Nat
        BY <4>1, <4>3, <1>1, <1>4, <1>8
      <4>5. PICK k \in G : \A q \in G : k <= q
        BY <4>4, MinExists
      <4>6. k \in 2 .. j - 1 /\ m[k].gaps # {} /\ \A q \in 2 .. k - 1 : m[q].gaps = {}
        BY <4>1, <4>5
      <4>7. m[k].gaps = {d + k} /\ k \in T
        <5>1. k \in p + 1 .. L /\ k \in 1 .. r
          BY <4>1, <4>6, <1>1, <1>8
        <5>2. QED
          BY <5>1, <4>6, <1>2, <1>4
      <4>8. d + k \in s.gaps /\ d + k < i
        BY <4>1, <4>6, <4>7, <1>1, <1>3
      <4>9. ASSUME NEW x \in d + k + 1 .. i PROVE x \notin s.ids
        <5>1. x > d + 1 /\ x - d > k
          BY <4>1, <4>6, <1>1
        <5>2. x \notin m[1].ids
          BY <5>1, <1>1, <1>6, <1>8
        <5>3. ASSUME NEW q \in T, x = d + q PROVE FALSE
          <6>1. q \in Nat /\ q > k
            BY <5>1, <5>3, <4>1, <4>6, <2>1, <1>1
          <6>2. k \in 2 .. q - 1
            BY <6>1, <4>6
          <6>3. QED
            BY <6>2, <4>6, <1>4, <1>8
        <5>4. QED
          BY <5>2, <5>3, <2>5
      <4>10. QED
        BY <4>8, <4>9
    <3>3. QED
      BY <3>1, <3>2, <1>1
  <2>8. n - Len(m) + KeepFrom(m) = d + r
    BY DEF d, r, L
  <2>9. QED
    BY <2>4, <2>6, <2>7, <2>8, <1>1, <1>3, <1>6, <1>8 DEF s, LostBehindGap
<1>9. QED
  BY <1>1, <1>7, <1>8

LEMMA CompactionCovers ==
  ASSUME NEW m \in Seq(Messages), NEW n \in Nat,
         ResultsHaveCalls(m), ShouldCompact(m), CoversFirst(m, n)
  PROVE  CoversFirst(Compacted(m), n)
<1> DEFINE r == KeepFrom(m)
           c == Compacted(m)
           away == n - Len(m) + r
<1>1. r \in 0 .. Len(m) - 1 /\ Len(m) \in Nat /\ DOMAIN m = 1 .. Len(m) /\ r >= PrefixLen(m)
      /\ PrefixLen(m) \in {0, 1}
  BY KeepFromPlace, FrontMessage
<1>2. /\ c \in Seq(Messages) /\ Len(c) = Len(m) - r + 1 /\ c[1] = Summary(m)
      /\ \A j \in 2 .. Len(c) : c[j] = m[r + j - 1]
  BY CompactedShape
<1>3. /\ away >= 0
      /\ c[1].kind = "summary" /\ c[1].gaps \subseteq c[1].ids /\ c[1].ids \subseteq 1 .. away
      /\ \A i \in 1 .. away : i \in c[1].ids \/ LostBehindGap(c[1], i)
  BY SummaryCovers, <1>2
<1> HIDE DEF r, c
<1>4. PrefixLen(c) = 1
  BY <1>1, <1>2, <1>3, FrontMessage, EmptySeq
<1>5. Away(c, n) = away
  BY <1>1, <1>2, <1>4 DEF Away
<1> HIDE DEF away
<1>6. ASSUME NEW j \in 2 .. Len(c)
      PROVE  /\ c[j].kind # "summary" /\ c[j].ids = {n - Len(c) + j}
             /\ c[j].gaps \subseteq c[j].ids
  <2> DEFINE L == Len(m)
             M == Len(c)
             p == PrefixLen(m)
  <2>4. M = L - r + 1 /\ L \in Nat /\ r \in 0 .. L - 1 /\ p \in {0, 1} /\ r >= p /\ j \in 2 .. M
    BY <1>1, <1>2
  <2> HIDE DEF L, M, p
  <2>5. r + j - 1 \in p + 1 .. L /\ n - M + j = n - L + (r + j - 1)
    BY <2>4
  <2>1. r + j - 1 \in PrefixLen(m) + 1 .. Len(m) /\ n - Len(c) + j = n - Len(m) + (r + j - 1)
    BY <2>5 DEF L, M, p
  <2>2. c[j] = m[r + j - 1]
    BY <1>2
  <2>3. QED
    BY <2>1, <2>2 DEF CoversFirst, InFull
<1>7. InFull(c, n)
  BY <1>4, <1>6 DEF InFull
<1>8. QED
  BY <1>3, <1>4, <1>5, <1>7 DEF CoversFirst, c

LEMMA CompactedWhole ==
  ASSUME NEW s \in Sessions, Whole(s)
  PROVE  /\ Compacted(s.msgs) \in Seq(Messages)
         /\ ResultsHaveCalls(Compacted(s.msgs))
         /\ CoversFirst(Compacted(s.msgs), s.said)
<1>1. s.msgs \in Seq(Messages) /\ s.said \in Nat
  BY DEF Sessions
<1>2. CASE ShouldCompact(s.msgs)
  BY <1>1, <1>2, CompactedShape, CompactionKeepsCalls, CompactionCovers DEF Whole
<1>3. CASE ~ShouldCompact(s.msgs)
  BY <1>1, <1>3 DEF Whole, Compacted
<1>4. QED
  BY <1>2, <1>3

(* A message is added. *)
LEMMA AppendedWhole ==
  ASSUME NEW m \in Seq(Messages), NEW n \in Nat, NEW kind \in Kinds,
         NEW gap \in BOOLEAN, kind # "summary",
         ResultsHaveCalls(m), CoversFirst(m, n),
         kind = "result" => m # <<>> /\ Last(m).kind \in {"use", "result"}
  PROVE  LET c == Append(m, Message(kind, n + 1, gap)) IN
         /\ c \in Seq(Messages) /\ ResultsHaveCalls(c) /\ CoversFirst(c, n + 1)
<1> DEFINE e == Message(kind, n + 1, gap)
           c == Append(m, e)
           L == Len(m)
<1>1. e \in Messages
  BY DEF Messages, Message
<1>2. /\ c \in Seq(Messages) /\ Len(c) = L + 1 /\ c[L + 1] = e
      /\ \A i \in 1 .. L : c[i] = m[i]
  BY <1>1, AppendProperties
<1>3. L \in Nat /\ DOMAIN m = 1 .. L /\ DOMAIN c = 1 .. L + 1
  BY <1>2, LenProperties
<1>4. e.kind = kind /\ e.ids = {n + 1} /\ e.gaps \subseteq {n + 1}
  BY DEF Message
<1> HIDE DEF c, e, L
<1>5. ASSUME NEW j \in DOMAIN c, c[j].kind = "result"
      PROVE  \E i \in 1 .. j - 1 : /\ c[i].kind = "use"
                                   /\ \A k \in i + 1 .. j - 1 : c[k].kind = "result"
  <2>1. CASE j \in 1 .. L
    <3>1. PICK i \in 1 .. j - 1 : m[i].kind = "use" /\ \A k \in i + 1 .. j - 1 : m[k].kind = "result"
      BY <2>1, <1>2, <1>3, <1>5 DEF ResultsHaveCalls
    <3>2. i \in 1 .. L /\ \A k \in i + 1 .. j - 1 : k \in 1 .. L
      BY <2>1, <1>3
    <3>3. QED
      BY <3>1, <3>2, <1>2
  <2>2. CASE j = L + 1
    <3>1. kind = "result" /\ L + 1 - 1 = L /\ j - 1 = L
      BY <2>2, <1>2, <1>3, <1>4, <1>5
    <3>2. L # 0 /\ m[L].kind \in {"use", "result"}
      BY <3>1, EmptySeq DEF Last, L
    <3>3. L \in 1 .. L
      BY <3>2, <1>3
    <3>4. CASE m[L].kind = "use"
      <4>1. \A k \in L + 1 .. L : FALSE
        BY <1>3
      <4>2. QED
        BY <2>2, <3>1, <3>3, <3>4, <4>1, <1>2
    <3>5. CASE m[L].kind = "result"
      <4>1. PICK i \in 1 .. L - 1 : m[i].kind = "use" /\ \A k \in i + 1 .. L - 1 : m[k].kind = "result"
        BY <3>3, <3>5, <1>3 DEF ResultsHaveCalls
      <4>2. i \in 1 .. L /\ \A k \in i + 1 .. L : k \in 1 .. L /\ (k = L \/ k \in i + 1 .. L - 1)
        BY <1>3
      <4>3. c[i].kind = "use" /\ \A k \in i + 1 .. L : c[k].kind = "result"
        BY <4>1, <4>2, <3>5, <1>2
      <4>4. QED
        BY <2>2, <3>1, <4>2, <4>3
    <3>6. QED
      BY <3>2, <3>4, <3>5
  <2>3. QED
    BY <2>1, <2>2, <1>3
<1>6. PrefixLen(c) = PrefixLen(m) /\ PrefixLen(m) \in {0, 1} /\ PrefixLen(m) <= L
  <2>1. c # <<>> /\ m \in Seq(Messages) /\ (m = <<>> <=> L = 0)
    BY <1>2, <1>3, EmptySeq DEF L
  <2>2. CASE L = 0
    BY <2>1, <2>2, <1>2, <1>4 DEF PrefixLen
  <2>3. CASE L # 0
    BY <2>1, <2>3, <1>2, <1>3 DEF PrefixLen
  <2>4. QED
    BY <2>2, <2>3, <1>3, FrontMessage DEF L
<1>7. InFull(c, n + 1)
  <2>1. SUFFICES ASSUME NEW i \in PrefixLen(c) + 1 .. Len(c)
                 PROVE  /\ c[i].kind # "summary" /\ c[i].ids = {n + 1 - Len(c) + i}
                        /\ c[i].gaps \subseteq c[i].ids
    BY DEF InFull
  <2>2. CASE i = L + 1
    BY <2>2, <1>2, <1>3, <1>4
  <2>3. CASE i # L + 1
    <3>1. i \in PrefixLen(m) + 1 .. L /\ i \in 1 .. L /\ n + 1 - Len(c) + i = n - L + i
      BY <2>1, <2>3, <1>2, <1>3, <1>6
    <3>2. m[i].kind # "summary" /\ m[i].ids = {n - L + i} /\ m[i].gaps \subseteq m[i].ids
      BY <3>1 DEF CoversFirst, InFull, L
    <3>3. QED
      BY <3>1, <3>2, <1>2
  <2>4. QED
    BY <2>2, <2>3
<1>8. CoversFirst(c, n + 1)
  <2>1. Away(c, n + 1) = Away(m, n)
    BY <1>2, <1>3, <1>6 DEF Away, L
  <2>2. CASE PrefixLen(m) = 0
    BY <2>1, <2>2, <1>6, <1>7 DEF CoversFirst
  <2>3. CASE PrefixLen(m) = 1
    <3>1. c[1] = m[1]
      BY <2>3, <1>2, <1>3, <1>6
    <3>2. QED
      BY <2>1, <2>3, <3>1, <1>6, <1>7 DEF CoversFirst
  <2>4. QED
    BY <2>2, <2>3, <1>6
<1>9. ResultsHaveCalls(c)
  BY <1>5 DEF ResultsHaveCalls
<1>10. QED
  BY <1>2, <1>8, <1>9 DEF c, e

LEMMA EmptyWhole ==
  ResultsHaveCalls(<<>>) /\ CoversFirst(<<>>, 0)
<1>1. DOMAIN <<>> = {} /\ Len(<<>>) = 0 /\ PrefixLen(<<>>) = 0
  BY DEF PrefixLen
<1>2. \A i \in 0 + 1 .. 0 : FALSE
  OBVIOUS
<1>3. QED
  BY <1>1, <1>2 DEF ResultsHaveCalls, CoversFirst, InFull, Away

LEMMA OpeningWhole ==
  ASSUME NEW said \in Openings
  PROVE  /\ Opening(said) \in Seq(Messages) /\ Len(said) \in Nat
         /\ ResultsHaveCalls(Opening(said)) /\ CoversFirst(Opening(said), Len(said))
<1> DEFINE m == Opening(said)
           n == Len(said)
<1>1. said \in Seq([kind : Kinds, gap : BOOLEAN]) /\ ResultsHaveCalls(m)
      /\ \A i \in DOMAIN said : said[i].kind = "summary" => i = 1
  BY OpeningsAssumption DEF Kinds
<1>2. /\ n \in Nat /\ DOMAIN said = 1 .. n
      /\ \A i \in 1 .. n : said[i] \in [kind : Kinds, gap : BOOLEAN]
  BY <1>1, LenProperties, ElementOfSeq
<1>3. /\ m = [i \in 1 .. n |-> m[i]]
      /\ \A i \in 1 .. n : /\ m[i] \in Messages /\ m[i].ids = {i} /\ m[i].gaps \subseteq {i}
                           /\ m[i].kind = "summary" => i = 1
  BY <1>1, <1>2 DEF Opening, Message, Messages
<1> HIDE DEF m
<1>4. m \in Seq(Messages) /\ DOMAIN m = 1 .. n /\ Len(m) = n
  <2>1. m \in Seq(Messages) /\ DOMAIN m = 1 .. n
    BY <1>2, <1>3, IsASeq
  <2>2. QED
    BY <2>1, <1>2, LenProperties
<1> HIDE DEF n
<1>5. PrefixLen(m) \in {0, 1} /\ PrefixLen(m) <= n /\ (PrefixLen(m) = 0 => n = 0 \/ m[1].kind # "summary")
  BY <1>2, <1>4, FrontMessage, EmptySeq
<1>6. InFull(m, n)
  BY <1>2, <1>3, <1>4, <1>5 DEF InFull
<1>7. Away(m, n) = PrefixLen(m)
  BY <1>2, <1>4, <1>5 DEF Away
<1>8. CoversFirst(m, n)
  BY <1>2, <1>3, <1>5, <1>6, <1>7 DEF CoversFirst
<1>9. QED
  BY <1>1, <1>2, <1>4, <1>8 DEF m, n

-----------------------------------------------------------------------------
(* The store *)

LEMMA ClockAtStart ==
  ASSUME TypeOK, Times, NEW p \in Procs, Start(p)
  PROVE  /\ wall' \in Nat /\ wall' >= wall
         /\ Alive = {} => wall' > wall /\ \A n \in DOMAIN files : wall' > files[n].upd
<1> DEFINE S == {wall} \cup {files[n].upd : n \in DOMAIN files}
<1>1. PICK b \in Nat : \A n \in DOMAIN files : files[n].upd <= b
  BY DEF Times
<1>2. wall \in Nat /\ wall' = IF Alive = {} THEN Max(S) + 1 ELSE wall
  BY DEF TypeOK, Start
<1>3. \A n \in DOMAIN files : files[n].upd \in Nat
  BY FilesTyped, SessionForm
<1>4. S \in SUBSET Nat /\ wall \in S /\ \A n \in DOMAIN files : files[n].upd \in S
  BY <1>2, <1>3
<1>5. b + wall \in Nat /\ \A y \in S : y <= b + wall
  BY <1>1, <1>2, <1>3
<1> HIDE DEF S
<1>6. Max(S) \in S /\ \A y \in S : y <= Max(S)
  BY <1>4, <1>5, MaxMember
<1>7. Max(S) \in Nat /\ wall <= Max(S) /\ \A n \in DOMAIN files : files[n].upd <= Max(S)
  BY <1>4, <1>6
<1>8. QED
  BY <1>2, <1>3, <1>7

LEMMA ClockAtTick ==
  ASSUME TypeOK, Times, Tick
  PROVE  wall' \in Nat /\ wall' > wall
<1> DEFINE S == {last[p] : p \in Procs}
<1>1. PICK b \in Nat : \A p \in Procs : last[p] <= b
  BY DEF Times
<1>2. PICK p \in Procs : last[p] >= wall
  BY DEF Tick
<1>3. S \in SUBSET Nat /\ last[p] \in S /\ \A y \in S : y <= b
  BY <1>1 DEF TypeOK
<1>4. wall' = Max(S) + 1
  BY DEF Tick
<1> HIDE DEF S
<1>5. Max(S) \in Nat /\ last[p] <= Max(S)
  BY <1>3, MaxMember
<1>6. QED
  BY <1>2, <1>4, <1>5 DEF TypeOK

LEMMA TimesBounded ==
  ASSUME TypeOK, TypeOK', Times, NEW c \in Nat,
         \A n \in DOMAIN files' :
            \/ files'[n].upd <= c
            \/ \E m \in DOMAIN files : files'[n].upd = files[m].upd,
         \A q \in Procs : last'[q] <= c \/ last'[q] = last[q]
  PROVE  \E b \in Nat : /\ \A n \in DOMAIN files' : files'[n].upd <= b
                        /\ \A q \in Procs : last'[q] <= b
<1>1. PICK b \in Nat : /\ \A n \in DOMAIN files : files[n].upd <= b
                       /\ \A q \in Procs : last[q] <= b
  BY DEF Times
<1>2. b + c \in Nat /\ b <= b + c /\ c <= b + c
  OBVIOUS
<1>3. \A n \in DOMAIN files' : files'[n].upd \in Nat
  BY SessionForm DEF TypeOK, FilesOK
<1>4. \A n \in DOMAIN files : files[n].upd \in Nat
  BY FilesTyped, SessionForm
<1>5. \A q \in Procs : last'[q] \in Nat /\ last[q] \in Nat
  BY DEF TypeOK
<1>6. \A n \in DOMAIN files' : files'[n].upd <= b + c
  BY <1>1, <1>2, <1>3, <1>4
<1>7. \A q \in Procs : last'[q] <= b + c
  BY <1>1, <1>2, <1>5
<1>8. QED
  BY <1>2, <1>6, <1>7

LEMMA StoreInit ==
  ASSUME Init
  PROVE  StoreInv
<1>1. PICK kinds \in Openings :
        LET s == [sid |-> 1, msgs |-> Opening(kinds), said |-> Len(kinds), upd |-> 1]
        IN files = [n \in {Main} |-> OnDisk(s, 1)] /\ current = s
  BY DEF Init
<1>2. current \in Sessions /\ current.upd = 1
  BY <1>1, OpeningWhole DEF Sessions
<1>3. files = [n \in {Main} |-> OnDisk(current, 1)]
  BY <1>1
<1>4. DOMAIN files = {Main} /\ files[Main] = OnDisk(current, 1)
  BY <1>3
<1>5. files[Main] \in Contents /\ files[Main].mt = 1 /\ files[Main].upd = 1
  BY <1>2, <1>4, DiskForm
<1>6. FilesOK
  BY <1>3, <1>4, <1>5, MainName, FS_Singleton DEF FilesOK
<1>7. NoSession \in Sessions
  BY EmptySeq DEF NoSession, Sessions
<1>8. TypeOK
  BY <1>2, <1>6, <1>7, MainName DEF TypeOK, Init, Steps
<1>9. Times
  <2>1. wall = 2 /\ \A p \in Procs : last[p] = 0
    BY DEF Init
  <2>2. \A n \in DOMAIN files : files[n].upd <= 1 /\ files[n].mt <= wall
    BY <1>4, <1>5, <2>1
  <2>3. 1 \in Nat /\ \A p \in Procs : last[p] <= 1
    BY <2>1
  <2>4. QED
    BY <2>2, <2>3 DEF Times
<1>10. Places /\ Removals
  BY MainName DEF Init, Places, Removals, Saving
<1>11. QED
  BY <1>8, <1>9, <1>10 DEF StoreInv

LEMMA StoreStart ==
  ASSUME StoreInv, NEW p \in Procs, Start(p)
  PROVE  StoreInv'
<1>1. TypeOK /\ Times /\ Places /\ Removals
  BY DEF StoreInv
<1>2. wall' \in Nat /\ wall' >= wall
  BY <1>1, ClockAtStart
<1>3. PICK n \in DOMAIN files :
        /\ path' = [path EXCEPT ![p] = n]
        /\ split' = (split \/ (n # Main /\ Main \in DOMAIN files))
        /\ Kind(n) \in {"main", "rot"}
  BY MainName DEF Start, Latest, Managed
<1>4. /\ UNCHANGED <<files, last, sess, dest, doomed, current, clears, reused, clash>>
      /\ pc' = [pc EXCEPT ![p] = "load"] /\ overlap' = (overlap \/ Alive # {})
  BY DEF Start, Goto
<1>5. TypeOK'
  <2>1. FilesOK'
    BY <1>1, <1>4 DEF TypeOK, FilesOK
  <2>2. n \in Names
    BY <1>1, FilesTyped
  <2>3. QED
    BY <1>1, <1>2, <1>3, <1>4, <2>1, <2>2 DEF TypeOK, Steps
<1>6. Times'
  <2>1. \A m \in DOMAIN files : files[m].mt <= wall'
    BY <1>1, <1>2, FilesTyped, SessionForm DEF Times, TypeOK
  <2>2. QED
    BY <1>1, <1>4, <2>1 DEF Times
<1>7. Places'
  BY <1>1, <1>3, <1>4 DEF Places, TypeOK, Saving
<1>8. Removals'
  BY <1>1, <1>4 DEF Removals, TypeOK, Start
<1>9. QED
  BY <1>5, <1>6, <1>7, <1>8 DEF StoreInv

LEMMA StoreTick ==
  ASSUME StoreInv, Tick
  PROVE  StoreInv'
<1>1. TypeOK /\ Times /\ Places /\ Removals
  BY DEF StoreInv
<1>2. wall' \in Nat /\ wall' > wall
  BY <1>1, ClockAtTick
<1>3. UNCHANGED <<files, last, pc, path, sess, dest, doomed, overlap, split, current, clears, reused, clash>>
  BY DEF Tick
<1>4. TypeOK'
  BY <1>1, <1>2, <1>3 DEF TypeOK, FilesOK
<1>5. Times'
  <2>1. \A m \in DOMAIN files : files[m].mt <= wall'
    BY <1>1, <1>2, FilesTyped, SessionForm DEF Times, TypeOK
  <2>2. QED
    BY <1>1, <1>3, <2>1 DEF Times
<1>6. Places' /\ Removals'
  BY <1>1, <1>3 DEF Places, Removals
<1>7. QED
  BY <1>4, <1>5, <1>6 DEF StoreInv

(* What ends a process keeps the store. *)
LEMMA StoreExit ==
  ASSUME StoreInv, NEW p \in Procs, Exit(p), pc[p] # "off",
         UNCHANGED <<files, wall, overlap, split, current, clears, clash>>,
         reused' \subseteq Names
  PROVE  StoreInv'
<1>1. TypeOK /\ Times /\ Places /\ Removals
  BY DEF StoreInv
<1>2. TypeOK'
  <2>1. FilesOK'
    BY <1>1 DEF TypeOK, FilesOK
  <2>2. QED
    BY <1>1, <2>1, ExitTypes DEF TypeOK
<1>3. Times'
  <2>1. \A q \in Procs : last'[q] <= 0 \/ last'[q] = last[q]
    BY <1>1 DEF Exit, TypeOK
  <2>2. QED
    BY <1>1, <1>2, <2>1, TimesBounded DEF Times
<1>4. Places'
  BY <1>1, MainName DEF Exit, Goto, Places, TypeOK, Saving
<1>5. Removals'
  BY <1>1 DEF Exit, Goto, Removals, TypeOK
<1>6. QED
  BY <1>2, <1>3, <1>4, <1>5 DEF StoreInv

LEMMA RotateMoves ==
  ASSUME StoreInv, NEW p \in Procs, Rotate(p), dest[p] \in DOMAIN files
  PROVE  LET a == Append(dest[p], <<"rot", Now(p)>>) IN
         /\ a \in Names /\ Kind(a) = "rot" /\ a # Main /\ a # dest[p]
         /\ FilesOK'
         /\ DOMAIN files' = (DOMAIN files \ {dest[p]}) \cup {a}
         /\ files'[a] = files[dest[p]]
         /\ \A m \in DOMAIN files \ {dest[p], a} : files'[m] = files[m]
         /\ pc[p] = "rotate" /\ pc' = [pc EXCEPT ![p] = "write"]
         /\ Issued(p, 1)
         /\ clash' = (clash \/ a \in DOMAIN files \cup AllDoomed)
         /\ UNCHANGED <<wall, path, sess, dest, doomed, overlap, split, current, clears>>
<1> DEFINE a == Append(dest[p], <<"rot", Now(p)>>)
<1>1. TypeOK
  BY DEF StoreInv
<1>2. dest[p] \in Names /\ Now(p) \in Nat
  BY <1>1, NowLater DEF TypeOK
<1>3. a \in Names /\ Kind(a) = "rot" /\ a # Main /\ a # dest[p]
  BY <1>2, NamesExtend
<1>4. /\ files' = [n \in (DOMAIN files \ {dest[p]}) \cup {a} |->
                     IF n = a THEN files[dest[p]] ELSE files[n]]
      /\ pc[p] = "rotate" /\ pc' = [pc EXCEPT ![p] = "write"] /\ Issued(p, 1)
      /\ clash' = (clash \/ a \in DOMAIN files \cup AllDoomed)
      /\ UNCHANGED <<wall, path, sess, dest, doomed, overlap, split, current, clears>>
  BY DEF Rotate, Goto, bounds
<1> HIDE DEF a
<1>5. /\ FilesOK'
      /\ DOMAIN files' = (DOMAIN files \ {dest[p]}) \cup {a}
      /\ files'[a] = files[dest[p]]
      /\ \A m \in DOMAIN files \ {dest[p], a} : files'[m] = files[m]
  BY <1>1, <1>3, <1>4, FileMoved DEF TypeOK
<1>6. QED
  BY <1>3, <1>4, <1>5 DEF a

LEMMA WriteReplaces ==
  ASSUME StoreInv, NEW p \in Procs, Write(p)
  PROVE  /\ FilesOK'
         /\ DOMAIN files' = DOMAIN files \cup {dest[p]}
         /\ files'[dest[p]] = OnDisk(sess[p], wall)
         /\ Session(files'[dest[p]]) = sess[p] /\ files'[dest[p]].mt = wall
         /\ files'[dest[p]].upd = sess[p].upd
         /\ \A m \in DOMAIN files \ {dest[p]} : files'[m] = files[m]
         /\ pc[p] = "write" /\ pc' = [pc EXCEPT ![p] = "list"]
         /\ Issued(p, 1)
         /\ current' = IF Kind(dest[p]) = "bak" THEN current ELSE sess[p]
         /\ clash' = (clash \/ dest[p] \in AllDoomed)
         /\ UNCHANGED <<wall, path, sess, dest, doomed, overlap, split, clears>>
<1>1. TypeOK
  BY DEF StoreInv
<1>2. dest[p] \in Names /\ sess[p] \in Sessions /\ wall \in Nat
  BY <1>1 DEF TypeOK
<1>3. /\ files' = [m \in DOMAIN files \cup {dest[p]} |->
                     IF m = dest[p] THEN OnDisk(sess[p], wall) ELSE files[m]]
      /\ pc[p] = "write" /\ pc' = [pc EXCEPT ![p] = "list"] /\ Issued(p, 1)
      /\ current' = IF Kind(dest[p]) = "bak" THEN current ELSE sess[p]
      /\ clash' = (clash \/ dest[p] \in AllDoomed)
      /\ UNCHANGED <<wall, path, sess, dest, doomed, overlap, split, clears>>
  BY DEF Write, Goto, bounds
<1>4. OnDisk(sess[p], wall) \in Contents
  BY <1>2, DiskForm
<1>5. /\ FilesOK'
      /\ DOMAIN files' = DOMAIN files \cup {dest[p]}
      /\ files'[dest[p]] = OnDisk(sess[p], wall)
      /\ \A m \in DOMAIN files \ {dest[p]} : files'[m] = files[m]
  BY <1>1, <1>2, <1>3, <1>4, FileWritten DEF TypeOK
<1>6. QED
  BY <1>2, <1>3, <1>5, DiskForm

LEMMA RemoveDrops ==
  ASSUME StoreInv, NEW p \in Procs, RemoveArchive(p), ~Exit(p)
  PROVE  \E a \in doomed[p] \cap DOMAIN files :
         /\ FilesOK'
         /\ DOMAIN files' = DOMAIN files \ {a}
         /\ \A m \in DOMAIN files \ {a} : files'[m] = files[m]
         /\ doomed' = [doomed EXCEPT ![p] = @ \ {a}]
         /\ pc[p] = "remove"
         /\ pc' = [pc EXCEPT ![p] = IF doomed[p] = {a} THEN "saved" ELSE "remove"]
         /\ UNCHANGED <<wall, last, path, sess, dest, overlap, split, current, clears, reused, clash>>
<1>1. TypeOK
  BY DEF StoreInv
<1>2. PICK a \in doomed[p] \cap DOMAIN files :
        /\ files' = [n \in DOMAIN files \ {a} |-> files[n]]
        /\ doomed' = [doomed EXCEPT ![p] = @ \ {a}]
        /\ pc[p] = "remove"
        /\ pc' = [pc EXCEPT ![p] = IF doomed[p] = {a} THEN "saved" ELSE "remove"]
        /\ UNCHANGED <<wall, last, path, sess, dest, overlap, split, current, clears, reused, clash>>
  BY DEF RemoveArchive, Goto, bounds
<1>3. /\ FilesOK'
      /\ DOMAIN files' = DOMAIN files \ {a}
      /\ \A m \in DOMAIN files \ {a} : files'[m] = files[m]
  BY <1>1, <1>2, FileDropped DEF TypeOK
<1>4. QED
  BY <1>2, <1>3

(* Some of the archives stay. *)
LEMMA ListSpares ==
  ASSUME StoreInv, NEW p \in Procs, ListArchives(p)
  PROVE  /\ pc[p] = "list"
         /\ doomed' = [doomed EXCEPT ![p] = doomed'[p]]
         /\ doomed'[p] \subseteq Archives(dest[p])
         /\ doomed'[p] # {} => \E n \in Archives(dest[p]) : n \notin doomed'[p]
         /\ \A o \in doomed'[p], n \in Archives(dest[p]) \ doomed'[p] :
              /\ files[o].mt <= files[n].mt
              /\ ~clash' => files[o].mt # files[n].mt
         /\ clash => clash'
         /\ pc' = [pc EXCEPT ![p] = IF doomed'[p] = {} THEN "saved" ELSE "remove"]
         /\ UNCHANGED <<files, wall, last, path, sess, dest, overlap, split, current, clears, reused>>
<1> DEFINE A == Archives(dest[p])
<1>1. TypeOK /\ doomed \in [Procs -> SUBSET Names]
  BY DEF StoreInv, TypeOK
<1>2. PICK old \in SUBSET A :
        /\ Cardinality(old) = Max({0, Cardinality(A) - MaxRotated})
        /\ \A o \in old, n \in A \ old : files[o].mt <= files[n].mt
        /\ doomed' = [doomed EXCEPT ![p] = old]
        /\ clash' = (clash \/ \E o \in old, n \in A \ old : files[o].mt = files[n].mt)
        /\ pc' = [pc EXCEPT ![p] = IF old = {} THEN "saved" ELSE "remove"]
  BY DEF ListArchives, Goto
<1>3. doomed'[p] = old /\ doomed' = [doomed EXCEPT ![p] = doomed'[p]]
  BY <1>1, <1>2
<1>4. IsFiniteSet(A) /\ IsFiniteSet(old) /\ Cardinality(A) \in Nat
  <2>1. A \subseteq DOMAIN files
    BY DEF Archives
  <2>2. IsFiniteSet(A)
    BY <2>1, <1>1, FS_Subset DEF TypeOK, FilesOK
  <2> HIDE DEF A
  <2>3. QED
    BY <2>2, FS_Subset, FS_CardinalityType
<1>5. old # {} => old # A
  <2>1. SUFFICES ASSUME old # {}, old = A PROVE FALSE
    OBVIOUS
  <2>2. MaxRotated \in Nat /\ MaxRotated > 0
    BY SessionAssumption
  <2> HIDE DEF A
  <2> DEFINE k == Cardinality(A) - MaxRotated
  <2>3. k \in Int /\ k < Cardinality(A)
    BY <2>2, <1>4
  <2>4. Cardinality(A) = Max({0, k})
    BY <2>1, <1>2
  <2> HIDE DEF k
  <2>6. Cardinality(A) = IF k > 0 THEN k ELSE 0
    BY <2>3, <2>4, MaxOfZero
  <2>7. Cardinality(A) = 0
    BY <2>3, <2>6, <1>4
  <2>8. QED
    BY <2>1, <2>7, <1>4, FS_EmptySet
<1>6. pc[p] = "list" /\ UNCHANGED <<files, wall, last, path, sess, dest, overlap, split, current, clears, reused>>
  BY DEF ListArchives, clock, bounds
<1>7. old # {} => \E n \in A : n \notin old
  BY <1>5
<1>8. \A o \in old, n \in A \ old :
        files[o].mt <= files[n].mt /\ (~clash' => files[o].mt # files[n].mt)
  BY <1>2
<1> HIDE DEF A
<1>9. QED
  BY <1>2, <1>3, <1>6, <1>7, <1>8 DEF A

LEMMA ArchiveNames ==
  ASSUME NEW n, NEW a \in Archives(n)
  PROVE  a \in Managed /\ a \in DOMAIN files /\ Kind(a) = "rot" /\ Len(a) > Len(n)
  BY DEF Archives, Managed

LEMMA CommandStarts ==
  ASSUME NEW p \in Procs, Command(p)
  PROVE  /\ pc[p] = "ready" /\ pc' = [pc EXCEPT ![p] = "stat"]
         /\ UNCHANGED <<files, wall, path, doomed, overlap, split, current, clears, reused, clash>>
  BY DEF Command, Goto

(* What a command leaves to be saved, for Compact, Talk and NewSession: a
   session with a time of its own, or what was there before. *)
LEMMA CompactSaves ==
  ASSUME StoreInv, Conversations, NEW p \in Procs, Compact(p)
  PROVE  /\ dest' = [dest EXCEPT ![p] = path[p]]
         /\ sess' = [sess EXCEPT ![p] = sess'[p]]
         /\ sess'[p] \in Sessions /\ Whole(sess'[p])
         /\ \/ sess'[p] = sess[p] /\ last' = last
            \/ sess'[p].upd = Now(p) /\ Issued(p, 1)
<1>1. sess \in [Procs -> Sessions] /\ Now(p) \in Nat /\ Whole(sess[p])
  BY NowLater DEF StoreInv, TypeOK, Conversations
<1>2. dest' = [dest EXCEPT ![p] = path[p]]
  BY DEF Compact
<1>3. CASE ~ShouldCompact(sess[p].msgs)
  <2>1. sess' = sess /\ last' = last
    BY <1>3 DEF Compact
  <2>2. QED
    BY <1>1, <1>2, <2>1
<1>4. CASE ShouldCompact(sess[p].msgs)
  <2> DEFINE s == sess[p]
             t == [sid |-> s.sid, msgs |-> Compacted(s.msgs), said |-> s.said, upd |-> Now(p)]
  <2>1. s \in Sessions /\ Compacted(s.msgs) \in Seq(Messages)
    BY <1>1, CompactedWhole
  <2>2. sess' = [sess EXCEPT ![p].msgs = Compacted(@), ![p].upd = Now(p)] /\ Issued(p, 1)
    BY <1>4 DEF Compact
  <2>3. sess' = [sess EXCEPT ![p] = t]
    <3>1. sess'[p] = t
      BY <1>1, <2>2 DEF Sessions
    <3>2. sess' = [q \in Procs |-> sess'[q]] /\ \A q \in Procs : q # p => sess'[q] = sess[q]
      BY <1>1, <2>2
    <3> HIDE DEF t
    <3>3. QED
      BY <1>1, <3>1, <3>2
  <2>4. t \in Sessions
    BY <1>1, <2>1 DEF Sessions
  <2>5. Whole(t)
    BY <1>1, CompactedWhole DEF Whole
  <2> HIDE DEF t
  <2>6. sess'[p] = t
    BY <1>1, <2>3
  <2>7. t.upd = Now(p)
    BY DEF t
  <2>8. QED
    BY <1>2, <2>2, <2>3, <2>4, <2>5, <2>6, <2>7
<1>5. QED
  BY <1>3, <1>4

LEMMA TalkSaves ==
  ASSUME StoreInv, Conversations, NEW p \in Procs, Talk(p)
  PROVE  /\ dest' = [dest EXCEPT ![p] = path[p]]
         /\ sess' = [sess EXCEPT ![p] = sess'[p]]
         /\ sess'[p] \in Sessions /\ Whole(sess'[p])
         /\ sess'[p].upd = Now(p) /\ Issued(p, 1)
<1> DEFINE s == sess[p]
<1>1. sess \in [Procs -> Sessions] /\ Now(p) \in Nat /\ Whole(sess[p])
  BY NowLater DEF StoreInv, TypeOK, Conversations
<1>2. PICK kind \in {"text", "use", "result"}, gap \in BOOLEAN :
        /\ kind = "result" => s.msgs # <<>> /\ Last(s.msgs).kind \in {"use", "result"}
        /\ sess' = [sess EXCEPT
             ![p].msgs = Append(@, Message(kind, sess[p].said + 1, gap)),
             ![p].said = @ + 1, ![p].upd = Now(p)]
  BY DEF Talk
<1> DEFINE m == Append(s.msgs, Message(kind, s.said + 1, gap))
           t == [sid |-> s.sid, msgs |-> m, said |-> s.said + 1, upd |-> Now(p)]
<1>3. s.sid \in Nat /\ s.msgs \in Seq(Messages) /\ s.said \in Nat /\ s.upd \in Nat
  BY <1>1 DEF Sessions
<1>4. m \in Seq(Messages) /\ ResultsHaveCalls(m) /\ CoversFirst(m, s.said + 1)
  BY <1>1, <1>2, <1>3, AppendedWhole DEF Whole, Kinds
<1>5. sess' = [sess EXCEPT ![p] = t]
  <2>1. sess'[p] = t
    BY <1>1, <1>2 DEF Sessions
  <2>2. sess' = [q \in Procs |-> sess'[q]] /\ \A q \in Procs : q # p => sess'[q] = sess[q]
    BY <1>1, <1>2
  <2> HIDE DEF t
  <2>3. QED
    BY <1>1, <2>1, <2>2
<1> HIDE DEF m
<1>6. t \in Sessions
  BY <1>1, <1>3, <1>4 DEF Sessions
<1>7. Whole(t) /\ t.upd = Now(p)
  BY <1>4 DEF Whole
<1> HIDE DEF t
<1>8. sess'[p] = t
  BY <1>1, <1>5
<1>9. QED
  BY <1>5, <1>6, <1>7, <1>8 DEF Talk

LEMMA NewSessionSaves ==
  ASSUME StoreInv, NEW p \in Procs, NewSession(p)
  PROVE  /\ pc[p] = "saved" /\ Kind(dest[p]) = "bak" /\ pc' = [pc EXCEPT ![p] = "stat"]
         /\ dest' = [dest EXCEPT ![p] = path[p]]
         /\ sess' = [sess EXCEPT ![p] = sess'[p]]
         /\ sess'[p] \in Sessions /\ Whole(sess'[p])
         /\ sess'[p].upd = Now(p) /\ Issued(p, 2)
         /\ clears' = clears \cup {[by |-> p, sid |-> Now(p) + 1, bak |-> dest[p], old |-> sess[p]]}
         /\ UNCHANGED <<files, wall, path, doomed, overlap, split, current, reused, clash>>
<1> DEFINE t == [sid |-> Now(p) + 1, msgs |-> <<>>, said |-> 0, upd |-> Now(p)]
<1>1. sess \in [Procs -> Sessions] /\ Now(p) \in Nat
  BY NowLater DEF StoreInv, TypeOK
<1>2. <<>> \in Seq(Messages) /\ DOMAIN <<>> = {} /\ 1 .. 0 = {}
  BY EmptySeq
<1>3. t \in Sessions
  BY <1>1, <1>2 DEF Sessions
<1>4. t.msgs = <<>> /\ t.said = 0 /\ t.upd = Now(p)
  OBVIOUS
<1>5. sess' = [sess EXCEPT ![p] = t]
  BY DEF NewSession
<1> HIDE DEF t
<1>6. Whole(t)
  BY <1>4, EmptyWhole DEF Whole
<1>7. sess'[p] = t
  BY <1>1, <1>5
<1>8. QED
  BY <1>3, <1>4, <1>5, <1>6, <1>7 DEF NewSession, Goto, bounds

LEMMA LoadReads ==
  ASSUME StoreInv, NEW p \in Procs, Load(p), ~Exit(p)
  PROVE  /\ path[p] \in DOMAIN files
         /\ sess' = [sess EXCEPT ![p] = Session(files[path[p]])]
         /\ sess'[p] = Session(files[path[p]]) /\ sess'[p] \in Sessions
         /\ Issued(p, 1) /\ pc[p] = "load" /\ pc' = [pc EXCEPT ![p] = "ready"]
         /\ UNCHANGED <<files, wall, path, dest, doomed, overlap, split, current, clears, reused, clash>>
<1>1. /\ path[p] \in DOMAIN files
      /\ sess' = [sess EXCEPT ![p] = Session(files[path[p]])]
      /\ Issued(p, 1) /\ pc[p] = "load" /\ pc' = [pc EXCEPT ![p] = "ready"]
      /\ UNCHANGED <<files, wall, path, dest, doomed, overlap, split, current, clears, reused, clash>>
  BY DEF Load, Goto, bounds
<1>2. TypeOK
  BY DEF StoreInv
<1>3. Session(files[path[p]]) \in Sessions
  BY <1>1, <1>2, FilesTyped, SessionForm
<1>4. QED
  BY <1>1, <1>2, <1>3 DEF TypeOK

(* A step of p that leaves the files alone and gives the process a session,
   a place to save to and times it has issued. *)
Moves(p) ==
  /\ UNCHANGED <<files, wall, path, overlap, split, current, reused>>
  /\ clears' \subseteq [by : Procs, sid : Nat, bak : Names, old : Sessions]
  /\ clash' \in BOOLEAN
  /\ pc'[p] \in Steps /\ pc' = [pc EXCEPT ![p] = pc'[p]]
  /\ sess'[p] \in Sessions /\ sess' = [sess EXCEPT ![p] = sess'[p]]
  /\ last' = last \/ Issued(p, 1) \/ Issued(p, 2)
  /\ dest'[p] \in Names /\ dest' = [dest EXCEPT ![p] = dest'[p]]
  /\ pc'[p] \in Saving =>
       \/ dest'[p] = path[p]
       \/ Kind(dest'[p]) = "bak" /\ Len(dest'[p]) = Len(path[p]) + 1
  /\ doomed'[p] \in SUBSET Names /\ doomed' = [doomed EXCEPT ![p] = doomed'[p]]
  /\ \A a \in doomed'[p] : pc'[p] = "remove" /\ Kind(a) = "rot" /\ Len(a) > Len(dest'[p])

LEMMA StoreMove ==
  ASSUME StoreInv, NEW p \in Procs, Moves(p)
  PROVE  StoreInv'
<1>1. TypeOK /\ Times /\ Places /\ Removals
  BY DEF StoreInv
<1>2. last' \in [Procs -> Nat] /\ \A q \in Procs \ {p} : last'[q] = last[q]
  BY <1>1, IssueTypes DEF TypeOK, Moves
<1>3. TypeOK'
  <2>1. FilesOK'
    BY <1>1 DEF TypeOK, FilesOK, Moves
  <2>2. QED
    BY <1>1, <1>2, <2>1 DEF TypeOK, Moves
<1>4. Times'
  <2>1. last'[p] \in Nat
    BY <1>2
  <2>2. \A q \in Procs : last'[q] <= last'[p] \/ last'[q] = last[q]
    BY <1>2, <2>1
  <2>3. QED
    BY <1>1, <1>3, <2>1, <2>2, TimesBounded DEF Times, Moves
<1>5. Places'
  BY <1>1 DEF Places, TypeOK, Moves
<1>6. Removals'
  <2>1. SUFFICES ASSUME NEW q \in Procs, NEW a \in doomed'[q]
                 PROVE  pc'[q] = "remove" /\ Kind(a) = "rot" /\ Len(a) > Len(dest'[q])
    BY DEF Removals
  <2>2. CASE q = p
    BY <1>1, <2>1, <2>2 DEF TypeOK, Moves
  <2>3. CASE q # p
    BY <1>1, <2>1, <2>3 DEF TypeOK, Removals, Moves
  <2>4. QED
    BY <2>2, <2>3
<1>7. QED
  BY <1>3, <1>4, <1>5, <1>6 DEF StoreInv

LEMMA NothingDoomed ==
  ASSUME StoreInv, NEW p \in Procs, pc[p] # "remove"
  PROVE  doomed[p] = {} /\ doomed = [doomed EXCEPT ![p] = {}]
  BY DEF StoreInv, TypeOK, Removals

LEMMA StoreLoad ==
  ASSUME StoreInv, NEW p \in Procs, Load(p)
  PROVE  StoreInv'
<1>1. CASE Exit(p)
  BY <1>1, StoreExit DEF Load, StoreInv, TypeOK, bounds
<1>2. CASE ~Exit(p)
  <2>1. /\ sess' = [sess EXCEPT ![p] = sess'[p]] /\ sess'[p] \in Sessions
        /\ Issued(p, 1) /\ pc[p] = "load" /\ pc' = [pc EXCEPT ![p] = "ready"]
        /\ UNCHANGED <<files, wall, path, dest, doomed, overlap, split, current, clears, reused, clash>>
    BY <1>2, LoadReads
  <2>2. dest[p] \in Names /\ dest' = [dest EXCEPT ![p] = dest[p]] /\ doomed' = [doomed EXCEPT ![p] = {}]
    BY <2>1, NothingDoomed DEF StoreInv, TypeOK
  <2>3. "ready" \in Steps /\ "ready" \notin Saving
    BY DEF Steps, Saving
  <2>4. clears' \subseteq [by : Procs, sid : Nat, bak : Names, old : Sessions] /\ clash' \in BOOLEAN
    BY <2>1 DEF StoreInv, TypeOK
  <2>5. QED
    <3>1. Moves(p)
      BY <2>1, <2>2, <2>3, <2>4 DEF Moves, StoreInv, TypeOK
    <3>2. QED
      BY <3>1, StoreMove
<1>3. QED
  BY <1>1, <1>2

LEMMA StoreCommand ==
  ASSUME StoreInv, Conversations, NEW p \in Procs, Compact(p) \/ Talk(p) \/ Clear(p)
  PROVE  StoreInv'
<1>1. /\ pc[p] = "ready" /\ pc' = [pc EXCEPT ![p] = "stat"]
      /\ UNCHANGED <<files, wall, path, doomed, overlap, split, current, clears, reused, clash>>
  BY CommandStarts DEF Compact, Talk, Clear
<1>2. "stat" \in Steps
  BY DEF Steps
<1>3. clears' \subseteq [by : Procs, sid : Nat, bak : Names, old : Sessions] /\ clash' \in BOOLEAN
  BY <1>1 DEF StoreInv, TypeOK
<1>4. doomed' = [doomed EXCEPT ![p] = {}]
  BY <1>1, NothingDoomed
<1>5. path[p] \in Names /\ sess[p] \in Sessions /\ sess = [sess EXCEPT ![p] = sess[p]] /\ wall \in Nat
  BY DEF StoreInv, TypeOK
<1>6. CASE Compact(p) \/ Talk(p)
  <2>1. /\ dest' = [dest EXCEPT ![p] = path[p]]
        /\ sess' = [sess EXCEPT ![p] = sess'[p]] /\ sess'[p] \in Sessions
        /\ last' = last \/ Issued(p, 1)
    BY <1>6, CompactSaves, TalkSaves
  <2>2. QED
    <3>1. Moves(p)
      BY <1>1, <1>2, <1>3, <1>4, <1>5, <2>1 DEF Moves, StoreInv, TypeOK
    <3>2. QED
      BY <3>1, StoreMove
<1>7. CASE Clear(p)
  <2> DEFINE d == Append(path[p], <<"bak", wall>>)
  <2>1. dest' = [dest EXCEPT ![p] = d] /\ sess' = sess /\ last' = last
    BY <1>7 DEF Clear
  <2>2. d \in Names /\ Kind(d) = "bak" /\ Len(d) = Len(path[p]) + 1
    BY <1>5, NamesExtend
  <2> HIDE DEF d
  <2>3. QED
    <3>1. Moves(p)
      BY <1>1, <1>2, <1>3, <1>4, <1>5, <2>1, <2>2 DEF Moves, StoreInv, TypeOK
    <3>2. QED
      BY <3>1, StoreMove
<1>8. QED
  BY <1>6, <1>7

LEMMA StoreNewSession ==
  ASSUME StoreInv, NEW p \in Procs, NewSession(p)
  PROVE  StoreInv'
<1>1. /\ pc[p] = "saved" /\ Kind(dest[p]) = "bak" /\ pc' = [pc EXCEPT ![p] = "stat"]
      /\ dest' = [dest EXCEPT ![p] = path[p]]
      /\ sess' = [sess EXCEPT ![p] = sess'[p]] /\ sess'[p] \in Sessions
      /\ Issued(p, 2)
      /\ clears' = clears \cup {[by |-> p, sid |-> Now(p) + 1, bak |-> dest[p], old |-> sess[p]]}
      /\ UNCHANGED <<files, wall, path, doomed, overlap, split, current, reused, clash>>
  BY NewSessionSaves
<1>2. "stat" \in Steps
  BY DEF Steps
<1>3. Now(p) + 1 \in Nat /\ dest[p] \in Names /\ sess[p] \in Sessions /\ path[p] \in Names
  BY NowLater DEF StoreInv, TypeOK
<1>4. clears' \subseteq [by : Procs, sid : Nat, bak : Names, old : Sessions] /\ clash' \in BOOLEAN
  BY <1>1, <1>3 DEF StoreInv, TypeOK
<1>5. doomed' = [doomed EXCEPT ![p] = {}]
  BY <1>1, NothingDoomed
<1>6. QED
  <2>1. Moves(p)
    BY <1>1, <1>2, <1>3, <1>4, <1>5 DEF Moves, StoreInv, TypeOK
  <2>2. QED
    BY <2>1, StoreMove

LEMMA StatGoes ==
  ASSUME StoreInv, NEW p \in Procs, Stat(p)
  PROVE  \E step \in {"rotate", "write"} :
         /\ step = "rotate" => dest[p] \in DOMAIN files
         /\ pc[p] = "stat" /\ pc' = [pc EXCEPT ![p] = step]
         /\ UNCHANGED <<files, wall, last, path, sess, dest, doomed, overlap, split, current, clears, reused, clash>>
  BY DEF Stat, Goto, clock, bounds

LEMMA SavedGoes ==
  ASSUME StoreInv, NEW p \in Procs, Saved(p)
  PROVE  /\ pc[p] = "saved" /\ Kind(dest[p]) # "bak" /\ pc' = [pc EXCEPT ![p] = "ready"]
         /\ UNCHANGED <<files, wall, last, path, sess, dest, doomed, overlap, split, current, clears, reused, clash>>
  BY DEF Saved, Goto, clock, bounds

LEMMA StoreStat ==
  ASSUME StoreInv, NEW p \in Procs, Stat(p) \/ Saved(p)
  PROVE  StoreInv'
<1>1. PICK step \in {"rotate", "write", "ready"} :
        /\ step # "ready" => pc[p] = "stat"
        /\ pc[p] # "remove" /\ pc' = [pc EXCEPT ![p] = step]
        /\ UNCHANGED <<files, wall, last, path, sess, dest, doomed, overlap, split, current, clears, reused, clash>>
  BY StatGoes, SavedGoes
<1>2. /\ dest[p] \in Names /\ dest' = [dest EXCEPT ![p] = dest[p]]
      /\ sess[p] \in Sessions /\ sess' = [sess EXCEPT ![p] = sess[p]]
      /\ clears' \subseteq [by : Procs, sid : Nat, bak : Names, old : Sessions] /\ clash' \in BOOLEAN
  BY <1>1 DEF StoreInv, TypeOK
<1>3. doomed' = [doomed EXCEPT ![p] = {}]
  BY <1>1, NothingDoomed
<1>4. step \in Steps
  BY DEF Steps
<1>5. step \in Saving => \/ dest[p] = path[p]
                         \/ Kind(dest[p]) = "bak" /\ Len(dest[p]) = Len(path[p]) + 1
  BY <1>1 DEF StoreInv, Places, Saving
<1>6. QED
  <2>1. Moves(p)
    BY <1>1, <1>2, <1>3, <1>4, <1>5 DEF Moves, StoreInv, TypeOK
  <2>2. QED
    BY <2>1, StoreMove

LEMMA StoreList ==
  ASSUME StoreInv, NEW p \in Procs, ListArchives(p)
  PROVE  StoreInv'
<1>1. /\ pc[p] = "list"
      /\ doomed' = [doomed EXCEPT ![p] = doomed'[p]]
      /\ doomed'[p] \subseteq Archives(dest[p])
      /\ pc' = [pc EXCEPT ![p] = IF doomed'[p] = {} THEN "saved" ELSE "remove"]
      /\ UNCHANGED <<files, wall, last, path, sess, dest, overlap, split, current, clears, reused>>
  BY ListSpares
<1> DEFINE step == IF doomed'[p] = {} THEN "saved" ELSE "remove"
<1>2. /\ dest[p] \in Names /\ dest' = [dest EXCEPT ![p] = dest[p]]
      /\ sess[p] \in Sessions /\ sess' = [sess EXCEPT ![p] = sess[p]]
      /\ clears' \subseteq [by : Procs, sid : Nat, bak : Names, old : Sessions]
  BY <1>1 DEF StoreInv, TypeOK
<1>3. clash' \in BOOLEAN
  BY DEF StoreInv, TypeOK, ListArchives
<1>4. step \in Steps
  BY DEF Steps
<1>5. \/ dest[p] = path[p]
      \/ Kind(dest[p]) = "bak" /\ Len(dest[p]) = Len(path[p]) + 1
  BY <1>1 DEF StoreInv, Places, Saving
<1>6. \A a \in doomed'[p] : a \in Names /\ step = "remove" /\ Kind(a) = "rot" /\ Len(a) > Len(dest[p])
  BY <1>1, ArchiveNames, FilesTyped DEF StoreInv
<1> HIDE DEF step
<1>7. pc' = [pc EXCEPT ![p] = step] /\ doomed'[p] \in SUBSET Names
  BY <1>1, <1>6 DEF step
<1>8. QED
  <2>1. Moves(p)
    BY <1>1, <1>2, <1>3, <1>4, <1>5, <1>6, <1>7 DEF Moves, StoreInv, TypeOK
  <2>2. QED
    BY <2>1, StoreMove

LEMMA ReusedNames ==
  ASSUME StoreInv, NEW p \in Procs, Reuses(p)
  PROVE  /\ reused' \subseteq Names /\ reused \subseteq reused'
         /\ Kind(dest[p]) = "bak" /\ dest[p] \in DOMAIN files => dest[p] \in reused'
  BY DEF StoreInv, TypeOK, Reuses

LEMMA StoreRotate ==
  ASSUME StoreInv, NEW p \in Procs, Rotate(p)
  PROVE  StoreInv'
<1>1. reused' \subseteq Names
  BY ReusedNames DEF Rotate
<1>2. CASE dest[p] \notin DOMAIN files
  BY <1>1, <1>2, StoreExit DEF Rotate, bounds, StoreInv
<1>3. CASE dest[p] \in DOMAIN files
  <2> DEFINE a == Append(dest[p], <<"rot", Now(p)>>)
  <2>1. /\ a \in Names /\ FilesOK'
        /\ DOMAIN files' = (DOMAIN files \ {dest[p]}) \cup {a}
        /\ files'[a] = files[dest[p]]
        /\ \A m \in DOMAIN files \ {dest[p], a} : files'[m] = files[m]
        /\ pc[p] = "rotate" /\ pc' = [pc EXCEPT ![p] = "write"]
        /\ Issued(p, 1)
        /\ clash' = (clash \/ a \in DOMAIN files \cup AllDoomed)
        /\ UNCHANGED <<wall, path, sess, dest, doomed, overlap, split, current, clears>>
    BY <1>3, RotateMoves
  <2> HIDE DEF a
  <2>2. TypeOK /\ Times /\ Places /\ Removals
    BY DEF StoreInv
  <2>3. last' \in [Procs -> Nat] /\ \A q \in Procs \ {p} : last'[q] = last[q]
    BY <2>1, <2>2, IssueTypes
  <2>4. TypeOK'
    BY <1>1, <2>1, <2>2, <2>3 DEF TypeOK, Steps
  <2>5. \A n \in DOMAIN files' : \E m \in DOMAIN files : files'[n] = files[m]
    BY <1>3, <2>1
  <2>6. Times'
    <3>1. last'[p] \in Nat /\ \A q \in Procs : last'[q] <= last'[p] \/ last'[q] = last[q]
      BY <2>3
    <3>2. \A n \in DOMAIN files' : \E m \in DOMAIN files : files'[n].upd = files[m].upd
      BY <2>5
    <3>3. \A n \in DOMAIN files' : files'[n].mt <= wall'
      BY <2>1, <2>2, <2>5 DEF Times
    <3>4. QED
      BY <2>2, <2>4, <3>1, <3>2, <3>3, TimesBounded DEF Times
  <2>7. Places' /\ Removals'
    <3>1. Places'
      BY <2>1, <2>2 DEF Places, TypeOK, Saving
    <3>2. \A q \in Procs : \A b \in doomed[q] : pc'[q] = "remove"
      BY <2>1, <2>2 DEF Removals, TypeOK
    <3>3. QED
      BY <2>1, <2>2, <3>1, <3>2 DEF Removals
  <2>8. QED
    BY <2>4, <2>6, <2>7 DEF StoreInv
<1>4. QED
  BY <1>2, <1>3

LEMMA StoreWrite ==
  ASSUME StoreInv, NEW p \in Procs, Write(p)
  PROVE  StoreInv'
<1>1. reused' \subseteq Names
  BY ReusedNames DEF Write
<1>2. /\ FilesOK'
      /\ DOMAIN files' = DOMAIN files \cup {dest[p]}
      /\ files'[dest[p]].mt = wall /\ files'[dest[p]].upd = sess[p].upd
      /\ \A m \in DOMAIN files \ {dest[p]} : files'[m] = files[m]
      /\ pc[p] = "write" /\ pc' = [pc EXCEPT ![p] = "list"]
      /\ Issued(p, 1)
      /\ current' = IF Kind(dest[p]) = "bak" THEN current ELSE sess[p]
      /\ clash' = (clash \/ dest[p] \in AllDoomed)
      /\ UNCHANGED <<wall, path, sess, dest, doomed, overlap, split, clears>>
  BY WriteReplaces
<1>3. TypeOK /\ Times /\ Places /\ Removals
  BY DEF StoreInv
<1>4. last' \in [Procs -> Nat] /\ \A q \in Procs \ {p} : last'[q] = last[q]
  BY <1>2, <1>3, IssueTypes
<1>5. TypeOK'
  BY <1>1, <1>2, <1>3, <1>4 DEF TypeOK, Steps
<1>6. Times'
  <2> DEFINE c == sess[p].upd + last'[p]
  <2>1. sess[p].upd \in Nat /\ last'[p] \in Nat /\ wall \in Nat
    BY <1>3, <1>4 DEF TypeOK, Sessions
  <2>2. c \in Nat /\ sess[p].upd <= c /\ \A q \in Procs : last'[q] <= c \/ last'[q] = last[q]
    BY <2>1, <1>4
  <2>3. \A n \in DOMAIN files' :
          files'[n].upd <= c \/ \E m \in DOMAIN files : files'[n].upd = files[m].upd
    BY <1>2, <2>2
  <2>4. \A n \in DOMAIN files' : files'[n].mt <= wall'
    BY <1>2, <1>3, <2>1 DEF Times
  <2> HIDE DEF c
  <2>5. QED
    BY <1>3, <1>5, <2>2, <2>3, <2>4, TimesBounded DEF Times
<1>7. Places'
  BY <1>2, <1>3 DEF Places, TypeOK, Saving
<1>8. Removals'
  <2>1. \A q \in Procs : \A b \in doomed[q] : pc'[q] = "remove"
    BY <1>2, <1>3 DEF Removals, TypeOK
  <2>2. QED
    BY <1>2, <1>3, <2>1 DEF Removals
<1>9. QED
  BY <1>5, <1>6, <1>7, <1>8 DEF StoreInv

LEMMA StoreRemove ==
  ASSUME StoreInv, NEW p \in Procs, RemoveArchive(p)
  PROVE  StoreInv'
<1>1. CASE Exit(p)
  <2>1. doomed'[p] = {}
    BY <1>1 DEF Exit, StoreInv, TypeOK
  <2>2. UNCHANGED <<files, wall, overlap, split, current, clears, clash, reused>> /\ pc[p] # "off"
    <3>1. ~(pc' = [pc EXCEPT ![p] = "saved"]) /\ ~(pc' = [pc EXCEPT ![p] = "remove"])
      <4>1. pc'[p] = "off"
        BY <1>1 DEF Exit, Goto, StoreInv, TypeOK
      <4>2. QED
        BY <4>1 DEF StoreInv, TypeOK
    <3>2. QED
      BY <3>1 DEF RemoveArchive, Goto, bounds
  <2>3. QED
    BY <1>1, <2>2, StoreExit DEF StoreInv, TypeOK
<1>2. CASE ~Exit(p)
  <2>1. PICK a \in doomed[p] \cap DOMAIN files :
         /\ FilesOK'
         /\ DOMAIN files' = DOMAIN files \ {a}
         /\ \A m \in DOMAIN files \ {a} : files'[m] = files[m]
         /\ doomed' = [doomed EXCEPT ![p] = @ \ {a}]
         /\ pc[p] = "remove"
         /\ pc' = [pc EXCEPT ![p] = IF doomed[p] = {a} THEN "saved" ELSE "remove"]
         /\ UNCHANGED <<wall, last, path, sess, dest, overlap, split, current, clears, reused, clash>>
    BY <1>2, RemoveDrops
  <2>2. TypeOK /\ Times /\ Places /\ Removals
    BY DEF StoreInv
  <2>3. TypeOK'
    <3>1. doomed[p] \ {a} \in SUBSET Names
      BY <2>2 DEF TypeOK
    <3>2. doomed' \in [Procs -> SUBSET Names]
      BY <2>1, <2>2, <3>1 DEF TypeOK
    <3>3. pc' \in [Procs -> Steps]
      BY <2>1, <2>2 DEF TypeOK, Steps
    <3>4. QED
      BY <2>1, <2>2, <3>2, <3>3 DEF TypeOK
  <2>4. Times'
    BY <2>1, <2>2 DEF Times
  <2>5. Places'
    BY <2>1, <2>2 DEF Places, TypeOK, Saving
  <2>6. Removals'
    <3>1. SUFFICES ASSUME NEW q \in Procs, NEW b \in doomed'[q]
                   PROVE  pc'[q] = "remove" /\ Kind(b) = "rot" /\ Len(b) > Len(dest'[q])
      BY DEF Removals
    <3>2. b \in doomed[q] /\ dest' = dest
      BY <2>1, <2>2, <3>1 DEF TypeOK
    <3>3. CASE q = p
      <4>1. doomed[p] # {a}
        BY <2>1, <2>2, <3>1, <3>3 DEF TypeOK
      <4>2. QED
        BY <2>1, <2>2, <3>2, <3>3, <4>1 DEF TypeOK, Removals
    <3>4. CASE q # p
      BY <2>1, <2>2, <3>2, <3>4 DEF TypeOK, Removals
    <3>5. QED
      BY <3>3, <3>4
  <2>7. QED
    BY <2>3, <2>4, <2>5, <2>6 DEF StoreInv
<1>3. QED
  BY <1>1, <1>2

LEMMA StoreEnd ==
  ASSUME StoreInv, NEW p \in Procs, End(p)
  PROVE  StoreInv'
  BY StoreExit DEF End, StoreInv, TypeOK, bounds

LEMMA StoreStep ==
  ASSUME StoreInv, Conversations, [Next]_vars
  PROVE  StoreInv'
<1>1. CASE Tick
  BY <1>1, StoreTick
<1>2. ASSUME NEW p \in Procs,
             \/ Start(p) \/ Load(p) \/ Compact(p) \/ Clear(p) \/ NewSession(p) \/ Talk(p)
             \/ Stat(p) \/ Rotate(p) \/ Write(p) \/ ListArchives(p) \/ RemoveArchive(p)
             \/ Saved(p) \/ End(p)
      PROVE  StoreInv'
  BY <1>2, StoreStart, StoreLoad, StoreCommand, StoreNewSession, StoreStat, StoreRotate,
     StoreWrite, StoreList, StoreRemove, StoreEnd
<1>3. CASE UNCHANGED vars
  BY <1>3 DEF vars, clock, bounds, StoreInv, TypeOK, FilesOK, Times, Places, Removals
<1>4. QED
  BY <1>1, <1>2, <1>3 DEF Next

(* A process that ends, at its will or at its failure. *)
Leaves(p) ==
  /\ pc[p] # "off" /\ Exit(p)
  /\ UNCHANGED <<files, wall, overlap, split, current, clears, clash>>
  /\ reused \subseteq reused'

LEMMA LeavesEffect ==
  ASSUME StoreInv, NEW p \in Procs, Leaves(p)
  PROVE  /\ pc' = [pc EXCEPT ![p] = "off"] /\ pc'[p] = "off"
         /\ doomed'[p] = {} /\ sess'[p] = NoSession
         /\ \A q \in Procs \ {p} :
              /\ pc'[q] = pc[q] /\ doomed'[q] = doomed[q] /\ sess'[q] = sess[q]
              /\ path'[q] = path[q] /\ dest'[q] = dest[q] /\ last'[q] = last[q]
         /\ UNCHANGED <<files, wall, overlap, split, current, clears, clash>>
         /\ reused \subseteq reused'
  BY DEF Leaves, Exit, Goto, StoreInv, TypeOK

StepOf(p) ==
  \/ Start(p) \/ Leaves(p) \/ (Load(p) /\ ~Exit(p))
  \/ Compact(p) \/ Talk(p) \/ Clear(p) \/ NewSession(p) \/ Stat(p) \/ Saved(p)
  \/ (Rotate(p) /\ dest[p] \in DOMAIN files) \/ Write(p)
  \/ ListArchives(p) \/ (RemoveArchive(p) /\ ~Exit(p))

LEMMA StepCases ==
  ASSUME StoreInv, Next
  PROVE  Tick \/ \E p \in Procs : StepOf(p)
<1>1. ASSUME NEW p \in Procs, Load(p), Exit(p) PROVE Leaves(p)
  BY <1>1 DEF Load, Leaves, bounds
<1>2. ASSUME NEW p \in Procs, Rotate(p), dest[p] \notin DOMAIN files PROVE Leaves(p)
  BY <1>2, ReusedNames DEF Rotate, Leaves, bounds
<1>3. ASSUME NEW p \in Procs, RemoveArchive(p), Exit(p) PROVE Leaves(p)
  <2>1. pc'[p] = "off"
    BY <1>3 DEF Exit, Goto, StoreInv, TypeOK
  <2>2. ~(pc' = [pc EXCEPT ![p] = "saved"]) /\ ~(pc' = [pc EXCEPT ![p] = "remove"])
    BY <2>1 DEF StoreInv, TypeOK
  <2>3. QED
    BY <1>3, <2>2 DEF RemoveArchive, Goto, bounds, Leaves
<1>4. ASSUME NEW p \in Procs, End(p) PROVE Leaves(p)
  BY <1>4 DEF End, Leaves, bounds
<1>5. QED
  BY <1>1, <1>2, <1>3, <1>4 DEF Next, StepOf

-----------------------------------------------------------------------------
(* The conversations *)

LEMMA ConversationsInit ==
  ASSUME Init
  PROVE  Conversations
<1>1. PICK kinds \in Openings :
        LET s == [sid |-> 1, msgs |-> Opening(kinds), said |-> Len(kinds), upd |-> 1]
        IN files = [n \in {Main} |-> OnDisk(s, 1)]
  BY DEF Init
<1>2. DOMAIN files = {Main} /\ files[Main].msgs = Opening(kinds) /\ files[Main].said = Len(kinds)
  BY <1>1 DEF OnDisk
<1>3. \A n \in DOMAIN files : Whole(files[n])
  BY <1>2, OpeningWhole DEF Whole
<1>4. Whole(NoSession)
  BY EmptyWhole DEF Whole, NoSession
<1>5. \A p \in Procs : Whole(sess[p])
  BY <1>4 DEF Init
<1>6. QED
  BY <1>3, <1>5 DEF Conversations

LEMMA SessionWhole ==
  ASSUME NEW f \in Contents
  PROVE  Whole(Session(f)) <=> Whole(f)
  BY SessionForm DEF Whole

LEMMA ConversationsStep ==
  ASSUME StoreInv, Conversations, [Next]_vars
  PROVE  Conversations'
<1>1. \A n \in DOMAIN files : Whole(files[n])
  BY DEF Conversations
<1>2. \A q \in Procs : Whole(sess[q])
  BY DEF Conversations
<1>3. Whole(NoSession)
  BY EmptyWhole DEF Whole, NoSession
<1>4. CASE Tick \/ UNCHANGED vars
  BY <1>4 DEF Tick, vars, Conversations, Whole
<1>5. ASSUME NEW p \in Procs, StepOf(p)
      PROVE  Conversations'
  <2>1. sess \in [Procs -> Sessions] /\ \A n \in DOMAIN files : files[n] \in Contents
    BY FilesTyped DEF StoreInv, TypeOK
  <2>2. CASE Start(p) \/ Clear(p) \/ Stat(p) \/ Saved(p) \/ ListArchives(p)
    <3>1. files' = files /\ sess' = sess
      BY <2>2, StatGoes, SavedGoes, ListSpares DEF Start, Clear, Command
    <3>2. QED
      BY <3>1 DEF Conversations, Whole
  <2>3. CASE Leaves(p)
    <3>1. files' = files /\ \A q \in Procs : sess'[q] = sess[q] \/ sess'[q] = NoSession
      BY <2>3, LeavesEffect
    <3>2. QED
      BY <1>1, <1>2, <1>3, <3>1 DEF Conversations, Whole
  <2>4. CASE Load(p) /\ ~Exit(p)
    <3>1. /\ path[p] \in DOMAIN files /\ files' = files
          /\ sess' = [sess EXCEPT ![p] = sess'[p]] /\ sess'[p] = Session(files[path[p]])
      BY <2>4, LoadReads
    <3>2. Whole(sess'[p])
      BY <1>1, <2>1, <3>1, SessionWhole
    <3>3. \A q \in Procs : Whole(sess'[q])
      BY <1>2, <2>1, <3>1, <3>2
    <3>4. QED
      BY <1>1, <3>1, <3>3 DEF Conversations, Whole
  <2>5. CASE Compact(p) \/ Talk(p) \/ NewSession(p)
    <3>1. files' = files /\ sess' = [sess EXCEPT ![p] = sess'[p]] /\ Whole(sess'[p])
      BY <2>5, CompactSaves, TalkSaves, NewSessionSaves, CommandStarts DEF Compact, Talk
    <3>2. \A q \in Procs : Whole(sess'[q])
      BY <1>2, <2>1, <3>1
    <3>3. QED
      BY <1>1, <3>1, <3>2 DEF Conversations, Whole
  <2>6. CASE Rotate(p) /\ dest[p] \in DOMAIN files
    <3> DEFINE a == Append(dest[p], <<"rot", Now(p)>>)
    <3>1. /\ DOMAIN files' = (DOMAIN files \ {dest[p]}) \cup {a}
          /\ files'[a] = files[dest[p]] /\ sess' = sess
          /\ \A m \in DOMAIN files \ {dest[p], a} : files'[m] = files[m]
      BY <2>6, RotateMoves
    <3> HIDE DEF a
    <3>2. \A n \in DOMAIN files' : \E m \in DOMAIN files : files'[n] = files[m]
      BY <2>6, <3>1
    <3>3. QED
      BY <1>1, <1>2, <3>1, <3>2 DEF Conversations, Whole
  <2>7. CASE Write(p)
    <3>1. /\ sess' = sess /\ DOMAIN files' = DOMAIN files \cup {dest[p]}
          /\ files'[dest[p]] = OnDisk(sess[p], wall)
          /\ \A m \in DOMAIN files \ {dest[p]} : files'[m] = files[m]
      BY <2>7, WriteReplaces
    <3>2. Whole(files'[dest[p]])
      BY <1>2, <3>1 DEF Whole, OnDisk
    <3>3. \A n \in DOMAIN files' : Whole(files'[n])
      BY <1>1, <3>1, <3>2
    <3>4. QED
      BY <1>2, <3>1, <3>3 DEF Conversations, Whole
  <2>8. CASE RemoveArchive(p) /\ ~Exit(p)
    <3>1. sess' = sess /\ \A n \in DOMAIN files' : n \in DOMAIN files /\ files'[n] = files[n]
      BY <2>8, RemoveDrops
    <3>2. QED
      BY <1>1, <1>2, <3>1 DEF Conversations, Whole
  <2>9. QED
    BY <1>5, <2>2, <2>3, <2>4, <2>5, <2>6, <2>7, <2>8 DEF StepOf
<1>6. QED
  BY <1>4, <1>5, StepCases

-----------------------------------------------------------------------------
(* The backups *)

LEMMA BackupsStep ==
  ASSUME StoreInv, Conversations, Backups, [Next]_vars
  PROVE  Backups'
<1> DEFINE Holds(p) == pc[p] \in {"list", "remove", "saved"} /\ Kind(dest[p]) = "bak"
<1>1. /\ \A c \in clears : Kind(c.bak) = "bak" /\ Backed(c.bak, c.old)
      /\ \A p \in Procs : Holds(p) => Backed(dest[p], sess[p])
  BY DEF Backups
<1>2. SUFFICES /\ \A c \in clears' : Kind(c.bak) = "bak" /\ Backed(c.bak, c.old)'
               /\ \A p \in Procs : Holds(p)' => Backed(dest[p], sess[p])'
  BY DEF Backups
<1>3. TypeOK
  BY DEF StoreInv
<1>4. CASE Tick \/ UNCHANGED vars
  <2>1. UNCHANGED <<files, pc, dest, sess, clears, reused>>
    BY <1>4 DEF Tick, vars
  <2>2. QED
    BY <1>1, <2>1 DEF Backed, Session
<1>5. ASSUME NEW p \in Procs, StepOf(p)
      PROVE  /\ \A c \in clears' : Kind(c.bak) = "bak" /\ Backed(c.bak, c.old)'
             /\ \A q \in Procs : Holds(q)' => Backed(dest[q], sess[q])'
  <2>1. ASSUME reused \subseteq reused',
               NEW n, Kind(n) = "bak", NEW s, Backed(n, s),
               n \in DOMAIN files => n \in DOMAIN files' /\ files'[n] = files[n]
        PROVE  (n \in DOMAIN files' /\ Session(files'[n]) = s) \/ n \in reused'
    BY <2>1 DEF Backed
  <2>2. CASE /\ files' = files /\ reused \subseteq reused' /\ clears' = clears
             /\ \A q \in Procs \ {p} : pc'[q] = pc[q] /\ dest'[q] = dest[q] /\ sess'[q] = sess[q]
             /\ Holds(p)' => Holds(p) /\ dest'[p] = dest[p] /\ sess'[p] = sess[p]
    <3>1. \A n, s : Backed(n, s) => Backed(n, s)'
      BY <2>2 DEF Backed, Session
    <3>2. QED
      BY <1>1, <2>2, <3>1
  <2>3. CASE Start(p) \/ Stat(p) \/ Saved(p)
    <3>1. /\ files' = files /\ reused' = reused /\ clears' = clears /\ dest' = dest /\ sess' = sess
          /\ pc' = [pc EXCEPT ![p] = pc'[p]] /\ pc'[p] \in {"load", "rotate", "write", "ready"}
      BY <1>3, <2>3, StatGoes, SavedGoes DEF Start, Goto, TypeOK
    <3>2. QED
      BY <1>3, <2>2, <3>1 DEF TypeOK
  <2>4. CASE Leaves(p)
    BY <2>2, <2>4, LeavesEffect
  <2>5. CASE Load(p) /\ ~Exit(p)
    <3>1. /\ sess' = [sess EXCEPT ![p] = sess'[p]] /\ pc' = [pc EXCEPT ![p] = "ready"]
          /\ UNCHANGED <<files, dest, clears, reused>>
      BY <2>5, LoadReads
    <3>2. QED
      BY <1>3, <2>2, <3>1 DEF TypeOK
  <2>6. CASE Compact(p) \/ Talk(p) \/ Clear(p)
    <3>1. /\ pc' = [pc EXCEPT ![p] = "stat"] /\ UNCHANGED <<files, clears, reused>>
          /\ dest' = [dest EXCEPT ![p] = dest'[p]] /\ sess' = [sess EXCEPT ![p] = sess'[p]]
      BY <1>3, <2>6, CommandStarts, CompactSaves, TalkSaves DEF Compact, Talk, Clear, TypeOK
    <3>2. QED
      BY <1>3, <2>2, <3>1 DEF TypeOK
  <2>7. CASE NewSession(p)
    <3>1. /\ pc[p] = "saved" /\ Kind(dest[p]) = "bak" /\ pc' = [pc EXCEPT ![p] = "stat"]
          /\ dest' = [dest EXCEPT ![p] = path[p]] /\ sess' = [sess EXCEPT ![p] = sess'[p]]
          /\ clears' = clears \cup {[by |-> p, sid |-> Now(p) + 1, bak |-> dest[p], old |-> sess[p]]}
          /\ UNCHANGED <<files, reused>>
      BY <2>7, NewSessionSaves
    <3>2. \A n, s : Backed(n, s) => Backed(n, s)'
      BY <3>1 DEF Backed, Session
    <3>3. Kind(dest[p]) = "bak" /\ Backed(dest[p], sess[p])
      BY <1>1, <3>1
    <3>4. \A c \in clears' : Kind(c.bak) = "bak" /\ Backed(c.bak, c.old)'
      BY <1>1, <3>1, <3>2, <3>3
    <3>5. \A q \in Procs : Holds(q)' => Backed(dest[q], sess[q])'
      BY <1>1, <1>3, <3>1, <3>2 DEF TypeOK
    <3>6. QED
      BY <3>4, <3>5
  <2>8. CASE ListArchives(p)
    <3>1. /\ pc[p] = "list" /\ UNCHANGED <<files, dest, sess, clears, reused>>
          /\ \A q \in Procs \ {p} : pc'[q] = pc[q]
      BY <1>3, <2>8, ListSpares DEF TypeOK
    <3>2. QED
      BY <2>2, <3>1
  <2>9. CASE Rotate(p) /\ dest[p] \in DOMAIN files
    <3> DEFINE a == Append(dest[p], <<"rot", Now(p)>>)
    <3>1. /\ Kind(a) = "rot" /\ DOMAIN files' = (DOMAIN files \ {dest[p]}) \cup {a}
          /\ \A m \in DOMAIN files \ {dest[p], a} : files'[m] = files[m]
          /\ pc' = [pc EXCEPT ![p] = "write"] /\ UNCHANGED <<sess, dest, clears>>
      BY <2>9, RotateMoves
    <3> HIDE DEF a
    <3>2. reused \subseteq reused' /\ (Kind(dest[p]) = "bak" => dest[p] \in reused')
      BY <2>9, ReusedNames DEF Rotate
    <3>3. ASSUME NEW n, Kind(n) = "bak", NEW s, Backed(n, s)
          PROVE  (n \in DOMAIN files' /\ Session(files'[n]) = s) \/ n \in reused'
      <4>1. CASE n = dest[p]
        BY <3>2, <3>3, <4>1
      <4>2. CASE n # dest[p]
        BY <2>1, <3>1, <3>2, <3>3, <4>2
      <4>3. QED
        BY <4>1, <4>2
    <3>4. \A n, s : Kind(n) = "bak" /\ Backed(n, s) => Backed(n, s)'
      BY <3>3 DEF Backed, Session
    <3>5. QED
      BY <1>1, <1>3, <3>1, <3>4 DEF TypeOK
  <2>10. CASE Write(p)
    <3>1. /\ DOMAIN files' = DOMAIN files \cup {dest[p]}
          /\ Session(files'[dest[p]]) = sess[p]
          /\ \A m \in DOMAIN files \ {dest[p]} : files'[m] = files[m]
          /\ pc' = [pc EXCEPT ![p] = "list"] /\ UNCHANGED <<sess, dest, clears>>
      BY <2>10, WriteReplaces
    <3>2. /\ reused \subseteq reused'
          /\ Kind(dest[p]) = "bak" /\ dest[p] \in DOMAIN files => dest[p] \in reused'
      BY <2>10, ReusedNames DEF Write
    <3>3. ASSUME NEW n, Kind(n) = "bak", NEW s, Backed(n, s)
          PROVE  (n \in DOMAIN files' /\ Session(files'[n]) = s) \/ n \in reused'
      <4>1. CASE n = dest[p]
        BY <3>2, <3>3, <4>1 DEF Backed
      <4>2. CASE n # dest[p]
        BY <2>1, <3>1, <3>2, <3>3, <4>2
      <4>3. QED
        BY <4>1, <4>2
    <3>4. \A n, s : Kind(n) = "bak" /\ Backed(n, s) => Backed(n, s)'
      BY <3>3 DEF Backed, Session
    <3>5. Backed(dest[p], sess[p])'
      BY <3>1 DEF Backed, Session
    <3>6. \A c \in clears' : Kind(c.bak) = "bak" /\ Backed(c.bak, c.old)'
      BY <1>1, <3>1, <3>4
    <3>7. \A q \in Procs : Holds(q)' => Backed(dest[q], sess[q])'
      BY <1>1, <1>3, <3>1, <3>4, <3>5 DEF TypeOK
    <3>8. QED
      BY <3>6, <3>7
  <2>11. CASE RemoveArchive(p) /\ ~Exit(p)
    <3>1. PICK a \in doomed[p] \cap DOMAIN files :
            /\ DOMAIN files' = DOMAIN files \ {a}
            /\ \A m \in DOMAIN files \ {a} : files'[m] = files[m]
            /\ pc[p] = "remove"
            /\ pc' = [pc EXCEPT ![p] = IF doomed[p] = {a} THEN "saved" ELSE "remove"]
            /\ UNCHANGED <<sess, dest, clears, reused>>
      BY <2>11, RemoveDrops
    <3>2. Kind(a) = "rot"
      BY DEF StoreInv, Removals
    <3>3. ASSUME NEW n, Kind(n) = "bak", NEW s, Backed(n, s)
          PROVE  (n \in DOMAIN files' /\ Session(files'[n]) = s) \/ n \in reused'
      BY <2>1, <3>1, <3>2, <3>3
    <3>4. \A n, s : Kind(n) = "bak" /\ Backed(n, s) => Backed(n, s)'
      BY <3>3 DEF Backed, Session
    <3>5. \A q \in Procs : Holds(q)' => Holds(q)
      BY <1>3, <3>1 DEF TypeOK
    <3>6. QED
      BY <1>1, <3>1, <3>4, <3>5
  <2>12. QED
    BY <1>5, <2>3, <2>4, <2>5, <2>6, <2>7, <2>8, <2>9, <2>10, <2>11 DEF StepOf
<1>6. QED
  BY <1>4, <1>5, StepCases

-----------------------------------------------------------------------------
(* What several processes leave *)

LEMMA ManagedSame ==
  ASSUME files' = files
  PROVE  Managed' = Managed
  BY DEF Managed

(* Nothing happens to the files, and no archive is doomed anew. *)
LEMMA ToldStays ==
  ASSUME StoreInv, Told, files' = files, clash' = clash,
         \A q \in Procs : doomed'[q] \subseteq doomed[q]
  PROVE  Told'
<1>1. Managed' = Managed
  BY ManagedSame
<1>2. QED
  BY <1>1 DEF Told

LEMMA ToldStep ==
  ASSUME StoreInv, Conversations, Told, [Next]_vars
  PROVE  Told'
<1>1. CASE Tick \/ UNCHANGED vars
  BY <1>1, ToldStays DEF Tick, vars
<1>2. ASSUME NEW p \in Procs, StepOf(p) PROVE Told'
  <2> USE DEF StoreInv, TypeOK
  <2>1. CASE \/ Start(p) \/ Leaves(p) \/ (Load(p) /\ ~Exit(p)) \/ Compact(p) \/ Talk(p)
             \/ Clear(p) \/ NewSession(p) \/ Stat(p) \/ Saved(p)
    <3>1. /\ files' = files /\ clash' = clash
          /\ \A q \in Procs : doomed'[q] = doomed[q] \/ doomed'[q] = {}
      <4>1. CASE Start(p)
        BY <4>1 DEF Start
      <4>2. CASE Leaves(p)
        BY <4>2, LeavesEffect
      <4>3. CASE (Load(p) /\ ~Exit(p)) \/ Compact(p) \/ Talk(p) \/ Clear(p) \/ NewSession(p)
        BY <4>3, LoadReads, CommandStarts, NewSessionSaves DEF Compact, Talk, Clear
      <4>4. CASE Stat(p) \/ Saved(p)
        BY <4>4, StatGoes, SavedGoes
      <4>5. QED
        BY <2>1, <4>1, <4>2, <4>3, <4>4
    <3>2. QED
      BY <3>1, ToldStays
  <2> SUFFICES ASSUME ~clash'
               PROVE  /\ Managed' # {}
                      /\ \A q \in Procs : \A b \in doomed'[q] \cap DOMAIN files' :
                           \E n \in Managed' : files'[n].mt > files'[b].mt
    BY DEF Told
  <2>2. \A n \in DOMAIN files : files[n].mt \in Nat /\ n \in Names
    BY FilesTyped, SessionForm
  <2>3. CASE Rotate(p) /\ dest[p] \in DOMAIN files
    <3> DEFINE d == dest[p]
               a == Append(dest[p], <<"rot", Now(p)>>)
    <3>1. /\ Kind(a) = "rot" /\ a # d
          /\ DOMAIN files' = (DOMAIN files \ {d}) \cup {a}
          /\ files'[a] = files[d]
          /\ \A m \in DOMAIN files \ {d, a} : files'[m] = files[m]
          /\ clash' = (clash \/ a \in DOMAIN files \cup AllDoomed)
          /\ doomed' = doomed
      BY <2>3, RotateMoves
    <3> HIDE DEF a
    <3>2. ~clash /\ a \notin DOMAIN files /\ \A q \in Procs : a \notin doomed[q]
      BY <3>1 DEF AllDoomed
    <3>3. a \in Managed'
      BY <3>1 DEF Managed
    <3>4. ASSUME NEW q \in Procs, NEW b \in doomed'[q] \cap DOMAIN files'
          PROVE  \E n \in Managed' : files'[n].mt > files'[b].mt
      <4>1. b \in doomed[q] \cap DOMAIN files /\ b # d /\ b # a /\ files'[b] = files[b]
        BY <3>1, <3>2, <3>4
      <4>2. PICK n \in Managed : files[n].mt > files[b].mt
        BY <3>2, <4>1 DEF Told
      <4>3. CASE n = d
        BY <3>1, <3>3, <4>1, <4>2, <4>3
      <4>4. CASE n # d
        <5>1. n \in DOMAIN files \ {d, a} /\ Kind(n) \in {"main", "rot"}
          BY <3>2, <4>4 DEF Managed
        <5>2. n \in Managed' /\ files'[n] = files[n]
          BY <3>1, <5>1 DEF Managed
        <5>3. QED
          BY <4>1, <4>2, <5>2
      <4>5. QED
        BY <4>3, <4>4
    <3>5. QED
      BY <3>3, <3>4
  <2>4. CASE Write(p)
    <3>1. /\ DOMAIN files' = DOMAIN files \cup {dest[p]}
          /\ files'[dest[p]].mt = wall
          /\ \A m \in DOMAIN files \ {dest[p]} : files'[m] = files[m]
          /\ clash' = (clash \/ dest[p] \in AllDoomed)
          /\ doomed' = doomed
      BY <2>4, WriteReplaces
    <3>2. ~clash /\ \A q \in Procs : dest[p] \notin doomed[q]
      BY <3>1 DEF AllDoomed
    <3>3. Managed \subseteq Managed'
      BY <3>1 DEF Managed
    <3>4. \A n \in DOMAIN files : files[n].mt <= wall
      BY DEF Times
    <3>5. ASSUME NEW q \in Procs, NEW b \in doomed'[q] \cap DOMAIN files'
          PROVE  \E n \in Managed' : files'[n].mt > files'[b].mt
      <4>1. b \in doomed[q] \cap DOMAIN files /\ b # dest[p] /\ files'[b] = files[b]
        BY <3>1, <3>2, <3>5
      <4>2. PICK n \in Managed : files[n].mt > files[b].mt
        BY <3>2, <4>1 DEF Told
      <4>3. n \in DOMAIN files /\ n \in Managed'
        BY <3>3 DEF Managed
      <4>4. files'[n].mt >= files[n].mt /\ files'[n].mt \in Nat
        BY <2>2, <3>1, <3>4, <4>3
      <4>5. files'[n].mt > files'[b].mt
        BY <2>2, <4>1, <4>2, <4>3, <4>4
      <4>6. QED
        BY <4>3, <4>5
    <3>6. Managed # {}
      BY <3>2 DEF Told
    <3>7. QED
      BY <3>3, <3>5, <3>6
  <2>5. CASE ListArchives(p)
    <3>1. /\ doomed' = [doomed EXCEPT ![p] = doomed'[p]]
          /\ doomed'[p] \subseteq Archives(dest[p])
          /\ doomed'[p] # {} => \E n \in Archives(dest[p]) : n \notin doomed'[p]
          /\ \A o \in doomed'[p], n \in Archives(dest[p]) \ doomed'[p] :
               files[o].mt <= files[n].mt /\ files[o].mt # files[n].mt
          /\ ~clash /\ files' = files
      BY <2>5, ListSpares
    <3>2. Managed' = Managed /\ Managed # {}
      BY <3>1, ManagedSame DEF Told
    <3>3. ASSUME NEW q \in Procs, NEW b \in doomed'[q] \cap DOMAIN files
          PROVE  \E n \in Managed : files[n].mt > files[b].mt
      <4>1. CASE q = p
        <5>1. PICK n \in Archives(dest[p]) : n \notin doomed'[p]
          BY <3>1, <3>3, <4>1
        <5>2. files[b].mt <= files[n].mt /\ files[b].mt # files[n].mt /\ n \in Managed /\ n \in DOMAIN files
          BY <3>1, <3>3, <4>1, <5>1, ArchiveNames
        <5>3. QED
          BY <2>2, <5>2
      <4>2. CASE q # p
        BY <3>1, <3>3, <4>2 DEF Told
      <4>3. QED
        BY <4>1, <4>2
    <3>4. QED
      BY <3>1, <3>2, <3>3
  <2>6. CASE RemoveArchive(p) /\ ~Exit(p)
    <3>1. PICK a \in doomed[p] \cap DOMAIN files :
            /\ DOMAIN files' = DOMAIN files \ {a}
            /\ \A m \in DOMAIN files \ {a} : files'[m] = files[m]
            /\ doomed' = [doomed EXCEPT ![p] = @ \ {a}]
            /\ clash' = clash
      BY <2>6, RemoveDrops
    <3>2. \A q \in Procs : doomed'[q] \subseteq doomed[q]
      BY <3>1
    <3>3. \A n \in Managed \ {a} : n \in Managed' /\ files'[n] = files[n]
      BY <3>1 DEF Managed
    <3>4. PICK w \in Managed : files[w].mt > files[a].mt
      BY <3>1 DEF Told
    <3>5. w # a /\ w \in DOMAIN files
      BY <2>2, <3>1, <3>4 DEF Managed
    <3>6. ASSUME NEW q \in Procs, NEW b \in doomed'[q] \cap DOMAIN files'
          PROVE  \E n \in Managed' : files'[n].mt > files'[b].mt
      <4>1. b \in doomed[q] \cap DOMAIN files /\ b # a /\ files'[b] = files[b]
        BY <3>1, <3>2, <3>6
      <4>2. PICK n \in Managed : files[n].mt > files[b].mt
        BY <3>1, <4>1 DEF Told
      <4>3. CASE n = a
        <5>1. files[w].mt > files[b].mt
          BY <2>2, <3>1, <3>4, <3>5, <4>1, <4>2, <4>3
        <5>2. QED
          BY <3>3, <3>5, <4>1, <5>1
      <4>4. CASE n # a
        BY <3>3, <4>1, <4>2, <4>4
      <4>5. QED
        BY <4>3, <4>4
    <3>7. QED
      BY <3>3, <3>5, <3>6
  <2>7. QED
    BY <1>2, <2>1, <2>3, <2>4, <2>5, <2>6 DEF StepOf, Told
<1>3. QED
  BY <1>1, <1>2, StepCases

-----------------------------------------------------------------------------
(* What processes leave that run one after the other *)

LEMMA AliveStep ==
  ASSUME StoreInv, Alone, ~overlap', NEW p \in Procs, StepOf(p)
  PROVE  /\ ~overlap
         /\ Start(p) => Alive = {}
         /\ ~Start(p) => Alive = {p}
         /\ Leaves(p) => Alive' = {}
         /\ ~Leaves(p) => Alive' \subseteq {p}
<1> USE DEF StoreInv, TypeOK
<1>1. CASE Start(p)
  BY <1>1 DEF Start, Goto, Alive, Leaves
<1>2. CASE ~Start(p)
  <2>1. pc[p] # "off" /\ overlap' = overlap
        /\ pc' = [pc EXCEPT ![p] = pc'[p]]
    <3>1. CASE Leaves(p)
      BY <3>1, LeavesEffect DEF Leaves
    <3>2. CASE (Load(p) /\ ~Exit(p)) \/ Compact(p) \/ Talk(p) \/ Clear(p) \/ NewSession(p)
      BY <3>2, LoadReads, CommandStarts, NewSessionSaves DEF Compact, Talk, Clear
    <3>3. CASE Stat(p) \/ Saved(p) \/ ListArchives(p)
      BY <3>3, StatGoes, SavedGoes, ListSpares
    <3>4. CASE (Rotate(p) /\ dest[p] \in DOMAIN files) \/ Write(p)
      BY <3>4, RotateMoves, WriteReplaces
    <3>5. CASE RemoveArchive(p) /\ ~Exit(p)
      BY <3>5, RemoveDrops
    <3>6. QED
      BY <1>2, <3>1, <3>2, <3>3, <3>4, <3>5 DEF StepOf
  <2>2. p \in Alive /\ ~overlap
    BY <2>1 DEF Alive
  <2>3. \A q \in Alive : q = p
    BY <2>2 DEF Alone
  <2>4. \A q \in Alive' : q = p
    BY <2>1, <2>3 DEF Alive
  <2>5. Leaves(p) => p \notin Alive'
    BY LeavesEffect DEF Alive
  <2>6. QED
    BY <1>2, <2>2, <2>3, <2>4, <2>5
<1>3. QED
  BY <1>1, <1>2

(* The file a process continues is not the backup it saves to, and not an
   archive that it removes. *)
LEMMA PathKept ==
  ASSUME StoreInv, NEW p \in Procs, pc[p] \in Saving
  PROVE  /\ Kind(dest[p]) # "bak" => dest[p] = path[p]
         /\ Kind(dest[p]) = "bak" => dest[p] # path[p]
         /\ \A a \in doomed[p] : a # path[p]
         /\ \A t \in Nat : Append(dest[p], <<"rot", t>>) # path[p]
<1>1. path[p] \in Names /\ dest[p] \in Names /\ Kind(path[p]) \in {"main", "rot"}
  BY DEF StoreInv, TypeOK, Places
<1>2. \/ dest[p] = path[p]
      \/ Kind(dest[p]) = "bak" /\ Len(dest[p]) = Len(path[p]) + 1
  BY DEF StoreInv, Places
<1>3. Len(path[p]) \in Nat /\ Len(dest[p]) \in Nat /\ Len(dest[p]) >= Len(path[p])
  BY <1>1, <1>2, NameKinds
<1>4. \A a \in doomed[p] : Len(a) > Len(dest[p])
  BY DEF StoreInv, Removals
<1>5. \A t \in Nat : Len(Append(dest[p], <<"rot", t>>)) = Len(dest[p]) + 1
  BY <1>1, NamesExtend
<1>6. \A a \in doomed[p] : a # path[p]
  <2>1. SUFFICES ASSUME path[p] \in doomed[p] PROVE FALSE
    OBVIOUS
  <2>2. QED
    BY <2>1, <1>3, <1>4
<1>7. ASSUME NEW t \in Nat PROVE Append(dest[p], <<"rot", t>>) # path[p]
  <2>1. SUFFICES ASSUME Append(dest[p], <<"rot", t>>) = path[p] PROVE FALSE
    OBVIOUS
  <2>2. QED
    BY <2>1, <1>3, <1>5
<1>8. QED
  BY <1>1, <1>2, <1>6, <1>7

LEMMA AloneStep ==
  ASSUME StoreInv, Conversations, Alone, [Next]_vars
  PROVE  Alone'
<1>1. CASE Tick \/ UNCHANGED vars
  <2>1. UNCHANGED <<files, pc, path, dest, overlap>>
    BY <1>1 DEF Tick, vars, bounds
  <2>2. QED
    BY <2>1 DEF Alone, Alive, Managed, InPlace
<1>2. ASSUME NEW p \in Procs, StepOf(p) PROVE Alone'
  <2> USE DEF StoreInv, TypeOK
  <2>1. SUFFICES ASSUME ~overlap'
                 PROVE  /\ \A q, r \in Alive' : q = r
                        /\ Managed' # {}
                        /\ \A q \in Alive' : InPlace(q)'
    BY DEF Alone
  <2>2. /\ ~overlap
        /\ Start(p) => Alive = {}
        /\ ~Start(p) => Alive = {p}
        /\ Leaves(p) => Alive' = {}
        /\ ~Leaves(p) => Alive' \subseteq {p}
    BY <1>2, <2>1, AliveStep
  <2>3. Managed # {} /\ (~Start(p) => InPlace(p))
    BY <2>2 DEF Alone
  <2>4. SUFFICES Managed' # {} /\ (~Leaves(p) => InPlace(p)')
    BY <2>2
  <2>5. CASE Start(p)
    <3>1. files' = files /\ path'[p] \in DOMAIN files
      BY <2>5, MainName DEF Start, Latest, Managed
    <3>2. QED
      BY <2>3, <3>1, ManagedSame DEF InPlace
  <2>6. CASE Leaves(p)
    BY <2>3, <2>6, LeavesEffect, ManagedSame
  <2>7. CASE Load(p) /\ ~Exit(p)
    <3>1. path[p] \in DOMAIN files /\ UNCHANGED <<files, path>>
      BY <2>7, LoadReads
    <3>2. QED
      BY <2>3, <3>1, ManagedSame DEF InPlace
  <2>8. CASE Compact(p) \/ Talk(p) \/ Clear(p) \/ NewSession(p) \/ Stat(p) \/ Saved(p) \/ ListArchives(p)
    <3>1. pc[p] # "write" /\ UNCHANGED <<files, path>> /\ ~Start(p)
      <4>1. CASE Compact(p) \/ Talk(p) \/ Clear(p) \/ NewSession(p)
        BY <4>1, CommandStarts, NewSessionSaves DEF Compact, Talk, Clear, Start
      <4>2. CASE Stat(p) \/ Saved(p) \/ ListArchives(p)
        BY <4>2, StatGoes, SavedGoes, ListSpares DEF Start
      <4>3. QED
        BY <2>8, <4>1, <4>2
    <3>2. path'[p] \in DOMAIN files'
      BY <2>3, <3>1 DEF InPlace
    <3>3. QED
      BY <2>3, <3>1, <3>2, ManagedSame DEF InPlace
  <2>9. CASE Rotate(p) /\ dest[p] \in DOMAIN files
    <3> DEFINE a == Append(dest[p], <<"rot", Now(p)>>)
    <3>1. /\ Kind(a) = "rot" /\ pc[p] = "rotate"
          /\ DOMAIN files' = (DOMAIN files \ {dest[p]}) \cup {a}
          /\ pc' = [pc EXCEPT ![p] = "write"] /\ UNCHANGED <<path, dest>>
      BY <2>9, RotateMoves
    <3> HIDE DEF a
    <3>2. a \in Managed'
      BY <3>1 DEF Managed
    <3>3. path[p] \in DOMAIN files
      BY <2>3, <3>1 DEF InPlace, Start
    <3>4. QED
      BY <3>1, <3>2, <3>3 DEF InPlace
  <2>10. CASE Write(p)
    <3>1. /\ DOMAIN files' = DOMAIN files \cup {dest[p]} /\ pc[p] = "write"
          /\ UNCHANGED <<path, dest>>
      BY <2>10, WriteReplaces
    <3>2. Managed \subseteq Managed'
      BY <3>1 DEF Managed
    <3>3. path[p] \in DOMAIN files'
      BY <2>3, <3>1 DEF InPlace, Start
    <3>4. QED
      BY <2>3, <3>1, <3>2, <3>3 DEF InPlace
  <2>11. CASE RemoveArchive(p) /\ ~Exit(p)
    <3>1. PICK a \in doomed[p] \cap DOMAIN files :
            /\ DOMAIN files' = DOMAIN files \ {a}
            /\ pc[p] = "remove" /\ UNCHANGED <<path, dest>>
      BY <2>11, RemoveDrops
    <3>2. path[p] \in DOMAIN files /\ path[p] # a
      BY <2>3, <3>1, PathKept DEF InPlace, Start, Saving
    <3>3. path[p] \in DOMAIN files' /\ Kind(path[p]) \in {"main", "rot"}
      BY <3>1, <3>2 DEF Places
    <3>4. path[p] \in Managed'
      BY <3>3 DEF Managed
    <3>5. QED
      BY <3>1, <3>3, <3>4 DEF InPlace
  <2>12. QED
    BY <1>2, <2>5, <2>6, <2>7, <2>8, <2>9, <2>10, <2>11 DEF StepOf
<1>3. QED
  BY <1>1, <1>2, StepCases

LEMMA PastKept ==
  ASSUME TypeOK, TypeOK', NEW p \in Procs, NEW u \in Nat, Past(p, u),
         wall' >= wall, last'[p] >= last[p]
  PROVE  wall' > u \/ last'[p] >= u
  BY DEF Past, TypeOK

LEMMA NowPast ==
  ASSUME TypeOK, NEW p \in Procs, NEW u \in Nat, Past(p, u)
  PROVE  Now(p) > u
  BY NowLater DEF Past, TypeOK

LEMMA FoundStays ==
  ASSUME FoundNewest, files' = files, current' = current
  PROVE  FoundNewest'
<1>1. Managed' = Managed
  BY ManagedSame
<1>2. QED
  BY <1>1 DEF FoundNewest, Session

(* What latest finds is the current session. *)
LEMMA LatestNewest ==
  ASSUME StoreInv, FoundNewest, NEW n \in Latest
  PROVE  n \in DOMAIN files /\ Session(files[n]) = current
<1>1. PICK w \in Managed : Session(files[w]) = current
  BY DEF FoundNewest
<1>2. n \in DOMAIN files /\ w \in DOMAIN files
  BY DEF Latest, Managed
<1>3. files[n] \in Contents /\ files[w] \in Contents
  BY <1>2, FilesTyped DEF StoreInv
<1>4. files[n].upd \in Nat /\ files[w].upd = current.upd /\ files[w].upd \in Nat
  BY <1>1, <1>3, SessionForm
<1>5. files[n].upd >= files[w].upd
  BY <1>1, <1>4 DEF Latest
<1>6. files[n].upd <= current.upd
  BY <1>2 DEF FoundNewest
<1>7. files[n].upd = current.upd
  BY <1>4, <1>5, <1>6
<1>8. QED
  BY <1>2, <1>7 DEF FoundNewest

LEMMA NewestStart ==
  ASSUME StoreInv, FoundNewest, NEW p \in Procs, Start(p), ~split', Alive = {}
  PROVE  FoundNewest' /\ Abreast(p)'
<1> USE DEF StoreInv, TypeOK
<1>1. PICK n \in Latest \cup ({Main} \cap DOMAIN files) :
        /\ path' = [path EXCEPT ![p] = n]
        /\ split' = (split \/ (n # Main /\ Main \in DOMAIN files))
  BY DEF Start
<1>2. UNCHANGED <<files, current>> /\ pc'[p] = "load" /\ path'[p] = n
  BY <1>1 DEF Start, Goto
<1>3. Session(files[n]) = current
  BY <1>1, LatestNewest DEF FoundNewest
<1>4. n # Main => Main \notin DOMAIN files
  BY <1>1
<1>5. wall' > current.upd
  <2>1. PICK w \in DOMAIN files : Session(files[w]) = current
    BY DEF FoundNewest, Managed
  <2>2. files[w].upd = current.upd
    BY <2>1, FilesTyped, SessionForm
  <2>3. QED
    BY <2>1, <2>2, ClockAtStart
<1>6. FoundNewest'
  BY <1>2, FoundStays
<1>7. QED
  BY <1>2, <1>3, <1>4, <1>5, <1>6 DEF Abreast, Past, Session, Saving

(* The steps of a running process that leave the files alone. *)
LEMMA NewestQuiet ==
  ASSUME StoreInv, StoreInv', FoundNewest, NEW p \in Procs, Abreast(p), pc[p] # "off",
         UNCHANGED <<files, current, wall, path>>,
         last'[p] >= last[p],
         pc'[p] # "load",
         \/ sess'[p] = current /\ pc'[p] # "off"
         \/ sess'[p] = sess[p] /\ pc[p] \notin {"load", "ready", "list", "remove", "saved"}
            /\ pc'[p] \in {"rotate", "write"} /\ dest'[p] = dest[p] /\ pc[p] \in Saving
         \/ sess'[p].upd = Now(p) /\ last'[p] >= Now(p) /\ pc'[p] = "stat"
            /\ Kind(dest'[p]) # "bak"
  PROVE  FoundNewest' /\ Abreast(p)'
<1>1. TypeOK /\ TypeOK'
  BY DEF StoreInv
<1>2. current.upd \in Nat /\ sess[p].upd \in Nat /\ Now(p) \in Nat /\ last[p] \in Nat /\ last'[p] \in Nat
  BY <1>1, NowLater DEF TypeOK, Sessions
<1>3. FoundNewest'
  BY FoundStays
<1>4. (path[p] \in DOMAIN files => Session(files[path[p]]) = current)'
      /\ (path[p] # Main => Main \notin DOMAIN files)'
  BY DEF Abreast, Session
<1>5. wall' >= wall
  BY <1>1 DEF TypeOK
<1>6. wall' > current.upd \/ last'[p] >= current.upd
  BY <1>1, <1>2, <1>5, PastKept DEF Abreast
<1>7. Past(p, current.upd)'
  BY <1>6 DEF Past
<1> DEFINE Ahead == Past(p, sess[p].upd) /\ (sess[p] = current \/ sess[p].upd > current.upd)
           Same == sess[p] = current
           Settled == pc[p] \in {"ready", "list", "remove", "saved"}
           BacksUp == pc[p] \in Saving /\ Kind(dest[p]) = "bak"
<1>12. SUFFICES Ahead' /\ (Settled' \/ BacksUp' => Same')
  BY <1>3, <1>4, <1>7 DEF Abreast
<1>8. CASE sess'[p] = current /\ pc'[p] # "off"
  BY <1>6, <1>8 DEF Past
<1>9. CASE sess'[p] = sess[p] /\ pc[p] \notin {"load", "ready", "list", "remove", "saved"}
            /\ pc'[p] \in {"rotate", "write"} /\ dest'[p] = dest[p] /\ pc[p] \in Saving
  <2>1. Past(p, sess[p].upd) /\ (sess[p] = current \/ sess[p].upd > current.upd)
    BY <1>9 DEF Abreast
  <2>2. wall' > sess[p].upd \/ last'[p] >= sess[p].upd
    BY <2>1, <1>1, <1>2, <1>5, PastKept
  <2>3. Kind(dest[p]) = "bak" => sess[p] = current
    BY <1>9 DEF Abreast
  <2>4. QED
    BY <2>1, <2>2, <2>3, <1>9 DEF Past
<1>10. CASE sess'[p].upd = Now(p) /\ last'[p] >= Now(p) /\ pc'[p] = "stat"
            /\ Kind(dest'[p]) # "bak"
  <2>1. Now(p) > current.upd
    BY <1>1, <1>2, NowPast DEF Abreast
  <2>2. last'[p] >= sess'[p].upd /\ sess'[p].upd > current'.upd
    BY <1>10, <2>1
  <2>3. QED
    BY <2>2, <1>10 DEF Past
<1>11. QED
  BY <1>8, <1>9, <1>10

(* The archive holds what the file held. *)
LEMMA NewestRotate ==
  ASSUME StoreInv, StoreInv', FoundNewest, NEW p \in Procs, Abreast(p), InPlace(p),
         Rotate(p), dest[p] \in DOMAIN files
  PROVE  FoundNewest' /\ Abreast(p)'
<1> DEFINE d == dest[p]
           a == Append(dest[p], <<"rot", Now(p)>>)
<1>1. TypeOK /\ TypeOK'
  BY DEF StoreInv
<1>2. /\ Kind(a) = "rot" /\ a # Main /\ a # d
      /\ DOMAIN files' = (DOMAIN files \ {d}) \cup {a}
      /\ files'[a] = files[d]
      /\ \A m \in DOMAIN files \ {d, a} : files'[m] = files[m]
      /\ pc[p] = "rotate" /\ pc' = [pc EXCEPT ![p] = "write"]
      /\ Issued(p, 1)
      /\ UNCHANGED <<wall, path, sess, dest, current>>
  BY RotateMoves
<1>3. pc'[p] = "write" /\ pc[p] \in Saving
  BY <1>1, <1>2 DEF TypeOK, Saving
<1>4. a # path[p] /\ (Kind(d) # "bak" => d = path[p]) /\ (Kind(d) = "bak" => d # path[p])
  BY <1>1, <1>3, PathKept, NowLater
<1>5. path[p] \in DOMAIN files /\ Session(files[path[p]]) = current
  BY <1>2 DEF InPlace, Abreast
<1> HIDE DEF a
<1>6. \A n \in DOMAIN files' : \E m \in DOMAIN files : files'[n] = files[m]
  BY <1>2
<1>7. \A n \in DOMAIN files' :
        /\ files'[n].upd <= current.upd
        /\ files'[n].upd = current.upd => Session(files'[n]) = current
  BY <1>6 DEF FoundNewest
<1>8. Main \in DOMAIN files' => Session(files'[Main]) = current
  BY <1>2 DEF FoundNewest
<1>9. \E n \in Managed' : Session(files'[n]) = current
  <2>1. CASE d = path[p]
    <3>1. a \in Managed'
      BY <1>2 DEF Managed
    <3>2. Session(files'[a]) = current
      BY <2>1, <1>2, <1>5
    <3>3. QED
      BY <3>1, <3>2
  <2>2. CASE d # path[p]
    <3>1. path[p] \in DOMAIN files' /\ files'[path[p]] = files[path[p]]
      BY <2>2, <1>2, <1>4, <1>5
    <3>2. path[p] \in Managed'
      BY <3>1 DEF Managed, StoreInv, Places
    <3>3. QED
      BY <3>1, <3>2, <1>5
  <2>3. QED
    BY <2>1, <2>2
<1>10. FoundNewest'
  BY <1>2, <1>7, <1>8, <1>9 DEF FoundNewest, Session
<1>11. path[p] \in DOMAIN files' => Session(files'[path[p]]) = current
  BY <1>2, <1>4, <1>5
<1>12. path[p] # Main => Main \notin DOMAIN files'
  BY <1>2 DEF Abreast
<1>13. /\ Past(p, current.upd) /\ Past(p, sess[p].upd)
       /\ sess[p] = current \/ sess[p].upd > current.upd
       /\ Kind(dest[p]) = "bak" => sess[p] = current
  BY <1>2, <1>3 DEF Abreast
<1>14. current.upd \in Nat /\ sess[p].upd \in Nat /\ last'[p] >= last[p] /\ wall' >= wall
  <2>1. current.upd \in Nat /\ sess[p].upd \in Nat /\ wall \in Nat /\ last[p] \in Nat
    BY <1>1 DEF TypeOK, Sessions
  <2>2. last'[p] >= Now(p) /\ last'[p] \in Nat
    BY <1>1, <1>2, IssueTypes
  <2>3. QED
    BY <2>1, <2>2, <1>1, <1>2, NowLater
<1>15. /\ wall' > current.upd \/ last'[p] >= current.upd
       /\ wall' > sess[p].upd \/ last'[p] >= sess[p].upd
  BY <1>1, <1>13, <1>14, PastKept
<1>16. Past(p, current.upd)' /\ Past(p, sess[p].upd)'
  BY <1>2, <1>15 DEF Past
<1>17. (path[p] \in DOMAIN files => Session(files[path[p]]) = current)'
  BY <1>2, <1>11 DEF Session
<1>18. (path[p] # Main => Main \notin DOMAIN files)'
  BY <1>2, <1>12
<1>19. /\ (sess[p] = current \/ sess[p].upd > current.upd)'
       /\ (Kind(dest[p]) = "bak" => sess[p] = current)'
  BY <1>2, <1>13
<1>20. Abreast(p)'
  BY <1>3, <1>16, <1>17, <1>18, <1>19 DEF Abreast
<1>21. QED
  BY <1>10, <1>20

LEMMA NewestWrite ==
  ASSUME StoreInv, StoreInv', FoundNewest, NEW p \in Procs, Abreast(p), InPlace(p),
         Write(p)
  PROVE  FoundNewest' /\ Abreast(p)'
<1> DEFINE d == dest[p]
           s == sess[p]
<1>1. TypeOK /\ TypeOK'
  BY DEF StoreInv
<1>2. /\ DOMAIN files' = DOMAIN files \cup {d}
      /\ Session(files'[d]) = s /\ files'[d].upd = s.upd
      /\ \A m \in DOMAIN files \ {d} : files'[m] = files[m]
      /\ pc[p] = "write" /\ pc' = [pc EXCEPT ![p] = "list"]
      /\ Issued(p, 1)
      /\ current' = IF Kind(d) = "bak" THEN current ELSE s
      /\ UNCHANGED <<wall, path, sess, dest>>
  BY WriteReplaces
<1>3. pc'[p] = "list" /\ pc[p] \in Saving
  BY <1>1, <1>2 DEF TypeOK, Saving
<1>4. (Kind(d) # "bak" => d = path[p]) /\ (Kind(d) = "bak" => d # path[p])
  BY <1>3, PathKept
<1>5. /\ path[p] \in DOMAIN files => Session(files[path[p]]) = current
      /\ path[p] # Main => Main \notin DOMAIN files
      /\ Past(p, s.upd)
      /\ s = current \/ s.upd > current.upd
      /\ Kind(d) = "bak" => s = current
  BY <1>2, <1>3 DEF Abreast
<1>6. current' = s
  BY <1>2, <1>5
<1>7. /\ current.upd \in Nat /\ s.upd \in Nat
      /\ \A n \in DOMAIN files : files[n].upd \in Nat
  BY <1>1, FilesTyped, SessionForm DEF TypeOK, Sessions
<1>8. s.upd >= current.upd
  BY <1>5, <1>7
<1>9. ASSUME NEW n \in DOMAIN files'
      PROVE  files'[n].upd <= s.upd /\ (files'[n].upd = s.upd => Session(files'[n]) = s)
  <2>1. CASE n = d
    BY <2>1, <1>2, <1>7
  <2>2. CASE n # d
    <3>1. n \in DOMAIN files /\ files'[n] = files[n]
      BY <2>2, <1>2, <1>9
    <3>2. /\ files[n].upd <= current.upd
          /\ files[n].upd = current.upd => Session(files[n]) = current
      BY <3>1 DEF FoundNewest
    <3>3. files[n].upd <= s.upd
      BY <3>1, <3>2, <1>7, <1>8
    <3>4. files[n].upd = s.upd => s = current
      BY <3>1, <3>2, <1>5, <1>7
    <3>5. QED
      BY <3>1, <3>2, <3>3, <3>4
  <2>3. QED
    BY <2>1, <2>2
<1>10. path[p] \in DOMAIN files' /\ Session(files'[path[p]]) = s
  <2>1. CASE Kind(d) # "bak"
    BY <2>1, <1>2, <1>4
  <2>2. CASE Kind(d) = "bak"
    BY <2>2, <1>2, <1>4, <1>5 DEF InPlace
  <2>3. QED
    BY <2>1, <2>2
<1>11. path[p] # Main => Main \notin DOMAIN files'
  BY <1>2, <1>4, <1>5, MainName
<1>12. Main \in DOMAIN files' => Session(files'[Main]) = s
  BY <1>10, <1>11
<1>13. path[p] \in Managed'
  BY <1>10 DEF Managed, StoreInv, Places
<1>14. FoundNewest'
  <2>1. \A n \in DOMAIN files' :
          /\ files'[n].upd <= current'.upd
          /\ files'[n].upd = current'.upd => Session(files'[n]) = current'
    BY <1>6, <1>9
  <2>2. \E n \in Managed' : Session(files'[n]) = current'
    BY <1>6, <1>10, <1>13
  <2>3. QED
    BY <2>1, <2>2, <1>6, <1>12 DEF FoundNewest, Session
<1>15. wall' > s.upd \/ last'[p] >= s.upd
  <2>1. wall \in Nat /\ last[p] \in Nat /\ last'[p] \in Nat /\ last'[p] >= Now(p)
    BY <1>1, <1>2, IssueTypes DEF TypeOK
  <2>2. last'[p] >= last[p] /\ wall' >= wall
    BY <2>1, <1>1, <1>2, NowLater
  <2>3. QED
    BY <2>2, <1>1, <1>5, <1>7, PastKept
<1>16. Past(p, current.upd)' /\ Past(p, sess[p].upd)'
  BY <1>2, <1>6, <1>15 DEF Past
<1>17. (path[p] \in DOMAIN files => Session(files[path[p]]) = current)'
  BY <1>2, <1>6, <1>10 DEF Session
<1>18. (path[p] # Main => Main \notin DOMAIN files)'
  BY <1>2, <1>11
<1>19. (sess[p] = current)'
  BY <1>2, <1>6
<1>20. Abreast(p)'
  BY <1>16, <1>17, <1>18, <1>19 DEF Abreast
<1>21. QED
  BY <1>14, <1>20

LEMMA NewestRemove ==
  ASSUME StoreInv, StoreInv', FoundNewest, NEW p \in Procs, Abreast(p), InPlace(p),
         RemoveArchive(p), ~Exit(p)
  PROVE  FoundNewest' /\ Abreast(p)'
<1>1. TypeOK /\ TypeOK'
  BY DEF StoreInv
<1>2. PICK a \in doomed[p] \cap DOMAIN files :
        /\ DOMAIN files' = DOMAIN files \ {a}
        /\ \A m \in DOMAIN files \ {a} : files'[m] = files[m]
        /\ pc[p] = "remove"
        /\ pc' = [pc EXCEPT ![p] = IF doomed[p] = {a} THEN "saved" ELSE "remove"]
        /\ UNCHANGED <<wall, last, path, sess, dest, current>>
  BY RemoveDrops
<1>3. pc[p] \in Saving /\ pc'[p] \in {"saved", "remove"}
  BY <1>1, <1>2 DEF TypeOK, Saving
<1>4. path[p] \in DOMAIN files /\ Session(files[path[p]]) = current /\ path[p] # a
  BY <1>2, <1>3, PathKept DEF InPlace, Abreast
<1>5. path[p] \in DOMAIN files' /\ files'[path[p]] = files[path[p]]
  BY <1>2, <1>4
<1>6. path[p] \in Managed'
  BY <1>5 DEF Managed, StoreInv, Places
<1>7. FoundNewest'
  <2>1. \A n \in DOMAIN files' :
          /\ files'[n].upd <= current.upd
          /\ files'[n].upd = current.upd => Session(files'[n]) = current
    BY <1>2 DEF FoundNewest
  <2>2. Main \in DOMAIN files' => Session(files'[Main]) = current
    BY <1>2 DEF FoundNewest
  <2>3. \E n \in Managed' : Session(files'[n]) = current
    BY <1>4, <1>5, <1>6
  <2>4. QED
    BY <2>1, <2>2, <2>3, <1>2 DEF FoundNewest, Session
<1>8. /\ Past(p, current.upd) /\ Past(p, sess[p].upd) /\ sess[p] = current
      /\ path[p] # Main => Main \notin DOMAIN files
  BY <1>2 DEF Abreast
<1>9. Past(p, current.upd)' /\ Past(p, sess[p].upd)'
  BY <1>2, <1>8 DEF Past
<1>10. (path[p] \in DOMAIN files => Session(files[path[p]]) = current)'
  BY <1>2, <1>4, <1>5 DEF Session
<1>11. (path[p] # Main => Main \notin DOMAIN files)' /\ (sess[p] = current)'
  BY <1>2, <1>8
<1>12. Abreast(p)'
  BY <1>9, <1>10, <1>11 DEF Abreast
<1>13. QED
  BY <1>7, <1>12

LEMMA NewestStep ==
  ASSUME StoreInv, StoreInv', Conversations, Alone, Newest, [Next]_vars
  PROVE  Newest'
<1> SUFFICES ASSUME ~overlap', ~split'
             PROVE  FoundNewest' /\ \A q \in Alive' : Abreast(q)'
  BY DEF Newest
<1>1. TypeOK /\ TypeOK'
  BY DEF StoreInv
<1>2. CASE Tick \/ UNCHANGED vars
  <2>1. UNCHANGED <<files, pc, path, dest, sess, last, current, overlap, split>>
    BY <1>2 DEF Tick, vars, bounds, clock
  <2>2. wall' >= wall
    BY <1>1, <1>2, ClockAtTick DEF vars, clock, StoreInv, TypeOK
  <2>3. FoundNewest /\ \A q \in Alive : Abreast(q)
    BY <2>1 DEF Newest
  <2>4. FoundNewest'
    BY <2>1, <2>3, FoundStays
  <2>5. ASSUME NEW q \in Procs, NEW u \in Nat, Past(q, u)
        PROVE  wall' > u \/ last'[q] >= u
    <3>1. last'[q] >= last[q]
      BY <1>1, <2>1 DEF TypeOK
    <3>2. QED
      BY <1>1, <2>2, <2>5, <3>1, PastKept
  <2>6. ASSUME NEW q \in Alive' PROVE Abreast(q)'
    <3>1. q \in Alive /\ q \in Procs /\ Abreast(q)
      BY <2>1, <2>3, <2>6 DEF Alive
    <3>2. current.upd \in Nat /\ sess[q].upd \in Nat
      BY <1>1, <3>1 DEF TypeOK, Sessions
    <3>3. Past(q, current.upd) => Past(q, current.upd)'
      BY <2>1, <2>5, <3>1, <3>2 DEF Past
    <3>4. Past(q, sess[q].upd) => Past(q, sess[q].upd)'
      BY <2>1, <2>5, <3>1, <3>2 DEF Past
    <3>5. QED
      BY <2>1, <3>1, <3>3, <3>4 DEF Abreast, Session
  <2>7. QED
    BY <2>4, <2>6
<1>3. ASSUME NEW p \in Procs, StepOf(p)
      PROVE  FoundNewest' /\ \A q \in Alive' : Abreast(q)'
  <2>1. /\ ~overlap
        /\ Start(p) => Alive = {}
        /\ ~Start(p) => Alive = {p}
        /\ Leaves(p) => Alive' = {}
        /\ ~Leaves(p) => Alive' \subseteq {p}
    BY <1>3, AliveStep
  <2>2. CASE Start(p)
    <3>1. ~split
      BY <2>2 DEF Start
    <3>2. FoundNewest
      BY <2>1, <3>1 DEF Newest
    <3>3. FoundNewest' /\ Abreast(p)'
      BY <2>1, <2>2, <3>2, NewestStart
    <3>4. ~Leaves(p)
      BY <2>2 DEF Start, Leaves
    <3>5. QED
      BY <2>1, <3>3, <3>4
  <2>3. CASE Leaves(p)
    <3>1. UNCHANGED <<files, current, split>>
      BY <2>3, LeavesEffect
    <3>2. FoundNewest'
      BY <2>1, <3>1, FoundStays DEF Newest
    <3>3. QED
      BY <2>1, <2>3, <3>2
  <2>4. CASE ~Start(p) /\ ~Leaves(p)
    <3>1. Alive = {p} /\ Alive' \subseteq {p} /\ pc[p] # "off" /\ InPlace(p)
      BY <2>1, <2>4 DEF Alive, Alone
    <3>2. SUFFICES FoundNewest' /\ Abreast(p)'
      BY <3>1
    <3>3. split' = split
      <4>1. CASE (Load(p) /\ ~Exit(p)) \/ Compact(p) \/ Talk(p) \/ Clear(p) \/ NewSession(p)
        BY <4>1, LoadReads, CommandStarts, NewSessionSaves DEF Compact, Talk, Clear
      <4>2. CASE Stat(p) \/ Saved(p) \/ ListArchives(p)
        BY <4>2, StatGoes, SavedGoes, ListSpares
      <4>3. CASE (Rotate(p) /\ dest[p] \in DOMAIN files) \/ Write(p)
        BY <4>3, RotateMoves, WriteReplaces
      <4>4. CASE RemoveArchive(p) /\ ~Exit(p)
        BY <4>4, RemoveDrops
      <4>5. QED
        BY <1>3, <2>4, <4>1, <4>2, <4>3, <4>4 DEF StepOf
    <3>4. FoundNewest /\ Abreast(p)
      BY <2>1, <3>1, <3>3 DEF Newest
    <3>5. ASSUME NEW n \in {1, 2}, Issued(p, n)
          PROVE  last'[p] >= last[p] /\ last'[p] >= Now(p)
      BY <1>1, <3>5, IssueTypes, NowLater DEF TypeOK
    <3>6. last[p] >= last[p]
      BY <1>1 DEF TypeOK
    <3>7. path[p] \in Names /\ (Kind(path[p]) # "bak")
      BY <1>1 DEF TypeOK, StoreInv, Places
    <3>8. CASE Load(p) /\ ~Exit(p)
      <4>1. /\ path[p] \in DOMAIN files /\ sess'[p] = Session(files[path[p]])
            /\ Issued(p, 1) /\ pc' = [pc EXCEPT ![p] = "ready"]
            /\ UNCHANGED <<files, wall, path, current>>
        BY <3>8, LoadReads
      <4>2. sess'[p] = current /\ pc'[p] = "ready"
        BY <1>1, <3>4, <4>1 DEF Abreast, TypeOK
      <4>3. QED
        BY <3>1, <3>4, <3>5, <4>1, <4>2, NewestQuiet
    <3>9. CASE Compact(p) \/ Talk(p) \/ NewSession(p)
      <4>1. /\ pc[p] \in {"ready", "saved"} /\ pc' = [pc EXCEPT ![p] = "stat"]
            /\ dest' = [dest EXCEPT ![p] = path[p]]
            /\ UNCHANGED <<files, wall, path, current>>
            /\ \/ sess'[p] = sess[p] /\ last' = last
               \/ sess'[p].upd = Now(p) /\ (Issued(p, 1) \/ Issued(p, 2))
        BY <3>9, CompactSaves, TalkSaves, NewSessionSaves, CommandStarts DEF Compact, Talk
      <4>2. sess[p] = current /\ pc'[p] = "stat" /\ Kind(dest'[p]) # "bak"
        BY <1>1, <3>4, <3>7, <4>1 DEF Abreast, TypeOK
      <4>3. /\ last'[p] >= last[p]
            /\ sess'[p] = current \/ (sess'[p].upd = Now(p) /\ last'[p] >= Now(p))
        BY <3>5, <3>6, <4>1, <4>2
      <4>4. QED
        BY <3>1, <3>4, <4>1, <4>2, <4>3, NewestQuiet
    <3>10. CASE Clear(p)
      <4>1. /\ pc[p] = "ready" /\ pc' = [pc EXCEPT ![p] = "stat"]
            /\ UNCHANGED <<files, wall, path, current, sess, last>>
        BY <3>10, CommandStarts DEF Clear
      <4>2. sess'[p] = current /\ pc'[p] = "stat" /\ last'[p] >= last[p]
        BY <1>1, <3>4, <3>6, <4>1 DEF Abreast, TypeOK
      <4>3. QED
        BY <3>1, <3>4, <4>1, <4>2, NewestQuiet
    <3>11. CASE Stat(p)
      <4>1. /\ pc[p] = "stat" /\ pc'[p] \in {"rotate", "write"}
            /\ UNCHANGED <<files, wall, path, current, sess, last, dest>>
        BY <1>1, <3>11, StatGoes DEF TypeOK
      <4>2. last'[p] >= last[p] /\ pc[p] \in Saving
        BY <3>6, <4>1 DEF Saving
      <4>3. QED
        BY <3>1, <3>4, <4>1, <4>2, NewestQuiet
    <3>12. CASE Saved(p) \/ ListArchives(p)
      <4>1. /\ pc[p] \in {"saved", "list"} /\ pc'[p] \in {"ready", "saved", "remove"}
            /\ UNCHANGED <<files, wall, path, current, sess, last>>
        BY <1>1, <3>12, SavedGoes, ListSpares DEF TypeOK
      <4>2. sess'[p] = current /\ last'[p] >= last[p]
        BY <3>4, <3>6, <4>1 DEF Abreast
      <4>3. QED
        BY <3>1, <3>4, <4>1, <4>2, NewestQuiet
    <3>13. CASE (Rotate(p) /\ dest[p] \in DOMAIN files) \/ Write(p) \/ (RemoveArchive(p) /\ ~Exit(p))
      BY <3>1, <3>4, <3>13, NewestRotate, NewestWrite, NewestRemove
    <3>14. QED
      BY <1>3, <2>4, <3>8, <3>9, <3>10, <3>11, <3>12, <3>13 DEF StepOf
  <2>5. QED
    BY <2>2, <2>3, <2>4
<1>4. QED
  BY <1>2, <1>3, StepCases

-----------------------------------------------------------------------------
(* The theorems *)

LEMMA InitInv ==
  ASSUME Init
  PROVE  IInv
<1>1. StoreInv /\ Conversations
  BY StoreInit, ConversationsInit
<1>2. Backups
  BY DEF Init, Backups
<1>3. PICK kinds \in Openings :
        LET s == [sid |-> 1, msgs |-> Opening(kinds), said |-> Len(kinds), upd |-> 1]
        IN files = [n \in {Main} |-> OnDisk(s, 1)] /\ current = s
  BY DEF Init
<1>4. DOMAIN files = {Main} /\ files[Main] = OnDisk(current, 1)
  BY <1>3
<1>5. current \in Sessions
  BY <1>1 DEF StoreInv, TypeOK
<1>6. Session(files[Main]) = current /\ files[Main].upd = current.upd /\ current.upd \in Nat
  BY <1>4, <1>5, DiskForm DEF Sessions
<1>7. Managed = {Main}
  BY <1>4, MainName DEF Managed
<1>8. Alive = {} /\ \A p \in Procs : doomed[p] = {}
  BY DEF Init, Alive
<1>9. FoundNewest
  BY <1>4, <1>6, <1>7 DEF FoundNewest
<1>10. Told /\ Alone /\ Newest
  BY <1>7, <1>8, <1>9 DEF Told, Alone, Newest
<1>11. QED
  BY <1>1, <1>2, <1>10 DEF IInv

LEMMA StepInv ==
  ASSUME IInv, [Next]_vars
  PROVE  IInv'
<1>1. StoreInv /\ Conversations /\ Backups /\ Told /\ Alone /\ Newest
  BY DEF IInv
<1>2. StoreInv' /\ Conversations'
  BY <1>1, StoreStep, ConversationsStep
<1>3. Backups'
  BY <1>1, BackupsStep
<1>4. Told' /\ Alone'
  BY <1>1, ToldStep, AloneStep
<1>5. Newest'
  BY <1>1, <1>2, NewestStep
<1>6. QED
  BY <1>2, <1>3, <1>4, <1>5 DEF IInv

LEMMA Inductive == Spec => []IInv
<1>1. Init => IInv
  BY InitInv
<1>2. IInv /\ [Next]_vars => IInv'
  BY StepInv
<1>3. QED
  BY <1>1, <1>2, PTL DEF Spec

(* However many processes load, continue, compact and save a session in
   whatever order, every session file holds its conversation whole: each
   message is there or summarised, and no tool result is without its call. *)
THEOREM SessionsWhole == Spec => []ConversationWhole
<1>1. IInv => ConversationWhole
  BY DEF IInv, Conversations, Whole, ConversationWhole
<1>2. QED
  BY Inductive, <1>1, PTL

(* A process killed at any point leaves a session to resume, and so do
   several processes while archives can be told apart; and the session that
   "latest" resumes is the one saved last, as long as no two processes were
   at work together and no archive was continued beside its session. *)
THEOREM LatestFound == Spec => []LatestIsCurrent
<1>1. IInv => LatestIsCurrent
  <2> SUFFICES ASSUME IInv PROVE LatestIsCurrent
    OBVIOUS
  <2>1. StoreInv /\ Told /\ Alone /\ Newest
    BY DEF IInv
  <2>2. ~overlap \/ ~clash => Managed # {}
    BY <2>1 DEF Told, Alone
  <2>3. ASSUME ~overlap, ~split, NEW n \in Latest
        PROVE  Session(files[n]) = current
    BY <2>1, <2>3, LatestNewest DEF Newest
  <2>4. QED
    BY <2>2, <2>3 DEF LatestIsCurrent
<1>2. QED
  BY Inductive, <1>1, PTL

(* A session that was cleared is in the backup the user was told of, unless
   a later /clear took the same name. *)
THEOREM ClearedIsBackedUp == Spec => []ClearKeepsBackup
<1>1. IInv => ClearKeepsBackup
  BY DEF IInv, Backups, Backed, ClearKeepsBackup
<1>2. QED
  BY Inductive, <1>1, PTL

-----------------------------------------------------------------------------
(* Installs of skills: InstallInv is inductive; one lemma per kind of step. *)

USE DEF SkillNames, Files

\* The registry starts empty.
LEMMA InstallInitInv == InstallInit => InstallInv
  BY InstallAssumption
     DEF InstallInit, InstallInv, InstallTypeOK, InstalledWhole, NothingElsewhere,
         NobodyAtReported, NoRivals, CreatesNew, CopiesOwn, Busy, Rivals, Name

\* An install that begins: nothing but its process changes, which is not yet busy.
LEMMA BeginStep ==
  ASSUME InstallInv, NEW p \in Installers, NEW s \in Sources, Begin(p, s)
  PROVE  InstallInv'
  BY InstallAssumption
     DEF Begin, Enter, InstallInv, InstallTypeOK, InstalledWhole, NothingElsewhere,
         NobodyAtReported, NoRivals, CreatesNew, CopiesOwn, Busy, Rivals, Name

\* Steps that leave the registry alone and give a directory up: CreateFails, CopyFails, Crash.
LEMMA QuietSteps ==
  ASSUME InstallInv, NEW p \in Installers, CreateFails(p) \/ CopyFails(p) \/ Crash(p)
  PROVE  InstallInv'
  <1>1. /\ \A q \in Installers \ {p} : stage'[q] = stage[q]
        /\ stage'[p] \in {"off", "cleanup"}
        /\ Busy(p)' => Busy(p)
        /\ UNCHANGED <<present, holds, src, left, alone, reported, installs>>
    BY DEF CreateFails, CopyFails, Crash, Enter, Busy, InstallInv, InstallTypeOK
  <1>2. \A q \in Installers : Busy(q)' => Busy(q)
    BY <1>1 DEF Busy
  <1>3. \A q \in Installers : stage'[q] \in {"create", "copy"} => q # p
    BY <1>1
  <1>4. InstallTypeOK'
    BY <1>1 DEF CreateFails, CopyFails, Crash, Enter, InstallInv, InstallTypeOK
  <1>5. InstalledWhole' /\ NothingElsewhere'
    BY <1>1 DEF InstallInv, InstalledWhole, NothingElsewhere
  <1>6. NobodyAtReported'
    BY <1>1, <1>2 DEF InstallInv, NobodyAtReported, Name
  <1>7. NoRivals'
    <2>1. \A q \in Installers : Rivals(q)' \subseteq Rivals(q)
      BY <1>1, <1>2 DEF Rivals, Name
    <2> QED  BY <1>1, <1>2, <2>1 DEF InstallInv, NoRivals
  <1>8. CreatesNew' /\ CopiesOwn'
    BY <1>1, <1>3 DEF InstallInv, CreatesNew, CopiesOwn, Name
  <1> QED  BY <1>4, <1>5, <1>6, <1>7, <1>8 DEF InstallInv

\* The check: it passes only where no directory is, hence no reported skill.
LEMMA CheckStep ==
  ASSUME InstallInv, NEW p \in Installers, Check(p)
  PROVE  InstallInv'
  <1>1. CASE AlreadyExists(p)
    BY <1>1, InstallAssumption
       DEF Check, Enter, InstallInv, InstallTypeOK, InstalledWhole, NothingElsewhere,
           NobodyAtReported, NoRivals, CreatesNew, CopiesOwn, Busy, Rivals, Name
  <1>2. CASE ~AlreadyExists(p)
    <2>1. /\ stage[p] = "check" /\ stage' = [stage EXCEPT ![p] = "create"]
          /\ Name(p) \notin present
          /\ alone' = [q \in Installers |-> IF q = p THEN Rivals(p) = {}
                                       ELSE alone[q] /\ q \notin Rivals(p)]
          /\ UNCHANGED <<present, holds, src, left, reported, installs>>
      BY <1>2 DEF Check, AlreadyExists, Enter
    <2>2. /\ \A q \in Installers \ {p} : stage'[q] = stage[q] /\ (Busy(q)' <=> Busy(q))
          /\ stage'[p] = "create" /\ Busy(p)'
      BY <2>1 DEF InstallInv, InstallTypeOK, Busy
    <2>3. InstallTypeOK'
      BY <2>1 DEF InstallInv, InstallTypeOK
    <2>4. InstalledWhole' /\ NothingElsewhere'
      BY <2>1 DEF InstallInv, InstalledWhole, NothingElsewhere
    <2>5. NobodyAtReported'
      <3>1. \A r \in reported : r.alone => NameOf[r.source] # Name(p)
        BY <2>1 DEF InstallInv, InstalledWhole
      <3> QED  BY <2>1, <2>2, <3>1 DEF InstallInv, NobodyAtReported, Name
    <2>6. NoRivals'
      <3> SUFFICES ASSUME NEW q \in Installers, Busy(q)', alone'[q], NEW r \in Installers \ {q},
                          Busy(r)', Name(r) = Name(q)
                   PROVE  FALSE
        BY <2>1 DEF NoRivals, Rivals, Name
      <3>1. CASE q = p
        BY <2>1, <2>2, <3>1 DEF Rivals
      <3>2. CASE r = p
        BY <2>1, <2>2, <3>2 DEF Rivals
      <3>3. CASE q # p /\ r # p
        BY <2>1, <2>2, <3>3 DEF InstallInv, NoRivals, Rivals
      <3> QED  BY <3>1, <3>2, <3>3
    <2>7. CreatesNew' /\ CopiesOwn'
      BY <2>1, <2>2 DEF InstallInv, CreatesNew, CopiesOwn, Name
    <2> QED  BY <2>3, <2>4, <2>5, <2>6, <2>7 DEF InstallInv
  <1> QED  BY <1>1, <1>2

\* Making the directory: it was empty for one who is alone.
LEMMA CreateStep ==
  ASSUME InstallInv, NEW p \in Installers, Create(p)
  PROVE  InstallInv'
  BY InstallAssumption
     DEF Create, Enter, InstallInv, InstallTypeOK, InstalledWhole, NothingElsewhere,
         NobodyAtReported, NoRivals, CreatesNew, CopiesOwn, Busy, Rivals, Name

\* Copying one file touches the directory of one name, which no reported skill has and no
\* process that is alone but this one.
LEMMA CopyStep ==
  ASSUME InstallInv, NEW p \in Installers, NEW f \in Files, CopyFile(p, f)
  PROVE  InstallInv'
  <1>1. /\ Busy(p) /\ Name(p) \in present
        /\ UNCHANGED <<present, stage, src, alone, reported, installs>>
    BY DEF CopyFile, Busy
  <1>2. InstallTypeOK'
    <2>1. src[p] \in Sources /\ Name(p) \in SkillNames /\ holds[Name(p)] \subseteq Files \X Sources
      BY <1>1 DEF InstallInv, InstallTypeOK, Name
    <2>2. Written(holds[Name(p)], f, src[p]) \in SUBSET (Files \X Sources)
      BY <2>1 DEF Written
    <2>3. holds' \in [SkillNames -> SUBSET (Files \X Sources)]
      BY <2>1, <2>2 DEF CopyFile, InstallInv, InstallTypeOK
    <2>4. left' \in [Installers -> SUBSET Files]
      BY DEF CopyFile, InstallInv, InstallTypeOK
    <2> QED  BY <1>1, <2>3, <2>4 DEF InstallInv, InstallTypeOK
  <1>3. \A n \in SkillNames : n # Name(p) => holds'[n] = holds[n]
    BY DEF CopyFile, InstallInv, InstallTypeOK
  <1>4. InstalledWhole'
    <2>1. \A r \in reported : r.alone => NameOf[r.source] # Name(p)
      BY <1>1 DEF InstallInv, NobodyAtReported
    <2> QED  BY <1>1, <1>3, <2>1 DEF InstallInv, InstalledWhole, InstallTypeOK
  <1>5. NothingElsewhere'
    BY <1>1, <1>3 DEF InstallInv, NothingElsewhere
  <1>6. CopiesOwn'
    <2> SUFFICES ASSUME NEW q \in Installers, stage[q] = "copy", alone[q]
                 PROVE  /\ Name(q) \in present
                        /\ left'[q] \subseteq FilesOf[src[q]]
                        /\ holds'[Name(q)] = (FilesOf[src[q]] \ left'[q]) \X {src[q]}
      BY <1>1 DEF CopiesOwn, Name
    <2>1. /\ Name(q) \in present /\ left[q] \subseteq FilesOf[src[q]]
          /\ holds[Name(q)] = (FilesOf[src[q]] \ left[q]) \X {src[q]}
      BY DEF InstallInv, CopiesOwn
    <2>2. CASE q = p
      <3>1. /\ f \in left[p] /\ left'[p] = left[p] \ {f}
            /\ holds'[Name(p)] = {e \in holds[Name(p)] : e[1] # f} \cup {<<f, src[p]>>}
        BY <1>1 DEF CopyFile, Written, InstallInv, InstallTypeOK, Name
      <3>2. {e \in (FilesOf[src[p]] \ left[p]) \X {src[p]} : e[1] # f} \cup {<<f, src[p]>>}
              = (FilesOf[src[p]] \ (left[p] \ {f})) \X {src[p]}
        BY <2>1, <2>2, <3>1
      <3> QED  BY <2>1, <2>2, <3>1, <3>2
    <2>3. CASE q # p
      <3>1. Name(q) # Name(p)
        BY <1>1, <2>3 DEF InstallInv, NoRivals, Rivals, Busy
      <3>2. Name(q) \in SkillNames
        BY InstallAssumption DEF InstallInv, InstallTypeOK, Name
      <3>3. left'[q] = left[q]
        BY <2>3 DEF CopyFile, InstallInv, InstallTypeOK
      <3> QED  BY <1>3, <2>1, <3>1, <3>2, <3>3
    <2> QED  BY <2>2, <2>3
  <1>7. NobodyAtReported' /\ NoRivals' /\ CreatesNew'
    BY <1>1 DEF InstallInv, NobodyAtReported, NoRivals, CreatesNew, Busy, Rivals, Name
  <1> QED  BY <1>2, <1>4, <1>5, <1>6, <1>7 DEF InstallInv

\* The cleanup of a failed install.
LEMMA CleanupStep ==
  ASSUME InstallInv, NEW p \in Installers, Cleanup(p)
  PROVE  InstallInv'
  <1>1. /\ stage[p] = "cleanup" /\ stage' = [stage EXCEPT ![p] = "off"]
        /\ present' \subseteq present /\ present \ {Name(p)} \subseteq present'
        /\ UNCHANGED <<src, left, alone, reported, installs>>
    BY DEF Cleanup, Enter
  <1>2. src[p] \in Sources /\ Name(p) \in SkillNames /\ Busy(p)
    BY <1>1 DEF InstallInv, InstallTypeOK, Name, Busy
  <1>3. /\ \A n \in SkillNames : n # Name(p) => holds'[n] = holds[n]
        /\ holds'[Name(p)] \subseteq holds[Name(p)]
        /\ holds' \in [SkillNames -> SUBSET (Files \X Sources)]
    BY <1>2 DEF Cleanup, InstallInv, InstallTypeOK
  <1>4. InstallTypeOK'
    BY <1>1, <1>3 DEF InstallInv, InstallTypeOK
  <1>5. InstalledWhole'
    <2>1. \A r \in reported : r.alone => NameOf[r.source] # Name(p) /\ NameOf[r.source] \in SkillNames
      BY <1>2 DEF InstallInv, NobodyAtReported, InstallTypeOK
    <2> QED  BY <1>1, <1>3, <2>1 DEF InstallInv, InstalledWhole
  <1>6. NothingElsewhere'
    BY <1>2, <1>3 DEF Cleanup, InstallInv, InstallTypeOK, NothingElsewhere
  <1>7. /\ \A q \in Installers : stage'[q] \in {"create", "copy"} => q # p /\ stage'[q] = stage[q]
        /\ \A q \in Installers : Busy(q)' => Busy(q) /\ q # p
    BY <1>1 DEF InstallInv, InstallTypeOK, Busy
  <1>8. NobodyAtReported' /\ NoRivals' /\ CreatesNew'
    BY <1>1, <1>7 DEF InstallInv, NobodyAtReported, NoRivals, CreatesNew, Rivals, Name
  <1>9. CopiesOwn'
    <2> SUFFICES ASSUME NEW q \in Installers, stage'[q] = "copy", alone[q]
                 PROVE  Name(q) \in present' /\ holds'[Name(q)] = holds[Name(q)]
      BY <1>1, <1>7 DEF InstallInv, CopiesOwn, Name
    <2>1. q # p /\ stage[q] = "copy" /\ Name(q) \in SkillNames
      BY <1>7 DEF InstallInv, InstallTypeOK, Name
    <2>2. Name(q) # Name(p)
      BY <1>2, <2>1 DEF InstallInv, NoRivals, Rivals, Busy
    <2> QED  BY <1>1, <1>3, <2>1, <2>2 DEF InstallInv, CopiesOwn
  <1> QED  BY <1>4, <1>5, <1>6, <1>8, <1>9 DEF InstallInv

\* The report of a finished install.
LEMMA ReportStep ==
  ASSUME InstallInv, NEW p \in Installers, Report(p)
  PROVE  InstallInv'
  BY InstallAssumption
     DEF Report, Enter, InstallInv, InstallTypeOK, InstalledWhole, NothingElsewhere,
         NobodyAtReported, NoRivals, CreatesNew, CopiesOwn, Busy, Rivals, Name, CopyOf

\* InstallInv holds of every state of every behaviour.
THEOREM InstallInvariant == InstallSpec => []InstallInv
  <1>1. InstallInv /\ InstallNext => InstallInv'
    BY BeginStep, QuietSteps, CheckStep, CreateStep, CopyStep, CleanupStep, ReportStep
       DEF InstallNext, InstallStep
  <1>2. InstallInv /\ UNCHANGED installVars => InstallInv'
    BY DEF installVars, InstallInv, InstallTypeOK, InstalledWhole, NothingElsewhere,
           NobodyAtReported, NoRivals, CreatesNew, CopiesOwn, Busy, Rivals, Name
  <1> QED  BY <1>1, <1>2, InstallInitInv, PTL DEF InstallSpec

\* A skill that claw reported as installed stays whole, however many processes install,
\* fail and are killed.
THEOREM InstalledStaysWhole == InstallSpec => []InstalledWhole
  <1>1. InstallInv => InstalledWhole
    BY DEF InstallInv
  <1> QED  BY <1>1, InstallInvariant, PTL
=============================================================================
