--------------------------- MODULE ClawMainProofs ---------------------------
(***************************************************************************)
(* What claw makes of its command line, of the session files that it       *)
(* resumes, of what a client writes to claw mcp serve, and of the name a   *)
(* skill declares: ModeAsAsked, ResumeFaithful, AnsweredInOrder and        *)
(* NameStable of ClawMain, for any words, environments, files,             *)
(* conversations, commands, bodies, lengths and names, and for any number  *)
(* of them.                                                                *)
(*                                                                         *)
(* The first part is about the command line.  ParseFlags folds over the    *)
(* words, so a run of the fold is a function of the number of words read;  *)
(* the mode of each of its states is the one asked for last among the      *)
(* words read (AskedStep), whatever takes a value.  The second part is     *)
(* about the workspace: which file a reference names (FoundAgain), what    *)
(* the commands keep of the file that was loaded (Keeps), and that a       *)
(* process that opens it again goes on where the other one ended           *)
(* (RunsSecond).  WorkspaceTyped is the invariant: what lies in the        *)
(* directories of sessions.  The third part is about the server.  Stream   *)
(* is the invariant: where the frames lie.  A read that finds a frame      *)
(* finds what a read from its headers finds (Found), frames that arrive    *)
(* whole are answered one after the other (Chain), and behind a wrong      *)
(* length the server stops or is back at the headers of some frame         *)
(* (TailServed).  The fourth part is about names: what is left of one when *)
(* it is sanitized (Sanitized) is kept, character by character, when it is *)
(* sanitized again (SanitizeAgain).                                        *)
(***************************************************************************)
EXTENDS ClawMain, TLAPS, FiniteSetTheorems, SequenceTheorems, WellFoundedInduction

-----------------------------------------------------------------------------
(* Least and greatest numbers, and runs of a fold. *)

LEMMA MinExists ==
  ASSUME NEW S \in SUBSET Nat, S # {}
  PROVE  \E n \in S : \A m \in S : n <= m
<1> DEFINE R == OpToRel(<, Nat)
<1>1. IsWellFoundedOn(R, Nat)
  BY NatLessThanWellFounded
<1>2. \A x, y \in Nat : <<y, x>> \in R <=> y < x
  BY DEF OpToRel
<1> HIDE DEF R
<1>3. PICK x \in S : \A y \in S : ~(<<y, x>> \in R)
  BY <1>1, WFMin
<1>4. x \in Nat /\ \A y \in S : y \in Nat /\ ~(y < x)
  BY <1>2, <1>3
<1>5. QED
  BY <1>4

LEMMA MaxMember ==
  ASSUME NEW S \in SUBSET Nat, S # {}, NEW b \in Nat, \A y \in S : y <= b
  PROVE  Max(S) \in S /\ \A y \in S : y <= Max(S)
<1> DEFINE U == {n \in Nat : \A y \in S : y <= n}
<1>1. PICK m \in U : \A k \in U : m <= k
  BY MinExists
<1>2. m \in S
  <2>1. SUFFICES ASSUME m \notin S PROVE FALSE
    OBVIOUS
  <2>2. PICK z : z \in S
    OBVIOUS
  <2>3. m - 1 \in Nat /\ \A y \in S : y <= m - 1
    BY <2>1, <2>2
  <2>4. QED
    BY <2>3, <1>1
<1>3. \E x \in S : \A y \in S : x >= y
  BY <1>2
<1>4. QED
  BY <1>3 DEF Max

-----------------------------------------------------------------------------
(* Folds *)

(* h are the results of the steps one after the other, of those in s. *)
Runs(h, n, s, T, base, step) ==
  /\ h \in [0 .. n -> T]
  /\ h[0] = base
  /\ \A k \in 1 .. n : h[k] = IF k \in s THEN step[k][h[k - 1]] ELSE h[k - 1]

LEMMA RunsExist ==
  ASSUME NEW n \in Nat, NEW s, NEW T, NEW base \in T, NEW step \in [1 .. n -> [T -> T]]
  PROVE  \E h : Runs(h, n, s, T, base, step)
<1> DEFINE Has(m) == \E h : Runs(h, m, s, T, base, step)
           Bad == {m \in 0 .. n : ~Has(m)}
<1> SUFFICES Has(n)
  OBVIOUS
<1> HIDE DEF Has
<1>1. SUFFICES ASSUME Bad # {} PROVE FALSE
  OBVIOUS
<1>2. Bad \in SUBSET Nat
  OBVIOUS
<1>3. \E m \in Bad : \A k \in Bad : m <= k
  <2> HIDE DEF Bad
  <2>1. QED
    BY <1>1, <1>2, MinExists
<1>4. Has(0)
  <2>1. Runs([k \in 0 .. 0 |-> base], 0, s, T, base, step)
    BY DEF Runs
  <2>2. QED
    BY <2>1 DEF Has
<1>13. PICK m \in Bad : \A k \in Bad : m <= k
  BY <1>3
<1>5. m - 1 \in 0 .. n /\ m \in 1 .. n /\ Has(m - 1)
  BY <1>13, <1>4
<1>6. PICK h : Runs(h, m - 1, s, T, base, step)
  BY <1>5 DEF Has
<1> DEFINE g == [k \in 0 .. m |-> IF k < m THEN h[k]
                                  ELSE IF m \in s THEN step[m][h[m - 1]] ELSE h[m - 1]]
<1>7. \A k \in 0 .. m - 1 : h[k] \in T
  BY <1>6 DEF Runs
<1>8. step[m] \in [T -> T] /\ m - 1 \in 0 .. m - 1
  BY <1>5
<1>9. g \in [0 .. m -> T]
  BY <1>5, <1>7, <1>8
<1>10. g[0] = base
  BY <1>5, <1>6 DEF Runs
<1>11. ASSUME NEW k \in 1 .. m
       PROVE  g[k] = IF k \in s THEN step[k][g[k - 1]] ELSE g[k - 1]
  <2>1. k - 1 \in 0 .. m /\ k \in 0 .. m /\ k - 1 < m /\ g[k - 1] = h[k - 1]
    BY <1>5
  <2>2. CASE k < m
    <3>1. k \in 1 .. m - 1 /\ g[k] = h[k]
      BY <2>1, <2>2, <1>5
    <3> HIDE DEF g
    <3>2. QED
      BY <2>1, <3>1, <1>6 DEF Runs
  <2>3. CASE k = m
    <3>1. g[k] = IF m \in s THEN step[m][h[m - 1]] ELSE h[m - 1]
      BY <2>1, <2>3
    <3> HIDE DEF g
    <3>2. QED
      BY <2>1, <2>3, <3>1
  <2>4. QED
    BY <2>2, <2>3, <1>5
<1> HIDE DEF g
<1>12. Runs(g, m, s, T, base, step)
  BY <1>9, <1>10, <1>11 DEF Runs
<1>14. QED
  BY <1>12, <1>13 DEF Has

(* The results only depend on the steps so far, and stay if none follows. *)
LEMMA RunsAgree ==
  ASSUME NEW n \in Nat, NEW T, NEW base \in T, NEW step \in [1 .. n -> [T -> T]],
         NEW s, NEW t, NEW g, NEW h, NEW k \in 0 .. n,
         Runs(g, n, s, T, base, step), Runs(h, n, t, T, base, step),
         \A j \in 1 .. k : j \in s <=> j \in t
  PROVE  g[k] = h[k]
<1> DEFINE Bad == {m \in 0 .. k : g[m] # h[m]}
<1>1. SUFFICES ASSUME Bad # {} PROVE FALSE
  OBVIOUS
<1>2. Bad \in SUBSET Nat
  OBVIOUS
<1>3. \E m \in Bad : \A j \in Bad : m <= j
  <2> HIDE DEF Bad
  <2>1. QED
    BY <1>1, <1>2, MinExists
<1>4. PICK m \in Bad : \A j \in Bad : m <= j
  BY <1>3
<1>5. m # 0
  BY <1>4 DEF Runs
<1>6. m - 1 \in 0 .. k /\ m \in 1 .. n /\ m \in 1 .. k
  BY <1>5
<1>7. g[m - 1] = h[m - 1]
  BY <1>4, <1>6
<1>8. QED
  BY <1>4, <1>6, <1>7 DEF Runs

LEMMA RunsStay ==
  ASSUME NEW n \in Nat, NEW T, NEW base \in T, NEW step \in [1 .. n -> [T -> T]],
         NEW s, NEW h, NEW k \in 0 .. n,
         Runs(h, n, s, T, base, step), \A j \in k + 1 .. n : j \notin s
  PROVE  h[n] = h[k]
<1> DEFINE Bad == {m \in k .. n : h[m] # h[k]}
<1>1. SUFFICES ASSUME Bad # {} PROVE FALSE
  OBVIOUS
<1>2. Bad \in SUBSET Nat
  OBVIOUS
<1>3. \E m \in Bad : \A j \in Bad : m <= j
  <2> HIDE DEF Bad
  <2>1. QED
    BY <1>1, <1>2, MinExists
<1>4. PICK m \in Bad : \A j \in Bad : m <= j
  BY <1>3
<1>5. m - 1 \in k .. n /\ m \in 1 .. n /\ m \in k + 1 .. n
  BY <1>4
<1>6. h[m - 1] = h[k]
  BY <1>4, <1>5
<1>7. QED
  BY <1>4, <1>5, <1>6 DEF Runs

(* Induction up to n. *)
LEMMA Climb ==
  ASSUME NEW n \in Nat, NEW good \in SUBSET (0 .. n), 0 \in good,
         \A k \in 1 .. n : k - 1 \in good => k \in good
  PROVE  good = 0 .. n
<1> DEFINE Bad == (0 .. n) \ good
<1>1. SUFFICES ASSUME Bad # {} PROVE FALSE
  OBVIOUS
<1>2. Bad \in SUBSET Nat
  OBVIOUS
<1>3. \E m \in Bad : \A j \in Bad : m <= j
  <2> HIDE DEF Bad
  <2>1. QED
    BY <1>1, <1>2, MinExists
<1>4. PICK m \in Bad : \A j \in Bad : m <= j
  BY <1>3
<1>5. m \in 1 .. n /\ m - 1 \in 0 .. n
  BY <1>4
<1>6. m - 1 \in good
  BY <1>4, <1>5
<1>7. QED
  BY <1>4, <1>5, <1>6

LEMMA TopOf ==
  ASSUME NEW n \in Nat, NEW s \in SUBSET (1 .. n), s # {}
  PROVE  Max(s) \in s /\ \A y \in s : y <= Max(s)
<1>1. s \in SUBSET Nat /\ \A y \in s : y <= n
  OBVIOUS
<1>2. QED
  BY <1>1, MaxMember

(* A fold over 1 .. n takes the largest number off last: the values of its
   recursion exist when the steps stay in a set. *)
IsFold(f, n, base, step) ==
  f = [s \in SUBSET (1 .. n) |-> IF s = {} THEN base ELSE step[Max(s)][f[s \ {Max(s)}]]]

LEMMA FoldExists ==
  ASSUME NEW n \in Nat, NEW T, NEW base \in T, NEW step \in [1 .. n -> [T -> T]]
  PROVE  \E f : /\ IsFold(f, n, base, step)
                /\ \A s \in SUBSET (1 .. n) : f[s] \in T
<1> DEFINE run(s) == CHOOSE h : Runs(h, n, s, T, base, step)
           f == [s \in SUBSET (1 .. n) |-> run(s)[n]]
<1>1. \A s : Runs(run(s), n, s, T, base, step)
  BY RunsExist
<1> HIDE DEF run
<1>2. \A s \in SUBSET (1 .. n) : f[s] \in T
  BY <1>1 DEF Runs
<1>3. ASSUME NEW s \in SUBSET (1 .. n)
      PROVE  f[s] = IF s = {} THEN base ELSE step[Max(s)][f[s \ {Max(s)}]]
  <2>1. CASE s = {}
    <3>1. run(s)[n] = run(s)[0]
      BY <2>1, <1>1, RunsStay
    <3>2. QED
      BY <3>1, <2>1, <1>1 DEF Runs
  <2>2. CASE s # {}
    <3> DEFINE x == Max(s)
               r == s \ {x}
    <3>1. x \in s /\ \A y \in s : y <= x
      BY <2>2, TopOf
    <3> HIDE DEF x
    <3>2. x \in 1 .. n /\ x \in 0 .. n /\ x - 1 \in 0 .. n /\ r \in SUBSET (1 .. n)
      BY <3>1
    <3>3. run(s)[n] = run(s)[x]
      <4>1. \A j \in x + 1 .. n : j \notin s
        BY <3>1, <3>2
      <4>2. QED
        BY <4>1, <3>2, <1>1, RunsStay
    <3>4. run(r)[n] = run(r)[x - 1]
      <4>1. \A j \in (x - 1) + 1 .. n : j \notin r
        BY <3>1, <3>2
      <4> HIDE DEF r
      <4>2. QED
        BY <4>1, <3>2, <1>1, RunsStay
    <3>5. run(r)[x - 1] = run(s)[x - 1]
      <4>1. \A j \in 1 .. x - 1 : j \in r <=> j \in s
        BY <3>2
      <4> HIDE DEF r
      <4>2. QED
        BY <4>1, <3>2, <1>1, RunsAgree
    <3>6. run(s)[x] = step[x][run(s)[x - 1]]
      BY <3>1, <3>2, <1>1 DEF Runs
    <3> HIDE DEF r
    <3>7. f[s] = step[x][f[r]]
      BY <3>2, <3>3, <3>4, <3>5, <3>6
    <3> HIDE DEF f
    <3>8. QED
      BY <3>7, <2>2 DEF x, r
  <2>3. QED
    BY <2>1, <2>2
<1>4. f = [s \in SUBSET (1 .. n) |-> f[s]]
  OBVIOUS
<1> HIDE DEF f
<1>5. IsFold(f, n, base, step)
  BY <1>3, <1>4 DEF IsFold
<1>6. QED
  BY <1>2, <1>5

LEMMA TopOfRange ==
  ASSUME NEW n \in Nat, NEW k \in 1 .. n
  PROVE  /\ Max(1 .. k) = k /\ (1 .. k) \ {k} = 1 .. k - 1
         /\ 1 .. k \in SUBSET (1 .. n) /\ 1 .. k # {} /\ 1 .. 0 = {}
<1>1. 1 .. k \in SUBSET (1 .. k) /\ 1 .. k # {} /\ k \in Nat /\ k \in 1 .. k
  OBVIOUS
<1>2. Max(1 .. k) \in 1 .. k /\ k <= Max(1 .. k)
  BY <1>1, TopOf
<1>3. QED
  BY <1>1, <1>2
-----------------------------------------------------------------------------
(* The command line *)

Modes == {"read-only", "workspace-write", "danger-full-access"}
ModeOptions == {<<>>} \cup {<<m>> : m \in Modes}
Strings == CommandLineWords \cup {EqParts[w][k] : w \in DOMAIN EqParts, k \in {1, 2}}
             \cup {Cli!Aliases[a] : a \in DOMAIN Cli!Aliases} \cup {Cli!Start.model}
CliErrors == {"", "output format", "permission mode", "unknown option"}
CliStates ==
  [model : Strings, format : {"text", "json"}, mode : ModeOptions,
   help : BOOLEAN, version : BOOLEAN, tools : Seq(Strings), rest : Seq(Strings),
   error : CliErrors, prompt : Seq(Strings), awaits : Cli!ValueFlags \cup {"", "-p"}]

LEMMA CliUpdates ==
  ASSUME NEW st \in CliStates
  PROVE  /\ \A m \in Strings : [st EXCEPT !.model = m] \in CliStates
         /\ \A f \in {"text", "json"} : [st EXCEPT !.format = f] \in CliStates
         /\ \A m \in ModeOptions : [st EXCEPT !.mode = m] \in CliStates
         /\ [st EXCEPT !.help = TRUE] \in CliStates
         /\ [st EXCEPT !.version = TRUE] \in CliStates
         /\ \A t \in Seq(Strings) : [st EXCEPT !.tools = t] \in CliStates
         /\ \A t \in Seq(Strings) : [st EXCEPT !.rest = t] \in CliStates
         /\ \A e \in CliErrors : [st EXCEPT !.error = e] \in CliStates
         /\ \A t \in Seq(Strings) : [st EXCEPT !.prompt = t] \in CliStates
         /\ \A a \in Cli!ValueFlags \cup {"", "-p"} : [st EXCEPT !.awaits = a] \in CliStates
BY DEF CliStates

LEMMA CliFields ==
  ASSUME NEW st \in CliStates, NEW word \in Strings
  PROVE  /\ Append(st.tools, word) \in Seq(Strings)
         /\ Append(st.rest, word) \in Seq(Strings)
         /\ Append(st.prompt, word) \in Seq(Strings)
<1>1. st.tools \in Seq(Strings) /\ st.rest \in Seq(Strings) /\ st.prompt \in Seq(Strings)
  BY DEF CliStates
<1>2. QED
  BY <1>1, AppendProperties

LEMMA NormalizedMode ==
  ASSUME NEW w
  PROVE  Cli!NormalizePermissionMode(w) \in ModeOptions
BY DEF Cli!NormalizePermissionMode, Modes, ModeOptions

LEMMA AliasTyped ==
  ASSUME NEW w \in Strings
  PROVE  Cli!ResolveModelAlias(w) \in Strings
BY DEF Cli!ResolveModelAlias, Strings

(* What each flag with its value changes. *)
LEMMA GivenCases ==
  ASSUME NEW st, NEW flag \in Cli!ValueFlags, NEW value
  PROVE  Cli!Given(st, flag, value) =
           IF flag = "--model" THEN [st EXCEPT !.model = Cli!ResolveModelAlias(value)]
           ELSE IF flag = "--output-format"
                THEN IF value \in {"text", "json"} THEN [st EXCEPT !.format = value]
                     ELSE [st EXCEPT !.error = "output format"]
           ELSE IF flag = "--permission-mode"
                THEN IF Cli!NormalizePermissionMode(value) = <<>>
                     THEN [st EXCEPT !.error = "permission mode"]
                     ELSE [st EXCEPT !.mode = Cli!NormalizePermissionMode(value)]
           ELSE [st EXCEPT !.tools = Append(st.tools, value)]
BY DEF Cli!Given, Cli!ValueFlags, Cli!ToolFlags

LEMMA GivenTyped ==
  ASSUME NEW st \in CliStates, NEW flag \in Cli!ValueFlags, NEW value \in Strings
  PROVE  Cli!Given(st, flag, value) \in CliStates
<1>1. {"output format", "permission mode"} \subseteq CliErrors
  BY DEF CliErrors
<1> DEFINE m == Cli!NormalizePermissionMode(value)
           alias == Cli!ResolveModelAlias(value)
           tools == Append(st.tools, value)
<1>2. m \in ModeOptions /\ alias \in Strings /\ tools \in Seq(Strings)
  BY CliFields, NormalizedMode, AliasTyped
<1>3. \/ Cli!Given(st, flag, value) \in
           {[st EXCEPT !.model = alias], [st EXCEPT !.mode = m], [st EXCEPT !.tools = tools],
            [st EXCEPT !.error = "output format"], [st EXCEPT !.error = "permission mode"]}
      \/ /\ value \in {"text", "json"}
         /\ Cli!Given(st, flag, value) = [st EXCEPT !.format = value]
  <2> DEFINE given == Cli!Given(st, flag, value)
  <2>1. \/ given = [st EXCEPT !.model = alias]
        \/ given = [st EXCEPT !.mode = m]
        \/ given = [st EXCEPT !.tools = tools]
        \/ given = [st EXCEPT !.error = "output format"]
        \/ given = [st EXCEPT !.error = "permission mode"]
        \/ value \in {"text", "json"} /\ given = [st EXCEPT !.format = value]
    <3>1. CASE flag = "--model"
      BY <3>1, GivenCases
    <3>2. CASE flag = "--output-format"
      BY <3>2, GivenCases
    <3>3. CASE flag = "--permission-mode"
      BY <3>3, GivenCases
    <3>4. CASE flag \notin {"--model", "--output-format", "--permission-mode"}
      <4>1. given = [st EXCEPT !.tools = Append(st.tools, value)]
        BY <3>4, GivenCases
      <4> HIDE DEF given
      <4>2. QED
        BY <4>1
    <3>5. QED
      BY <3>1, <3>2, <3>3, <3>4
  <2> HIDE DEF given, m, alias, tools
  <2>2. QED
    BY <2>1 DEF given
<1> HIDE DEF m, alias, tools
<1>4. QED
  BY <1>1, <1>2, <1>3, CliUpdates

EqFlag(w) == EqParts[w][1]
EqValue(w) == EqParts[w][2]
LEMMA EqTyped ==
  ASSUME NEW w \in DOMAIN EqParts
  PROVE  /\ EqFlag(w) \in Strings /\ EqValue(w) \in Strings /\ EqParts[w] \in Seq(Strings)
         /\ w \notin {"--help", "-h", "--version", "-V", "--print", "--resume",
                      "--dangerously-skip-permissions"}
<1>1. EqParts[w] \in STRING \X STRING
  BY CommandLineAssumption
<1>2. EqFlag(w) \in Strings /\ EqValue(w) \in Strings
  BY DEF EqFlag, EqValue, Strings
<1>3. EqParts[w] = <<EqFlag(w), EqValue(w)>>
  BY <1>1 DEF EqFlag, EqValue
<1> HIDE DEF EqFlag, EqValue
<1>4. <<EqFlag(w), EqValue(w)>> \in Seq(Strings)
  BY <1>2
<1>5. QED
  BY <1>2, <1>3, <1>4, CommandLineAssumption

(* What a word that is no flag with a value of its own does to the mode. *)
LEMMA OneWordCases ==
  ASSUME NEW st, NEW word
  PROVE  LET after == Cli!OneWord(st, word)
             equals == word \in DOMAIN EqParts /\ EqFlag(word) \in Cli!ValueFlags
         IN  /\ word = "--dangerously-skip-permissions" =>
                  after = [st EXCEPT !.mode = <<"danger-full-access">>]
             /\ equals => after = Cli!Given(st, EqFlag(word), EqValue(word))
             /\ word # "--dangerously-skip-permissions" /\ ~equals =>
                  \/ after = [st EXCEPT !.help = TRUE]
                  \/ after = [st EXCEPT !.version = TRUE]
                  \/ after = [st EXCEPT !.format = "text"]
                  \/ after = [st EXCEPT !.rest = Append(@, word)]
                  \/ word \in DOMAIN EqParts /\ after = [st EXCEPT !.rest = EqParts[word]]
                  \/ after = [st EXCEPT !.error = "unknown option"]
<1>1. CASE word \in DOMAIN EqParts
  <2>1. word \notin {"--help", "-h", "--version", "-V", "--print", "--resume",
                    "--dangerously-skip-permissions"}
    BY <1>1, EqTyped
  <2>2. CASE EqFlag(word) \in Cli!ValueFlags
    <3>0. "--resume" \notin Cli!ValueFlags
      BY DEF Cli!ValueFlags, Cli!ToolFlags
    <3>1. Cli!OneWord(st, word) = Cli!Given(st, EqFlag(word), EqValue(word))
      BY <1>1, <2>1, <2>2, <3>0 DEF Cli!OneWord, EqFlag, EqValue
    <3>2. QED
      BY <1>1, <2>1, <2>2, <3>1
  <2>3. CASE EqFlag(word) \notin Cli!ValueFlags
    <3>1. Cli!OneWord(st, word) \in {[st EXCEPT !.rest = EqParts[word]], Cli!Plain(st, word),
                                     [st EXCEPT !.error = "unknown option"]}
      BY <1>1, <2>1, <2>3 DEF Cli!OneWord, EqFlag, EqValue
    <3>2. QED
      BY <1>1, <2>1, <2>3, <3>1 DEF Cli!Plain
  <2>4. QED
    BY <2>2, <2>3
<1>2. CASE word \notin DOMAIN EqParts
  BY <1>2 DEF Cli!OneWord, Cli!Plain
<1>3. QED
  BY <1>1, <1>2

LEMMA OneWordTyped ==
  ASSUME NEW st \in CliStates, NEW word \in Strings
  PROVE  Cli!OneWord(st, word) \in CliStates
<1>1. "unknown option" \in CliErrors /\ <<"danger-full-access">> \in ModeOptions
  BY DEF CliErrors, ModeOptions, Modes
<1>2. word \in DOMAIN EqParts => /\ EqFlag(word) \in Strings /\ EqValue(word) \in Strings
                                /\ EqParts[word] \in Seq(Strings)
  BY EqTyped
<1>3. Append(st.rest, word) \in Seq(Strings)
  BY CliFields
<1> DEFINE after == Cli!OneWord(st, word)
           rest == Append(st.rest, word)
<1>4. CASE word = "--dangerously-skip-permissions"
  <2> DEFINE danger == <<"danger-full-access">>
  <2>1. after = [st EXCEPT !.mode = danger]
    BY <1>4, OneWordCases
  <2> HIDE DEF danger
  <2>2. QED
    BY <1>1, <2>1, CliUpdates DEF danger
<1>5. CASE word \in DOMAIN EqParts /\ EqFlag(word) \in Cli!ValueFlags
  <2>1. after = Cli!Given(st, EqFlag(word), EqValue(word))
    BY <1>5, OneWordCases
  <2>2. QED
    BY <1>2, <1>5, <2>1, GivenTyped
<1>6. CASE /\ word # "--dangerously-skip-permissions"
           /\ ~(word \in DOMAIN EqParts /\ EqFlag(word) \in Cli!ValueFlags)
  <2>1. \/ after = [st EXCEPT !.help = TRUE]
        \/ after = [st EXCEPT !.version = TRUE]
        \/ after = [st EXCEPT !.format = "text"]
        \/ after = [st EXCEPT !.rest = rest]
        \/ word \in DOMAIN EqParts /\ after = [st EXCEPT !.rest = EqParts[word]]
        \/ after = [st EXCEPT !.error = "unknown option"]
    BY <1>6, OneWordCases
  <2> HIDE DEF after, rest
  <2>2. after \in CliStates
    BY <1>1, <1>2, <1>3, <2>1, CliUpdates DEF rest
  <2>3. QED
    BY <2>2 DEF after
<1>7. QED
  BY <1>4, <1>5, <1>6

LEMMA ReadTyped ==
  ASSUME NEW st \in CliStates, NEW word \in Strings
  PROVE  Cli!Read(st, word) \in CliStates
<1>1. CASE st.awaits = ""
  BY <1>1, OneWordTyped, CliUpdates DEF Cli!Read
<1>2. CASE st.awaits = "-p"
  BY <1>2, CliFields, CliUpdates DEF Cli!Read
<1>3. CASE st.awaits \in Cli!ValueFlags
  <2> DEFINE st2 == Cli!Given(st, st.awaits, word)
  <2>1. st2 \in CliStates
    BY <1>3, GivenTyped
  <2>2. st.awaits # "" /\ st.awaits # "-p"
    BY <1>3 DEF Cli!ValueFlags, Cli!ToolFlags
  <2>3. Cli!Read(st, word) = IF st.error # "" THEN st ELSE [st2 EXCEPT !.awaits = ""]
    BY <2>2 DEF Cli!Read
  <2> HIDE DEF st2
  <2>4. [st2 EXCEPT !.awaits = ""] \in CliStates
    BY <2>1, CliUpdates
  <2>5. QED
    BY <2>3, <2>4
<1>4. QED
  BY <1>1, <1>2, <1>3 DEF CliStates

LEMMA StartTyped == Cli!Start \in CliStates
<1>1. Cli!Start.model \in Strings
  BY DEF Strings
<1>2. <<>> \in ModeOptions /\ "" \in CliErrors /\ <<>> \in Seq(Strings)
  BY DEF ModeOptions, CliErrors
<1>3. QED
  BY <1>1, <1>2, Zenon DEF Cli!Start, CliStates

(* The states after each word. *)
LEMMA ReadRun ==
  ASSUME NEW args \in Seq(Strings)
  PROVE  \E g : /\ g[0] = Cli!Start
                /\ \A k \in 0 .. Len(args) : g[k] \in CliStates
                /\ \A k \in 1 .. Len(args) : g[k] = Cli!Read(g[k - 1], args[k])
                /\ Cli!ParseFlags(args) = Cli!Finish(g[Len(args)])
<1> DEFINE n == Len(args)
           step == [k \in 1 .. n |-> [st \in CliStates |-> Cli!Read(st, args[k])]]
           IsIt(f) == f = [s \in SUBSET (1 .. n) |->
                             IF s = {} THEN Cli!Start
                             ELSE Cli!Read(f[s \ {Max(s)}], args[Max(s)])]
           it == CHOOSE f : IsIt(f)
<1>1. n \in Nat /\ DOMAIN args = 1 .. n /\ \A k \in 1 .. n : args[k] \in Strings
  BY LenProperties, ElementOfSeq
<1>2. step \in [1 .. n -> [CliStates -> CliStates]]
  BY <1>1, ReadTyped
<1>3. PICK f : IsFold(f, n, Cli!Start, step) /\ \A s \in SUBSET (1 .. n) : f[s] \in CliStates
  <2>1. n \in Nat
    BY <1>1
  <2> HIDE DEF n, step
  <2>2. QED
    BY <2>1, <1>2, StartTyped, FoldExists
<1>4. ASSUME NEW s \in SUBSET (1 .. n), s # {}
      PROVE  step[Max(s)][f[s \ {Max(s)}]] = Cli!Read(f[s \ {Max(s)}], args[Max(s)])
  <2>1. Max(s) \in 1 .. n
    BY <1>1, <1>4, TopOf
  <2>2. f[s \ {Max(s)}] \in CliStates
    BY <1>3
  <2>3. QED
    BY <2>1, <2>2
<1> HIDE DEF step
<1>5. IsIt(f)
  BY <1>3, <1>4 DEF IsFold
<1>6. IsIt(it)
  <2> HIDE DEF IsIt
  <2>1. QED
    BY <1>5
<1>7. Cli!FoldLeft(Cli!Read, Cli!Start, args) = it[1 .. n]
  BY <1>1 DEF Cli!FoldLeft, Cli!MapThenFoldSet, Cli!Max, Max
<1> DEFINE g == [k \in 0 .. n |-> it[1 .. k]]
<1>8. g[0] = Cli!Start
  <2>1. {} = 1 .. 0 /\ {} \in SUBSET (1 .. n) /\ 0 \in 0 .. n
    BY <1>1
  <2>2. it[{}] = Cli!Start
    BY <1>6, <2>1
  <2> HIDE DEF it
  <2>3. QED
    BY <2>1, <2>2
<1>9. ASSUME NEW k \in 1 .. n
      PROVE  g[k] = Cli!Read(g[k - 1], args[k])
  <2>1. /\ Max(1 .. k) = k /\ (1 .. k) \ {k} = 1 .. k - 1
        /\ 1 .. k \in SUBSET (1 .. n) /\ 1 .. k # {}
    BY <1>1, TopOfRange
  <2>2. it[1 .. k] = Cli!Read(it[1 .. k - 1], args[k])
    BY <1>6, <2>1
  <2>3. k \in 0 .. n /\ k - 1 \in 0 .. n
    BY <1>1
  <2> HIDE DEF it
  <2>4. QED
    BY <2>2, <2>3
<1>10. Cli!ParseFlags(args) = Cli!Finish(g[n])
  <2>1. n \in 0 .. n
    BY <1>1
  <2> HIDE DEF it
  <2>2. QED
    BY <1>7, <2>1 DEF Cli!ParseFlags
<1> HIDE DEF g
<1>11. \A k \in 0 .. n : g[k] \in CliStates
  <2> DEFINE good == {k \in 0 .. n : g[k] \in CliStates}
  <2>1. 0 \in good
    BY <1>1, <1>8, StartTyped
  <2>2. ASSUME NEW k \in 1 .. n, k - 1 \in good PROVE k \in good
    BY <1>1, <1>9, <2>2, ReadTyped
  <2>3. good \in SUBSET (0 .. n)
    OBVIOUS
  <2> HIDE DEF good, n
  <2>4. good = 0 .. n
    BY <1>1, <2>1, <2>2, <2>3, Climb
  <2>5. QED
    BY <2>4 DEF good
<1>12. QED
  BY <1>8, <1>9, <1>10, <1>11
(* What one word changes, as long as there is no error. *)
ModeAfter(st, w) ==
  IF st.awaits = "--permission-mode" THEN Cli!NormalizePermissionMode(w)
  ELSE IF st.awaits # "" THEN st.mode
  ELSE IF w = "--dangerously-skip-permissions" THEN <<"danger-full-access">>
  ELSE IF w \in DOMAIN EqParts /\ EqFlag(w) = "--permission-mode"
  THEN Cli!NormalizePermissionMode(EqValue(w))
  ELSE st.mode
AwaitsAfter(st, w) ==
  IF st.awaits = "-p" THEN "-p"
  ELSE IF st.awaits = "" /\ w \in Cli!ValueFlags \cup {"-p"} THEN w
  ELSE ""

LEMMA GivenMode ==
  ASSUME NEW st \in CliStates, NEW flag \in Cli!ValueFlags, NEW value,
         Cli!Given(st, flag, value).error = ""
  PROVE  /\ Cli!Given(st, flag, value).awaits = st.awaits
         /\ Cli!Given(st, flag, value).mode =
              IF flag = "--permission-mode" THEN Cli!NormalizePermissionMode(value) ELSE st.mode
         /\ flag = "--permission-mode" => Cli!NormalizePermissionMode(value) # <<>>
<1> DEFINE given == Cli!Given(st, flag, value)
<1>1. CASE flag = "--model"
  <2>1. given = [st EXCEPT !.model = Cli!ResolveModelAlias(value)]
    BY <1>1, GivenCases
  <2> HIDE DEF given
  <2>2. given.awaits = st.awaits /\ given.mode = st.mode
    BY <2>1 DEF CliStates
  <2>3. QED
    BY <1>1, <2>2 DEF given
<1>2. CASE flag = "--output-format"
  <2>1. given = [st EXCEPT !.format = value] \/ given = [st EXCEPT !.error = "output format"]
    BY <1>2, GivenCases
  <2> HIDE DEF given
  <2>2. given.awaits = st.awaits /\ given.mode = st.mode
    BY <2>1 DEF CliStates
  <2>3. QED
    BY <1>2, <2>2 DEF given
<1>3. CASE flag = "--permission-mode"
  <2> DEFINE m == Cli!NormalizePermissionMode(value)
  <2>1. given = IF m = <<>> THEN [st EXCEPT !.error = "permission mode"] ELSE [st EXCEPT !.mode = m]
    BY <1>3, GivenCases
  <2>2. given.error = ""
    OBVIOUS
  <2> HIDE DEF given, m
  <2>3. m # <<>> /\ given.awaits = st.awaits /\ given.mode = m
    BY <2>1, <2>2 DEF CliStates
  <2>4. QED
    BY <1>3, <2>3 DEF given, m
<1>4. CASE flag \notin {"--model", "--output-format", "--permission-mode"}
  <2>1. given = [st EXCEPT !.tools = Append(st.tools, value)]
    BY <1>4, GivenCases
  <2> HIDE DEF given
  <2>2. given.awaits = st.awaits /\ given.mode = st.mode
    BY <2>1 DEF CliStates
  <2>3. QED
    BY <1>4, <2>2 DEF given
<1>5. QED
  BY <1>1, <1>2, <1>3, <1>4

LEMMA OneWordMode ==
  ASSUME NEW st \in CliStates, NEW word, Cli!OneWord(st, word).error = "", st.awaits = ""
  PROVE  /\ Cli!OneWord(st, word).awaits = ""
         /\ Cli!OneWord(st, word).mode = ModeAfter(st, word)
         /\ word \in DOMAIN EqParts /\ EqFlag(word) = "--permission-mode" =>
              Cli!NormalizePermissionMode(EqValue(word)) # <<>>
<1> DEFINE after == Cli!OneWord(st, word)
<1>0. "--permission-mode" \in Cli!ValueFlags
  BY DEF Cli!ValueFlags
<1>1. CASE word = "--dangerously-skip-permissions"
  <2>1. after = [st EXCEPT !.mode = <<"danger-full-access">>]
    BY <1>1, OneWordCases
  <2> HIDE DEF after
  <2>2. after.awaits = st.awaits /\ after.mode = <<"danger-full-access">>
    BY <2>1 DEF CliStates
  <2>3. word \notin DOMAIN EqParts
    BY <1>1, CommandLineAssumption
  <2>4. QED
    BY <1>1, <2>2, <2>3 DEF after, ModeAfter
<1>2. CASE word \in DOMAIN EqParts /\ EqFlag(word) \in Cli!ValueFlags
  <2>1. after = Cli!Given(st, EqFlag(word), EqValue(word))
    BY <1>2, OneWordCases
  <2>2. word # "--dangerously-skip-permissions"
    BY <1>2, CommandLineAssumption
  <2> DEFINE mode == Cli!NormalizePermissionMode(EqValue(word))
  <2>3. /\ after.awaits = st.awaits
        /\ after.mode = IF EqFlag(word) = "--permission-mode" THEN mode ELSE st.mode
        /\ EqFlag(word) = "--permission-mode" => mode # <<>>
    <3> DEFINE flag == EqFlag(word)
               value == EqValue(word)
    <3>1. flag \in Cli!ValueFlags
      BY <1>2
    <3>2. after = Cli!Given(st, flag, value) /\ after.error = ""
      BY <2>1
    <3> HIDE DEF flag, value, after
    <3>3. /\ after.awaits = st.awaits
          /\ after.mode = IF flag = "--permission-mode" THEN Cli!NormalizePermissionMode(value) ELSE st.mode
          /\ flag = "--permission-mode" => Cli!NormalizePermissionMode(value) # <<>>
      BY <3>1, <3>2, GivenMode
    <3>4. QED
      BY <3>3 DEF flag, value
  <2>4. "" # "--permission-mode"
    OBVIOUS
  <2>5. ModeAfter(st, word) = IF EqFlag(word) = "--permission-mode" THEN mode ELSE st.mode
    <3> HIDE DEF after
    <3>1. QED
      BY <1>2, <2>2, <2>4 DEF ModeAfter
  <2> HIDE DEF after, mode
  <2>6. QED
    BY <2>3, <2>5 DEF after, mode
<1>3. CASE /\ word # "--dangerously-skip-permissions"
           /\ ~(word \in DOMAIN EqParts /\ EqFlag(word) \in Cli!ValueFlags)
  <2>1. \/ after = [st EXCEPT !.help = TRUE]
        \/ after = [st EXCEPT !.version = TRUE]
        \/ after = [st EXCEPT !.format = "text"]
        \/ after = [st EXCEPT !.rest = Append(@, word)]
        \/ word \in DOMAIN EqParts /\ after = [st EXCEPT !.rest = EqParts[word]]
        \/ after = [st EXCEPT !.error = "unknown option"]
    BY <1>3, OneWordCases
  <2> HIDE DEF after
  <2>2. after.awaits = st.awaits /\ after.mode = st.mode
    BY <2>1 DEF CliStates
  <2>3. QED
    BY <1>0, <1>3, <2>2 DEF after, ModeAfter
<1>4. QED
  BY <1>1, <1>2, <1>3

LEMMA ReadMode ==
  ASSUME NEW st \in CliStates, NEW w \in Strings, Cli!Read(st, w).error = ""
  PROVE  /\ st.error = ""
         /\ Cli!Read(st, w).awaits = AwaitsAfter(st, w)
         /\ Cli!Read(st, w).mode = IF st.awaits = "" /\ w \in Cli!ValueFlags \cup {"-p"} THEN st.mode
                                   ELSE ModeAfter(st, w)
         /\ st.awaits = "--permission-mode" \/
              (st.awaits = "" /\ w \in DOMAIN EqParts /\ EqFlag(w) = "--permission-mode")
              => Cli!Read(st, w).mode # <<>>
<1>1. st.error = ""
  BY DEF Cli!Read
<1>2. "--permission-mode" \in Cli!ValueFlags /\ "-p" \notin Cli!ValueFlags /\ "" \notin Cli!ValueFlags
  BY DEF Cli!ValueFlags, Cli!ToolFlags
<1> DEFINE after == Cli!Read(st, w)
<1>3. CASE st.awaits = "-p"
  <2>1. after = [st EXCEPT !.prompt = Append(@, w)]
    BY <1>1, <1>3 DEF Cli!Read
  <2> HIDE DEF after
  <2>2. after.awaits = st.awaits /\ after.mode = st.mode
    BY <2>1 DEF CliStates
  <2>3. QED
    BY <1>1, <1>3, <2>2 DEF after, ModeAfter, AwaitsAfter
<1>4. CASE st.awaits \in Cli!ValueFlags
  <2> DEFINE given == Cli!Given(st, st.awaits, w)
  <2>1. after = [given EXCEPT !.awaits = ""]
    BY <1>1, <1>2, <1>4 DEF Cli!Read
  <2>2. given \in CliStates
    BY <1>4, GivenTyped
  <2> HIDE DEF given, after
  <2>3. after.mode = given.mode /\ after.error = given.error /\ after.awaits = ""
    BY <2>1, <2>2 DEF CliStates
  <2>4. given.error = ""
    BY <2>3 DEF after
  <2>5. /\ given.mode = IF st.awaits = "--permission-mode" THEN Cli!NormalizePermissionMode(w) ELSE st.mode
        /\ st.awaits = "--permission-mode" => Cli!NormalizePermissionMode(w) # <<>>
    BY <1>4, <2>4, GivenMode DEF given
  <2>6. QED
    BY <1>1, <1>2, <1>4, <2>3, <2>5 DEF after, ModeAfter, AwaitsAfter
<1>5. CASE st.awaits = "" /\ w \in Cli!ValueFlags \cup {"-p"}
  <2>1. after = [st EXCEPT !.awaits = w]
    BY <1>1, <1>5 DEF Cli!Read
  <2> HIDE DEF after
  <2>2. after.awaits = w /\ after.mode = st.mode
    BY <2>1 DEF CliStates
  <2>3. QED
    <3>1. w \notin DOMAIN EqParts
      BY <1>5, CommandLineAssumption
    <3>2. QED
      BY <1>1, <1>5, <2>2, <3>1 DEF after, AwaitsAfter
<1>6. CASE st.awaits = "" /\ w \notin Cli!ValueFlags \cup {"-p"}
  <2>1. after = Cli!OneWord(st, w)
    BY <1>1, <1>6 DEF Cli!Read
  <2>2. after.error = ""
    OBVIOUS
  <2> HIDE DEF after
  <2>3. /\ after.awaits = "" /\ after.mode = ModeAfter(st, w)
        /\ w \in DOMAIN EqParts /\ EqFlag(w) = "--permission-mode" =>
             Cli!NormalizePermissionMode(EqValue(w)) # <<>>
    BY <1>6, <2>1, <2>2, OneWordMode
  <2>4. AwaitsAfter(st, w) = ""
    BY <1>6 DEF AwaitsAfter
  <2>5. w \in DOMAIN EqParts => w # "--dangerously-skip-permissions"
    BY CommandLineAssumption
  <2>6. w \in DOMAIN EqParts /\ EqFlag(w) = "--permission-mode" =>
          ModeAfter(st, w) = Cli!NormalizePermissionMode(EqValue(w))
    BY <1>6, <2>5 DEF ModeAfter
  <2>7. QED
    BY <1>1, <1>6, <2>3, <2>4, <2>6 DEF after
<1>7. QED
  BY <1>3, <1>4, <1>5, <1>6 DEF CliStates

-----------------------------------------------------------------------------
(* The mode that is asked for *)

LEMMA LastOf ==
  ASSUME NEW n \in Nat, NEW S \in SUBSET (1 .. n), S # {}
  PROVE  LET m == CHOOSE k \in S : \A j \in S : j <= k
         IN  m \in S /\ \A j \in S : j <= m
<1>1. Max(S) \in S /\ \A y \in S : y <= Max(S)
  BY TopOf
<1>2. QED
  BY <1>1

LEMMA ValueFollows ==
  ASSUME NEW args \in Seq(Strings)
  PROVE  /\ ~IsValueAt(args, 1)
         /\ \A i \in 1 .. Len(args) :
              IsValueAt(args, i + 1) <=> args[i] \in Cli!ValueFlags /\ ~IsValueAt(args, i)
<1> DEFINE others(i) == {k \in 1 .. i - 1 : args[k] \notin Cli!ValueFlags}
           last(i) == CHOOSE k \in others(i) : \A j \in others(i) : j <= k
           run(i) == IF others(i) = {} THEN i - 1 ELSE i - 1 - last(i)
<1>1. \A i \in Nat \ {0} : run(i) \in Nat /\ (others(i) # {} => last(i) \in others(i) /\ \A j \in others(i) : j <= last(i))
  <2> TAKE i \in Nat \ {0}
  <2>1. CASE others(i) = {}
    BY <2>1
  <2>2. CASE others(i) # {}
    <3>1. others(i) \in SUBSET (1 .. i - 1) /\ i - 1 \in Nat
      OBVIOUS
    <3>2. last(i) \in others(i) /\ \A j \in others(i) : j <= last(i)
      <4> HIDE DEF others
      <4>1. QED
        BY <3>1, <2>2, LastOf
    <3>3. last(i) \in 1 .. i - 1
      BY <3>1, <3>2
    <3> HIDE DEF last
    <3>4. QED
      BY <2>2, <3>2, <3>3
  <2>3. QED
    BY <2>1, <2>2
<1>2. \A i : IsValueAt(args, i) <=> run(i) % 2 = 1
  BY DEF IsValueAt
<1>3. run(1) = 0
  OBVIOUS
<1>4. ASSUME NEW i \in 1 .. Len(args)
      PROVE  run(i + 1) = IF args[i] \in Cli!ValueFlags THEN run(i) + 1 ELSE 0
  <2>0. Len(args) \in Nat /\ i \in Nat \ {0} /\ i + 1 \in Nat \ {0}
    BY LenProperties
  <2>1. CASE args[i] \in Cli!ValueFlags
    <3>1. others(i + 1) = others(i)
      BY <2>0, <2>1
    <3>2. last(i + 1) = last(i)
      BY <3>1
    <3>3. others(i) # {} => last(i) \in Nat
      <4>1. others(i) # {} => last(i) \in others(i)
        BY <1>1, <2>0
      <4> HIDE DEF last
      <4>2. QED
        BY <4>1
    <3> HIDE DEF others, last
    <3>4. QED
      BY <2>0, <2>1, <3>1, <3>2, <3>3
  <2>2. CASE args[i] \notin Cli!ValueFlags
    <3>1. i \in others(i + 1) /\ \A j \in others(i + 1) : j <= i
      BY <2>0, <2>2
    <3>2. last(i + 1) = i
      <4>1. last(i + 1) \in others(i + 1) /\ \A j \in others(i + 1) : j <= last(i + 1)
        BY <1>1, <2>0, <3>1
      <4>2. last(i + 1) \in Nat
        BY <4>1
      <4> HIDE DEF last, others
      <4>3. QED
        BY <2>0, <3>1, <4>1, <4>2
    <3> HIDE DEF last, others
    <3>3. QED
      BY <2>0, <2>2, <3>1, <3>2
  <2>3. QED
    BY <2>1, <2>2
<1> HIDE DEF run
<1>5. ASSUME NEW i \in 1 .. Len(args)
      PROVE  IsValueAt(args, i + 1) <=> args[i] \in Cli!ValueFlags /\ ~IsValueAt(args, i)
  <2>1. run(i) \in Nat
    BY <1>1
  <2>2. (run(i) + 1) % 2 = 1 <=> ~(run(i) % 2 = 1)
    BY <2>1
  <2>3. QED
    BY <1>2, <1>4, <2>2
<1>6. QED
  BY <1>2, <1>3, <1>5

-----------------------------------------------------------------------------
(* The command line: the mode asked for last. *)

ReadsAs(args, g) ==
  /\ g[0] = Cli!Start
  /\ \A k \in 0 .. Len(args) : g[k] \in CliStates
  /\ \A k \in 1 .. Len(args) : g[k] = Cli!Read(g[k - 1], args[k])

\* an argument "-p" that is no value is among the first k
PromptBy(args, k) == \E j \in 1 .. k : args[j] = "-p" /\ ~IsValueAt(args, j)
\* the flags that ask for a mode and have done so when k words are read
AskedBy(args, k) ==
  {i \in ModeFlags(args) : /\ ModesAskedAt(args, i) # {}
                           /\ i < k \/ (i = k /\ args[i] # "--permission-mode")}
ModeIsAsked(args, k, mode) ==
  IF AskedBy(args, k) = {} THEN mode = <<>>
  ELSE \E i \in AskedBy(args, k) : /\ \A j \in AskedBy(args, k) : j <= i
                                   /\ mode # <<>> /\ ModesAskedAt(args, i) = {mode[1]}
\* what the state after k words has of the words
FollowsTo(args, k, st) ==
  /\ st.awaits = IF PromptBy(args, k) THEN "-p" ELSE IF IsValueAt(args, k + 1) THEN args[k] ELSE ""
  /\ ModeIsAsked(args, k, st.mode)

NoError(st) == st.error = ""
LEMMA NoErrorBefore ==
  ASSUME NEW args \in Seq(Strings), NEW g, ReadsAs(args, g), NEW n \in Nat, n = Len(args),
         NoError(g[n])
  PROVE  \A k \in 0 .. n : NoError(g[k])
<1> DEFINE good == {k \in 0 .. n : NoError(g[n - k])}
<1>1. \A k \in 1 .. n : args[k] \in Strings
  BY ElementOfSeq
<1>2. 0 \in good
  <2>1. n - 0 = n /\ 0 \in 0 .. n
    OBVIOUS
  <2>2. QED
    BY <2>1
<1>3. ASSUME NEW k \in 1 .. n, k - 1 \in good PROVE k \in good
  <2>1. /\ n - k + 1 \in 1 .. n /\ n - (k - 1) = n - k + 1 /\ (n - k + 1) - 1 = n - k
        /\ n - k \in 0 .. n /\ k \in 0 .. n
    OBVIOUS
  <2>2. g[n - k + 1] = Cli!Read(g[n - k], args[n - k + 1]) /\ g[n - k] \in CliStates
    BY <2>1 DEF ReadsAs
  <2>3. NoError(g[n - k + 1])
    BY <1>3, <2>1
  <2>4. NoError(g[n - k])
    <3> DEFINE st == g[n - k]
               w == args[n - k + 1]
    <3>1. st \in CliStates /\ w \in Strings /\ NoError(Cli!Read(st, w))
      BY <1>1, <2>1, <2>2, <2>3
    <3> HIDE DEF st, w
    <3>2. NoError(st)
      BY <3>1, ReadMode DEF NoError
    <3>3. QED
      BY <3>2 DEF st
  <2>5. QED
    BY <2>1, <2>4
<1>4. good \in SUBSET (0 .. n)
  OBVIOUS
<1>5. good = 0 .. n
  <2> HIDE DEF good
  <2>1. QED
    BY <1>2, <1>3, <1>4, Climb
<1>6. ASSUME NEW k \in 0 .. n PROVE NoError(g[k])
  <2>1. n - (n - k) = k /\ n - k \in 0 .. n
    OBVIOUS
  <2>2. n - k \in good
    BY <1>5, <2>1
  <2>3. QED
    BY <2>1, <2>2
<1>7. QED
  BY <1>6

LEMMA ModeFlagsFree ==
  ASSUME NEW args \in Seq(Strings), NEW i
  PROVE  i \in ModeFlags(args) <=> i \in 1 .. Len(args) /\ ~IsValueAt(args, i) /\ ~PromptBy(args, i)
<1>1. DOMAIN args = 1 .. Len(args) /\ Len(args) \in Nat
  BY LenProperties
<1>2. QED
  BY <1>1 DEF ModeFlags, PromptBy

\* what is asked for at a word
LEMMA ModesAskedCases ==
  ASSUME NEW args, NEW i
  PROVE  /\ args[i] = "--dangerously-skip-permissions" => ModesAskedAt(args, i) = {"danger-full-access"}
         /\ args[i] = "--permission-mode" /\ i < Len(args) =>
              ModesAskedAt(args, i) = {Cli!NormalizePermissionMode(args[i + 1])[1]}
         /\ args[i] = "--permission-mode" /\ ~(i < Len(args)) => ModesAskedAt(args, i) = {}
         /\ args[i] \in DOMAIN EqParts /\ EqFlag(args[i]) = "--permission-mode" =>
              ModesAskedAt(args, i) = {Cli!NormalizePermissionMode(EqValue(args[i]))[1]}
         /\ ModesAskedAt(args, i) # {} =>
              \/ args[i] \in {"--dangerously-skip-permissions", "--permission-mode"}
              \/ args[i] \in DOMAIN EqParts /\ EqFlag(args[i]) = "--permission-mode"
<1>1. args[i] \in DOMAIN EqParts => args[i] \notin {"--dangerously-skip-permissions", "--permission-mode"}
  BY CommandLineAssumption DEF Cli!ValueFlags
<1>2. CASE args[i] \in DOMAIN EqParts
  BY <1>1, <1>2 DEF ModesAskedAt, EqFlag, EqValue
<1>3. CASE args[i] \notin DOMAIN EqParts
  BY <1>3 DEF ModesAskedAt
<1>4. QED
  BY <1>2, <1>3

LEMMA PromptStep ==
  ASSUME NEW args, NEW k \in Nat \ {0}
  PROVE  /\ PromptBy(args, k) <=> PromptBy(args, k - 1) \/ (args[k] = "-p" /\ ~IsValueAt(args, k))
         /\ \A i \in 1 .. k : PromptBy(args, i) => PromptBy(args, k)
<1>1. 1 .. k = (1 .. k - 1) \cup {k}
  OBVIOUS
<1>2. \A i \in 1 .. k : 1 .. i \subseteq 1 .. k
  OBVIOUS
<1>3. QED
  BY <1>1, <1>2 DEF PromptBy

LEMMA AskedStep ==
  ASSUME NEW args \in Seq(Strings), NEW k \in Nat \ {0}
  PROVE  \A i : i \in AskedBy(args, k) <=>
                  \/ i \in AskedBy(args, k - 1)
                  \/ /\ i \in ModeFlags(args) /\ ModesAskedAt(args, i) # {}
                     /\ \/ i = k - 1 /\ args[i] = "--permission-mode"
                        \/ i = k /\ args[i] # "--permission-mode"
<1>1. \A i \in ModeFlags(args) : i \in Nat
  <2>1. Len(args) \in Nat
    BY LenProperties
  <2>2. QED
    BY <2>1, ModeFlagsFree
<1>2. ASSUME NEW i \in ModeFlags(args)
      PROVE  i \in Nat /\ (i < k <=> i < k - 1 \/ i = k - 1)
  BY <1>1
<1>3. QED
  BY <1>2 DEF AskedBy

LEMMA AskedBefore ==
  ASSUME NEW args \in Seq(Strings), NEW k \in Nat
  PROVE  \A i \in AskedBy(args, k) : i \in Nat /\ i <= k
<1>1. \A i \in ModeFlags(args) : i \in Nat
  <2>1. Len(args) \in Nat
    BY LenProperties
  <2>2. QED
    BY <2>1, ModeFlagsFree
<1>2. QED
  BY <1>1 DEF AskedBy

LEMMA AskedLast ==
  ASSUME NEW args \in Seq(Strings), NEW k \in Nat \ {0}, NEW i \in {k - 1, k}, NEW mode,
         i \in AskedBy(args, k), \A j \in AskedBy(args, k) : j \in AskedBy(args, k - 1) \/ j = i,
         mode # <<>>, ModesAskedAt(args, i) = {mode[1]}
  PROVE  ModeIsAsked(args, k, mode)
<1>1. \A j \in AskedBy(args, k) : j <= i
  BY AskedBefore
<1>2. QED
  BY <1>1 DEF ModeIsAsked

LEMMA AskedSame ==
  ASSUME NEW args, NEW k, NEW m, NEW mode, ModeIsAsked(args, m, mode),
         \A i : i \in AskedBy(args, k) <=> i \in AskedBy(args, m)
  PROVE  ModeIsAsked(args, k, mode)
<1>1. AskedBy(args, k) = AskedBy(args, m)
  OBVIOUS
<1>2. QED
  BY <1>1 DEF ModeIsAsked

LEMMA ModeFollows ==
  ASSUME NEW args \in Seq(Strings), NEW k \in 1 .. Len(args), NEW st \in CliStates,
         NoError(Cli!Read(st, args[k])), FollowsTo(args, k - 1, st)
  PROVE  FollowsTo(args, k, Cli!Read(st, args[k]))
<1> DEFINE w == args[k]
           after == Cli!Read(st, w)
<1>1. /\ Len(args) \in Nat /\ w \in Strings /\ k \in Nat \ {0} /\ k - 1 \in Nat
      /\ (k - 1) + 1 = k /\ k <= Len(args) /\ k - 1 < k /\ (k - 1 # 0 => k - 1 \in 1 .. Len(args))
  BY LenProperties, ElementOfSeq
<1>2. /\ after.awaits = AwaitsAfter(st, w)
      /\ after.mode = IF st.awaits = "" /\ w \in Cli!ValueFlags \cup {"-p"} THEN st.mode
                      ELSE ModeAfter(st, w)
      /\ st.awaits = "--permission-mode" \/
           (st.awaits = "" /\ w \in DOMAIN EqParts /\ EqFlag(w) = "--permission-mode")
           => after.mode # <<>>
  BY <1>1, ReadMode DEF NoError
<1>3. /\ st.awaits = IF PromptBy(args, k - 1) THEN "-p"
                     ELSE IF IsValueAt(args, k) THEN args[k - 1] ELSE ""
      /\ ModeIsAsked(args, k - 1, st.mode)
  BY <1>1 DEF FollowsTo
<1>4. PromptBy(args, k) <=> PromptBy(args, k - 1) \/ (w = "-p" /\ ~IsValueAt(args, k))
  BY <1>1, PromptStep
<1>5. /\ IsValueAt(args, k + 1) <=> w \in Cli!ValueFlags /\ ~IsValueAt(args, k)
      /\ IsValueAt(args, k) => k - 1 \in 1 .. Len(args) /\ args[k - 1] \in Cli!ValueFlags /\ ~IsValueAt(args, k - 1)
      /\ k - 1 \in 1 .. Len(args) /\ args[k - 1] \in Cli!ValueFlags /\ ~IsValueAt(args, k - 1) => IsValueAt(args, k)
  BY <1>1, ValueFollows
<1>6. \A i : i \in AskedBy(args, k) <=>
               \/ i \in AskedBy(args, k - 1)
               \/ /\ i \in ModeFlags(args) /\ ModesAskedAt(args, i) # {}
                  /\ \/ i = k - 1 /\ args[i] = "--permission-mode"
                     \/ i = k /\ w # "--permission-mode"
  BY <1>1, AskedStep
<1>7. /\ k \in ModeFlags(args) <=> ~IsValueAt(args, k) /\ ~PromptBy(args, k)
      /\ k - 1 \in ModeFlags(args) <=>
           k - 1 \in 1 .. Len(args) /\ ~IsValueAt(args, k - 1) /\ ~PromptBy(args, k - 1)
  BY ModeFlagsFree
<1>8. /\ "--permission-mode" \in Cli!ValueFlags /\ "-p" \notin Cli!ValueFlags
      /\ "" \notin Cli!ValueFlags /\ "--dangerously-skip-permissions" \notin Cli!ValueFlags
  BY DEF Cli!ValueFlags, Cli!ToolFlags
<1> SUFFICES /\ after.awaits = IF PromptBy(args, k) THEN "-p"
                               ELSE IF IsValueAt(args, k + 1) THEN w ELSE ""
             /\ ModeIsAsked(args, k, after.mode)
  BY DEF FollowsTo
<1> HIDE DEF after, w
<1>9. CASE PromptBy(args, k - 1)
  <2>1. after.awaits = "-p" /\ after.mode = st.mode
    BY <1>2, <1>3, <1>9 DEF ModeAfter, AwaitsAfter
  <2>2. \A i : i \in AskedBy(args, k) <=> i \in AskedBy(args, k - 1)
    BY <1>4, <1>6, <1>7, <1>9
  <2>3. QED
    BY <1>3, <1>4, <1>9, <2>1, <2>2, AskedSame
<1>10. CASE ~PromptBy(args, k - 1) /\ IsValueAt(args, k)
  <2>1. st.awaits = args[k - 1] /\ st.awaits \in Cli!ValueFlags
    BY <1>3, <1>5, <1>10
  <2>2. after.awaits = "" /\ ~PromptBy(args, k) /\ ~IsValueAt(args, k + 1)
    BY <1>2, <1>4, <1>5, <1>8, <1>10, <2>1 DEF AwaitsAfter
  <2>3. k \notin ModeFlags(args)
    BY <1>7, <1>10
  <2>4. CASE args[k - 1] = "--permission-mode"
    <3>1. after.mode = Cli!NormalizePermissionMode(w) /\ after.mode # <<>>
      BY <1>2, <1>8, <2>1, <2>4 DEF ModeAfter
    <3>2. ModesAskedAt(args, k - 1) = {Cli!NormalizePermissionMode(w)[1]}
      <4>1. k - 1 < Len(args)
        BY <1>1
      <4>2. QED
        BY <1>1, <2>4, <4>1, ModesAskedCases DEF w
    <3>3. k - 1 \in ModeFlags(args)
      BY <1>5, <1>7, <1>10
    <3>4. k - 1 \in AskedBy(args, k) /\ \A j \in AskedBy(args, k) : j \in AskedBy(args, k - 1) \/ j = k - 1
      BY <1>6, <2>3, <2>4, <3>2, <3>3
    <3>5. ModeIsAsked(args, k, after.mode)
      BY <1>1, <3>1, <3>2, <3>4, AskedLast
    <3>6. QED
      BY <2>2, <3>5
  <2>5. CASE args[k - 1] # "--permission-mode"
    <3>1. after.mode = st.mode
      BY <1>2, <1>8, <2>1, <2>5 DEF ModeAfter
    <3>2. \A i : i \in AskedBy(args, k) <=> i \in AskedBy(args, k - 1)
      BY <1>6, <2>3, <2>5
    <3>3. QED
      BY <1>3, <2>2, <3>1, <3>2, AskedSame
  <2>6. QED
    BY <2>4, <2>5
<1>11. CASE ~PromptBy(args, k - 1) /\ ~IsValueAt(args, k)
  <2>1. st.awaits = "" /\ ~(k - 1 \in ModeFlags(args) /\ args[k - 1] = "--permission-mode")
    BY <1>3, <1>5, <1>7, <1>8, <1>11
  <2>2. CASE w \in Cli!ValueFlags \cup {"-p"}
    <3>1. after.awaits = w /\ after.mode = st.mode
      BY <1>2, <2>1, <2>2 DEF AwaitsAfter
    <3>2. ~(k \in ModeFlags(args) /\ ModesAskedAt(args, k) # {} /\ w # "--permission-mode")
      <4>1. w \notin DOMAIN EqParts /\ w # "--dangerously-skip-permissions"
        BY <1>8, <2>2, CommandLineAssumption
      <4>2. QED
        BY <4>1, ModesAskedCases DEF w
    <3>3. \A i : i \in AskedBy(args, k) <=> i \in AskedBy(args, k - 1)
      BY <1>6, <2>1, <3>2
    <3>4. QED
      BY <1>3, <1>4, <1>5, <1>8, <1>11, <2>2, <3>1, <3>3, AskedSame
  <2>3. CASE w \notin Cli!ValueFlags \cup {"-p"}
    <3>1. after.awaits = "" /\ ~PromptBy(args, k) /\ ~IsValueAt(args, k + 1) /\ after.mode = ModeAfter(st, w)
      BY <1>2, <1>4, <1>5, <1>11, <2>1, <2>3 DEF AwaitsAfter
    <3>2. k \in ModeFlags(args) /\ w # "--permission-mode"
      BY <1>7, <1>8, <1>11, <2>3, <3>1
    <3>3. w \in DOMAIN EqParts => w # "--dangerously-skip-permissions"
      BY CommandLineAssumption
    <3>4. CASE w = "--dangerously-skip-permissions" \/ (w \in DOMAIN EqParts /\ EqFlag(w) = "--permission-mode")
      <4>1. after.mode # <<>> /\ ModesAskedAt(args, k) = {after.mode[1]}
        <5>1. CASE w = "--dangerously-skip-permissions"
          <6>1. after.mode = <<"danger-full-access">>
            BY <2>1, <3>1, <5>1 DEF ModeAfter
          <6>2. ModesAskedAt(args, k) = {"danger-full-access"}
            BY <5>1, ModesAskedCases DEF w
          <6>3. <<"danger-full-access">> # <<>> /\ <<"danger-full-access">>[1] = "danger-full-access"
            BY DEF ModeAfter
          <6>4. QED
            BY <6>1, <6>2, <6>3
        <5>2. CASE w \in DOMAIN EqParts /\ EqFlag(w) = "--permission-mode"
          <6>1. after.mode = Cli!NormalizePermissionMode(EqValue(w)) /\ after.mode # <<>>
            BY <1>2, <2>1, <3>1, <3>3, <5>2 DEF ModeAfter
          <6>2. ModesAskedAt(args, k) = {Cli!NormalizePermissionMode(EqValue(w))[1]}
            BY <5>2, ModesAskedCases DEF w
          <6>3. QED
            BY <6>1, <6>2
        <5>3. QED
          BY <3>4, <5>1, <5>2
      <4>2. k \in AskedBy(args, k) /\ \A j \in AskedBy(args, k) : j \in AskedBy(args, k - 1) \/ j = k
        BY <1>6, <2>1, <3>2, <4>1
      <4>3. ModeIsAsked(args, k, after.mode)
        BY <1>1, <4>1, <4>2, AskedLast
      <4>4. QED
        BY <3>1, <4>3
    <3>5. CASE w # "--dangerously-skip-permissions" /\ ~(w \in DOMAIN EqParts /\ EqFlag(w) = "--permission-mode")
      <4>1. after.mode = st.mode
        BY <2>1, <3>1, <3>5 DEF ModeAfter
      <4>2. ModesAskedAt(args, k) = {}
        BY <3>2, <3>5, ModesAskedCases DEF w
      <4>3. \A i : i \in AskedBy(args, k) <=> i \in AskedBy(args, k - 1)
        BY <1>6, <2>1, <4>2
      <4>4. QED
        BY <1>3, <3>1, <4>1, <4>3, AskedSame
    <3>6. QED
      BY <3>4, <3>5
  <2>4. QED
    BY <2>2, <2>3
<1>12. QED
  BY <1>9, <1>10, <1>11

LEMMA ModeOfFlags ==
  ASSUME NEW args \in Seq(Strings), NoError(Cli!ParseFlags(args))
  PROVE  ModeIsAsked(args, Len(args), Cli!ParseFlags(args).mode)
<1>1. PICK g : ReadsAs(args, g) /\ Cli!ParseFlags(args) = Cli!Finish(g[Len(args)])
  BY ReadRun DEF ReadsAs
<1>2. Len(args) \in Nat
  BY LenProperties
<1>3. g[Len(args)] \in CliStates
  BY <1>1, <1>2 DEF ReadsAs
<1>4. NoError(g[Len(args)]) /\ Cli!ParseFlags(args).mode = g[Len(args)].mode
  <2> DEFINE st == g[Len(args)]
             last == Cli!Finish(st)
  <2>1. \/ last = st
        \/ last = [st EXCEPT !.error = "missing value"]
        \/ last = [st EXCEPT !.error = "empty prompt"]
    BY DEF Cli!Finish
  <2>2. NoError(last) /\ st \in CliStates
    BY <1>1, <1>3
  <2> HIDE DEF last, st
  <2>3. NoError(st) /\ last.mode = st.mode
    BY <2>1, <2>2 DEF NoError, CliStates
  <2>4. QED
    BY <1>1, <2>3 DEF last, st
<1>5. ASSUME NEW n \in Nat, n = Len(args)
      PROVE  FollowsTo(args, n, g[n])
  <2>1. \A k \in 0 .. n : NoError(g[k])
    BY <1>1, <1>4, <1>5, NoErrorBefore
  <2> DEFINE good == {k \in 0 .. n : FollowsTo(args, k, g[k])}
  <2>2. FollowsTo(args, 0, Cli!Start)
    <3>1. ~PromptBy(args, 0)
      BY DEF PromptBy
    <3>2. ~IsValueAt(args, 0 + 1)
      BY ValueFollows
    <3>3. AskedBy(args, 0) = {}
      <4>1. \A i \in ModeFlags(args) : i \in 1 .. n
        BY <1>5, ModeFlagsFree
      <4>2. QED
        BY <4>1 DEF AskedBy
    <3>4. Cli!Start.awaits = "" /\ Cli!Start.mode = <<>>
      BY DEF Cli!Start
    <3>5. QED
      BY <3>1, <3>2, <3>3, <3>4 DEF FollowsTo, ModeIsAsked
  <2>3. 0 \in good
    BY <1>1, <2>2 DEF ReadsAs
  <2>4. ASSUME NEW k \in 1 .. n, k - 1 \in good
        PROVE  k \in good
    <3>1. k \in 1 .. Len(args) /\ k - 1 \in 0 .. n /\ k \in 0 .. n
      BY <1>5
    <3>2. g[k] = Cli!Read(g[k - 1], args[k]) /\ g[k - 1] \in CliStates
      BY <1>1, <1>5, <3>1 DEF ReadsAs
    <3>3. FollowsTo(args, k - 1, g[k - 1]) /\ NoError(g[k])
      BY <2>1, <2>4, <3>1
    <3> DEFINE st == g[k - 1]
    <3>4. st \in CliStates /\ NoError(Cli!Read(st, args[k])) /\ FollowsTo(args, k - 1, st)
      BY <3>2, <3>3
    <3> HIDE DEF st
    <3>5. FollowsTo(args, k, Cli!Read(st, args[k]))
      BY <3>1, <3>4, ModeFollows
    <3>6. FollowsTo(args, k, g[k])
      BY <3>2, <3>5 DEF st
    <3>7. QED
      BY <3>1, <3>6
  <2>5. good \in SUBSET (0 .. n)
    OBVIOUS
  <2>6. good = 0 .. n
    <3> HIDE DEF good
    <3>1. QED
      BY <2>3, <2>4, <2>5, Climb
  <2>7. n \in good
    BY <2>6
  <2>8. QED
    BY <2>7
<1>6. FollowsTo(args, Len(args), g[Len(args)])
  BY <1>2, <1>5
<1>7. QED
  BY <1>4, <1>6 DEF FollowsTo

(* What runs under a mode takes it from the flags. *)
LEMMA ActionMode ==
  ASSUME NEW args, NEW env, Cli!ParseArgs(args, env).kind \in {"prompt", "repl", "status"}
  PROVE  /\ NoError(Cli!ParseFlags(args))
         /\ Cli!ParseArgs(args, env).mode = Cli!ModeOr(Cli!ParseFlags(args).mode, env)
<1> DEFINE st == Cli!ParseFlags(args)
           Fits(action) == action.kind \in {"prompt", "repl", "status"} =>
                             action.mode = Cli!ModeOr(st.mode, env)
<1>1. \A reason : Fits(Cli!Error(reason))
  BY DEF Cli!Error
<1>2. \A words : Fits(Cli!PromptAction(st, words, env))
  BY DEF Cli!PromptAction
<1>3. Fits(Cli!Dispatch(st, env))
  <2> DEFINE word == st.rest[1]
             more == Tail(st.rest)
             blank == \A k \in DOMAIN more : more[k] \in Blank
  <2>0. Slashed \cap {"agents", "mcp", "skills", "dump-manifests", "bootstrap-plan", "system-prompt",
                      "login", "logout", "init", "prompt"} = {}
    BY CommandLineAssumption DEF Cli!Subcommands
  <2>1. CASE word \in {"agents", "mcp", "skills"}
    <3>1. Cli!Dispatch(st, env) = [kind |-> word, args |-> more]
      BY <2>0, <2>1 DEF Cli!Dispatch
    <3>2. QED
      BY <2>1, <3>1
  <2>2. CASE word \in {"dump-manifests", "bootstrap-plan"}
    <3>1. Cli!Dispatch(st, env) = [kind |-> word, format |-> st.format]
      BY <2>0, <2>2 DEF Cli!Dispatch
    <3>2. QED
      BY <2>2, <3>1
  <2>3. CASE word \in {"system-prompt", "login", "logout", "init"}
    <3>1. Cli!Dispatch(st, env) = [kind |-> word]
      BY <2>0, <2>3 DEF Cli!Dispatch
    <3>2. QED
      BY <2>3, <3>1
  <2>4. CASE word = "prompt"
    <3>1. Cli!Dispatch(st, env) = IF blank THEN Cli!Error("empty prompt") ELSE Cli!PromptAction(st, more, env)
      BY <2>0, <2>4 DEF Cli!Dispatch
    <3> HIDE DEF Fits, blank, more
    <3>2. QED
      BY <1>1, <1>2, <3>1
  <2>5. CASE word \notin {"agents", "mcp", "skills", "dump-manifests", "bootstrap-plan", "system-prompt",
                          "login", "logout", "init", "prompt"}
    <3>1. Cli!Dispatch(st, env) = IF word \in Slashed THEN [kind |-> "slash", args |-> st.rest]
                                  ELSE Cli!PromptAction(st, st.rest, env)
      BY <2>5 DEF Cli!Dispatch
    <3>2. Fits([kind |-> "slash", args |-> st.rest])
      OBVIOUS
    <3> HIDE DEF Fits
    <3>3. QED
      BY <1>2, <3>1, <3>2
  <2> HIDE DEF Fits, word
  <2>6. QED
    BY <2>1, <2>2, <2>3, <2>4, <2>5
<1>4. Fits(Cli!SingleWord(st, env))
  <2> DEFINE word == st.rest[1]
             guided == Cli!BareSlashCommandGuidance(word)
  <2>1. CASE word \in {"help", "version", "sandbox"}
    <3>1. Cli!SingleWord(st, env) = [kind |-> word]
      BY <2>1 DEF Cli!SingleWord
    <3>2. QED
      BY <2>1, <3>1
  <2>2. CASE word = "status"
    <3>1. Cli!SingleWord(st, env) = [kind |-> word, model |-> st.model, mode |-> Cli!ModeOr(st.mode, env)]
      BY <2>2 DEF Cli!SingleWord
    <3>2. QED
      BY <3>1
  <2>3. CASE word \notin {"help", "version", "sandbox", "status"}
    <3>1. Cli!SingleWord(st, env) = IF guided THEN Cli!Error("slash command") ELSE Cli!Dispatch(st, env)
      BY <2>3 DEF Cli!SingleWord
    <3> HIDE DEF Fits, guided
    <3>2. QED
      BY <1>1, <1>3, <3>1
  <2>4. QED
    BY <2>1, <2>2, <2>3
<1>5. CASE st.error # ""
  <2>1. Cli!ParseArgs(args, env) = Cli!Error(st.error)
    BY <1>5 DEF Cli!ParseArgs
  <2>2. QED
    BY <2>1 DEF Cli!Error
<1>6. CASE st.error = ""
  <2>1. \/ \E reason : Cli!ParseArgs(args, env) = Cli!Error(reason)
        \/ Cli!ParseArgs(args, env) = Cli!PromptAction(st, st.prompt, env)
        \/ Cli!ParseArgs(args, env) = Cli!SingleWord(st, env)
        \/ Cli!ParseArgs(args, env) = Cli!Dispatch(st, env)
        \/ Cli!ParseArgs(args, env) = [kind |-> "help"]
        \/ Cli!ParseArgs(args, env) = [kind |-> "version"]
        \/ Cli!ParseArgs(args, env) = [kind |-> "repl", model |-> st.model, mode |-> Cli!ModeOr(st.mode, env)]
        \/ Cli!ParseArgs(args, env) = [kind |-> "resume", args |-> Tail(st.rest)]
    BY <1>6 DEF Cli!ParseArgs
  <2>2. /\ Fits([kind |-> "help"]) /\ Fits([kind |-> "version"])
        /\ Fits([kind |-> "repl", model |-> st.model, mode |-> Cli!ModeOr(st.mode, env)])
        /\ Fits([kind |-> "resume", args |-> Tail(st.rest)])
    OBVIOUS
  <2>3. Fits(Cli!ParseArgs(args, env))
    <3> HIDE DEF Fits, st
    <3>1. QED
      BY <1>1, <1>2, <1>3, <1>4, <2>1, <2>2
  <2>4. QED
    BY <1>6, <2>3 DEF NoError
<1>7. QED
  BY <1>5, <1>6

LEMMA SeqWidens ==
  ASSUME NEW S, NEW T, S \subseteq T, NEW s \in Seq(S)
  PROVE  s \in Seq(T)
<1>1. Len(s) \in Nat /\ s \in [1 .. Len(s) -> S]
  BY LenProperties
<1>2. QED
  BY <1>1, SeqDef

\* ModeAsAsked of any words
LEMMA ModeAsked ==
  ASSUME form = "argv" => text.args \in Seq(CommandLineWords)
  PROVE  ModeAsAsked
<1> DEFINE args == text.args
           env == text.env
           action == Cli!ParseArgs(args, env)
           asked == {i \in ModeFlags(args) : ModesAskedAt(args, i) # {}}
           mode == Cli!ParseFlags(args).mode
<1> SUFFICES ASSUME form = "argv", action.kind \in {"prompt", "repl", "status"}
             PROVE  action.mode \in
                      IF asked = {} THEN {Cli!DefaultPermissionMode(env)}
                      ELSE ModesAskedAt(args, CHOOSE i \in asked : \A j \in asked : j <= i)
  BY DEF ModeAsAsked
<1>1. args \in Seq(Strings)
  <2>1. CommandLineWords \subseteq Strings
    BY DEF Strings
  <2>2. QED
    BY <2>1, SeqWidens
<1>2. NoError(Cli!ParseFlags(args)) /\ action.mode = Cli!ModeOr(mode, env)
  BY ActionMode
<1> HIDE DEF args, env, action, mode
<1>3. ModeIsAsked(args, Len(args), mode)
  BY <1>1, <1>2, ModeOfFlags DEF mode
<1>4. asked = AskedBy(args, Len(args))
  <2>1. ASSUME NEW i \in asked PROVE i \in AskedBy(args, Len(args))
    <3>1. Len(args) \in Nat /\ i \in 1 .. Len(args)
      BY <1>1, LenProperties, ModeFlagsFree
    <3>2. i < Len(args) \/ args[i] # "--permission-mode"
      BY ModesAskedCases
    <3>3. QED
      BY <3>1, <3>2 DEF AskedBy
  <2>2. QED
    BY <2>1 DEF AskedBy
<1>5. asked \subseteq 1 .. Len(args) /\ Len(args) \in Nat
  BY <1>1, LenProperties, ModeFlagsFree
<1> HIDE DEF asked
<1>6. CASE asked = {}
  <2>1. mode = <<>>
    BY <1>3, <1>4, <1>6 DEF ModeIsAsked
  <2>2. QED
    BY <1>2, <1>6, <2>1 DEF Cli!ModeOr
<1>7. CASE asked # {}
  <2>1. PICK i \in asked : /\ \A j \in asked : j <= i
                           /\ mode # <<>> /\ ModesAskedAt(args, i) = {mode[1]}
    BY <1>3, <1>4, <1>7 DEF ModeIsAsked
  <2>2. (CHOOSE k \in asked : \A j \in asked : j <= k) = i
    <3> DEFINE x == CHOOSE k \in asked : \A j \in asked : j <= k
    <3>1. x \in asked /\ \A j \in asked : j <= x
      BY <2>1
    <3> HIDE DEF x
    <3>2. x \in Nat /\ i \in Nat /\ x <= i /\ i <= x
      BY <1>5, <2>1, <3>1
    <3>3. x = i
      BY <3>2
    <3>4. QED
      BY <3>3 DEF x
  <2>3. QED
    BY <1>2, <1>7, <2>1, <2>2 DEF Cli!ModeOr
<1>8. QED
  BY <1>6, <1>7

CommandLineTyped == form = "argv" => text \in [args : Seq(CommandLineWords), env : Environments]

(* What runs under a permission mode, a prompt, a REPL or a status report, *)
(* runs under the mode that the words of the command line ask for last     *)
(* (parse_args), and under that of the environment if none of them does.   *)
THEOREM ModeAsAskedAlways == MainSpec => []ModeAsAsked
<1>1. MainInit => CommandLineTyped
  <2> SUFFICES ASSUME MainInit, form = "argv" PROVE text \in [args : Seq(CommandLineWords), env : Environments]
    BY DEF CommandLineTyped
  <2>1. PICK env \in Environments : text = [args |-> <<>>, env |-> env]
    BY DEF MainInit
  <2>2. <<>> \in Seq(CommandLineWords)
    BY EmptySeq
  <2>3. QED
    BY <2>1, <2>2
<1>2. CommandLineTyped /\ [MainNext]_mainVars => CommandLineTyped'
  <2> SUFFICES ASSUME CommandLineTyped, [MainNext]_mainVars, form' = "argv"
               PROVE  text' \in [args : Seq(CommandLineWords), env : Environments]
    BY DEF CommandLineTyped
  <2>1. CASE TypeArg
    <3>1. form = "argv"
      BY <2>1 DEF TypeArg, Edit
    <3>2. PICK w \in CommandLineWords : text' = [text EXCEPT !.args = Append(@, w)]
      BY <2>1 DEF TypeArg
    <3>3. text.args \in Seq(CommandLineWords) /\ text \in [args : Seq(CommandLineWords), env : Environments]
      BY <3>1 DEF CommandLineTyped
    <3>4. Append(text.args, w) \in Seq(CommandLineWords)
      BY <3>3, AppendProperties
    <3>5. QED
      BY <3>2, <3>3, <3>4
  <2>2. CASE \/ Send \/ SendMiscounted \/ Killed \/ SaveSession \/ Garble \/ TypeCommand
             \/ WriteDefinition \/ WriteBroken \/ TypeCharacter
    <3>1. form # "argv" /\ form' = form
      BY <2>2 DEF Send, SendMiscounted, Killed, SaveSession, Garble, TypeCommand, WriteDefinition,
                  WriteBroken, TypeCharacter, Edit
    <3>2. QED
      BY <3>1
  <2>3. CASE Install \/ UNCHANGED mainVars
    <3>1. form' = form /\ text' = text
      BY <2>3 DEF Install, mainVars
    <3>2. QED
      BY <3>1 DEF CommandLineTyped
  <2>4. QED
    BY <2>1, <2>2, <2>3 DEF MainNext
<1>3. CommandLineTyped => ModeAsAsked
  <2>1. CommandLineTyped => (form = "argv" => text.args \in Seq(CommandLineWords))
    BY DEF CommandLineTyped
  <2>2. QED
    BY <2>1, ModeAsked
<1>4. QED
  BY <1>1, <1>2, <1>3, PTL DEF MainSpec

-----------------------------------------------------------------------------
(* Resuming a session *)

Sayings == {"help", "compact", "clear", "confirmation required", "not yet implemented",
            "unsupported resumed command"}
IsSession(s) == s \in [parses : BOOLEAN, root : {s.root}, id : {s.id}, upd : {s.upd}, mt : {s.mt},
                       msgs : {s.msgs}]
IsProcess(st) == st \in [session : {st.session}, path : {st.path}, files : {st.files}, now : Nat,
                         out : Seq(Sayings), exit : {0, 2}]

LEMMA SameProcess ==
  ASSUME NEW a, NEW b, IsProcess(a), IsProcess(b), a.session = b.session, a.path = b.path,
         a.files = b.files, a.now = b.now, a.out = b.out, a.exit = b.exit
  PROVE  a = b
BY DEF IsProcess

LEMMA SaidFields ==
  ASSUME NEW st, IsProcess(st), NEW what \in Sayings
  PROVE  /\ IsProcess(Store!Said(st, what))
         /\ Store!Said(st, what).session = st.session /\ Store!Said(st, what).path = st.path
         /\ Store!Said(st, what).files = st.files /\ Store!Said(st, what).now = st.now + 1
         /\ Store!Said(st, what).out = Append(st.out, what) /\ Store!Said(st, what).exit = st.exit
<1>1. st.out \in Seq(Sayings)
  BY DEF IsProcess
<1>2. Append(st.out, what) \in Seq(Sayings)
  BY <1>1, AppendProperties
<1> DEFINE out == Append(st.out, what)
           said == Store!Said(st, what)
<1>3. said = [st EXCEPT !.out = out, !.now = st.now + 1] /\ out \in Seq(Sayings)
  BY <1>2 DEF Store!Said
<1>4. st.now + 1 \in Nat
  BY DEF IsProcess
<1> HIDE DEF out, said
<1>5. /\ IsProcess(said) /\ said.session = st.session /\ said.path = st.path
      /\ said.files = st.files /\ said.now = st.now + 1 /\ said.out = out /\ said.exit = st.exit
  BY <1>3, <1>4 DEF IsProcess
<1>6. QED
  BY <1>5 DEF out, said

LEMMA RefusedFields ==
  ASSUME NEW st, IsProcess(st), NEW what \in Sayings
  PROVE  /\ IsProcess(Store!Refused(st, 2, what))
         /\ Store!Refused(st, 2, what).session = st.session /\ Store!Refused(st, 2, what).path = st.path
         /\ Store!Refused(st, 2, what).files = st.files /\ Store!Refused(st, 2, what).now = st.now + 1
         /\ Store!Refused(st, 2, what).out = Append(st.out, what) /\ Store!Refused(st, 2, what).exit = 2
<1> DEFINE said == Store!Said(st, what)
<1>1. /\ IsProcess(said) /\ said.session = st.session /\ said.path = st.path
      /\ said.files = st.files /\ said.now = st.now + 1 /\ said.out = Append(st.out, what)
  BY SaidFields
<1>2. Store!Refused(st, 2, what) = [said EXCEPT !.exit = 2]
  BY DEF Store!Refused
<1> HIDE DEF said
<1>3. QED
  BY <1>1, <1>2 DEF IsProcess

CompactedSession(s, now) ==
  [(IF Store!Compaction!ShouldCompact(s.msgs)
    THEN [s EXCEPT !.msgs = Store!Compaction!Compacted(s.msgs), !.upd = now] ELSE s) EXCEPT !.mt = now]

LEMMA CompactFields ==
  ASSUME NEW st, IsProcess(st), IsSession(st.session)
  PROVE  LET s == CompactedSession(st.session, st.now)
             after == Store!ResumeCompact(st)
         IN  /\ IsSession(s) /\ s.parses = st.session.parses /\ s.root = st.session.root
             /\ IsProcess(after) /\ after.session = s /\ after.path = st.path
             /\ after.files = Store!Write(st.files, st.path, s) /\ after.now = st.now + 1
             /\ after.out = Append(st.out, "compact") /\ after.exit = st.exit
<1> DEFINE msgs == Store!Compaction!Compacted(st.session.msgs)
           s == IF Store!Compaction!ShouldCompact(st.session.msgs)
                THEN [st.session EXCEPT !.msgs = msgs, !.upd = st.now] ELSE st.session
           saved == [s EXCEPT !.mt = st.now]
           said == Store!Said(st, "compact")
           after == Store!ResumeCompact(st)
<1>1. after = [said EXCEPT !.session = saved, !.files = Store!Write(@, st.path, saved)]
  BY DEF Store!ResumeCompact
<1>2. /\ IsProcess(said) /\ said.path = st.path
      /\ said.files = st.files /\ said.now = st.now + 1 /\ said.out = Append(st.out, "compact")
      /\ said.exit = st.exit
  BY SaidFields DEF Sayings
<1>7. CompactedSession(st.session, st.now) = saved
  BY DEF CompactedSession
<1> HIDE DEF said, msgs
<1>3. IsSession(s) /\ s.parses = st.session.parses /\ s.root = st.session.root
  BY DEF IsSession
<1> HIDE DEF s
<1>4. IsSession(saved) /\ saved.parses = st.session.parses /\ saved.root = st.session.root
  BY <1>3 DEF IsSession
<1> HIDE DEF saved, after
<1>5. /\ IsProcess(after) /\ after.session = saved /\ after.path = st.path
      /\ after.files = Store!Write(st.files, st.path, saved) /\ after.now = st.now + 1
      /\ after.out = Append(st.out, "compact") /\ after.exit = st.exit
  BY <1>1, <1>2 DEF IsProcess
<1>6. QED
  BY <1>4, <1>5, <1>7 DEF after

LEMMA ClearFields ==
  ASSUME NEW st, IsProcess(st), NEW ws
  PROVE  LET after == Store!ResumeClear(st, ws)
             new == Store!NewCliSession(st, ws)
         IN  /\ IsProcess(after) /\ after.session = new /\ after.path = st.path
             /\ after.files = Store!Write(Store!Write(st.files, Store!Backup(st),
                                                      [st.session EXCEPT !.mt = st.now]), st.path, new)
             /\ after.now = st.now + 1 /\ after.out = Append(st.out, "clear") /\ after.exit = st.exit
<1> DEFINE new == Store!NewCliSession(st, ws)
           said == Store!Said(st, "clear")
           after == Store!ResumeClear(st, ws)
           old == [st.session EXCEPT !.mt = st.now]
           backup == Store!Backup(st)
<1>1. after = [said EXCEPT !.files = Store!Write(Store!Write(@, backup, old), st.path, new),
                           !.session = new]
  BY DEF Store!ResumeClear
<1>2. /\ IsProcess(said) /\ said.path = st.path
      /\ said.files = st.files /\ said.now = st.now + 1 /\ said.out = Append(st.out, "clear")
      /\ said.exit = st.exit
  BY SaidFields DEF Sayings
<1> HIDE DEF said, new, old, backup, after
<1>3. /\ IsProcess(after) /\ after.session = new /\ after.path = st.path
      /\ after.files = Store!Write(Store!Write(st.files, backup, old), st.path, new)
      /\ after.now = st.now + 1 /\ after.out = Append(st.out, "clear") /\ after.exit = st.exit
  BY <1>1, <1>2 DEF IsProcess
<1>4. QED
  BY <1>3 DEF after, new, old, backup

LEMMA RunCases ==
  ASSUME NEW st, NEW ws, NEW command, st.exit = 0
  PROVE  \/ \E what \in Sayings : \/ Store!RunResumeCommand(st, ws, command) = Store!Said(st, what)
                                  \/ Store!RunResumeCommand(st, ws, command) = Store!Refused(st, 2, what)
         \/ Store!RunResumeCommand(st, ws, command) = Store!ResumeCompact(st)
         \/ Store!RunResumeCommand(st, ws, command) = Store!ResumeClear(st, ws)
<1>1. \/ Store!RunResumeCommand(st, ws, command) \in
           {Store!Said(st, "help"), Store!Said(st, "confirmation required"),
            Store!Refused(st, 2, "not yet implemented"), Store!Refused(st, 2, "unsupported resumed command")}
      \/ Store!RunResumeCommand(st, ws, command) = Store!ResumeCompact(st)
      \/ Store!RunResumeCommand(st, ws, command) = Store!ResumeClear(st, ws)
  BY DEF Store!RunResumeCommand
<1>2. {"help", "confirmation required", "not yet implemented", "unsupported resumed command"} \subseteq Sayings
  BY DEF Sayings
<1>3. QED
  BY <1>1, <1>2

(* What the commands preserve: the file that was loaded holds the session in
   memory, which belongs to the workspace; no other file changes, and what is
   new are backups. *)
Fits(path, s, ws) == IsSession(s) /\ s.parses /\ Store!ValidateLoadedSession(path, s, ws)
Keeps(st, files, path, ws) ==
  /\ IsProcess(st) /\ st.now # 0
  /\ st.path = path /\ path \in DOMAIN files
  /\ \A q \in DOMAIN files : q \in DOMAIN st.files /\ (q # path => st.files[q] = files[q])
  /\ \A q \in DOMAIN st.files : q \in DOMAIN files \/ q.bak # 0
  /\ st.files[path] = st.session
  /\ Fits(path, st.session, ws)

LEMMA RunKeeps ==
  ASSUME NEW st, NEW files, NEW path, NEW ws, NEW command, Keeps(st, files, path, ws),
         \A q \in DOMAIN files : [path EXCEPT !.bak = st.now] # q,
         [path EXCEPT !.bak = st.now].bak = st.now
  PROVE  Keeps(Store!RunResumeCommand(st, ws, command), files, path, ws)
<1> DEFINE after == Store!RunResumeCommand(st, ws, command)
<1>0. /\ IsProcess(st) /\ st.now \in Nat /\ st.now # 0 /\ st.now + 1 # 0
      /\ st.path = path /\ path \in DOMAIN files
      /\ Fits(path, st.session, ws)
  BY DEF Keeps, IsProcess
<1>1. CASE st.exit # 0
  BY <1>1 DEF Store!RunResumeCommand
<1>2. CASE \E what \in Sayings : after = Store!Said(st, what) \/ after = Store!Refused(st, 2, what)
  <2>1. /\ IsProcess(after) /\ after.session = st.session /\ after.path = st.path
        /\ after.files = st.files /\ after.now = st.now + 1
    <3> HIDE DEF after
    <3>1. QED
      BY <1>0, <1>2, SaidFields, RefusedFields
  <2> HIDE DEF after
  <2>2. Keeps(after, files, path, ws)
    BY <1>0, <2>1 DEF Keeps
  <2>3. QED
    BY <2>2 DEF after
<1>3. CASE after = Store!ResumeCompact(st)
  <2>1. PICK s : /\ IsSession(s) /\ s.parses = st.session.parses /\ s.root = st.session.root
                 /\ IsProcess(after) /\ after.session = s /\ after.path = st.path
                 /\ after.files = Store!Write(st.files, st.path, s) /\ after.now = st.now + 1
    <3> HIDE DEF after
    <3>1. IsSession(st.session)
      BY <1>0 DEF Fits
    <3>2. QED
      BY <1>0, <1>3, <3>1, CompactFields
  <2> HIDE DEF after
  <2>2. Fits(path, s, ws)
    BY <1>0, <2>1 DEF Fits, Store!ValidateLoadedSession
  <2>3. /\ DOMAIN after.files = DOMAIN st.files \cup {path}
        /\ \A q \in DOMAIN after.files : after.files[q] = IF q = path THEN s ELSE st.files[q]
    BY <1>0, <2>1 DEF Store!Write
  <2>4. Keeps(after, files, path, ws)
    BY <1>0, <2>1, <2>2, <2>3 DEF Keeps
  <2>5. QED
    BY <2>4 DEF after
<1>4. CASE after = Store!ResumeClear(st, ws)
  <2> DEFINE new == Store!NewCliSession(st, ws)
             old == [st.session EXCEPT !.mt = st.now]
             backup == [path EXCEPT !.bak = st.now]
  <2>1. /\ IsProcess(after) /\ after.session = new /\ after.path = st.path
        /\ after.files = Store!Write(Store!Write(st.files, Store!Backup(st), old), path, new)
        /\ after.now = st.now + 1
    <3> HIDE DEF after
    <3>1. QED
      BY <1>0, <1>4, ClearFields
  <2>2. Store!Backup(st) = backup
    BY <1>0 DEF Store!Backup
  <2>3. backup \notin DOMAIN files /\ backup.bak = st.now
    OBVIOUS
  <2>4. Fits(path, new, ws)
    BY DEF Fits, IsSession, Store!NewCliSession, Store!ValidateLoadedSession
  <2> HIDE DEF after, new, old, backup
  <2>5. /\ DOMAIN after.files = DOMAIN st.files \cup {backup, path}
        /\ \A q \in DOMAIN after.files : after.files[q] = IF q = path THEN new
                                                         ELSE IF q = backup THEN old ELSE st.files[q]
    BY <2>1, <2>2 DEF Store!Write
  <2>6. Keeps(after, files, path, ws)
    BY <1>0, <2>1, <2>3, <2>4, <2>5 DEF Keeps
  <2>7. QED
    BY <2>6 DEF after
<1>5. QED
  <2> HIDE DEF after
  <2>1. QED
    BY <1>1, <1>2, <1>3, <1>4, RunCases DEF after

(* What was printed before is kept in front. *)
Behind(out, st) == [st EXCEPT !.out = out \o st.out]
LEMMA BehindFields ==
  ASSUME NEW st, IsProcess(st), NEW out \in Seq(Sayings)
  PROVE  /\ IsProcess(Behind(out, st))
         /\ Behind(out, st).session = st.session /\ Behind(out, st).path = st.path
         /\ Behind(out, st).files = st.files /\ Behind(out, st).now = st.now
         /\ Behind(out, st).out = out \o st.out /\ Behind(out, st).exit = st.exit
<1> DEFINE both == out \o st.out
           behind == Behind(out, st)
<1>1. both \in Seq(Sayings)
  BY ConcatProperties DEF IsProcess
<1>2. behind = [st EXCEPT !.out = both]
  BY DEF Behind
<1> HIDE DEF both, behind
<1>3. /\ IsProcess(behind)
      /\ behind.session = st.session /\ behind.path = st.path
      /\ behind.files = st.files /\ behind.now = st.now
      /\ behind.out = both /\ behind.exit = st.exit
  BY <1>1, <1>2 DEF IsProcess
<1>4. QED
  BY <1>3 DEF both, behind

LEMMA RunBehind ==
  ASSUME NEW st, IsProcess(st), IsSession(st.session), NEW out \in Seq(Sayings), NEW ws, NEW command
  PROVE  Store!RunResumeCommand(Behind(out, st), ws, command) =
           Behind(out, Store!RunResumeCommand(st, ws, command))
<1> DEFINE b == Behind(out, st)
           run(x) == Store!RunResumeCommand(x, ws, command)
<1>1. /\ IsProcess(b) /\ b.session = st.session /\ b.path = st.path /\ b.files = st.files
      /\ b.now = st.now /\ b.out = out \o st.out /\ b.exit = st.exit /\ IsSession(b.session)
  BY BehindFields
<1>2. \A what \in Sayings : Append(b.out, what) = out \o Append(st.out, what)
  <2>1. st.out \in Seq(Sayings)
    BY DEF IsProcess
  <2> DEFINE more == st.out
  <2>4. more \in Seq(Sayings)
    BY <2>1
  <2> HIDE DEF more
  <2>5. \A what \in Sayings : Append(out \o more, what) = out \o Append(more, what)
    BY <2>4
  <2>2. \A what \in Sayings : Append(out \o st.out, what) = out \o Append(st.out, what)
    BY <2>5 DEF more
  <2> HIDE DEF b
  <2>3. QED
    BY <1>1, <2>2
<1> HIDE DEF b
<1>3. \A what \in Sayings : Store!Said(b, what) = Behind(out, Store!Said(st, what))
  <2> TAKE what \in Sayings
  <2> DEFINE x == Store!Said(b, what)
             y == Store!Said(st, what)
             z == Behind(out, y)
  <2>1. /\ IsProcess(x) /\ x.session = st.session /\ x.path = st.path /\ x.files = st.files
        /\ x.now = st.now + 1 /\ x.out = out \o Append(st.out, what) /\ x.exit = st.exit
    BY <1>1, <1>2, SaidFields
  <2>2. /\ IsProcess(y) /\ y.session = st.session /\ y.path = st.path /\ y.files = st.files
        /\ y.now = st.now + 1 /\ y.out = Append(st.out, what) /\ y.exit = st.exit
    BY SaidFields
  <2> HIDE DEF x, y
  <2>3. /\ IsProcess(z) /\ z.session = y.session /\ z.path = y.path /\ z.files = y.files
        /\ z.now = y.now /\ z.out = out \o y.out /\ z.exit = y.exit
    BY <2>2, BehindFields
  <2> HIDE DEF z
  <2>4. x = z
    BY <2>1, <2>2, <2>3, SameProcess
  <2>5. QED
    BY <2>4 DEF x, y, z
<1>4. \A what \in Sayings : Store!Refused(b, 2, what) = Behind(out, Store!Refused(st, 2, what))
  <2> TAKE what \in Sayings
  <2> DEFINE x == Store!Refused(b, 2, what)
             y == Store!Refused(st, 2, what)
             z == Behind(out, y)
  <2>1. /\ IsProcess(x) /\ x.session = st.session /\ x.path = st.path /\ x.files = st.files
        /\ x.now = st.now + 1 /\ x.out = out \o Append(st.out, what) /\ x.exit = 2
    BY <1>1, <1>2, RefusedFields
  <2>2. /\ IsProcess(y) /\ y.session = st.session /\ y.path = st.path /\ y.files = st.files
        /\ y.now = st.now + 1 /\ y.out = Append(st.out, what) /\ y.exit = 2
    BY RefusedFields
  <2> HIDE DEF x, y
  <2>3. /\ IsProcess(z) /\ z.session = y.session /\ z.path = y.path /\ z.files = y.files
        /\ z.now = y.now /\ z.out = out \o y.out /\ z.exit = y.exit
    BY <2>2, BehindFields
  <2> HIDE DEF z
  <2>4. x = z
    BY <2>1, <2>2, <2>3, SameProcess
  <2>5. QED
    BY <2>4 DEF x, y, z
<1>5. Store!ResumeCompact(b) = Behind(out, Store!ResumeCompact(st))
  <2> DEFINE x == Store!ResumeCompact(b)
             y == Store!ResumeCompact(st)
             z == Behind(out, y)
             s == CompactedSession(st.session, st.now)
             files == Store!Write(st.files, st.path, s)
  <2>0. "compact" \in Sayings
    BY DEF Sayings
  <2>1. /\ IsProcess(x) /\ x.session = s /\ x.path = st.path /\ x.files = files
        /\ x.now = st.now + 1 /\ x.out = out \o Append(st.out, "compact") /\ x.exit = st.exit
    BY <1>1, <1>2, <2>0, CompactFields
  <2>2. /\ IsProcess(y) /\ y.session = s /\ y.path = st.path /\ y.files = files
        /\ y.now = st.now + 1 /\ y.out = Append(st.out, "compact") /\ y.exit = st.exit
    BY CompactFields
  <2> HIDE DEF x, y, s, files
  <2>3. /\ IsProcess(z) /\ z.session = y.session /\ z.path = y.path /\ z.files = y.files
        /\ z.now = y.now /\ z.out = out \o y.out /\ z.exit = y.exit
    BY <2>2, BehindFields
  <2> HIDE DEF z
  <2>4. x = z
    BY <2>1, <2>2, <2>3, SameProcess
  <2>5. QED
    BY <2>4 DEF x, y, z
<1>6. Store!ResumeClear(b, ws) = Behind(out, Store!ResumeClear(st, ws))
  <2> DEFINE x == Store!ResumeClear(b, ws)
             y == Store!ResumeClear(st, ws)
             z == Behind(out, y)
             s == Store!NewCliSession(st, ws)
             files == Store!Write(Store!Write(st.files, Store!Backup(st), [st.session EXCEPT !.mt = st.now]),
                                  st.path, s)
  <2>0. "clear" \in Sayings
    BY DEF Sayings
  <2>1. /\ IsProcess(x) /\ x.session = s /\ x.path = st.path /\ x.files = files
        /\ x.now = st.now + 1 /\ x.out = out \o Append(st.out, "clear") /\ x.exit = st.exit
    <3>1. Store!NewCliSession(b, ws) = s /\ Store!Backup(b) = Store!Backup(st)
      BY <1>1 DEF Store!NewCliSession, Store!Backup
    <3>2. /\ IsProcess(x) /\ x.session = Store!NewCliSession(b, ws) /\ x.path = b.path
          /\ x.files = Store!Write(Store!Write(b.files, Store!Backup(b), [b.session EXCEPT !.mt = b.now]),
                                   b.path, Store!NewCliSession(b, ws))
          /\ x.now = b.now + 1 /\ x.out = Append(b.out, "clear") /\ x.exit = b.exit
      BY <1>1, ClearFields
    <3> HIDE DEF x, s
    <3>3. QED
      BY <1>1, <1>2, <2>0, <3>1, <3>2
  <2>2. /\ IsProcess(y) /\ y.session = s /\ y.path = st.path /\ y.files = files
        /\ y.now = st.now + 1 /\ y.out = Append(st.out, "clear") /\ y.exit = st.exit
    BY ClearFields
  <2> HIDE DEF x, y, s, files
  <2>3. /\ IsProcess(z) /\ z.session = y.session /\ z.path = y.path /\ z.files = y.files
        /\ z.now = y.now /\ z.out = out \o y.out /\ z.exit = y.exit
    BY <2>2, BehindFields
  <2> HIDE DEF z
  <2>4. x = z
    BY <2>1, <2>2, <2>3, SameProcess
  <2>5. QED
    BY <2>4 DEF x, y, z
<1>7. CASE st.exit # 0
  <2>1. run(b) = b /\ run(st) = st
    BY <1>1, <1>7 DEF Store!RunResumeCommand
  <2>2. QED
    BY <2>1 DEF b
<1>8. CASE st.exit = 0 /\ CommandRoot[command] \in Store!Commands!STUB_COMMANDS
  <2>1. /\ run(b) = Store!Refused(b, 2, "not yet implemented")
        /\ run(st) = Store!Refused(st, 2, "not yet implemented")
    BY <1>1, <1>8 DEF Store!RunResumeCommand
  <2>2. "not yet implemented" \in Sayings
    BY DEF Sayings
  <2>3. QED
    BY <1>4, <2>1, <2>2 DEF b
<1>9. CASE st.exit = 0 /\ CommandRoot[command] \notin Store!Commands!STUB_COMMANDS
  <2>0. {"help", "confirmation required", "unsupported resumed command"} \subseteq Sayings
    BY DEF Sayings
  <2>1. CASE command = "/help"
    <3>1. run(b) = Store!Said(b, "help") /\ run(st) = Store!Said(st, "help")
      BY <1>1, <1>9, <2>1 DEF Store!RunResumeCommand
    <3>2. QED
      BY <1>3, <2>0, <3>1 DEF b
  <2>2. CASE command = "/compact"
    <3>1. run(b) = Store!ResumeCompact(b) /\ run(st) = Store!ResumeCompact(st)
      BY <1>1, <1>9, <2>2 DEF Store!RunResumeCommand
    <3>2. QED
      BY <1>5, <3>1 DEF b
  <2>3. CASE command = "/clear"
    <3>1. run(b) = Store!Said(b, "confirmation required") /\ run(st) = Store!Said(st, "confirmation required")
      BY <1>1, <1>9, <2>3 DEF Store!RunResumeCommand
    <3>2. QED
      BY <1>3, <2>0, <3>1 DEF b
  <2>4. CASE command = "/clear --confirm"
    <3>1. run(b) = Store!ResumeClear(b, ws) /\ run(st) = Store!ResumeClear(st, ws)
      BY <1>1, <1>9, <2>4 DEF Store!RunResumeCommand
    <3>2. QED
      BY <1>6, <3>1 DEF b
  <2>5. CASE command \notin {"/help", "/compact", "/clear", "/clear --confirm"}
    <3>1. /\ run(b) = Store!Refused(b, 2, "unsupported resumed command")
          /\ run(st) = Store!Refused(st, 2, "unsupported resumed command")
      BY <1>1, <1>9, <2>5 DEF Store!RunResumeCommand
    <3>2. QED
      BY <1>4, <2>0, <3>1 DEF b
  <2>6. QED
    BY <2>1, <2>2, <2>3, <2>4, <2>5
<1>10. QED
  BY <1>7, <1>8, <1>9

(* One process after the other. *)
RunsTo(h, st, ws, commands) ==
  /\ h[0] = st
  /\ \A k \in 1 .. Len(commands) : h[k] = Store!RunResumeCommand(h[k - 1], ws, commands[k])

LEMMA RunAllRuns ==
  ASSUME NEW st, NEW ws, NEW commands, Len(commands) \in Nat
  PROVE  \E h : RunsTo(h, st, ws, commands) /\ Store!RunAll(st, ws, commands) = h[Len(commands)]
<1> DEFINE IsIt(m, f) == f = [k \in 0 .. m |-> IF k = 0 THEN st
                                             ELSE Store!RunResumeCommand(f[k - 1], ws, commands[k])]
           Has(m) == \E f : IsIt(m, f)
           it(m) == CHOOSE f : IsIt(m, f)
<1>1. ASSUME NEW n \in Nat PROVE Has(n)
  <2> DEFINE good == {m \in 0 .. n : Has(m)}
  <2>1. 0 \in good
    <3>1. IsIt(0, [k \in 0 .. 0 |-> st])
      OBVIOUS
    <3> HIDE DEF IsIt
    <3>2. QED
      BY <3>1
  <2>2. ASSUME NEW m \in 1 .. n, m - 1 \in good PROVE m \in good
    <3>1. PICK f : IsIt(m - 1, f)
      BY <2>2
    <3> DEFINE g == [k \in 0 .. m |-> IF k = m THEN Store!RunResumeCommand(f[m - 1], ws, commands[m]) ELSE f[k]]
    <3>2. ASSUME NEW k \in 0 .. m
          PROVE  g[k] = IF k = 0 THEN st ELSE Store!RunResumeCommand(g[k - 1], ws, commands[k])
      <4>1. CASE k = m
        <5>1. m - 1 \in 0 .. m /\ m - 1 # m /\ k # 0
          BY <4>1
        <5>2. QED
          BY <4>1, <5>1
      <4>2. CASE k # m
        <5>1. k \in 0 .. m - 1 /\ (k # 0 => k - 1 \in 0 .. m /\ k - 1 # m)
          BY <4>2
        <5>2. f[k] = IF k = 0 THEN st ELSE Store!RunResumeCommand(f[k - 1], ws, commands[k])
          BY <3>1, <5>1
        <5>3. QED
          BY <4>2, <5>1, <5>2
      <4>3. QED
        BY <4>1, <4>2
    <3>3. g = [k \in 0 .. m |-> g[k]]
      OBVIOUS
    <3> HIDE DEF g
    <3>4. IsIt(m, g)
      BY <3>2, <3>3
    <3> HIDE DEF IsIt
    <3>5. QED
      BY <3>4
  <2>3. good \in SUBSET (0 .. n)
    OBVIOUS
  <2>4. good = 0 .. n
    <3> HIDE DEF good
    <3>1. QED
      BY <2>1, <2>2, <2>3, Climb
  <2>5. n \in good
    BY <2>4
  <2>6. QED
    BY <2>5
<1>2. IsIt(Len(commands), it(Len(commands)))
  <2>1. Has(Len(commands))
    BY <1>1
  <2> HIDE DEF IsIt
  <2>2. QED
    BY <2>1
<1>3. Store!RunAll(st, ws, commands) = it(Len(commands))[Len(commands)]
  BY DEF Store!RunAll
<1> HIDE DEF it
<1>4. RunsTo(it(Len(commands)), st, ws, commands)
  <2> DEFINE h == it(Len(commands))
             n == Len(commands)
  <2>1. ASSUME NEW k \in 0 .. n
        PROVE  h[k] = IF k = 0 THEN st ELSE Store!RunResumeCommand(h[k - 1], ws, commands[k])
    BY <1>2
  <2> HIDE DEF h
  <2>2. h[0] = st
    BY <2>1
  <2>3. \A k \in 1 .. n : h[k] = Store!RunResumeCommand(h[k - 1], ws, commands[k])
    BY <2>1
  <2>4. QED
    BY <2>2, <2>3 DEF h, RunsTo
<1>5. QED
  BY <1>3, <1>4

(* The files that were there are no backups, and the one loaded can have one. *)
NoBackups(files, path) ==
  /\ \A q \in DOMAIN files : q.bak = 0
  /\ \A n : [path EXCEPT !.bak = n].bak = n

LEMMA RunsKeep ==
  ASSUME NEW h, NEW st, NEW files, NEW path, NEW ws, NEW commands, NEW n \in Nat, n = Len(commands),
         RunsTo(h, st, ws, commands), Keeps(st, files, path, ws), NoBackups(files, path)
  PROVE  \A k \in 0 .. n : Keeps(h[k], files, path, ws)
<1> DEFINE good == {k \in 0 .. n : Keeps(h[k], files, path, ws)}
<1>1. 0 \in good
  BY DEF RunsTo
<1>2. ASSUME NEW k \in 1 .. n, k - 1 \in good PROVE k \in good
  <2> DEFINE before == h[k - 1]
  <2>1. h[k] = Store!RunResumeCommand(before, ws, commands[k]) /\ Keeps(before, files, path, ws)
    BY <1>2 DEF RunsTo
  <2> HIDE DEF before
  <2>2. before.now # 0
    BY <2>1 DEF Keeps
  <2>3. /\ \A q \in DOMAIN files : [path EXCEPT !.bak = before.now] # q
        /\ [path EXCEPT !.bak = before.now].bak = before.now
    BY <2>2 DEF NoBackups
  <2>4. Keeps(Store!RunResumeCommand(before, ws, commands[k]), files, path, ws)
    BY <2>1, <2>3, RunKeeps
  <2>5. k \in 0 .. n
    OBVIOUS
  <2>6. QED
    BY <2>1, <2>4, <2>5
<1>3. good \in SUBSET (0 .. n)
  OBVIOUS
<1>4. good = 0 .. n
  <2> HIDE DEF good
  <2>1. QED
    BY <1>1, <1>2, <1>3, Climb
<1>5. QED
  BY <1>4

(* The first commands alone do what they do in front of the others. *)
LEMMA RunsFirst ==
  ASSUME NEW h, NEW g, NEW st, NEW ws, NEW c, NEW d, NEW k \in Nat, k = Len(d), Len(c) \in Nat, k <= Len(c),
         \A i \in 1 .. k : d[i] = c[i], RunsTo(h, st, ws, c), RunsTo(g, st, ws, d)
  PROVE  g[k] = h[k]
<1> DEFINE good == {i \in 0 .. k : g[i] = h[i]}
<1>1. 0 \in good
  BY DEF RunsTo
<1>2. ASSUME NEW i \in 1 .. k, i - 1 \in good PROVE i \in good
  <2>1. i \in 1 .. Len(c) /\ i \in 1 .. Len(d) /\ i \in 0 .. k
    OBVIOUS
  <2>2. /\ g[i] = Store!RunResumeCommand(g[i - 1], ws, d[i])
        /\ h[i] = Store!RunResumeCommand(h[i - 1], ws, c[i])
    BY <2>1 DEF RunsTo
  <2>3. g[i] = h[i]
    BY <1>2, <2>2
  <2>4. QED
    BY <2>1, <2>3
<1>3. good \in SUBSET (0 .. k)
  OBVIOUS
<1>4. good = 0 .. k
  <2> HIDE DEF good
  <2>1. QED
    BY <1>1, <1>2, <1>3, Climb
<1>5. k \in good
  BY <1>4
<1>6. QED
  BY <1>5

(* The others do the same in a second process, which prints what is missing. *)
Continues(c, d, k, n, m) ==
  /\ k \in Nat /\ n \in Nat /\ m \in Nat
  /\ n = Len(c) /\ m = Len(d) /\ k <= n /\ m = n - k
  /\ \A i \in 1 .. m : d[i] = c[k + i]
LEMMA RunsSecond ==
  ASSUME NEW h, NEW g, NEW st, NEW again, NEW ws, NEW c, NEW d, NEW k, NEW n, NEW m, Continues(c, d, k, n, m),
         NEW files, NEW path, NoBackups(files, path), NEW out \in Seq(Sayings),
         RunsTo(h, st, ws, c), RunsTo(g, again, ws, d), Keeps(again, files, path, ws), h[k] = Behind(out, again)
  PROVE  h[n] = Behind(out, g[m])
<1>0. /\ k \in Nat /\ n \in Nat /\ m \in Nat
      /\ n = Len(c) /\ m = Len(d) /\ k <= n /\ m = n - k
      /\ \A i \in 1 .. m : d[i] = c[k + i]
  BY DEF Continues
<1> DEFINE good == {i \in 0 .. m : h[k + i] = Behind(out, g[i])}
<1>1. 0 \in good
  <2>1. k + 0 = k /\ 0 \in 0 .. m
    BY <1>0
  <2>2. QED
    BY <2>1 DEF RunsTo
<1>2. ASSUME NEW i \in 1 .. m, i - 1 \in good PROVE i \in good
  <2>1. k + i \in 1 .. Len(c) /\ (k + i) - 1 = k + (i - 1) /\ i \in 1 .. Len(d) /\ i \in 0 .. m /\ i - 1 \in 0 .. m
    BY <1>0
  <2>2. /\ g[i] = Store!RunResumeCommand(g[i - 1], ws, d[i])
        /\ h[k + i] = Store!RunResumeCommand(h[k + (i - 1)], ws, c[k + i])
    BY <1>0, <2>1 DEF RunsTo
  <2>3. h[k + (i - 1)] = Behind(out, g[i - 1])
    BY <1>2
  <2>4. IsProcess(g[i - 1]) /\ IsSession(g[i - 1].session)
    <3>1. Keeps(g[i - 1], files, path, ws)
      BY <1>0, <2>1, RunsKeep
    <3>2. QED
      BY <3>1 DEF Keeps, Fits
  <2>5. h[k + i] = Behind(out, g[i])
    <3> DEFINE before == g[i - 1]
    <3>1. IsProcess(before) /\ IsSession(before.session)
      BY <2>4
    <3>2. h[k + i] = Store!RunResumeCommand(Behind(out, before), ws, d[i])
          /\ g[i] = Store!RunResumeCommand(before, ws, d[i])
      BY <1>0, <2>1, <2>2, <2>3
    <3> HIDE DEF before
    <3>3. QED
      BY <3>1, <3>2, RunBehind
  <2>6. QED
    BY <2>1, <2>5
<1>3. good \in SUBSET (0 .. m)
  OBVIOUS
<1>4. good = 0 .. m
  <2> HIDE DEF good
  <2>1. QED
    BY <1>0, <1>1, <1>2, <1>3, Climb
<1>5. m \in good /\ k + m = n
  BY <1>0, <1>4
<1>6. QED
  BY <1>5

(* Behind a command that ends the process nothing happens. *)
LEMMA RunsOver ==
  ASSUME NEW h, NEW st, NEW ws, NEW c, NEW k \in Nat, NEW n \in Nat, n = Len(c), k <= n,
         RunsTo(h, st, ws, c), h[k].exit # 0
  PROVE  h[n] = h[k]
<1> DEFINE good == {i \in 0 .. n - k : h[k + i] = h[k]}
<1>1. 0 \in good /\ n - k \in Nat
  <2>1. k + 0 = k /\ 0 \in 0 .. n - k /\ n - k \in Nat
    OBVIOUS
  <2>2. QED
    BY <2>1
<1>2. ASSUME NEW i \in 1 .. n - k, i - 1 \in good PROVE i \in good
  <2>1. k + i \in 1 .. Len(c) /\ (k + i) - 1 = k + (i - 1) /\ i \in 0 .. n - k
    OBVIOUS
  <2>2. h[k + i] = Store!RunResumeCommand(h[k + (i - 1)], ws, c[k + i])
    BY <2>1 DEF RunsTo
  <2>3. h[k + i] = h[k]
    BY <1>2, <2>2 DEF Store!RunResumeCommand
  <2>4. QED
    BY <2>1, <2>3
<1>3. good \in SUBSET (0 .. n - k)
  OBVIOUS
<1>4. good = 0 .. n - k
  <2> HIDE DEF good
  <2>1. QED
    BY <1>1, <1>2, <1>3, Climb
<1>5. n - k \in 0 .. n - k /\ k + (n - k) = n
  BY <1>1
<1>6. n - k \in good
  BY <1>4, <1>5
<1>7. QED
  BY <1>5, <1>6

-----------------------------------------------------------------------------
(* The references that name a session. *)

(* Where a session is found, it is found again by the next process. *)
FoundAgain(files, more, path, ws) ==
  /\ \A q \in DOMAIN files : q \in DOMAIN more
  /\ \A q \in DOMAIN more : q \in DOMAIN files \/ q.bak # 0
  /\ \A q \in DOMAIN files : q # path => more[q] = files[q]
  /\ more[path].parses /\ Store!ValidateLoadedSession(path, more[path], ws)

LEMMA ManagedFound ==
  ASSUME NEW files, NEW id, NEW ws
  PROVE  LET r == Store!ResolveManagedPath(files, id, ws)
         IN  /\ r.ok \in BOOLEAN
             /\ r.ok => /\ r.path \in DOMAIN files /\ r = [ok |-> TRUE, path |-> r.path]
                        /\ \A more : FoundAgain(files, more, r.path, ws) =>
                                       Store!ResolveManagedPath(more, id, ws) = r
<1> DEFINE At(kind, ext) == [dir |-> <<ws, kind>>, id |-> id, ext |-> ext, bak |-> 0]
           places == <<At("own", "jsonl"), At("own", "json"), At("legacy", "jsonl"), At("legacy", "json")>>
           there(f) == {k \in 1 .. 4 : places[k] \in DOMAIN f}
           first(f) == CHOOSE k \in there(f) : \A j \in there(f) : k <= j
           path(f) == places[first(f)]
           reads(f) == f[path(f)].parses
           belongs(f) == Store!ValidateLoadedSession(path(f), f[path(f)], ws)
           none(f) == there(f) = {}
           own(f) == first(f) <= 2
           found(f) == IF none(f) THEN Store!Failed("session not found")
                       ELSE IF own(f) THEN [ok |-> TRUE, path |-> path(f)]
                       ELSE IF ~reads(f) THEN Store!Failed("unreadable")
                       ELSE IF belongs(f) THEN [ok |-> TRUE, path |-> path(f)]
                       ELSE Store!Failed("mismatch")
           r == Store!ResolveManagedPath(files, id, ws)
<1>1. \A f : Store!ResolveManagedPath(f, id, ws) = found(f)
  BY DEF Store!ResolveManagedPath
<1>2. \A k \in 1 .. 4 : places[k].bak = 0
  <2>1. places[1].bak = 0 /\ places[2].bak = 0 /\ places[3].bak = 0 /\ places[4].bak = 0
    OBVIOUS
  <2>2. 1 .. 4 = {1, 2, 3, 4}
    OBVIOUS
  <2>3. QED
    BY <2>1, <2>2
<1> HIDE DEF places
<1>3. \A f : there(f) # {} => path(f) \in DOMAIN f
  <2> TAKE f
  <2>1. ASSUME there(f) # {} PROVE first(f) \in there(f)
    <3>1. there(f) \in SUBSET Nat
      OBVIOUS
    <3>2. \E k \in there(f) : \A j \in there(f) : k <= j
      <4> HIDE DEF there
      <4>1. QED
        BY <2>1, <3>1, MinExists
    <3>3. QED
      BY <3>2
  <2>2. QED
    BY <2>1
<1>8. r = found(files)
  BY <1>1
<1>4. r.ok \in BOOLEAN
  <2> HIDE DEF none, own, reads, belongs, path, r
  <2>1. r \in {Store!Failed("session not found"), [ok |-> TRUE, path |-> path(files)],
               Store!Failed("unreadable"), Store!Failed("mismatch")}
    BY <1>8
  <2>2. \A x : Store!Failed(x).ok = FALSE
    BY DEF Store!Failed
  <2> DEFINE right == [ok |-> TRUE, path |-> path(files)]
  <2>3. right.ok = TRUE
    OBVIOUS
  <2>4. r = right \/ \E x : r = Store!Failed(x)
    BY <2>1
  <2> HIDE DEF right
  <2>5. QED
    BY <2>2, <2>3, <2>4
<1>5. ASSUME r.ok PROVE r = [ok |-> TRUE, path |-> path(files)] /\ there(files) # {}
  <2> HIDE DEF own, reads, belongs, path, r
  <2>1. CASE none(files)
    <3>1. r = Store!Failed("session not found")
      BY <1>8, <2>1
    <3>2. QED
      BY <1>5, <3>1 DEF Store!Failed
  <2>2. CASE ~none(files)
    <3> HIDE DEF none
    <3>1. r \in {[ok |-> TRUE, path |-> path(files)], Store!Failed("unreadable"), Store!Failed("mismatch")}
      BY <1>8, <2>2
    <3>2. r = [ok |-> TRUE, path |-> path(files)]
      BY <1>5, <3>1 DEF Store!Failed
    <3>3. QED
      BY <2>2, <3>2 DEF none
  <2>3. QED
    BY <2>1, <2>2
<1>6. ASSUME r.ok, NEW more, FoundAgain(files, more, r.path, ws)
      PROVE  found(more) = r
  <2>1. there(more) = there(files)
    BY <1>2, <1>6 DEF FoundAgain
  <2>2. first(more) = first(files) /\ path(more) = path(files)
    BY <2>1
  <2>3. r.path = path(files)
    BY <1>5, <1>6
  <2>4. more[path(files)].parses /\ Store!ValidateLoadedSession(path(files), more[path(files)], ws)
    BY <1>6, <2>3 DEF FoundAgain
  <2>7. reads(more) /\ belongs(more) /\ ~none(more)
    BY <1>5, <1>6, <2>1, <2>2, <2>4
  <2> HIDE DEF there, first, path, reads, belongs, none, own
  <2>5. found(more) = [ok |-> TRUE, path |-> path(files)]
    BY <2>2, <2>7
  <2>6. QED
    BY <1>5, <1>6, <2>5
<1>7. QED
  <2> HIDE DEF r, found, path, there
  <2>1. r.ok => /\ r.path \in DOMAIN files /\ r = [ok |-> TRUE, path |-> r.path]
                /\ \A more : FoundAgain(files, more, r.path, ws) => Store!ResolveManagedPath(more, id, ws) = r
    BY <1>1, <1>3, <1>5, <1>6
  <2>2. QED
    BY <1>4, <2>1 DEF r

LEMMA ReferenceFound ==
  ASSUME NEW files, NEW ref \in FilesNamed, NEW ws
  PROVE  \E r : /\ Store!ResolveReference(files, ref, ws) = {r} /\ r.ok \in BOOLEAN
                /\ r.ok => /\ r.path \in DOMAIN files
                           /\ \A more : FoundAgain(files, more, r.path, ws) =>
                                          Store!ResolveReference(more, ref, ws) = {r}
<1>1. CASE ref.kind = "path"
  <2> DEFINE found(f) == IF ref.path \in DOMAIN f THEN [ok |-> TRUE, path |-> ref.path]
                         ELSE Store!Failed("session not found")
             r == found(files)
  <2>1. \A f : Store!ResolveReference(f, ref, ws) = {found(f)}
    BY <1>1 DEF Store!ResolveReference
  <2>2. r.ok \in BOOLEAN
    BY DEF Store!Failed
  <2>3. ASSUME r.ok
        PROVE  r.path = ref.path /\ ref.path \in DOMAIN files /\ r = [ok |-> TRUE, path |-> ref.path]
    BY <2>3 DEF Store!Failed
  <2>4. ASSUME r.ok, NEW more, FoundAgain(files, more, r.path, ws)
        PROVE  found(more) = r
    <3>1. ref.path \in DOMAIN more
      BY <2>3, <2>4 DEF FoundAgain
    <3>2. QED
      BY <2>3, <2>4, <3>1
  <2> HIDE DEF found, r
  <2>5. QED
    BY <2>1, <2>2, <2>3, <2>4 DEF r
<1>2. CASE ref.kind = "id"
  <2> DEFINE direct == [dir |-> <<ws, "files">>, id |-> ref.id, ext |-> "", bak |-> 0]
             managed(f) == Store!ResolveManagedPath(f, ref.id, ws)
             found(f) == IF direct \in DOMAIN f THEN [ok |-> TRUE, path |-> direct] ELSE managed(f)
             r == found(files)
  <2>1. \A f : Store!ResolveReference(f, ref, ws) = {found(f)}
    BY <1>2 DEF Store!ResolveReference
  <2>2. direct.bak = 0
    OBVIOUS
  <2> HIDE DEF direct
  <2>3. \A more : FoundAgain(files, more, r.path, ws) => (direct \in DOMAIN more <=> direct \in DOMAIN files)
    BY <2>2 DEF FoundAgain
  <2>4. CASE direct \in DOMAIN files
    <3>1. r = [ok |-> TRUE, path |-> direct]
      BY <2>4
    <3>2. \A more : FoundAgain(files, more, r.path, ws) => found(more) = r
      BY <2>3, <2>4
    <3> HIDE DEF found, r
    <3>3. QED
      BY <2>1, <2>4, <3>1, <3>2 DEF r
  <2>5. CASE direct \notin DOMAIN files
    <3>1. r = managed(files)
      BY <2>5
    <3>2. /\ r.ok \in BOOLEAN
          /\ r.ok => /\ r.path \in DOMAIN files
                     /\ \A more : FoundAgain(files, more, r.path, ws) => managed(more) = r
      <4>1. LET m == managed(files)
            IN  /\ m.ok \in BOOLEAN
                /\ m.ok => /\ m.path \in DOMAIN files
                           /\ \A more : FoundAgain(files, more, m.path, ws) => managed(more) = m
        BY ManagedFound
      <4> HIDE DEF r, managed
      <4>2. QED
        BY <3>1, <4>1
    <3>3. \A more : FoundAgain(files, more, r.path, ws) => (r.ok => found(more) = r)
      <4> HIDE DEF managed, r
      <4>1. QED
        BY <2>3, <2>5, <3>2
    <3> HIDE DEF found, managed
    <3>4. QED
      BY <2>1, <3>2, <3>3
  <2>6. QED
    BY <2>4, <2>5
<1>3. QED
  BY <1>1, <1>2 DEF FilesNamed

(* What comes of a reference that is found. *)
Opened(files, r, ws) ==
  IF ~r.ok THEN r
  ELSE IF ~files[r.path].parses THEN Store!Failed("unreadable")
  ELSE IF ~Store!ValidateLoadedSession(r.path, files[r.path], ws) THEN Store!Failed("mismatch")
  ELSE [ok |-> TRUE, path |-> r.path, session |-> files[r.path]]

LEMMA LoadOpens ==
  ASSUME NEW files, NEW ref, NEW ws
  PROVE  Store!LoadSession(files, ref, ws) = {Opened(files, r, ws) : r \in Store!ResolveReference(files, ref, ws)}
BY DEF Store!LoadSession, Opened

LEMMA LoadAgain ==
  ASSUME NEW files, NEW ref \in FilesNamed, NEW ws
  PROVE  \E r : /\ Store!LoadSession(files, ref, ws) = {r} /\ r.ok \in BOOLEAN
                /\ r.ok => /\ r.path \in DOMAIN files /\ r = [ok |-> TRUE, path |-> r.path, session |-> files[r.path]]
                           /\ files[r.path].parses /\ Store!ValidateLoadedSession(r.path, files[r.path], ws)
                           /\ \A more : FoundAgain(files, more, r.path, ws) =>
                                Store!LoadSession(more, ref, ws) =
                                  {[ok |-> TRUE, path |-> r.path, session |-> more[r.path]]}
<1>1. PICK found : /\ Store!ResolveReference(files, ref, ws) = {found} /\ found.ok \in BOOLEAN
                   /\ found.ok => /\ found.path \in DOMAIN files
                                  /\ \A more : FoundAgain(files, more, found.path, ws) =>
                                                 Store!ResolveReference(more, ref, ws) = {found}
  BY ReferenceFound
<1> DEFINE r == Opened(files, found, ws)
<1>2. Store!LoadSession(files, ref, ws) = {r}
  BY <1>1, LoadOpens
<1>3. r.ok \in BOOLEAN
  BY <1>1 DEF Opened, Store!Failed
<1>4. ASSUME r.ok
      PROVE  /\ found.ok /\ r.path = found.path /\ r = [ok |-> TRUE, path |-> found.path, session |-> files[found.path]]
             /\ files[r.path].parses /\ Store!ValidateLoadedSession(r.path, files[r.path], ws)
  BY <1>1, <1>4 DEF Opened, Store!Failed
<1>5. ASSUME r.ok, NEW more, FoundAgain(files, more, r.path, ws)
      PROVE  Store!LoadSession(more, ref, ws) = {[ok |-> TRUE, path |-> r.path, session |-> more[r.path]]}
  <2>1. found.ok /\ r.path = found.path
    BY <1>4, <1>5
  <2> HIDE DEF r
  <2>2. Store!ResolveReference(more, ref, ws) = {found}
    BY <1>1, <1>5, <2>1
  <2>3. Opened(more, found, ws) = [ok |-> TRUE, path |-> r.path, session |-> more[r.path]]
    BY <1>5, <2>1 DEF Opened, FoundAgain
  <2>4. QED
    BY <2>2, <2>3, LoadOpens
<1> HIDE DEF r
<1>6. QED
  BY <1>1, <1>2, <1>3, <1>4, <1>5

-----------------------------------------------------------------------------
(* The session that "latest" names. *)

LEMMA GreatestOf ==
  ASSUME NEW S, IsFiniteSet(S), S # {}, NEW v \in [S -> Nat]
  PROVE  \E m \in S : \A y \in S : v[y] <= v[m]
<1>1. PICK n \in Nat : ExistsBijection(1 .. n, S)
  BY FS_CardinalityType
<1>2. PICK f \in [1 .. n -> S] : \A y \in S : \E i \in 1 .. n : f[i] = y
  BY <1>1 DEF ExistsBijection, Bijection, Surjection
<1> DEFINE good == {k \in 0 .. n : \E b \in Nat : \A i \in 1 .. k : v[f[i]] <= b}
<1>3. \A k \in 0 .. n : \E b \in Nat : \A i \in 1 .. k : v[f[i]] <= b
  <2>1. 0 \in good
    BY <1>1
  <2>2. ASSUME NEW k \in 1 .. n, k - 1 \in good PROVE k \in good
    <3>1. PICK b \in Nat : \A i \in 1 .. k - 1 : v[f[i]] <= b
      BY <2>2
    <3>2. v[f[k]] \in Nat /\ k \in 0 .. n
      BY <1>2
    <3> DEFINE top == IF v[f[k]] <= b THEN b ELSE v[f[k]]
    <3>3. top \in Nat /\ b <= top /\ v[f[k]] <= top
      BY <3>2
    <3>4. \A i \in 1 .. k : v[f[i]] <= top
      <4> TAKE i \in 1 .. k
      <4>1. CASE i = k
        BY <4>1, <3>3
      <4>2. CASE i # k
        <5>1. i \in 1 .. k - 1 /\ i \in 1 .. n
          BY <4>2
        <5>2. v[f[i]] \in Nat /\ v[f[i]] <= b
          BY <1>2, <3>1, <5>1
        <5> HIDE DEF top
        <5>3. QED
          BY <3>3, <5>2
      <4>3. QED
        BY <4>1, <4>2
    <3> HIDE DEF top
    <3>5. QED
      BY <3>2, <3>3, <3>4
  <2>3. good \in SUBSET (0 .. n)
    OBVIOUS
  <2>4. good = 0 .. n
    <3> HIDE DEF good
    <3>1. QED
      BY <2>1, <2>2, <2>3, Climb
  <2>5. QED
    BY <2>4
<1>4. PICK b \in Nat : \A i \in 1 .. n : v[f[i]] <= b
  <2>1. n \in 0 .. n
    OBVIOUS
  <2>2. QED
    BY <1>3, <2>1
<1> DEFINE U == {v[y] : y \in S}
<1>5. U \in SUBSET Nat /\ U # {} /\ \A u \in U : u <= b
  BY <1>2, <1>4
<1>6. Max(U) \in U /\ \A u \in U : u <= Max(U)
  <2> HIDE DEF U
  <2>1. QED
    BY <1>5, MaxMember
<1>7. PICK m \in S : v[m] = Max(U)
  BY <1>6
<1>8. \A y \in S : v[y] \in U
  OBVIOUS
<1> HIDE DEF U
<1>9. QED
  BY <1>6, <1>7, <1>8

(* The files of a workspace that a listing shows. *)
ShownFiles(files, ws) ==
  {p \in DOMAIN files : /\ p.dir \in {<<ws, "own">>, <<ws, "legacy">>} /\ Store!IsManagedSessionFile(p)
                        /\ files[p].parses => Store!ValidateLoadedSession(p, files[p], ws)}

LEMMA ListShows ==
  ASSUME NEW files, NEW ws
  PROVE  Store!ListSessions(files, ws) = {Store!Summary(files, p) : p \in ShownFiles(files, ws)}
BY DEF Store!ListSessions, Store!Collect, ShownFiles

Timed(files, p) == /\ Store!Summary(files, p).upd \in Nat
                   /\ Store!Summary(files, p).mt \in Nat /\ Store!Summary(files, p).id \in Nat

LEMMA LatestThere ==
  ASSUME NEW files, NEW ws, IsFiniteSet(DOMAIN files), ShownFiles(files, ws) # {},
         \A p \in ShownFiles(files, ws) : Timed(files, p)
  PROVE  Store!Latest(files, ws) # {}
<1> DEFINE P == ShownFiles(files, ws)
           Sum(p) == Store!Summary(files, p)
<1>1. IsFiniteSet(P) /\ \A Q \in SUBSET P : IsFiniteSet(Q)
  BY FS_Subset DEF ShownFiles
<1>2. \A p \in P : Sum(p).upd \in Nat /\ Sum(p).mt \in Nat /\ Sum(p).id \in Nat
  BY DEF Timed
<1> HIDE DEF P, Sum
<1>3. PICK a \in P : \A y \in P : Sum(y).upd <= Sum(a).upd
  <2> DEFINE v == [p \in P |-> Sum(p).upd]
  <2>1. v \in [P -> Nat] /\ P # {}
    BY <1>2 DEF P
  <2>2. \E m \in P : \A y \in P : v[y] <= v[m]
    <3> HIDE DEF v
    <3>1. QED
      BY <1>1, <2>1, GreatestOf
  <2>3. QED
    BY <2>2
<1> DEFINE Q == {p \in P : Sum(p).upd = Sum(a).upd}
<1>4. PICK b \in Q : \A y \in Q : Sum(y).mt <= Sum(b).mt
  <2> DEFINE v == [p \in Q |-> Sum(p).mt]
  <2>1. v \in [Q -> Nat] /\ Q # {} /\ IsFiniteSet(Q)
    BY <1>1, <1>2
  <2>2. \E m \in Q : \A y \in Q : v[y] <= v[m]
    <3> HIDE DEF v, Q
    <3>1. QED
      BY <2>1, GreatestOf
  <2>3. QED
    BY <2>2
<1> DEFINE R == {p \in Q : Sum(p).mt = Sum(b).mt}
<1>5. PICK c \in R : \A y \in R : Sum(y).id <= Sum(c).id
  <2> DEFINE v == [p \in R |-> Sum(p).id]
  <2>1. v \in [R -> Nat] /\ R # {} /\ IsFiniteSet(R)
    BY <1>1, <1>2
  <2>2. \E m \in R : \A y \in R : v[y] <= v[m]
    <3> HIDE DEF v, R
    <3>1. QED
      BY <2>1, GreatestOf
  <2>3. QED
    BY <2>2
<1>6. ASSUME NEW y \in P PROVE ~Store!Before(Sum(y), Sum(c))
  <2>1. c \in P /\ Sum(c).upd = Sum(a).upd /\ Sum(c).mt = Sum(b).mt
    OBVIOUS
  <2>2. Sum(y).upd <= Sum(c).upd
    BY <1>3, <2>1
  <2>3. Sum(y).upd = Sum(c).upd => Sum(y).mt <= Sum(c).mt
    BY <1>4, <2>1
  <2>4. Sum(y).upd = Sum(c).upd /\ Sum(y).mt = Sum(c).mt => Sum(y).id <= Sum(c).id
    BY <1>5, <2>1
  <2> HIDE DEF Q, R
  <2>5. QED
    BY <1>2, <2>1, <2>2, <2>3, <2>4 DEF Store!Before
<1>7. c \in P
  OBVIOUS
<1>8. Sum(c) \in Store!Latest(files, ws)
  BY <1>6, <1>7, ListShows DEF Store!Latest, P, Sum
<1>9. QED
  BY <1>8

-----------------------------------------------------------------------------
(* The sessions of a workspace. *)

\* A file of a workspace, and the files and commands of a user.
SessionFile(p, s) ==
  /\ s \in [parses : BOOLEAN, root : Roots \cup {<<>>}, id : {p.id}, upd : Nat, mt : Nat,
            msgs : {Conversation}]
  /\ s.parses => s.upd # 0
WorkspaceFiles(files) ==
  /\ DOMAIN files \subseteq Paths /\ IsFiniteSet(DOMAIN files)
  /\ \A p \in DOMAIN files : SessionFile(p, files[p])
WorkspaceTyped ==
  /\ edits \in Nat
  /\ form = "resume" =>
       /\ text \in [files : {text.files}, commands : Seq(DOMAIN CommandRoot)]
       /\ WorkspaceFiles(text.files)

LEMMA PathForm ==
  ASSUME NEW p \in Paths
  PROVE  /\ p.bak = 0 /\ p.id \in Nat /\ \A n : [p EXCEPT !.bak = n].bak = n
         /\ p.dir = <<p.dir[1], p.dir[2]>>
<1>1. p \in [dir : {q.dir[1] : q \in Paths} \X {"own", "legacy", "files"}, id : Nat,
             ext : {"jsonl", "json", ""}, bak : {0}]
  BY SessionFilesAssumption
<1> DEFINE D == {q.dir[1] : q \in Paths}
<1>2. p \in [dir : D \X {"own", "legacy", "files"}, id : Nat, ext : {"jsonl", "json", ""}, bak : {0}]
  BY <1>1
<1> HIDE DEF D
<1>3. p.bak = 0 /\ p.id \in Nat /\ p.dir \in D \X {"own", "legacy", "files"}
  BY <1>2
<1>4. \A n : [p EXCEPT !.bak = n].bak = n
  BY <1>2
<1>5. p.dir = <<p.dir[1], p.dir[2]>>
  BY <1>3
<1>6. QED
  BY <1>3, <1>4, <1>5

LEMMA ValidBelongs ==
  ASSUME NEW p, NEW s, SessionFile(p, s)
  PROVE  Store!ValidateLoadedSession(p, s, Workspace) <=> Belongs(p, s)
<1>1. s.root = <<>> \/ (s.root # <<>> /\ s.root = <<s.root[1]>>)
  BY SessionFilesAssumption DEF SessionFile
<1>2. CASE s.root = <<>>
  <2>1. <<>> # <<Workspace>>
    OBVIOUS
  <2>2. QED
    BY <1>2, <2>1 DEF Belongs, Store!ValidateLoadedSession
<1>3. CASE s.root # <<>> /\ s.root = <<s.root[1]>>
  <2> DEFINE root == s.root
  <2>1. root[1] = Workspace <=> root = <<Workspace>>
    BY <1>3
  <2>2. QED
    BY <1>3, <2>1 DEF Belongs, Store!ValidateLoadedSession
<1>4. QED
  BY <1>1, <1>2, <1>3

(* Only sessions of the workspace are loaded. *)
LEMMA LoadedBelong ==
  ASSUME NEW files, WorkspaceFiles(files), NEW ref \in FilesNamed \cup {[kind |-> "alias"]},
         NEW r \in Store!LoadSession(files, ref, Workspace), r.ok
  PROVE  Belongs(r.path, r.session)
<1>1. CASE ref \in FilesNamed
  <2>1. PICK x : /\ Store!LoadSession(files, ref, Workspace) = {x}
                 /\ x.ok => /\ x.path \in DOMAIN files
                            /\ x = [ok |-> TRUE, path |-> x.path, session |-> files[x.path]]
                            /\ Store!ValidateLoadedSession(x.path, files[x.path], Workspace)
    BY <1>1, LoadAgain
  <2>2. r = x
    BY <2>1
  <2>3. r.path \in DOMAIN files /\ r.session = files[r.path]
        /\ Store!ValidateLoadedSession(r.path, files[r.path], Workspace)
    BY <2>1, <2>2
  <2>4. QED
    BY <2>3, ValidBelongs DEF WorkspaceFiles
<1>2. CASE ref = [kind |-> "alias"]
  <2>1. PICK found \in Store!ResolveReference(files, ref, Workspace) : r = Opened(files, found, Workspace)
    BY LoadOpens
  <2>2. /\ found.ok => \E s \in Store!Latest(files, Workspace) : found = [ok |-> TRUE, path |-> s.path]
        /\ found.ok \in BOOLEAN
    <3>1. \/ found = Store!Failed("no managed sessions found")
          \/ \E s \in Store!Latest(files, Workspace) : found = [ok |-> TRUE, path |-> s.path]
      BY <1>2, <2>1 DEF Store!ResolveReference
    <3>2. CASE found = Store!Failed("no managed sessions found")
      BY <3>2 DEF Store!Failed
    <3>3. CASE \E s \in Store!Latest(files, Workspace) : found = [ok |-> TRUE, path |-> s.path]
      <4>1. found.ok = TRUE
        BY <3>3
      <4>2. QED
        BY <3>3, <4>1
    <3>4. QED
      BY <3>1, <3>2, <3>3
  <2>3. /\ found.ok /\ r = [ok |-> TRUE, path |-> found.path, session |-> files[found.path]]
        /\ Store!ValidateLoadedSession(found.path, files[found.path], Workspace)
    BY <2>1, <2>2 DEF Opened, Store!Failed
  <2>4. PICK s \in Store!ListSessions(files, Workspace) : found.path = s.path
    BY <2>2, <2>3 DEF Store!Latest
  <2>5. PICK p \in ShownFiles(files, Workspace) : s = Store!Summary(files, p)
    BY <2>4, ListShows
  <2>6. found.path = p /\ p \in DOMAIN files
    BY <2>4, <2>5 DEF Store!Summary, ShownFiles
  <2>7. r.path = p /\ r.session = files[p]
    BY <2>3, <2>6
  <2>8. QED
    BY <2>3, <2>6, <2>7, ValidBelongs DEF WorkspaceFiles
<1>3. QED
  BY <1>1, <1>2

(* The file that "latest" finds. *)
LEMMA LatestLoads ==
  ASSUME NEW files, files = text.files, WorkspaceFiles(files), Loadable # {},
         NEW r \in Store!LoadSession(files, [kind |-> "alias"], Workspace)
  PROVE  r.ok /\ r.path \in Loadable /\ \A p \in Loadable : files[p].upd <= r.session.upd
<1> DEFINE P == ShownFiles(files, Workspace)
<1>1. \A p \in Loadable : p \in P
  <2> TAKE p \in Loadable
  <2>1. p \in DOMAIN files /\ p.dir[1] = Workspace /\ p.dir[2] \in {"own", "legacy"}
        /\ Store!IsManagedSessionFile(p) /\ Belongs(p, files[p])
    BY DEF Loadable
  <2>2. p.dir \in {<<Workspace, "own">>, <<Workspace, "legacy">>}
    BY <2>1, PathForm DEF WorkspaceFiles
  <2>3. Store!ValidateLoadedSession(p, files[p], Workspace)
    BY <2>1, ValidBelongs DEF WorkspaceFiles
  <2>4. QED
    BY <2>1, <2>2, <2>3 DEF ShownFiles
<1>2. \A p \in P : /\ p \in DOMAIN files /\ SessionFile(p, files[p]) /\ p \in Paths
                   /\ Store!Summary(files, p).path = p
                   /\ Store!Summary(files, p).upd = (IF files[p].parses THEN files[p].upd ELSE 0)
                   /\ Store!Summary(files, p).mt = files[p].mt /\ Store!Summary(files, p).id = p.id
  BY DEF ShownFiles, WorkspaceFiles, Store!Summary, SessionFile
<1>3. \A p \in P : Timed(files, p)
  BY <1>2, PathForm DEF Timed, SessionFile
<1>4. P # {} /\ IsFiniteSet(DOMAIN files)
  BY <1>1 DEF WorkspaceFiles
<1>5. Store!Latest(files, Workspace) # {}
  BY <1>3, <1>4, LatestThere
<1>6. PICK found \in Store!ResolveReference(files, [kind |-> "alias"], Workspace) :
         r = Opened(files, found, Workspace)
  BY LoadOpens
<1>7. PICK s \in Store!Latest(files, Workspace) : found = [ok |-> TRUE, path |-> s.path]
  BY <1>5, <1>6 DEF Store!ResolveReference
<1>8. s \in Store!ListSessions(files, Workspace)
      /\ \A t \in Store!ListSessions(files, Workspace) : ~Store!Before(t, s)
  BY <1>7 DEF Store!Latest
<1>9. PICK p \in P : s = Store!Summary(files, p)
  BY <1>8, ListShows
<1> HIDE DEF P
<1>10. found.ok /\ found.path = p
  BY <1>2, <1>7, <1>9
<1>11. \A q \in P : Store!Summary(files, q).upd <= s.upd
  <2> TAKE q \in P
  <2>1. ~Store!Before(Store!Summary(files, q), s)
    BY <1>8, ListShows DEF P
  <2>2. Store!Summary(files, q).upd \in Nat /\ s.upd \in Nat
    BY <1>3, <1>9 DEF Timed
  <2>3. QED
    BY <2>1, <2>2 DEF Store!Before
<1>12. \A q \in Loadable : files[q].parses /\ files[q].upd # 0 /\ files[q].upd \in Nat /\ files[q].upd <= s.upd
  <2> TAKE q \in Loadable
  <2>1. q \in P /\ files[q].parses
    BY <1>1 DEF Loadable
  <2>2. Store!Summary(files, q).upd = files[q].upd /\ files[q].upd # 0 /\ files[q].upd \in Nat
    BY <1>2, <2>1 DEF SessionFile
  <2>3. QED
    BY <1>11, <2>1, <2>2
<1>13. files[p].parses /\ s.upd = files[p].upd
  <2>1. s.upd # 0
    <3>1. PICK q \in Loadable : TRUE
      OBVIOUS
    <3>2. files[q].upd # 0 /\ files[q].upd \in Nat /\ files[q].upd <= s.upd
      BY <1>12, <3>1
    <3>3. QED
      BY <3>2
  <2>2. files[p].parses \in BOOLEAN
    BY <1>2, <1>9 DEF SessionFile
  <2>3. QED
    BY <1>2, <1>9, <2>1, <2>2
<1>14. Store!ValidateLoadedSession(p, files[p], Workspace) /\ p \in DOMAIN files
       /\ p.dir \in {<<Workspace, "own">>, <<Workspace, "legacy">>} /\ Store!IsManagedSessionFile(p)
  BY <1>9, <1>13 DEF P, ShownFiles
<1>15. r = [ok |-> TRUE, path |-> p, session |-> files[p]]
  BY <1>6, <1>10, <1>13, <1>14 DEF Opened
<1>16. p \in Loadable
  <2>1. Belongs(p, files[p])
    BY <1>2, <1>9, <1>14, ValidBelongs
  <2>2. p.dir[1] = Workspace /\ p.dir[2] \in {"own", "legacy"}
    BY <1>14
  <2>3. QED
    BY <1>13, <1>14, <2>1, <2>2 DEF Loadable
<1>17. r.ok /\ r.path = p /\ r.session.upd = s.upd
  BY <1>13, <1>15
<1>18. QED
  BY <1>12, <1>16, <1>17

-----------------------------------------------------------------------------
(* One process and two. *)

\* the process that has opened a session
Opening(files, p, now) ==
  [session |-> files[p], path |-> p, files |-> files, now |-> now, out |-> <<>>, exit |-> 0]

LEMMA OpeningKeeps ==
  ASSUME NEW files, NEW p \in DOMAIN files, NEW ws, Fits(p, files[p], ws), NEW now \in Nat, now # 0
  PROVE  /\ Keeps(Opening(files, p, now), files, p, ws)
         /\ Opening(files, p, now).out = <<>> /\ Opening(files, p, now).exit = 0
<1> DEFINE st == Opening(files, p, now)
<1>1. <<>> \in Seq(Sayings)
  BY EmptySeq
<1>2. /\ st.session = files[p] /\ st.path = p /\ st.files = files /\ st.now = now /\ st.out = <<>>
      /\ st.exit = 0
  BY DEF Opening
<1>3. IsProcess(st)
  <2> DEFINE none == <<>>
  <2>1. none \in Seq(Sayings)
    BY <1>1
  <2>2. st = [session |-> st.session, path |-> st.path, files |-> st.files, now |-> now, out |-> none, exit |-> 0]
    BY <1>2 DEF Opening
  <2> HIDE DEF st, none
  <2>3. QED
    BY <2>1, <2>2 DEF IsProcess
<1> HIDE DEF st
<1>4. Keeps(st, files, p, ws)
  BY <1>2, <1>3 DEF Keeps
<1>5. QED
  BY <1>2, <1>4 DEF st

LEMMA RunEnds ==
  ASSUME NEW st, NEW files, NEW path, NEW ws, NEW c, Len(c) \in Nat,
         Keeps(st, files, path, ws), NoBackups(files, path)
  PROVE  Keeps(Store!RunAll(st, ws, c), files, path, ws)
<1>1. PICK h : RunsTo(h, st, ws, c) /\ Store!RunAll(st, ws, c) = h[Len(c)]
  BY RunAllRuns
<1>2. \A k \in 0 .. Len(c) : Keeps(h[k], files, path, ws)
  BY <1>1, RunsKeep
<1>3. QED
  BY <1>1, <1>2

\* what a second process starts with
Restarted(again, first) ==
  /\ IsProcess(again) /\ again.session = first.session /\ again.path = first.path
  /\ again.files = first.files /\ again.now = first.now /\ again.out = <<>> /\ again.exit = 0

\* One process is as good as two.
LEMMA RunInTwo ==
  ASSUME NEW st, NEW files, NEW path, NEW ws, NEW c, NEW d, NEW e, NEW k, NEW n, NEW m,
         Continues(c, e, k, n, m), k = Len(d), \A i \in 1 .. k : d[i] = c[i],
         Keeps(st, files, path, ws), NoBackups(files, path), NEW again,
         Restarted(again, Store!RunAll(st, ws, d))
  PROVE  LET first == Store!RunAll(st, ws, d)
             whole == Store!RunAll(st, ws, c)
         IN  /\ first.exit # 0 => whole = first
             /\ first.exit = 0 => whole = Behind(first.out, Store!RunAll(again, ws, e))
<1> DEFINE first == Store!RunAll(st, ws, d)
           whole == Store!RunAll(st, ws, c)
<1>0. Continues(c, e, k, n, m)
  OBVIOUS
<1>12. k \in Nat /\ n \in Nat /\ m \in Nat /\ n = Len(c) /\ m = Len(e) /\ k <= n
  BY DEF Continues
<1>1. PICK h : RunsTo(h, st, ws, c) /\ whole = h[n]
  BY <1>12, RunAllRuns
<1>2. PICK g : RunsTo(g, st, ws, d) /\ first = g[k]
  BY <1>12, RunAllRuns
<1>3. PICK f : RunsTo(f, again, ws, e) /\ Store!RunAll(again, ws, e) = f[m]
  <2>1. Len(e) \in Nat
    BY <1>12
  <2>2. \E f : RunsTo(f, again, ws, e) /\ Store!RunAll(again, ws, e) = f[Len(e)]
    <3> HIDE DEF first, whole
    <3>1. QED
      BY ONLY <2>1, RunAllRuns
  <2>3. QED
    BY <1>12, <2>2
<1>4. first = h[k]
  BY <1>1, <1>2, <1>12, RunsFirst
<1>5. Keeps(first, files, path, ws)
  BY <1>12, RunEnds
<1>6. IsProcess(first) /\ first.out \in Seq(Sayings)
  BY <1>5 DEF Keeps, IsProcess
<1>11. /\ IsProcess(again) /\ again.session = first.session /\ again.path = first.path
      /\ again.files = first.files /\ again.now = first.now /\ again.out = <<>>
      /\ again.exit = 0
  BY DEF Restarted
<1> HIDE DEF first, whole
<1>7. Keeps(again, files, path, ws)
  BY <1>5, <1>11 DEF Keeps
<1>8. ASSUME first.exit # 0 PROVE whole = first
  BY <1>1, <1>4, <1>8, <1>12, RunsOver
<1>9. ASSUME first.exit = 0 PROVE whole = Behind(first.out, f[m])
  <2>1. first.out \o <<>> = first.out
    BY <1>6
  <2>2. first = Behind(first.out, again)
    <3> DEFINE b == Behind(first.out, again)
    <3>1. /\ IsProcess(b) /\ b.session = again.session /\ b.path = again.path
          /\ b.files = again.files /\ b.now = again.now
          /\ b.out = first.out \o again.out /\ b.exit = again.exit
      BY <1>6, <1>11, BehindFields
    <3> HIDE DEF b
    <3>2. b = first
      BY <1>6, <1>9, <1>11, <2>1, <3>1, SameProcess
    <3>3. QED
      BY <3>2 DEF b
  <2> DEFINE out == first.out
  <2>3. out \in Seq(Sayings) /\ h[k] = Behind(out, again)
    BY <1>4, <1>6, <2>2
  <2> HIDE DEF out
  <2>4. h[n] = Behind(out, f[m])
    <3>1. RunsTo(h, st, ws, c) /\ RunsTo(f, again, ws, e)
      BY <1>1, <1>3
    <3>2. NoBackups(files, path)
      OBVIOUS
    <3>3. QED
      BY ONLY <1>0, <1>7, <2>3, <3>1, <3>2, RunsSecond
  <2>5. QED
    BY <1>1, <2>4 DEF out
<1>10. QED
  BY <1>3, <1>8, <1>9 DEF first, whole

LEMMA ResumeOpens ==
  ASSUME NEW files, NEW ref, NEW ws, NEW p, NEW commands, NEW now, commands # <<>>,
         Store!LoadSession(files, ref, ws) = {[ok |-> TRUE, path |-> p, session |-> files[p]]}
  PROVE  Store!ResumeSession(files, ref, ws, commands, now) =
           {Store!Left(Store!RunAll(Opening(files, p, now), ws, commands))}
<1> DEFINE r == [ok |-> TRUE, path |-> p, session |-> files[p]]
<1>1. r.ok = TRUE /\ r.path = p /\ r.session = files[p]
  OBVIOUS
<1>2. Store!LoadSession(files, ref, ws) = {r}
  OBVIOUS
<1> HIDE DEF r
<1>3. QED
  BY <1>1, <1>2 DEF Store!ResumeSession, Opening

\* what a process that cannot open a session leaves
Unopened(files, r, now) ==
  Store!Refused([files |-> files, now |-> now, out |-> <<>>, exit |-> 0], 1, Store!ClassifyErrorKind(r.reason))

LEMMA ResumeFails ==
  ASSUME NEW files, NEW ref, NEW ws, NEW r, NEW commands, NEW now, ~r.ok,
         Store!LoadSession(files, ref, ws) = {r}
  PROVE  /\ Store!ResumeSession(files, ref, ws, commands, now) = {Unopened(files, r, now)}
         /\ Unopened(files, r, now).exit = 1
<1> DEFINE st == [files |-> files, now |-> now, out |-> <<>>, exit |-> 0]
           f == Store!Refused(st, 1, Store!ClassifyErrorKind(r.reason))
<1>1. Store!ResumeSession(files, ref, ws, commands, now) = {f}
  BY DEF Store!ResumeSession
<1>2. f.exit = 1
  <2> DEFINE said == Store!Said(st, Store!ClassifyErrorKind(r.reason))
  <2>1. f = [said EXCEPT !.exit = 1]
    BY DEF Store!Refused
  <2>2. "exit" \in DOMAIN said
    BY DEF Store!Said
  <2> HIDE DEF said, f
  <2>3. QED
    BY <2>1, <2>2
<1>4. f = Unopened(files, r, now)
  BY DEF Unopened
<1> HIDE DEF f
<1>3. QED
  BY <1>1, <1>2, <1>4

LEMMA SubSeqFacts ==
  ASSUME NEW X, NEW c \in Seq(X), NEW k \in Nat, k <= Len(c)
  PROVE  /\ SubSeq(c, 1, k) \in Seq(X) /\ Len(SubSeq(c, 1, k)) = k
         /\ \A i \in 1 .. k : SubSeq(c, 1, k)[i] = c[i]
         /\ SubSeq(c, k + 1, Len(c)) \in Seq(X) /\ Len(SubSeq(c, k + 1, Len(c))) = Len(c) - k
         /\ \A i \in 1 .. Len(c) - k : SubSeq(c, k + 1, Len(c))[i] = c[k + i]
<1>1. /\ SubSeq(c, 1, k) \in Seq(X) /\ Len(SubSeq(c, 1, k)) = k
      /\ \A i \in 1 .. k : SubSeq(c, 1, k)[i] = c[i]
  OBVIOUS
<1>2. /\ SubSeq(c, k + 1, Len(c)) \in Seq(X) /\ Len(SubSeq(c, k + 1, Len(c))) = Len(c) - k
  OBVIOUS
<1>3. \A i \in 1 .. Len(c) - k : SubSeq(c, k + 1, Len(c))[i] = c[k + i]
  OBVIOUS
<1>4. QED
  BY <1>1, <1>2, <1>3

LEMMA ResumedInTwo ==
  ASSUME NEW X, WorkspaceFiles(text.files), text.commands \in Seq(X), NEW ref \in FilesNamed,
         NEW k \in 1 .. Len(text.commands) - 1
  PROVE  InTwo(ref, k) = Store!ResumeSession(text.files, ref, Workspace, text.commands, Started)
<1> DEFINE files == text.files
           c == text.commands
           n == Len(text.commands)
           d == SubSeq(c, 1, k)
           e == SubSeq(c, k + 1, n)
           m == n - k
           Resumed(f, commands, now) == Store!ResumeSession(f, ref, Workspace, commands, now)
           Two(first) == IF first.exit # 0 THEN {first}
                         ELSE {[second EXCEPT !.out = first.out \o @] :
                                 second \in Resumed(first.files, e, first.now)}
<1>1. InTwo(ref, k) = UNION {Two(first) : first \in Resumed(files, d, Started)}
  BY DEF InTwo
<1>2. PICK r : /\ Store!LoadSession(files, ref, Workspace) = {r} /\ r.ok \in BOOLEAN
               /\ r.ok => /\ r.path \in DOMAIN files /\ r = [ok |-> TRUE, path |-> r.path, session |-> files[r.path]]
                          /\ files[r.path].parses /\ Store!ValidateLoadedSession(r.path, files[r.path], Workspace)
                          /\ \A more : FoundAgain(files, more, r.path, Workspace) =>
                               Store!LoadSession(more, ref, Workspace) =
                                 {[ok |-> TRUE, path |-> r.path, session |-> more[r.path]]}
  BY LoadAgain
<1>3. CASE ~r.ok
  <2>0. ~r.ok
    BY <1>2, <1>3
  <2> DEFINE f == Unopened(files, r, Started)
  <2>5. Store!LoadSession(files, ref, Workspace) = {r}
    BY <1>2
  <2>1. Resumed(files, d, Started) = {f} /\ Resumed(files, c, Started) = {f} /\ f.exit = 1
    <3> HIDE DEF files, c, d
    <3>1. Store!ResumeSession(files, ref, Workspace, d, Started) = {f} /\ f.exit = 1
      BY <2>0, <2>5, ResumeFails
    <3>2. Store!ResumeSession(files, ref, Workspace, c, Started) = {f}
      BY <2>0, <2>5, ResumeFails
    <3>3. QED
      BY <3>1, <3>2
  <2> HIDE DEF f
  <2>2. Two(f) = {f}
    BY <2>1
  <2>3. UNION {Two(first) : first \in {f}} = Two(f)
    OBVIOUS
  <2> HIDE DEF Two
  <2>4. QED
    BY <1>1, <2>1, <2>2, <2>3
<1>4. CASE r.ok
  <2> DEFINE p == r.path
             st == Opening(files, p, Started)
             F == Store!RunAll(st, Workspace, d)
             whole == Store!RunAll(st, Workspace, c)
             again == Opening(F.files, p, F.now)
             S == Store!RunAll(again, Workspace, e)
             first == Store!Left(F)
  <2>1. /\ c \in Seq(X) /\ n \in Nat /\ k \in Nat /\ k \in 1 .. n - 1 /\ m \in Nat /\ 0 < k /\ 0 < m /\ k <= n
    BY LenProperties
  <2>2. /\ Len(d) = k /\ Len(e) = m /\ d # <<>> /\ e # <<>> /\ c # <<>>
        /\ \A i \in 1 .. k : d[i] = c[i]
        /\ \A i \in 1 .. m : e[i] = c[k + i]
    <3> HIDE DEF c, n
    <3>1. d \in Seq(X) /\ Len(d) = k /\ \A i \in 1 .. k : d[i] = c[i]
      <4>1. n = Len(c)
        BY DEF c, n
      <4>2. QED
        BY <2>1, <4>1, SubSeqFacts
    <3>2. e \in Seq(X) /\ Len(e) = m /\ \A i \in 1 .. m : e[i] = c[k + i]
      <4>1. n = Len(c)
        BY DEF c, n
      <4>2. QED
        BY <2>1, <4>1, SubSeqFacts
    <3>4. n = Len(c)
      BY DEF c, n
    <3>5. d # <<>> /\ e # <<>> /\ c # <<>>
      <4>1. \A q \in Seq(X) : Len(q) # 0 => q # <<>>
        OBVIOUS
      <4> HIDE DEF d, e
      <4>2. QED
        BY <2>1, <3>1, <3>2, <3>4, <4>1
    <3> HIDE DEF d, e
    <3>3. QED
      BY <3>1, <3>2, <3>5
  <2>3. Continues(c, e, k, n, m)
    BY <2>1, <2>2 DEF Continues
  <2>4. p \in DOMAIN files /\ Fits(p, files[p], Workspace) /\ NoBackups(files, p)
    <3>1. p \in DOMAIN files /\ SessionFile(p, files[p]) /\ DOMAIN files \subseteq Paths
      BY <1>2, <1>4 DEF WorkspaceFiles
    <3>2. Fits(p, files[p], Workspace)
      BY <1>2, <1>4, <3>1 DEF Fits, IsSession, SessionFile
    <3>3. NoBackups(files, p)
      BY <3>1, PathForm DEF NoBackups
    <3>4. QED
      BY <3>1, <3>2, <3>3
  <2>5. Started \in Nat /\ Started # 0
    BY DEF Started
  <2>6. Keeps(st, files, p, Workspace)
    BY <2>4, <2>5, OpeningKeeps
  <2>7. Resumed(files, c, Started) = {Store!Left(whole)} /\ Resumed(files, d, Started) = {first}
    <3>1. Store!LoadSession(files, ref, Workspace) = {[ok |-> TRUE, path |-> p, session |-> files[p]]}
      BY <1>2, <1>4
    <3>2. c # <<>> /\ d # <<>>
      BY <2>2
    <3> HIDE DEF c, d, p
    <3>3. Resumed(files, c, Started) = {Store!Left(whole)}
      BY <3>1, <3>2, ResumeOpens
    <3>4. Resumed(files, d, Started) = {first}
      BY <3>1, <3>2, ResumeOpens
    <3>5. QED
      BY <3>3, <3>4
  <2>8. /\ first.files = F.files /\ first.now = F.now /\ first.out = F.out /\ first.exit = F.exit
    BY DEF Store!Left
  <2> HIDE DEF files, c, n, d, e, m, p, st
  <2>9. Keeps(F, files, p, Workspace)
    BY <2>1, <2>2, <2>4, <2>6, RunEnds
  <2> HIDE DEF F, first
  <2>10. /\ FoundAgain(files, F.files, p, Workspace) /\ p \in DOMAIN F.files /\ F.files[p] = F.session
         /\ Fits(p, F.files[p], Workspace) /\ F.now \in Nat /\ F.now # 0 /\ IsProcess(F)
         /\ F.out \in Seq(Sayings) /\ F.path = p
    BY <2>9 DEF Keeps, FoundAgain, Fits, IsProcess
  <2>11. Restarted(again, F) /\ Keeps(again, F.files, p, Workspace)
    <3>1. Keeps(again, F.files, p, Workspace) /\ again.out = <<>> /\ again.exit = 0
      BY <2>10, OpeningKeeps
    <3>2. again.session = F.session /\ again.path = p /\ again.files = F.files /\ again.now = F.now
      BY <2>10 DEF Opening
    <3> HIDE DEF again
    <3>3. QED
      BY <2>10, <3>1, <3>2 DEF Restarted, Keeps
  <2>12. Resumed(F.files, e, F.now) = {Store!Left(S)}
    <3>1. Store!LoadSession(F.files, ref, Workspace) = {[ok |-> TRUE, path |-> p, session |-> F.files[p]]}
      BY <1>2, <1>4, <2>10 DEF p, files
    <3>2. QED
      BY <2>2, <3>1, ResumeOpens
  <2> HIDE DEF again, whole
  <2>13. /\ F.exit # 0 => whole = F
         /\ F.exit = 0 => whole = Behind(F.out, S)
    BY <2>2, <2>3, <2>4, <2>6, <2>11, RunInTwo DEF F, whole
  <2>14. InTwo(ref, k) = Two(first)
    <3>1. UNION {Two(x) : x \in {first}} = Two(first)
      OBVIOUS
    <3> HIDE DEF Two
    <3>2. InTwo(ref, k) = UNION {Two(x) : x \in Resumed(files, d, Started)}
      BY <1>1 DEF files, d
    <3>3. QED
      BY <2>7, <3>1, <3>2
  <2>15. CASE F.exit # 0
    <3>1. Two(first) = {first}
      BY <2>8, <2>15
    <3>2. first = Store!Left(whole)
      BY <2>13, <2>15 DEF first
    <3>3. QED
      BY <2>7, <2>14, <3>1, <3>2 DEF files, c
  <2>16. CASE F.exit = 0
    <3>1. Two(first) = {[second EXCEPT !.out = F.out \o @] : second \in {Store!Left(S)}}
      BY <2>8, <2>12, <2>16
    <3>2. IsProcess(S)
      <4>1. Keeps(S, files, p, Workspace)
        <5>1. Keeps(again, files, p, Workspace)
          BY <2>9, <2>11 DEF Keeps, Restarted
        <5>2. QED
          BY <2>1, <2>2, <2>4, <5>1, RunEnds
      <4>2. QED
        BY <4>1 DEF Keeps
    <3> HIDE DEF S
    <3>3. Store!Left(Behind(F.out, S)) = [Store!Left(S) EXCEPT !.out = F.out \o @]
      <4> DEFINE b == Behind(F.out, S)
      <4>1. b.files = S.files /\ b.now = S.now /\ b.out = F.out \o S.out /\ b.exit = S.exit
        BY <2>10, <3>2, BehindFields
      <4> DEFINE out == F.out \o S.out
                 held == [files |-> S.files, now |-> S.now, out |-> S.out, exit |-> S.exit]
      <4> HIDE DEF b
      <4>4. Store!Left(S) = held
        BY DEF Store!Left
      <4>5. Store!Left(b) = [files |-> S.files, now |-> S.now, out |-> out, exit |-> S.exit]
        BY <4>1 DEF Store!Left
      <4>6. F.out \o held.out = out
        OBVIOUS
      <4>7. [held EXCEPT !.out = F.out \o @] = [held EXCEPT !.out = out]
        BY <4>6
      <4>8. [held EXCEPT !.out = out] = [files |-> S.files, now |-> S.now, out |-> out, exit |-> S.exit]
        <5> HIDE DEF out
        <5>1. QED
          OBVIOUS
      <4> HIDE DEF out, held
      <4>2. Store!Left(b) = [Store!Left(S) EXCEPT !.out = F.out \o @]
        BY <4>4, <4>5, <4>7, <4>8
      <4>3. QED
        BY <4>2 DEF b
    <3>4. whole = Behind(F.out, S)
      BY <2>13, <2>16
    <3>5. Two(first) = {Store!Left(whole)}
      <4> HIDE DEF Two
      <4>1. QED
        BY <3>1, <3>3, <3>4
    <3>6. QED
      BY <2>7, <2>14, <3>5 DEF files, c
  <2>17. QED
    BY <2>15, <2>16
<1>5. QED
  BY <1>2, <1>3, <1>4

-----------------------------------------------------------------------------
(* Resuming is faithful. *)

LEMMA WorkspaceFaithful == WorkspaceTyped => ResumeFaithful
<1> SUFFICES ASSUME WorkspaceTyped, form = "resume" PROVE ResumeFaithful
  BY DEF ResumeFaithful
<1> DEFINE alias == [kind |-> "alias"]
<1>1. WorkspaceFiles(text.files) /\ text.commands \in Seq(DOMAIN CommandRoot)
  BY DEF WorkspaceTyped
<1>2. \A ref \in FilesNamed \cup {alias} : \A r \in Store!LoadSession(text.files, ref, Workspace) :
         r.ok => Belongs(r.path, r.session)
  BY <1>1, LoadedBelong
<1>3. Loadable # {} =>
        \A r \in Store!LoadSession(text.files, alias, Workspace) :
           r.ok /\ r.path \in Loadable /\ \A p \in Loadable : text.files[p].upd <= r.session.upd
  <2> SUFFICES ASSUME Loadable # {}, NEW r \in Store!LoadSession(text.files, [kind |-> "alias"], Workspace)
               PROVE  r.ok /\ r.path \in Loadable /\ \A p \in Loadable : text.files[p].upd <= r.session.upd
    OBVIOUS
  <2>1. QED
    BY <1>1, LatestLoads
<1>4. \A ref \in FilesNamed, k \in 1 .. Len(text.commands) - 1 :
        InTwo(ref, k) = Store!ResumeSession(text.files, ref, Workspace, text.commands, Started)
  BY <1>1, ResumedInTwo
<1>5. \A c \in DOMAIN CommandRoot, line \in Store!Help :
        line.name = CommandRoot[c] /\ line.resume => CommandRoot[c] \notin Store!Commands!STUB_COMMANDS
  BY DEF Store!Help, Store!Commands!HelpFiltered, Store!Commands!HelpLines
<1>6. QED
  BY <1>2, <1>3, <1>4, <1>5 DEF ResumeFaithful

LEMMA PutTyped ==
  ASSUME WorkspaceTyped, form = "resume", NEW p \in Paths, NEW s, SessionFile(p, s), PutFile(p, s)
  PROVE  /\ text' \in [files : {text'.files}, commands : Seq(DOMAIN CommandRoot)]
         /\ WorkspaceFiles(text'.files)
<1> DEFINE files == Store!Write(text.files, p, s)
<1>1. text \in [files : {text.files}, commands : Seq(DOMAIN CommandRoot)] /\ WorkspaceFiles(text.files)
  BY DEF WorkspaceTyped
<1>2. text' = [text EXCEPT !.files = files]
  BY DEF PutFile
<1>3. /\ DOMAIN files = DOMAIN text.files \cup {p}
      /\ \A q \in DOMAIN files : files[q] = IF q = p THEN s ELSE text.files[q]
  BY DEF Store!Write
<1> HIDE DEF files
<1>4. WorkspaceFiles(files)
  <2>1. IsFiniteSet(DOMAIN files)
    BY <1>1, <1>3, FS_AddElement DEF WorkspaceFiles
  <2>2. QED
    BY <1>1, <1>3, <2>1 DEF WorkspaceFiles
<1>5. text'.files = files /\ text' \in [files : {files}, commands : Seq(DOMAIN CommandRoot)]
  BY <1>1, <1>2
<1>6. QED
  BY <1>4, <1>5

(* A resume only loads sessions of the workspace, latest is the one that   *)
(* was updated last, and claw --resume with several commands prints and    *)
(* keeps what one process after the other does, with one command each      *)
(* (resume_session).                                                       *)
THEOREM ResumeFaithfulAlways == MainSpec => []ResumeFaithful
<1>1. MainInit => WorkspaceTyped
  <2> SUFFICES ASSUME MainInit PROVE WorkspaceTyped
    OBVIOUS
  <2>1. edits \in Nat
    BY DEF MainInit
  <2>2. ASSUME form = "resume"
        PROVE  /\ text \in [files : {text.files}, commands : Seq(DOMAIN CommandRoot)]
               /\ WorkspaceFiles(text.files)
    <3> DEFINE none == <<>>
    <3>1. text = [files |-> none, commands |-> none]
      BY <2>2 DEF MainInit
    <3>2. none \in Seq(DOMAIN CommandRoot) /\ DOMAIN none = {} /\ IsFiniteSet({})
      BY EmptySeq, FS_EmptySet
    <3> HIDE DEF none
    <3>3. QED
      BY <3>1, <3>2 DEF WorkspaceFiles
  <2>3. QED
    BY <2>1, <2>2 DEF WorkspaceTyped
<1>2. WorkspaceTyped /\ [MainNext]_mainVars => WorkspaceTyped'
  <2> SUFFICES ASSUME WorkspaceTyped, [MainNext]_mainVars
               PROVE  /\ edits' \in Nat
                      /\ form' = "resume" =>
                           /\ text' \in [files : {text'.files}, commands : Seq(DOMAIN CommandRoot)]
                           /\ WorkspaceFiles(text'.files)
    BY DEF WorkspaceTyped
  <2>1. edits \in Nat /\ edits + 1 \in Nat
    BY DEF WorkspaceTyped
  <2>2. CASE SaveSession
    <3>1. PICK p \in Paths, root \in Roots, upd \in Updates : PutFile(p, SavedFile(p, TRUE, root, upd))
      BY <2>2 DEF SaveSession
    <3>2. SessionFile(p, SavedFile(p, TRUE, root, upd))
      BY <2>1, SessionFilesAssumption DEF SessionFile, SavedFile
    <3>3. edits' = edits + 1 /\ form = "resume"
      BY <2>2 DEF SaveSession, Edit
    <3>4. QED
      BY <2>1, <3>1, <3>2, <3>3, PutTyped
  <2>3. CASE Garble
    <3>1. PICK p \in Paths : PutFile(p, SavedFile(p, FALSE, <<>>, 0))
      BY <2>3 DEF Garble
    <3>2. SessionFile(p, SavedFile(p, FALSE, <<>>, 0))
      BY <2>1 DEF SessionFile, SavedFile
    <3>3. edits' = edits + 1 /\ form = "resume"
      BY <2>3 DEF Garble, Edit
    <3>4. QED
      BY <2>1, <3>1, <3>2, <3>3, PutTyped
  <2>4. CASE TypeCommand
    <3>1. edits' = edits + 1 /\ form = "resume"
      BY <2>4 DEF TypeCommand, Edit
    <3>2. PICK c \in DOMAIN CommandRoot : text' = [text EXCEPT !.commands = Append(@, c)]
      BY <2>4 DEF TypeCommand
    <3>3. text \in [files : {text.files}, commands : Seq(DOMAIN CommandRoot)] /\ WorkspaceFiles(text.files)
      BY <3>1 DEF WorkspaceTyped
    <3>4. Append(text.commands, c) \in Seq(DOMAIN CommandRoot)
      BY <3>3, AppendProperties
    <3>5. text'.files = text.files /\ text' \in [files : {text.files}, commands : Seq(DOMAIN CommandRoot)]
      BY <3>2, <3>3, <3>4
    <3>6. QED
      BY <2>1, <3>1, <3>3, <3>5
  <2>5. CASE TypeArg \/ Send \/ SendMiscounted \/ Killed \/ WriteDefinition \/ WriteBroken \/ TypeCharacter
    <3>1. form # "resume" /\ form' = form /\ edits' = edits + 1
      BY <2>5 DEF TypeArg, Send, SendMiscounted, Killed, WriteDefinition, WriteBroken, TypeCharacter, Edit
    <3>2. QED
      BY <2>1, <3>1
  <2>6. CASE Install \/ UNCHANGED mainVars
    <3>1. form' = form /\ text' = text /\ edits' = edits
      BY <2>6 DEF Install, mainVars
    <3>2. QED
      BY <3>1 DEF WorkspaceTyped
  <2>7. QED
    BY <2>2, <2>3, <2>4, <2>5, <2>6 DEF MainNext
<1>3. QED
  BY <1>1, <1>2, WorkspaceFaithful, PTL DEF MainSpec

-----------------------------------------------------------------------------
(* The server: what a client writes. *)

(* What a client wrote: frame k of t begins behind piece Before(t, k); its headers end at     *)
(* its blank line, its body is the rest.                                                     *)
Pieces == {<<"header">>, <<"blank">>} \cup ({"length"} \X Int)
            \cup ({"body"} \X (DOMAIN Bodies) \X Nat)
Before(t, k) == IF k = 1 THEN 0 ELSE t.ends[k - 1]
BlankOf(t, k) == t.ends[k] - SizeOf[t.sent[k]]
LengthIn(t, k) == IF k = t.miscounted THEN t.length ELSE SizeOf[t.sent[k]]
PieceAt(t, k, i) ==
  IF i < BlankOf(t, k) - 1 THEN <<"header">>
  ELSE IF i = BlankOf(t, k) - 1 THEN <<"length", LengthIn(t, k)>>
  ELSE IF i = BlankOf(t, k) THEN <<"blank">>
  ELSE <<"body", t.sent[k], i - BlankOf(t, k)>>
FrameLies(t, k) ==
  /\ Before(t, k) + 1 \in {BlankOf(t, k) - 2, BlankOf(t, k) - 1}
  /\ \A i \in Before(t, k) + 1 .. t.ends[k] : i <= Len(t.in) => t.in[i] = PieceAt(t, k, i)
Texts == [sent : Seq(DOMAIN Bodies), ends : Seq(Nat), in : Seq(Pieces), cut : BOOLEAN,
          miscounted : Nat, length : Int]
Stream(t) ==
  /\ t \in Texts
  /\ Len(t.ends) = Len(t.sent)
  /\ t.miscounted <= Len(t.sent)
  /\ t.miscounted # 0 => t.length >= -1 /\ t.length # SizeOf[t.sent[t.miscounted]]
  /\ Len(t.in) <= Before(t, Len(t.sent) + 1)
  /\ ~t.cut => Len(t.in) = Before(t, Len(t.sent) + 1)
  /\ \A k \in 1 .. Len(t.sent) : FrameLies(t, k)
  /\ \A k \in 1 .. Len(t.sent) : \A j \in 1 .. k - 1 : t.ends[j] < t.ends[k]
StdinTyped == form = "stdin" => Stream(text)

-----------------------------------------------------------------------------
(* Reading one frame. *)

LEMMA LeastIs ==
  ASSUME NEW S, NEW x \in S, x \in Int, \A j \in S : j \in Int /\ x <= j
  PROVE  (CHOOSE k \in S : \A j \in S : k <= j) = x
<1> DEFINE c == CHOOSE k \in S : \A j \in S : k <= j
<1>1. c \in S /\ \A j \in S : c <= j
  OBVIOUS
<1> HIDE DEF c
<1>2. c = x
  BY <1>1
<1>3. QED
  BY <1>2 DEF c

LEMMA LineFacts ==
  ASSUME NEW in, NEW k
  PROVE  /\ Mcp!IsBody(in[k]) => Mcp!LineAt(in, k) = <<"header">>
         /\ ~Mcp!IsBody(in[k]) => Mcp!LineAt(in, k) = in[k]
         /\ Mcp!LineAt(in, k) = <<"blank">> => in[k] = <<"blank">>
BY DEF Mcp!LineAt

LEMMA PieceFacts ==
  ASSUME NEW n, NEW f, NEW p
  PROVE  /\ ~Mcp!IsBody(<<"header">>) /\ ~Mcp!IsBody(<<"blank">>) /\ ~Mcp!IsBody(<<"length", n>>)
         /\ Mcp!IsBody(<<"body", f, p>>)
         /\ <<"header">> # <<"blank">> /\ <<"header">> # <<"length", -1>>
         /\ <<"blank">> # <<"length", n>> /\ <<"blank">> # <<"length", -1>>
         /\ <<"length", n>> = <<"length", -1>> <=> n = -1
         /\ <<"header">>[1] # "length" /\ <<"blank">>[1] # "length"
         /\ <<"length", n>>[1] = "length" /\ <<"length", n>>[2] = n
         /\ <<"body", f, p>>[1] # "length" /\ <<"body", f, p>> # <<"blank">>
         /\ <<"body", f, p>>[2] = f /\ <<"body", f, p>>[3] = p
BY DEF Mcp!IsBody

LEMMA BodyPiece ==
  ASSUME NEW x, NEW f, NEW p, x = <<"body", f, p>>
  PROVE  Mcp!IsBody(x) /\ x # <<"blank">> /\ x[2] = f /\ x[3] = p
BY DEF Mcp!IsBody

(* The headers from piece i on give the length n and end at the blank line b. *)
Headers(in, i, b, n) ==
  /\ i \in Nat /\ b \in Nat /\ i < b /\ b <= Len(in)
  /\ in[b] = <<"blank">> /\ in[b - 1] = <<"length", n>>
  /\ \A k \in i .. b - 2 : Mcp!IsBody(in[k]) \/ in[k] = <<"header">>
  /\ i = b - 1 \/ ~Mcp!IsBody(in[b - 2])

LEMMA ReadHeaders ==
  ASSUME NEW in, Len(in) \in Nat, NEW i \in Nat \ {0}, NEW b, NEW n \in Int, Headers(in, i, b, n)
  PROVE  Mcp!ReadFrame(in, i) =
           IF n = -1 \/ b + n > Len(in) THEN Mcp!Ended("error")
           ELSE [end |-> "no", payload |-> SubSeq(in, b + 1, b + n), next |-> b + n + 1]
<1> DEFINE stops == {k \in Mcp!LineStarts(in, i) : Mcp!LineAt(in, k) \in {<<"blank">>, <<"length", -1>>}}
           stop == CHOOSE k \in stops : \A j \in stops : k <= j
           lengths == {k \in Mcp!LineStarts(in, i) : k < stop /\ Mcp!LineAt(in, k)[1] = "length"}
           length == Mcp!LineAt(in, CHOOSE k \in lengths : \A j \in lengths : j <= k)[2]
<1>1. i \in Nat /\ b \in Nat /\ i < b /\ b <= Len(in)
  BY DEF Headers
<1>2. /\ Mcp!LineAt(in, b) = <<"blank">> /\ Mcp!LineAt(in, b - 1) = <<"length", n>>
      /\ \A k \in i .. b - 2 : Mcp!LineAt(in, k) = <<"header">>
  <2>1. in[b] = <<"blank">> /\ in[b - 1] = <<"length", n>>
    BY DEF Headers
  <2>2. ~Mcp!IsBody(in[b]) /\ ~Mcp!IsBody(in[b - 1])
    BY <2>1, PieceFacts
  <2>3. \A k \in i .. b - 2 : Mcp!IsBody(in[k]) \/ in[k] = <<"header">>
    BY DEF Headers
  <2>4. Mcp!LineAt(in, b) = <<"blank">> /\ Mcp!LineAt(in, b - 1) = <<"length", n>>
    BY <2>1, <2>2 DEF Mcp!LineAt
  <2>5. ASSUME NEW k \in i .. b - 2 PROVE Mcp!LineAt(in, k) = <<"header">>
    BY <2>3 DEF Mcp!LineAt
  <2>6. QED
    BY <2>4, <2>5
<1>3. b \in Mcp!LineStarts(in, i) /\ b - 1 \in Mcp!LineStarts(in, i)
      /\ \A k \in Mcp!LineStarts(in, i) : k \in i .. Len(in)
  <2>1. ~Mcp!IsBody(in[b - 1])
    BY DEF Headers, Mcp!IsBody
  <2>2. i = b - 1 \/ ~Mcp!IsBody(in[(b - 1) - 1])
    <3>1. (b - 1) - 1 = b - 2
      BY <1>1
    <3>2. QED
      BY <3>1 DEF Headers
  <2>3. QED
    BY <1>1, <2>1, <2>2 DEF Mcp!LineStarts
<1>4. \A k \in stops : k \in i .. Len(in) /\ k >= b - 1
  BY <1>1, <1>2, <1>3, PieceFacts
<1>5. b \in stops
  BY <1>2, <1>3
<1>6. b - 1 \in stops <=> n = -1
  BY <1>2, <1>3, PieceFacts
<1>7. stop = IF n = -1 THEN b - 1 ELSE b
  <2> DEFINE x == IF n = -1 THEN b - 1 ELSE b
  <2>1. x \in stops /\ x \in Nat
    BY <1>1, <1>5, <1>6
  <2>2. \A j \in stops : j \in Nat /\ x <= j
    <3>1. n # -1 => b - 1 \notin stops
      BY <1>6
    <3> HIDE DEF stops
    <3>2. QED
      BY <1>1, <1>4, <3>1
  <2> HIDE DEF stops, x
  <2>3. x \in Int /\ \A j \in stops : j \in Int /\ x <= j
    BY <2>1, <2>2
  <2>4. (CHOOSE k \in stops : \A j \in stops : k <= j) = x
    BY <2>1, <2>3, LeastIs
  <2>5. QED
    BY <2>4 DEF x
<1> HIDE DEF stop
<1>8. i <= Len(in) /\ stops # {}
  BY <1>1, <1>5
<1>9. CASE n = -1
  <2>1. Mcp!LineAt(in, stop)[1] = "length"
    BY <1>2, <1>7, <1>9, PieceFacts
  <2>2. ~(i > Len(in))
    BY <1>1, <1>8
  <2> HIDE DEF stops, lengths, length
  <2>3. QED
    BY <1>8, <1>9, <2>1, <2>2 DEF Mcp!ReadFrame, stops, stop
<1>10. CASE n # -1
  <2>1. stop = b
    BY <1>7, <1>10
  <2>2. Mcp!LineAt(in, stop)[1] # "length"
    BY <1>2, <2>1, PieceFacts
  <2>3. lengths = {b - 1}
    <3>1. b - 1 \in lengths
      BY <1>1, <1>2, <1>3, <2>1, PieceFacts
    <3>2. ASSUME NEW k \in lengths PROVE k = b - 1
      <4>1. k \in i .. Len(in) /\ k < b /\ Mcp!LineAt(in, k)[1] = "length"
        BY <1>3, <2>1
      <4>2. k \notin i .. b - 2
        BY <1>2, <4>1, PieceFacts
      <4>3. QED
        BY <1>1, <4>1, <4>2
    <3>3. QED
      BY <3>1, <3>2
  <2>4. length = n
    <3>1. (CHOOSE k \in lengths : \A j \in lengths : j <= k) = b - 1
      BY <1>1, <2>3
    <3> HIDE DEF lengths
    <3>2. length = Mcp!LineAt(in, b - 1)[2]
      BY <3>1
    <3> HIDE DEF length
    <3>3. QED
      BY <1>2, <3>2
  <2>5. ~(i > Len(in)) /\ lengths # {}
    BY <1>1, <2>3
  <2>6. Mcp!ReadFrame(in, i) =
          IF i > Len(in) THEN Mcp!Ended("clean")
          ELSE IF stops = {} \/ Mcp!LineAt(in, stop)[1] = "length" THEN Mcp!Ended("error")
          ELSE IF lengths = {} \/ stop + length > Len(in) THEN Mcp!Ended("error")
          ELSE [end |-> "no", payload |-> SubSeq(in, stop + 1, stop + length),
                next |-> stop + length + 1]
    BY DEF Mcp!ReadFrame, stop
  <2> HIDE DEF stops, lengths, length
  <2>7. QED
    BY <1>8, <1>10, <2>1, <2>2, <2>4, <2>5, <2>6
<1>11. QED
  BY <1>9, <1>10

(* No blank line, or no length before it. *)
LEMMA ReadNothing ==
  ASSUME NEW in, Len(in) \in Nat, NEW i \in 1 .. Len(in),
         \A k \in i .. Len(in) : in[k] # <<"blank">>
  PROVE  Mcp!ReadFrame(in, i) = Mcp!Ended("error")
<1> DEFINE stops == {k \in Mcp!LineStarts(in, i) : Mcp!LineAt(in, k) \in {<<"blank">>, <<"length", -1>>}}
           stop == CHOOSE k \in stops : \A j \in stops : k <= j
<1>1. CASE stops = {}
  BY <1>1 DEF Mcp!ReadFrame
<1>2. CASE stops # {}
  <2>1. stops \in SUBSET Nat /\ stops \subseteq i .. Len(in)
    BY DEF Mcp!LineStarts
  <2>2. stop \in stops
    <3>1. \E k \in stops : \A j \in stops : k <= j
      <4> HIDE DEF stops
      <4>1. QED
        BY <1>2, <2>1, MinExists
    <3> HIDE DEF stops
    <3>2. QED
      BY <3>1
  <2>3. Mcp!LineAt(in, stop) = <<"length", -1>>
    BY <2>1, <2>2, LineFacts
  <2>4. Mcp!LineAt(in, stop)[1] = "length"
    BY <2>3, PieceFacts
  <2>5. ~(i > Len(in))
    OBVIOUS
  <2>6. QED
    BY <1>2, <2>4, <2>5 DEF Mcp!ReadFrame
<1>3. QED
  BY <1>1, <1>2

LEMMA ReadLost ==
  ASSUME NEW in, Len(in) \in Nat, NEW i \in 1 .. Len(in), NEW b \in i .. Len(in), in[b] = <<"blank">>,
         b = i \/ ~Mcp!IsBody(in[b - 1]),
         \A k \in i .. b - 1 :
            k \in Mcp!LineStarts(in, i) => Mcp!IsBody(in[k]) \/ in[k] = <<"header">>
  PROVE  Mcp!ReadFrame(in, i) = Mcp!Ended("error")
<1> DEFINE stops == {k \in Mcp!LineStarts(in, i) : Mcp!LineAt(in, k) \in {<<"blank">>, <<"length", -1>>}}
           stop == CHOOSE k \in stops : \A j \in stops : k <= j
           lengths == {k \in Mcp!LineStarts(in, i) : k < stop /\ Mcp!LineAt(in, k)[1] = "length"}
<1>1. \A k \in Mcp!LineStarts(in, i) : k \in i .. Len(in) /\ (k < b => Mcp!LineAt(in, k) = <<"header">>)
  <2> TAKE k \in Mcp!LineStarts(in, i)
  <2>1. k \in i .. Len(in)
    BY DEF Mcp!LineStarts
  <2>2. CASE k < b
    <3>1. k \in i .. b - 1
      BY <2>1, <2>2
    <3>2. Mcp!IsBody(in[k]) \/ in[k] = <<"header">>
      BY <3>1
    <3>3. QED
      BY <2>1, <3>2, LineFacts, PieceFacts
  <2>3. QED
    BY <2>1, <2>2
<1>2. b \in Mcp!LineStarts(in, i)
  BY DEF Mcp!LineStarts
<1>3. Mcp!LineAt(in, b) = <<"blank">>
  BY DEF Mcp!LineAt, Mcp!IsBody
<1>4. b \in stops
  BY <1>2, <1>3
<1>5. \A k \in stops : k \in Nat /\ b <= k
  BY <1>1, PieceFacts
<1>6. stop = b
  <2> HIDE DEF stops
  <2>1. b \in Int /\ \A j \in stops : j \in Int /\ b <= j
    BY <1>5
  <2>2. (CHOOSE k \in stops : \A j \in stops : k <= j) = b
    BY <1>4, <2>1, LeastIs
  <2>3. QED
    BY <2>2
<1>7. lengths = {}
  <2> HIDE DEF stop
  <2>1. QED
    BY <1>1, <1>6, PieceFacts
<1>8. ~(i > Len(in))
  OBVIOUS
<1>9. Mcp!ReadFrame(in, i) = Mcp!Ended("error")
  BY <1>7, <1>8 DEF Mcp!ReadFrame
<1>10. QED
  BY <1>9

-----------------------------------------------------------------------------
(* Where the frames lie. *)

LEMMA StreamTyped ==
  ASSUME NEW t, Stream(t)
  PROVE  /\ Len(t.in) \in Nat /\ Len(t.sent) \in Nat /\ t.miscounted \in 0 .. Len(t.sent)
         /\ t.sent \in Seq(DOMAIN Bodies) /\ DOMAIN t.sent = 1 .. Len(t.sent)
         /\ \A k \in 1 .. Len(t.sent) :
              /\ t.sent[k] \in DOMAIN Bodies /\ SizeOf[t.sent[k]] \in Nat \ {0}
              /\ t.ends[k] \in Nat
         /\ \A k \in 1 .. Len(t.sent) + 1 : Before(t, k) \in Nat
         /\ \A k \in 1 .. Len(t.sent) : LengthIn(t, k) \in Int /\ LengthIn(t, k) >= -1
<1>1. /\ t.in \in Seq(Pieces) /\ t.sent \in Seq(DOMAIN Bodies) /\ t.ends \in Seq(Nat)
      /\ t.miscounted \in Nat /\ t.length \in Int
  BY DEF Stream, Texts
<1>2. Len(t.in) \in Nat /\ Len(t.sent) \in Nat /\ Len(t.ends) \in Nat /\ DOMAIN t.sent = 1 .. Len(t.sent)
  BY <1>1, LenProperties
<1>3. \A k \in 1 .. Len(t.sent) : t.sent[k] \in DOMAIN Bodies
  BY <1>1, ElementOfSeq
<1>4. Len(t.ends) = Len(t.sent) /\ t.miscounted <= Len(t.sent)
  BY DEF Stream
<1>5. \A k \in 1 .. Len(t.sent) : t.ends[k] \in Nat
  BY <1>1, <1>4, ElementOfSeq
<1>6. \A k \in 1 .. Len(t.sent) : SizeOf[t.sent[k]] \in Nat \ {0}
  BY <1>3, ServerAssumption
<1>7. \A k \in 1 .. Len(t.sent) + 1 : Before(t, k) \in Nat
  <2> TAKE k \in 1 .. Len(t.sent) + 1
  <2>1. k # 1 => k - 1 \in 1 .. Len(t.sent)
    BY <1>2
  <2>2. QED
    BY <1>5, <2>1 DEF Before
<1>8. \A k \in 1 .. Len(t.sent) : LengthIn(t, k) \in Int /\ LengthIn(t, k) >= -1
  <2> TAKE k \in 1 .. Len(t.sent)
  <2>1. CASE k = t.miscounted
    <3>1. t.miscounted # 0
      BY <2>1, <1>2
    <3>2. t.length >= -1
      BY <3>1 DEF Stream
    <3>3. QED
      BY <1>1, <2>1, <3>2 DEF LengthIn
  <2>2. CASE k # t.miscounted
    BY <1>6, <2>2 DEF LengthIn
  <2>3. QED
    BY <2>1, <2>2
<1>9. QED
  BY <1>1, <1>2, <1>3, <1>4, <1>5, <1>6, <1>7, <1>8

(* The parts of one frame. *)
LEMMA FrameParts ==
  ASSUME NEW t, Stream(t), NEW k \in 1 .. Len(t.sent)
  PROVE  LET a == Before(t, k)
             b == BlankOf(t, k)
             e == t.ends[k]
         IN  /\ a \in Nat /\ b \in Nat /\ e \in Nat /\ b < e /\ e = b + SizeOf[t.sent[k]]
             /\ a = b - 2 \/ a = b - 3
             /\ a = b - 3 /\ a < Len(t.in) => t.in[b - 2] = <<"header">>
             /\ b - 1 <= Len(t.in) => t.in[b - 1] = <<"length", LengthIn(t, k)>>
             /\ b <= Len(t.in) => t.in[b] = <<"blank">>
             /\ \A i \in b + 1 .. e : i <= Len(t.in) => t.in[i] = <<"body", t.sent[k], i - b>>
             /\ Before(t, k + 1) = e
<1> DEFINE a == Before(t, k)
           b == BlankOf(t, k)
           e == t.ends[k]
           size == SizeOf[t.sent[k]]
           here(i) == PieceAt(t, k, i)
<1>1. a \in Nat /\ e \in Nat /\ size \in Nat \ {0} /\ k \in Nat /\ k # 0 /\ Len(t.in) \in Nat
  BY StreamTyped
<1>2. b = e - size
  BY DEF BlankOf
<1>3. FrameLies(t, k)
  BY DEF Stream
<1>4. /\ a + 1 \in {b - 2, b - 1}
      /\ \A i \in a + 1 .. e : i <= Len(t.in) => t.in[i] = here(i)
  BY <1>3 DEF FrameLies
<1>5. \A i \in Int : here(i) = IF i < b - 1 THEN <<"header">>
                               ELSE IF i = b - 1 THEN <<"length", LengthIn(t, k)>>
                               ELSE IF i = b THEN <<"blank">>
                               ELSE <<"body", t.sent[k], i - b>>
  BY DEF PieceAt
<1>6. Before(t, k + 1) = e
  <2>1. k + 1 # 1 /\ k + 1 - 1 = k
    BY <1>1
  <2>2. QED
    BY <2>1 DEF Before
<1> HIDE DEF a, b, e, size, here
<1>7. a \in Nat /\ b \in Nat /\ e \in Nat /\ b < e /\ e = b + size /\ (a = b - 2 \/ a = b - 3)
  <2>1. a + 1 = b - 2 \/ a + 1 = b - 1
    BY <1>4
  <2>2. QED
    BY <1>1, <1>2, <2>1
<1>8. a = b - 3 /\ a < Len(t.in) => t.in[b - 2] = <<"header">>
  <2> HAVE a = b - 3 /\ a < Len(t.in)
  <2>1. b - 2 \in a + 1 .. e /\ b - 2 <= Len(t.in) /\ b - 2 < b - 1 /\ b - 2 \in Int
    BY <1>1, <1>7
  <2>2. QED
    BY <2>1, <1>4, <1>5
<1>9. b - 1 <= Len(t.in) => t.in[b - 1] = <<"length", LengthIn(t, k)>>
  <2>1. b - 1 \in a + 1 .. e /\ ~(b - 1 < b - 1) /\ b - 1 \in Int
    BY <1>7
  <2>2. QED
    BY <2>1, <1>4, <1>5
<1>10. b <= Len(t.in) => t.in[b] = <<"blank">>
  <2>1. b \in a + 1 .. e /\ ~(b < b - 1) /\ b # b - 1 /\ b \in Int
    BY <1>7
  <2>2. QED
    BY <2>1, <1>4, <1>5
<1>11. \A i \in b + 1 .. e : i <= Len(t.in) => t.in[i] = <<"body", t.sent[k], i - b>>
  <2> TAKE i \in b + 1 .. e
  <2>1. i \in a + 1 .. e /\ ~(i < b - 1) /\ i # b - 1 /\ i # b /\ i \in Int
    BY <1>7
  <2>2. QED
    BY <2>1, <1>4, <1>5
<1>12. QED
  BY <1>6, <1>7, <1>8, <1>9, <1>10, <1>11 DEF a, b, e, size

(* What read_frame finds from the headers of frame k on. *)
ReadHere(t, k) ==
  IF LengthIn(t, k) = -1 \/ BlankOf(t, k) + LengthIn(t, k) > Len(t.in) THEN Mcp!Ended("error")
  ELSE [end |-> "no",
        payload |-> SubSeq(t.in, BlankOf(t, k) + 1, BlankOf(t, k) + LengthIn(t, k)),
        next |-> BlankOf(t, k) + LengthIn(t, k) + 1]

LEMMA AtHeaders ==
  ASSUME NEW t, Stream(t), NEW k \in 1 .. Len(t.sent),
         NEW i \in Before(t, k) + 1 .. BlankOf(t, k) - 1, i <= Len(t.in)
  PROVE  Mcp!ReadFrame(t.in, i) = ReadHere(t, k)
<1> DEFINE in == t.in
           a == Before(t, k)
           b == BlankOf(t, k)
           n == LengthIn(t, k)
<1>1. /\ Len(in) \in Nat /\ n \in Int /\ n >= -1 /\ a \in Nat /\ b \in Nat /\ (a = b - 2 \/ a = b - 3)
      /\ a = b - 3 /\ a < Len(in) => in[b - 2] = <<"header">>
      /\ b - 1 <= Len(in) => in[b - 1] = <<"length", n>>
      /\ b <= Len(in) => in[b] = <<"blank">>
  BY StreamTyped, FrameParts
<1>2. ReadHere(t, k) = IF n = -1 \/ b + n > Len(in) THEN Mcp!Ended("error")
                       ELSE [end |-> "no", payload |-> SubSeq(in, b + 1, b + n), next |-> b + n + 1]
  BY DEF ReadHere
<1>3. i \in a + 1 .. b - 1 /\ i <= Len(in)
  OBVIOUS
<1> HIDE DEF in, a, b, n
<1>4. i \in Nat \ {0} /\ i \in 1 .. Len(in)
  BY <1>1, <1>3
<1>5. CASE b <= Len(in)
  <2>1. \A k2 \in i .. b - 2 : in[k2] = <<"header">>
    <3> TAKE k2 \in i .. b - 2
    <3>1. a = b - 3 /\ a < Len(in) /\ k2 = b - 2
      BY <1>1, <1>3
    <3>2. QED
      BY <3>1, <1>1
  <2>2. i = b - 1 \/ ~Mcp!IsBody(in[b - 2])
    <3>1. i = b - 1 \/ b - 2 \in i .. b - 2
      BY <1>1, <1>3
    <3>2. QED
      BY <2>1, <3>1, PieceFacts
  <2>3. i < b /\ b - 1 <= Len(in)
    BY <1>1, <1>3, <1>5
  <2>4. Headers(in, i, b, n)
    BY <1>1, <1>4, <1>5, <2>1, <2>2, <2>3 DEF Headers
  <2>5. Mcp!ReadFrame(in, i) =
          IF n = -1 \/ b + n > Len(in) THEN Mcp!Ended("error")
          ELSE [end |-> "no", payload |-> SubSeq(in, b + 1, b + n), next |-> b + n + 1]
    <3>1. Len(in) \in Nat /\ i \in Nat \ {0} /\ n \in Int
      BY <1>1, <1>4
    <3>2. QED
      BY <2>4, <3>1, ReadHeaders
  <2>6. Mcp!ReadFrame(in, i) = ReadHere(t, k)
    BY <1>2, <2>5
  <2>7. QED
    BY <2>6 DEF in
<1>6. CASE ~(b <= Len(in))
  <2>1. \A k2 \in i .. Len(in) : in[k2] # <<"blank">>
    <3> TAKE k2 \in i .. Len(in)
    <3>1. (a = b - 3 /\ a < Len(in) /\ k2 = b - 2) \/ (k2 = b - 1 /\ b - 1 <= Len(in))
      BY <1>1, <1>3, <1>6
    <3>2. in[k2] = <<"header">> \/ in[k2] = <<"length", n>>
      BY <1>1, <3>1
    <3>3. QED
      BY <3>2, PieceFacts
  <2>2. Mcp!ReadFrame(in, i) = Mcp!Ended("error")
    BY <1>1, <1>4, <2>1, ReadNothing
  <2>3. n = -1 \/ b + n > Len(in)
    BY <1>1, <1>6
  <2>4. QED
    BY <1>2, <2>2, <2>3 DEF in
<1>7. QED
  BY <1>5, <1>6

LEMMA AtBlank ==
  ASSUME NEW t, Stream(t), NEW k \in 1 .. Len(t.sent), BlankOf(t, k) <= Len(t.in)
  PROVE  Mcp!ReadFrame(t.in, BlankOf(t, k)) = Mcp!Ended("error")
<1> DEFINE in == t.in
           b == BlankOf(t, k)
           a == Before(t, k)
<1>0. Len(in) \in Nat /\ a \in Nat /\ b \in Nat /\ (a = b - 2 \/ a = b - 3) /\ in[b] = <<"blank">>
  BY StreamTyped, FrameParts
<1>1. Len(in) \in Nat /\ b \in Nat /\ b # 0 /\ b <= Len(in) /\ in[b] = <<"blank">>
  <2>1. b <= Len(in)
    OBVIOUS
  <2> HIDE DEF in, a, b
  <2>2. QED
    BY <1>0, <2>1
<1> HIDE DEF in, b
<1>2. b \in 1 .. Len(in) /\ b \in b .. Len(in) /\ b .. b - 1 = {}
  BY <1>1
<1>3. Mcp!ReadFrame(in, b) = Mcp!Ended("error")
  BY <1>1, <1>2, ReadLost
<1>4. QED
  BY <1>3 DEF in, b

(* From inside a body, only a frame that begins with another header is found. *)
LEMMA InBody ==
  ASSUME NEW t, Stream(t), NEW k \in 1 .. Len(t.sent),
         NEW i \in BlankOf(t, k) + 1 .. t.ends[k], i <= Len(t.in)
  PROVE  Mcp!ReadFrame(t.in, i) =
           IF k < Len(t.sent) /\ Before(t, k + 1) = BlankOf(t, k + 1) - 3 THEN ReadHere(t, k + 1)
           ELSE Mcp!Ended("error")
<1> DEFINE in == t.in
           e == t.ends[k]
           b == BlankOf(t, k)
<1>1. /\ Len(in) \in Nat /\ Len(t.sent) \in Nat /\ b \in Nat /\ e \in Nat
      /\ \A j \in b + 1 .. e : j <= Len(in) => in[j] = <<"body", t.sent[k], j - b>>
      /\ Before(t, k + 1) = e
  BY StreamTyped, FrameParts
<1>2. \A j \in i .. e : j <= Len(in) => Mcp!IsBody(in[j]) /\ in[j] # <<"blank">>
  <2> TAKE j \in i .. e
  <2>1. j \in b + 1 .. e
    BY <1>1
  <2> HAVE j <= Len(in)
  <2>2. in[j] = <<"body", t.sent[k], j - b>>
    BY <1>1, <2>1
  <2> DEFINE p == j - b
  <2>3. in[j] = <<"body", t.sent[k], p>>
    BY <2>2
  <2> HIDE DEF in, b, e, p
  <2>4. QED
    BY <2>3, BodyPiece
<1>3. i \in b + 1 .. e /\ i <= Len(in)
  OBVIOUS
<1>4. CASE k = Len(t.sent)
  <2>1. Len(in) <= e
    BY <1>1, <1>4 DEF Stream
  <2> HIDE DEF in, e, b
  <2>2. i \in 1 .. Len(in) /\ \A j \in i .. Len(in) : in[j] # <<"blank">>
    BY <1>1, <1>2, <1>3, <2>1
  <2>3. Mcp!ReadFrame(in, i) = Mcp!Ended("error")
    BY <1>1, <2>2, ReadNothing
  <2>4. QED
    BY <1>4, <2>3 DEF in
<1>5. CASE k # Len(t.sent)
  <2> DEFINE k2 == k + 1
             b2 == BlankOf(t, k2)
             n == LengthIn(t, k2)
  <2>1. k2 \in 1 .. Len(t.sent) /\ k < Len(t.sent)
    BY <1>1, <1>5
  <2>2. Before(t, k2) = e
    BY <1>1
  <2> HIDE DEF k2
  <2>3. /\ n \in Int /\ n >= -1 /\ b2 \in Nat /\ (e = b2 - 2 \/ e = b2 - 3)
        /\ e = b2 - 3 /\ e < Len(in) => in[b2 - 2] = <<"header">>
        /\ b2 - 1 <= Len(in) => in[b2 - 1] = <<"length", n>>
        /\ b2 <= Len(in) => in[b2] = <<"blank">>
    <3>1. n \in Int /\ n >= -1
      BY <2>1, StreamTyped
    <3>2. /\ b2 \in Nat /\ (Before(t, k2) = b2 - 2 \/ Before(t, k2) = b2 - 3)
          /\ Before(t, k2) = b2 - 3 /\ Before(t, k2) < Len(in) => in[b2 - 2] = <<"header">>
          /\ b2 - 1 <= Len(in) => in[b2 - 1] = <<"length", n>>
          /\ b2 <= Len(in) => in[b2] = <<"blank">>
      BY <2>1, FrameParts
    <3> HIDE DEF in, e, b, b2, n
    <3>3. QED
      BY <3>1, <3>2, <2>2
  <2>4. ReadHere(t, k2) = IF n = -1 \/ b2 + n > Len(in) THEN Mcp!Ended("error")
                          ELSE [end |-> "no", payload |-> SubSeq(in, b2 + 1, b2 + n),
                                next |-> b2 + n + 1]
    BY DEF ReadHere
  <2> HIDE DEF in, e, b, b2, n
  <2>5. i \in Nat \ {0} /\ i \in 1 .. Len(in)
    BY <1>1, <1>3
  <2>6. CASE b2 > Len(in)
    <3>1. \A j \in i .. Len(in) : in[j] # <<"blank">>
      <4> TAKE j \in i .. Len(in)
      <4>1. j \in i .. e \/ (e = b2 - 3 /\ e < Len(in) /\ j = b2 - 2) \/ (j = b2 - 1 /\ b2 - 1 <= Len(in))
        BY <1>1, <1>3, <2>3, <2>6
      <4>2. in[j] # <<"blank">> \/ in[j] = <<"header">> \/ in[j] = <<"length", n>>
        BY <1>2, <2>3, <4>1
      <4>3. QED
        BY <4>2, PieceFacts
    <3>2. Mcp!ReadFrame(in, i) = Mcp!Ended("error")
      BY <1>1, <2>5, <3>1, ReadNothing
    <3>3. n = -1 \/ b2 + n > Len(in)
      BY <1>1, <2>3, <2>6
    <3>4. QED
      BY <2>4, <3>2, <3>3 DEF in, k2
  <2>7. CASE b2 <= Len(in) /\ e = b2 - 3
    <3>1. \A j \in i .. b2 - 2 : Mcp!IsBody(in[j]) \/ in[j] = <<"header">>
      <4> TAKE j \in i .. b2 - 2
      <4>1. (j \in i .. e /\ j <= Len(in)) \/ (j = b2 - 2 /\ e < Len(in))
        BY <1>1, <1>3, <2>3, <2>7
      <4>2. QED
        BY <1>2, <2>3, <2>7, <4>1
    <3>2. e < Len(in) /\ i < b2 /\ b2 - 1 <= Len(in)
      BY <1>1, <1>3, <2>3, <2>7
    <3>3. ~Mcp!IsBody(in[b2 - 2])
      BY <2>3, <2>7, <3>2, PieceFacts
    <3>4. Headers(in, i, b2, n)
      BY <2>3, <2>5, <2>7, <3>1, <3>2, <3>3 DEF Headers
    <3>5. Mcp!ReadFrame(in, i) = ReadHere(t, k2)
      BY <1>1, <2>3, <2>4, <2>5, <3>4, ReadHeaders
    <3>6. QED
      BY <2>1, <2>2, <2>7, <3>5 DEF in, k2, b2
  <2>8. CASE b2 <= Len(in) /\ e # b2 - 3
    <3>1. e = b2 - 2 /\ b2 \in i .. Len(in) /\ b2 - 1 <= Len(in) /\ e <= Len(in) /\ e \in i .. e
      BY <1>1, <1>3, <2>3, <2>8
    <3>2. in[b2] = <<"blank">> /\ ~Mcp!IsBody(in[b2 - 1])
      BY <2>3, <2>8, <3>1, PieceFacts
    <3>3. Mcp!IsBody(in[b2 - 2])
      BY <1>2, <3>1
    <3>4. ASSUME NEW j \in i .. b2 - 1, j \in Mcp!LineStarts(in, i)
          PROVE  Mcp!IsBody(in[j]) \/ in[j] = <<"header">>
      <4>1. j # b2 - 1
        <5>1. SUFFICES ASSUME j = b2 - 1 PROVE FALSE
          OBVIOUS
        <5>2. j # i /\ j - 1 = b2 - 2
          BY <1>1, <1>3, <2>3, <3>1, <5>1
        <5>3. ~Mcp!IsBody(in[j - 1])
          BY <3>4, <5>2 DEF Mcp!LineStarts
        <5>4. QED
          BY <3>3, <5>2, <5>3
      <4>2. j \in i .. e /\ j <= Len(in)
        BY <1>1, <1>3, <2>3, <3>1, <4>1
      <4>3. QED
        BY <1>2, <4>2
    <3>5. Mcp!ReadFrame(in, i) = Mcp!Ended("error")
      BY <1>1, <2>5, <3>1, <3>2, <3>4, ReadLost
    <3>6. QED
      BY <2>2, <2>8, <3>5 DEF in, k2, b2
  <2>9. QED
    BY <1>1, <2>3, <2>6, <2>7, <2>8
<1>6. QED
  BY <1>4, <1>5

-----------------------------------------------------------------------------
(* Where a read leads. *)

LEMMA Located ==
  ASSUME NEW t, Stream(t), NEW w \in 1 .. Len(t.sent), NEW i \in 1 .. Len(t.in), Before(t, w) < i
  PROVE  \E k \in w .. Len(t.sent) : Before(t, k) < i /\ i <= t.ends[k]
<1> DEFINE n == Len(t.sent)
           S == {k \in w .. n : i <= t.ends[k]}
<1>1. /\ n \in Nat /\ \A k \in 1 .. n : t.ends[k] \in Nat
      /\ Len(t.in) <= Before(t, n + 1) /\ i \in Nat /\ Len(t.in) \in Nat
  BY StreamTyped DEF Stream
<1>2. \A k \in Nat \ {0} : Before(t, k + 1) = t.ends[k]
  BY DEF Before
<1>3. n \in S
  <2>1. n \in w .. n /\ n \in 1 .. n /\ n \in Nat \ {0}
    BY <1>1
  <2>2. Before(t, n + 1) = t.ends[n] /\ t.ends[n] \in Nat
    BY <1>1, <1>2, <2>1
  <2>3. i <= t.ends[n]
    BY <1>1, <2>2
  <2>4. QED
    BY <2>1, <2>3
<1>4. S \in SUBSET Nat
  BY <1>1
<1>5. PICK k \in S : \A j \in S : k <= j
  <2> HIDE DEF S
  <2>1. QED
    BY <1>3, <1>4, MinExists
<1>6. Before(t, k) < i
  <2>1. CASE k = w
    BY <2>1
  <2>2. CASE k # w
    <3>1. k - 1 \in w .. n /\ k - 1 \in Nat \ {0} /\ k - 1 \notin S
      BY <1>1, <1>5, <2>2
    <3>2. ~(i <= t.ends[k - 1]) /\ t.ends[k - 1] \in Nat
      BY <1>1, <3>1
    <3>3. Before(t, k) = t.ends[k - 1]
      BY <3>1 DEF Before
    <3>4. QED
      BY <1>1, <3>2, <3>3
  <2>3. QED
    BY <2>1, <2>2
<1>7. QED
  BY <1>5, <1>6

(* A frame that is read is read from its headers on. *)
LEMMA Found ==
  ASSUME NEW t, Stream(t), NEW w \in 1 .. Len(t.sent), NEW i \in 1 .. Len(t.in), Before(t, w) < i
  PROVE  \/ Mcp!ReadFrame(t.in, i) = Mcp!Ended("error")
         \/ \E k \in w .. Len(t.sent) : i < BlankOf(t, k) /\ Mcp!ReadFrame(t.in, i) = ReadHere(t, k)
<1>1. PICK k \in w .. Len(t.sent) : Before(t, k) < i /\ i <= t.ends[k]
  BY Located
<1>2. k \in 1 .. Len(t.sent) /\ Len(t.sent) \in Nat /\ w \in Nat
  BY StreamTyped
<1>3. /\ Before(t, k) \in Nat /\ BlankOf(t, k) \in Nat /\ t.ends[k] \in Nat
      /\ Before(t, k + 1) = t.ends[k]
  BY <1>2, FrameParts
<1>4. CASE i < BlankOf(t, k)
  <2>1. i \in Before(t, k) + 1 .. BlankOf(t, k) - 1 /\ i <= Len(t.in)
    BY <1>1, <1>3, <1>4
  <2>2. Mcp!ReadFrame(t.in, i) = ReadHere(t, k)
    BY <1>2, <2>1, AtHeaders
  <2>3. QED
    BY <1>1, <1>4, <2>2
<1>5. CASE i = BlankOf(t, k)
  BY <1>2, <1>5, AtBlank
<1>6. CASE i > BlankOf(t, k)
  <2>1. i \in BlankOf(t, k) + 1 .. t.ends[k] /\ i <= Len(t.in)
    BY <1>1, <1>3, <1>6
  <2>2. Mcp!ReadFrame(t.in, i) =
          IF k < Len(t.sent) /\ Before(t, k + 1) = BlankOf(t, k + 1) - 3 THEN ReadHere(t, k + 1)
          ELSE Mcp!Ended("error")
    BY <1>2, <2>1, InBody
  <2>3. CASE k < Len(t.sent) /\ Before(t, k + 1) = BlankOf(t, k + 1) - 3
    <3>1. k + 1 \in w .. Len(t.sent) /\ k + 1 \in 1 .. Len(t.sent)
      BY <1>1, <1>2, <2>3
    <3>2. BlankOf(t, k + 1) \in Nat
      BY <3>1, FrameParts
    <3>3. i < BlankOf(t, k + 1)
      BY <1>1, <1>3, <2>3, <3>2
    <3>4. QED
      BY <2>2, <2>3, <3>1, <3>3
  <2>4. CASE ~(k < Len(t.sent) /\ Before(t, k + 1) = BlankOf(t, k + 1) - 3)
    BY <2>2, <2>4
  <2>5. QED
    BY <2>3, <2>4
<1>7. QED
  BY <1>3, <1>4, <1>5, <1>6

LEMMA HereAhead ==
  ASSUME NEW t, Stream(t), NEW k \in 1 .. Len(t.sent), ReadHere(t, k) # Mcp!Ended("error")
  PROVE  /\ LengthIn(t, k) \in Nat /\ BlankOf(t, k) + LengthIn(t, k) <= Len(t.in)
         /\ ReadHere(t, k) = [end |-> "no",
                payload |-> SubSeq(t.in, BlankOf(t, k) + 1, BlankOf(t, k) + LengthIn(t, k)),
                next |-> BlankOf(t, k) + LengthIn(t, k) + 1]
<1>1. LengthIn(t, k) \in Int /\ LengthIn(t, k) >= -1 /\ Len(t.in) \in Nat
  BY StreamTyped
<1>2. BlankOf(t, k) \in Nat
  BY FrameParts
<1>3. ~(LengthIn(t, k) = -1 \/ BlankOf(t, k) + LengthIn(t, k) > Len(t.in))
  BY DEF ReadHere
<1>4. QED
  BY <1>1, <1>2, <1>3 DEF ReadHere

LEMMA ReadEnd ==
  ASSUME NEW in, Len(in) \in Nat
  PROVE  Mcp!ReadFrame(in, Len(in) + 1) = Mcp!Ended("clean")
BY DEF Mcp!ReadFrame

(* Each read ends the server or goes on behind the frame. *)
LEMMA ReadCases ==
  ASSUME NEW t, Stream(t), NEW i \in 1 .. Len(t.in) + 1
  PROVE  \/ Mcp!ReadFrame(t.in, i) = Mcp!Ended("clean")
         \/ Mcp!ReadFrame(t.in, i) = Mcp!Ended("error")
         \/ /\ Mcp!ReadFrame(t.in, i).end = "no"
            /\ Mcp!ReadFrame(t.in, i).next \in i + 1 .. Len(t.in) + 1
<1>1. Len(t.in) \in Nat /\ Len(t.sent) \in Nat
  BY StreamTyped
<1>2. CASE i = Len(t.in) + 1
  BY <1>1, <1>2, ReadEnd
<1>3. CASE i # Len(t.in) + 1
  <2>1. i \in 1 .. Len(t.in) /\ i \in Nat
    BY <1>1, <1>3
  <2>2. 1 \in 1 .. Len(t.sent) /\ Before(t, 1) < i
    <3>1. Before(t, 1) = 0
      BY DEF Before
    <3>2. Len(t.sent) # 0
      <4>1. Len(t.in) <= Before(t, Len(t.sent) + 1)
        BY DEF Stream
      <4>2. QED
        BY <1>1, <2>1, <3>1, <4>1
    <3>3. QED
      BY <1>1, <2>1, <3>1, <3>2
  <2>3. CASE Mcp!ReadFrame(t.in, i) # Mcp!Ended("error")
    <3>1. PICK k \in 1 .. Len(t.sent) : i < BlankOf(t, k) /\ Mcp!ReadFrame(t.in, i) = ReadHere(t, k)
      BY <2>1, <2>2, <2>3, Found
    <3> DEFINE b == BlankOf(t, k)
               n == LengthIn(t, k)
               here == ReadHere(t, k)
    <3>2. /\ n \in Nat /\ b + n <= Len(t.in)
          /\ here = [end |-> "no", payload |-> SubSeq(t.in, b + 1, b + n), next |-> b + n + 1]
      BY <2>3, <3>1, HereAhead
    <3>3. b \in Nat /\ i < b
      BY <3>1, FrameParts
    <3> HIDE DEF b, n, here
    <3>4. here.end = "no" /\ here.next = b + n + 1
      BY <3>2
    <3>5. b + n + 1 \in i + 1 .. Len(t.in) + 1
      BY <1>1, <2>1, <3>2, <3>3
    <3>6. QED
      BY <3>1, <3>4, <3>5 DEF here
  <2>4. QED
    BY <2>3
<1>4. QED
  BY <1>2, <1>3

-----------------------------------------------------------------------------
(* The server *)

AnswersAt(in, i) == Mcp!Answers(Mcp!MessageIn(Mcp!ReadFrame(in, i).payload))
ServedFrom(in, f, i) ==
  IF Mcp!ReadFrame(in, i).end # "no" THEN [out |-> <<>>, end |-> Mcp!ReadFrame(in, i).end]
  ELSE [f[Mcp!ReadFrame(in, i).next] EXCEPT !.out = AnswersAt(in, i) \o @]
IsServed(in, f) == f = [i \in 1 .. Len(in) + 1 |-> ServedFrom(in, f, i)]
Served(in) == CHOOSE f : IsServed(in, f)

LEMMA ServeIs ==
  ASSUME NEW in
  PROVE  Mcp!Serve(in) = Served(in)[1]
BY DEF Mcp!Serve, Served, IsServed, ServedFrom, AnswersAt

LEMMA ServedExists ==
  ASSUME NEW in, Len(in) \in Nat,
         \A i \in 1 .. Len(in) + 1 : Mcp!ReadFrame(in, i).end = "no" =>
            Mcp!ReadFrame(in, i).next \in i + 1 .. Len(in) + 1
  PROVE  IsServed(in, Served(in))
<1> DEFINE N == Len(in) + 1
           Has(d) == \E f : \A i \in N + 1 - d .. N : f[i] = ServedFrom(in, f, i)
           good == {d \in 0 .. N : Has(d)}
<1>1. N \in Nat \ {0}
  OBVIOUS
<1>2. ASSUME NEW f, NEW g, NEW i \in 1 .. N, \A j \in i + 1 .. N : f[j] = g[j]
      PROVE  ServedFrom(in, f, i) = ServedFrom(in, g, i)
  BY <1>2 DEF ServedFrom
<1>3. Has(0)
  <2>1. \A i \in N + 1 - 0 .. N : FALSE
    BY <1>1
  <2>2. QED
    BY <2>1
<1>4. ASSUME NEW d \in 1 .. N, Has(d - 1)
      PROVE  Has(d)
  <2>1. PICK f : \A i \in N + 1 - (d - 1) .. N : f[i] = ServedFrom(in, f, i)
    BY <1>4
  <2> DEFINE x == N + 1 - d
             g == [i \in 1 .. N |-> IF i = x THEN ServedFrom(in, f, i) ELSE f[i]]
  <2>2. x \in 1 .. N /\ N + 1 - (d - 1) = x + 1
    BY <1>1
  <2>3. g[x] = ServedFrom(in, f, x) /\ \A i \in 1 .. N : i # x => g[i] = f[i]
    BY <2>2
  <2> HIDE DEF x, g, N
  <2>4. ASSUME NEW i \in x .. N
        PROVE  g[i] = ServedFrom(in, g, i)
    <3>1. i \in 1 .. N /\ \A j \in i + 1 .. N : j \in 1 .. N /\ j # x
      BY <1>1, <2>2
    <3>2. ServedFrom(in, g, i) = ServedFrom(in, f, i)
      BY <1>2, <2>3, <3>1
    <3>3. CASE i = x
      BY <2>3, <3>2, <3>3
    <3>4. CASE i # x
      <4>1. i \in x + 1 .. N
        BY <1>1, <2>2, <3>4
      <4>2. f[i] = ServedFrom(in, f, i)
        BY <2>1, <2>2, <4>1
      <4>3. QED
        BY <2>3, <3>1, <3>2, <3>4, <4>2
    <3>5. QED
      BY <3>3, <3>4
  <2>5. QED
    BY <2>4 DEF x
<1>5. good = 0 .. N
  <2>1. 0 \in good
    BY <1>1, <1>3
  <2>2. ASSUME NEW k \in 1 .. N, k - 1 \in good PROVE k \in good
    <3>1. Has(k - 1)
      BY <2>2
    <3> HIDE DEF Has
    <3>2. QED
      BY <1>1, <1>4, <3>1
  <2>3. good \in SUBSET (0 .. N)
    OBVIOUS
  <2> HIDE DEF good, N
  <2>4. QED
    BY <1>1, <2>1, <2>2, <2>3, Climb
<1>6. PICK f : \A i \in N + 1 - N .. N : f[i] = ServedFrom(in, f, i)
  BY <1>1, <1>5
<1> DEFINE h == [i \in 1 .. N |-> f[i]]
<1>7. IsServed(in, h)
  <2>1. ASSUME NEW i \in 1 .. N PROVE h[i] = ServedFrom(in, h, i)
    <3>1. \A j \in i + 1 .. N : h[j] = f[j]
      BY <1>1
    <3>2. f[i] = ServedFrom(in, f, i) /\ h[i] = f[i]
      BY <1>1, <1>6
    <3> HIDE DEF h, N
    <3>3. QED
      BY <1>2, <3>1, <3>2
  <2>2. h = [i \in 1 .. N |-> h[i]]
    OBVIOUS
  <2> HIDE DEF h
  <2>3. h = [i \in 1 .. N |-> ServedFrom(in, h, i)]
    BY <2>1, <2>2
  <2>4. QED
    BY <2>3 DEF IsServed
<1>8. QED
  <2> HIDE DEF h
  <2>1. QED
    BY <1>7 DEF Served

LEMMA OneAnswer ==
  ASSUME NEW m
  PROVE  Mcp!Answers(m) = <<>> \/ Mcp!Answers(m) = <<Mcp!Answers(m)[1]>>
BY DEF Mcp!Answers

Replies(t) ==
  {AnswersAt(t.in, i)[1] : i \in 1 .. Len(t.in) + 1} \cup {Mcp!Response("null", -32700)}
    \cup {Mcp!Answers(Bodies[f])[1] : f \in DOMAIN Bodies}
Outcomes(t) == [out : Seq(Replies(t)), end : {"clean", "error"}]

LEMMA AnswersTyped ==
  ASSUME NEW t
  PROVE  /\ \A i \in 1 .. Len(t.in) + 1 : AnswersAt(t.in, i) \in Seq(Replies(t))
         /\ \A f \in DOMAIN Bodies : Mcp!Answers(Bodies[f]) \in Seq(Replies(t))
         /\ <<Mcp!Response("null", -32700)>> \in Seq(Replies(t))
<1>1. ASSUME NEW m, Mcp!Answers(m)[1] \in Replies(t) PROVE Mcp!Answers(m) \in Seq(Replies(t))
  <2> DEFINE a == Mcp!Answers(m)
  <2>1. a = <<>> \/ a = <<a[1]>>
    BY OneAnswer
  <2>2. a[1] \in Replies(t)
    BY <1>1
  <2> HIDE DEF a
  <2>3. <<>> \in Seq(Replies(t)) /\ <<a[1]>> \in Seq(Replies(t))
    BY <2>2, EmptySeq
  <2>5. a \in Seq(Replies(t))
    BY <2>1, <2>3
  <2>4. QED
    BY <2>5 DEF a
<1>2. \A i \in 1 .. Len(t.in) + 1 : AnswersAt(t.in, i)[1] \in Replies(t)
  BY DEF Replies
<1>3. \A f \in DOMAIN Bodies : Mcp!Answers(Bodies[f])[1] \in Replies(t)
  BY DEF Replies
<1>4. Mcp!Response("null", -32700) \in Replies(t)
  BY DEF Replies
<1>5. \A i \in 1 .. Len(t.in) + 1 : AnswersAt(t.in, i) \in Seq(Replies(t))
  BY <1>1, <1>2 DEF AnswersAt
<1>6. QED
  BY <1>1, <1>3, <1>4, <1>5

(* The steps of the server. *)
LEMMA ServeStep ==
  ASSUME NEW t, Stream(t)
  PROVE  \A i \in 1 .. Len(t.in) + 1 :
           LET frame == Mcp!ReadFrame(t.in, i)
               from == Served(t.in)
           IN  /\ from[i] \in Outcomes(t)
               /\ frame.end # "no" => from[i] = [out |-> <<>>, end |-> frame.end]
               /\ frame.end = "no" => /\ from[i].out = AnswersAt(t.in, i) \o from[frame.next].out
                                      /\ from[i].end = from[frame.next].end
<1> DEFINE in == t.in
           N == Len(in) + 1
           frame(i) == Mcp!ReadFrame(in, i)
           from == Served(in)
           good == {d \in 0 .. N : \A i \in N + 1 - d .. N : from[i] \in Outcomes(t)}
<1>1. Len(in) \in Nat /\ N \in Nat
  BY StreamTyped
<1>2. \A i \in 1 .. N : \/ frame(i) = Mcp!Ended("clean")
                        \/ frame(i) = Mcp!Ended("error")
                        \/ frame(i).end = "no" /\ frame(i).next \in i + 1 .. N
  BY ReadCases
<1>3. "clean" # "no" /\ "error" # "no" /\ Mcp!Ended("clean").end = "clean" /\ Mcp!Ended("error").end = "error"
  BY DEF Mcp!Ended
<1>4. \A i \in 1 .. N : \/ frame(i).end \in {"clean", "error"}
                        \/ frame(i).end = "no" /\ frame(i).next \in i + 1 .. N
  BY <1>2, <1>3
<1>5. IsServed(in, from)
  <2>1. \A i \in 1 .. Len(in) + 1 : Mcp!ReadFrame(in, i).end = "no" =>
           Mcp!ReadFrame(in, i).next \in i + 1 .. Len(in) + 1
    BY <1>3, <1>4
  <2> HIDE DEF in
  <2>2. QED
    BY <1>1, <2>1, ServedExists
<1>6. \A i \in 1 .. N : from[i] = ServedFrom(in, from, i)
  <2> HIDE DEF from
  <2>1. QED
    BY <1>5 DEF IsServed
<1>7. \A i \in 1 .. N : AnswersAt(in, i) \in Seq(Replies(t))
  BY AnswersTyped
<1> HIDE DEF in, N, from, frame
<1>8. \A i \in 1 .. N : from[i] = IF frame(i).end # "no" THEN [out |-> <<>>, end |-> frame(i).end]
                                  ELSE [from[frame(i).next] EXCEPT !.out = AnswersAt(in, i) \o @]
  BY <1>6 DEF ServedFrom, frame
<1>9. ASSUME NEW i \in 1 .. N, \A j \in i + 1 .. N : from[j] \in Outcomes(t)
      PROVE  /\ from[i] \in Outcomes(t)
             /\ frame(i).end # "no" => from[i] = [out |-> <<>>, end |-> frame(i).end]
             /\ frame(i).end = "no" => /\ from[i].out = AnswersAt(in, i) \o from[frame(i).next].out
                                       /\ from[i].end = from[frame(i).next].end
  <2>1. CASE frame(i).end # "no"
    <3>1. from[i] = [out |-> <<>>, end |-> frame(i).end] /\ frame(i).end \in {"clean", "error"}
      BY <1>4, <1>8, <2>1
    <3>2. <<>> \in Seq(Replies(t))
      BY EmptySeq
    <3>3. from[i] \in Outcomes(t)
      BY <3>1, <3>2 DEF Outcomes
    <3>4. QED
      BY <2>1, <3>1, <3>3
  <2>2. CASE frame(i).end = "no"
    <3> DEFINE then == from[frame(i).next]
               ans == AnswersAt(in, i)
    <3>1. then \in Outcomes(t)
      BY <1>3, <1>4, <1>9, <2>2
    <3>2. from[i] = [then EXCEPT !.out = ans \o then.out]
      BY <1>8, <2>2
    <3>3. ans \in Seq(Replies(t))
      BY <1>7
    <3> HIDE DEF then, ans
    <3>4. then.out \in Seq(Replies(t)) /\ then.end \in {"clean", "error"}
      BY <3>1 DEF Outcomes
    <3>5. ans \o then.out \in Seq(Replies(t))
      BY <3>3, <3>4, ConcatProperties
    <3>6. from[i] \in Outcomes(t) /\ from[i].out = ans \o then.out /\ from[i].end = then.end
      BY <3>1, <3>2, <3>4, <3>5 DEF Outcomes
    <3>7. QED
      BY <2>2, <3>6 DEF then, ans
  <2>3. QED
    BY <2>1, <2>2
<1>10. good = 0 .. N
  <2>1. 0 \in good
    BY <1>1
  <2>2. ASSUME NEW k \in 1 .. N, k - 1 \in good PROVE k \in good
    <3>1. \A i \in N + 1 - (k - 1) .. N : from[i] \in Outcomes(t)
      BY <2>2
    <3>2. N + 1 - k \in 1 .. N /\ N + 1 - (k - 1) = (N + 1 - k) + 1 /\ k \in 0 .. N
      BY <1>1
    <3>3. from[N + 1 - k] \in Outcomes(t)
      BY <1>9, <3>1, <3>2
    <3>4. \A i \in N + 1 - k .. N : i = N + 1 - k \/ i \in N + 1 - (k - 1) .. N
      BY <1>1
    <3>5. QED
      BY <3>1, <3>2, <3>3, <3>4
  <2>3. good \in SUBSET (0 .. N)
    OBVIOUS
  <2> HIDE DEF good
  <2>4. QED
    BY <1>1, <2>1, <2>2, <2>3, Climb
<1>11. \A i \in 1 .. N : from[i] \in Outcomes(t)
  <2>1. N \in good /\ N + 1 - N = 1
    BY <1>1, <1>10
  <2>2. QED
    BY <2>1
<1> HIDE DEF good
<1>12. \A i \in 1 .. N : \A j \in i + 1 .. N : j \in 1 .. N
  BY <1>1
<1>13. QED
  BY <1>9, <1>11, <1>12 DEF in, N, from, frame

-----------------------------------------------------------------------------
(* Concatenations, and the answers to several frames. *)

(* f concatenates the first k of seqs, for every k up to n. *)
Flattens(seqs, n, f) ==
  f = [k \in 1 .. n |-> IF k = 1 THEN seqs[k] ELSE f[k - 1] \o seqs[k]]
Flat(seqs, n) == CHOOSE f : Flattens(seqs, n, f)

LEMMA FlattenIs ==
  ASSUME NEW seqs, Len(seqs) # 0
  PROVE  FlattenSeq(seqs) = Flat(seqs, Len(seqs))[Len(seqs)]
BY DEF FlattenSeq, Flat, Flattens

LEMMA FlattenExists ==
  ASSUME NEW seqs, NEW n \in Nat
  PROVE  Flattens(seqs, n, Flat(seqs, n))
<1> DEFINE good == {m \in 0 .. n : \E f : Flattens(seqs, m, f)}
<1>1. 0 \in good
  <2> DEFINE f == [k \in 1 .. 0 |-> 0]
  <2>1. f = [k \in 1 .. 0 |-> IF k = 1 THEN seqs[k] ELSE f[k - 1] \o seqs[k]]
    OBVIOUS
  <2> HIDE DEF f
  <2>2. Flattens(seqs, 0, f)
    BY <2>1 DEF Flattens
  <2>3. QED
    BY <2>2
<1>2. ASSUME NEW m \in 1 .. n, m - 1 \in good
      PROVE  m \in good
  <2>1. PICK f : Flattens(seqs, m - 1, f)
    BY <1>2
  <2> DEFINE g == [k \in 1 .. m |-> IF k = 1 THEN seqs[k] ELSE f[k - 1] \o seqs[k]]
  <2>2. ASSUME NEW k \in 1 .. m - 1 PROVE g[k] = f[k]
    <3>1. f[k] = IF k = 1 THEN seqs[k] ELSE f[k - 1] \o seqs[k]
      BY <2>1 DEF Flattens
    <3>2. k \in 1 .. m
      BY <2>2
    <3>3. QED
      BY <3>1, <3>2
  <2>3. \A k \in 1 .. m : k # 1 => k - 1 \in 1 .. m - 1
    OBVIOUS
  <2>4. \A k \in 1 .. m : g[k] = IF k = 1 THEN seqs[k] ELSE g[k - 1] \o seqs[k]
    BY <2>2, <2>3
  <2>5. Flattens(seqs, m, g)
    BY <2>4 DEF Flattens
  <2>6. QED
    BY <2>5
<1>3. good \in SUBSET (0 .. n)
  OBVIOUS
<1>4. good = 0 .. n
  <2> HIDE DEF good
  <2>1. QED
    BY <1>1, <1>2, <1>3, Climb
<1>5. \E f : Flattens(seqs, n, f)
  BY <1>4
<1>6. QED
  BY <1>5 DEF Flat

LEMMA FlattenTyped ==
  ASSUME NEW S, NEW seqs \in Seq(Seq(S))
  PROVE  /\ FlattenSeq(seqs) \in Seq(S)
         /\ \A k \in 1 .. Len(seqs) : Flat(seqs, Len(seqs))[k] \in Seq(S)
         /\ Len(seqs) = 0 => FlattenSeq(seqs) = <<>>
<1> DEFINE n == Len(seqs)
           f == Flat(seqs, n)
<1>1. n \in Nat /\ \A k \in 1 .. n : seqs[k] \in Seq(S)
  BY LenProperties, ElementOfSeq
<1>2. Flattens(seqs, n, f)
  BY <1>1, FlattenExists
<1> HIDE DEF f, n
<1>3. \A k \in 1 .. n : f[k] = IF k = 1 THEN seqs[k] ELSE f[k - 1] \o seqs[k]
  BY <1>2 DEF Flattens
<1> DEFINE good == {k \in 0 .. n : k = 0 \/ f[k] \in Seq(S)}
<1>4. ASSUME NEW k \in 1 .. n, k - 1 \in good
      PROVE  k \in good
  <2>1. CASE k = 1
    BY <1>1, <1>3, <2>1
  <2>2. CASE k # 1
    <3>1. f[k - 1] \in Seq(S) /\ seqs[k] \in Seq(S) /\ k \in 0 .. n
      BY <1>1, <1>4, <2>2
    <3>2. f[k - 1] \o seqs[k] \in Seq(S)
      BY <3>1, ConcatProperties
    <3>3. QED
      BY <1>3, <2>2, <3>1, <3>2
  <2>3. QED
    BY <2>1, <2>2
<1>5. good = 0 .. n
  <2>1. 0 \in good /\ good \in SUBSET (0 .. n)
    BY <1>1
  <2> HIDE DEF good
  <2>2. QED
    BY <1>1, <1>4, <2>1, Climb
<1>6. \A k \in 1 .. n : f[k] \in Seq(S)
  <2> TAKE k \in 1 .. n
  <2>1. k \in good /\ k # 0
    BY <1>1, <1>5
  <2>2. QED
    BY <2>1
<1>7. CASE n = 0
  <2>1. seqs = <<>> /\ FlattenSeq(seqs) = seqs
    BY <1>7, EmptySeq DEF FlattenSeq, n
  <2>2. QED
    BY <1>6, <1>7, <2>1, EmptySeq DEF f, n
<1>8. CASE n # 0
  <2>1. FlattenSeq(seqs) = f[n]
    BY <1>8, FlattenIs DEF f, n
  <2>2. n \in 1 .. n
    BY <1>1, <1>8
  <2>3. QED
    BY <1>6, <1>8, <2>1, <2>2 DEF f, n
<1>9. QED
  BY <1>7, <1>8

LEMMA FlattenSnoc ==
  ASSUME NEW S, NEW s \in Seq(Seq(S)), NEW e \in Seq(S)
  PROVE  FlattenSeq(Append(s, e)) = FlattenSeq(s) \o e
<1> DEFINE u == Append(s, e)
           n == Len(s)
           m == n + 1
           f == Flat(s, n)
           g == Flat(u, m)
<1>1. /\ n \in Nat /\ u \in Seq(Seq(S)) /\ Len(u) = m /\ m # 0
      /\ \A k \in 1 .. n : u[k] = s[k]
      /\ u[m] = e
  BY LenProperties, AppendProperties
<1>2. Flattens(s, n, f) /\ Flattens(u, m, g)
  BY <1>1, FlattenExists
<1>3. FlattenSeq(u) = g[m]
  BY <1>1, FlattenIs
<1>4. n # 0 => FlattenSeq(s) = f[n]
  BY FlattenIs
<1> HIDE DEF f, g, u, n
<1>5. /\ \A k \in 1 .. n : f[k] = IF k = 1 THEN s[k] ELSE f[k - 1] \o s[k]
      /\ \A k \in 1 .. m : g[k] = IF k = 1 THEN u[k] ELSE g[k - 1] \o u[k]
  BY <1>2 DEF Flattens
<1> DEFINE good == {k \in 0 .. n : k = 0 \/ f[k] = g[k]}
<1>6. ASSUME NEW k \in 1 .. n, k - 1 \in good
      PROVE  k \in good
  <2>1. k \in 0 .. n /\ k \in 1 .. m /\ u[k] = s[k] /\ (k # 1 => k - 1 # 0)
    BY <1>1
  <2>2. f[k] = IF k = 1 THEN s[k] ELSE f[k - 1] \o s[k]
    BY <1>5
  <2>3. g[k] = IF k = 1 THEN s[k] ELSE g[k - 1] \o s[k]
    BY <1>5, <2>1
  <2>4. k # 1 => f[k - 1] = g[k - 1]
    BY <1>6, <2>1
  <2>5. f[k] = g[k]
    BY <2>2, <2>3, <2>4
  <2>6. QED
    BY <2>1, <2>5
<1>7. good = 0 .. n
  <2>1. 0 \in good /\ good \in SUBSET (0 .. n)
    BY <1>1
  <2> HIDE DEF good
  <2>2. QED
    BY <1>1, <1>6, <2>1, Climb
<1>8. m \in 1 .. m
  BY <1>1
<1>9. CASE n = 0
  <2>1. g[m] = e
    BY <1>1, <1>5, <1>8, <1>9
  <2>2. FlattenSeq(s) = <<>>
    BY <1>9, FlattenTyped DEF n
  <2>3. <<>> \o e = e
    BY ConcatEmptySeq
  <2>4. QED
    BY <1>3, <2>1, <2>2, <2>3 DEF u
<1>10. CASE n # 0
  <2>1. m # 1 /\ m - 1 = n /\ n \in 0 .. n
    BY <1>1, <1>10
  <2>2. f[n] = g[n]
    <3>1. n \in good
      BY <1>7, <2>1
    <3>2. QED
      BY <3>1, <1>10
  <2>3. g[m] = g[n] \o e
    BY <1>1, <1>5, <1>8, <2>1
  <2>4. QED
    BY <1>3, <1>4, <1>10, <2>2, <2>3 DEF u
<1>11. QED
  BY <1>9, <1>10

LEMMA AnswersToTyped ==
  ASSUME NEW t, NEW frames \in Seq(DOMAIN Bodies)
  PROVE  /\ [k \in DOMAIN frames |-> Mcp!Answers(Bodies[frames[k]])] \in Seq(Seq(Replies(t)))
         /\ AnswersTo(frames) \in Seq(Replies(t))
         /\ frames = <<>> => AnswersTo(frames) = <<>>
<1> DEFINE each == [k \in DOMAIN frames |-> Mcp!Answers(Bodies[frames[k]])]
           n == Len(frames)
<1>1. n \in Nat /\ DOMAIN frames = 1 .. n /\ \A k \in 1 .. n : frames[k] \in DOMAIN Bodies
  BY LenProperties, ElementOfSeq
<1>2. \A k \in 1 .. n : Mcp!Answers(Bodies[frames[k]]) \in Seq(Replies(t))
  BY <1>1, AnswersTyped
<1>3. each \in [1 .. n -> Seq(Replies(t))]
  BY <1>1, <1>2
<1>4. each \in Seq(Seq(Replies(t))) /\ Len(each) = n
  <2> HIDE DEF each, n
  <2>1. QED
    BY <1>1, <1>3
<1>5. frames = <<>> => n = 0
  BY EmptySeq
<1> HIDE DEF n, each
<1>6. FlattenSeq(each) \in Seq(Replies(t)) /\ (frames = <<>> => FlattenSeq(each) = <<>>)
  BY <1>4, <1>5, FlattenTyped
<1>7. QED
  BY <1>4, <1>6 DEF AnswersTo, each

LEMMA AnswersSnoc ==
  ASSUME NEW t, NEW frames \in Seq(DOMAIN Bodies), NEW f \in DOMAIN Bodies
  PROVE  AnswersTo(Append(frames, f)) = AnswersTo(frames) \o Mcp!Answers(Bodies[f])
<1> DEFINE each(s) == [k \in DOMAIN s |-> Mcp!Answers(Bodies[s[k]])]
           all == Append(frames, f)
           ans == Mcp!Answers(Bodies[f])
<1>1. /\ Len(frames) \in Nat /\ DOMAIN frames = 1 .. Len(frames)
      /\ all \in Seq(DOMAIN Bodies) /\ Len(all) = Len(frames) + 1
      /\ DOMAIN all = 1 .. Len(frames) + 1
      /\ \A k \in 1 .. Len(frames) : all[k] = frames[k]
      /\ all[Len(frames) + 1] = f
  BY LenProperties, AppendProperties
<1>2. each(frames) \in Seq(Seq(Replies(t))) /\ each(all) \in Seq(Seq(Replies(t))) /\ ans \in Seq(Replies(t))
  BY <1>1, AnswersToTyped, AnswersTyped
<1>3. each(all) = Append(each(frames), ans)
  <2> DEFINE e == each(frames)
             a == each(all)
  <2>1. /\ DOMAIN e = 1 .. Len(frames) /\ DOMAIN a = 1 .. Len(frames) + 1
        /\ \A k \in 1 .. Len(frames) : a[k] = e[k]
        /\ a[Len(frames) + 1] = ans
    BY <1>1
  <2>2. e \in Seq(Seq(Replies(t))) /\ a \in Seq(Seq(Replies(t)))
    BY <1>2
  <2> HIDE DEF e, a, ans
  <2>3. Len(e) = Len(frames) /\ Len(a) = Len(frames) + 1
    BY <1>1, <2>1, <2>2, LenProperties
  <2> DEFINE c == Append(e, ans)
  <2>4. /\ c \in Seq(Seq(Replies(t))) /\ Len(c) = Len(e) + 1
        /\ \A k \in 1 .. Len(e) : c[k] = e[k]
        /\ c[Len(e) + 1] = ans
    BY <1>2, <2>2, AppendProperties
  <2> HIDE DEF c
  <2>5. \A k \in 1 .. Len(a) : a[k] = c[k]
    <3> TAKE k \in 1 .. Len(a)
    <3>1. k \in 1 .. Len(frames) \/ k = Len(frames) + 1
      BY <1>1, <2>3
    <3>2. QED
      BY <2>1, <2>3, <2>4, <3>1
  <2>6. a = c
    BY <2>2, <2>3, <2>4, <2>5, SeqEqual
  <2>7. QED
    BY <2>6 DEF a, c, e
<1> DEFINE e1 == each(frames)
           a1 == each(all)
<1>4. a1 = Append(e1, ans) /\ e1 \in Seq(Seq(Replies(t)))
  BY <1>2, <1>3
<1>5. AnswersTo(all) = FlattenSeq(a1) /\ AnswersTo(frames) = FlattenSeq(e1)
  BY DEF AnswersTo
<1> HIDE DEF e1, a1, all, ans
<1>6. FlattenSeq(a1) = FlattenSeq(e1) \o ans
  BY <1>2, <1>4, FlattenSnoc
<1>7. QED
  BY <1>5, <1>6 DEF all, ans

-----------------------------------------------------------------------------
(* Messages. *)

LEMMA SlicePieces ==
  ASSUME NEW t, Stream(t), NEW b \in Nat, NEW n \in Nat, b + n <= Len(t.in)
  PROVE  LET payload == SubSeq(t.in, b + 1, b + n)
         IN  /\ Len(payload) = n /\ DOMAIN payload = 1 .. n /\ (payload = <<>> <=> n = 0)
             /\ \A k \in 1 .. n : payload[k] = t.in[b + k]
<1> DEFINE in == t.in
           x == b + 1
           y == b + n
           payload == SubSeq(in, x, y)
<1>1. in \in Seq(Pieces) /\ Len(in) \in Nat
  BY StreamTyped DEF Stream, Texts
<1>2. x \in Int /\ y \in Int /\ y <= Len(in) /\ x >= 1 /\ y - x + 1 = n
  BY <1>1
<1>3. \A i \in x .. y : in[i] \in Pieces
  <2> TAKE i \in x .. y
  <2>1. i \in 1 .. Len(in)
    BY <1>1
  <2> HIDE DEF in
  <2>2. QED
    BY <1>1, <2>1, ElementOfSeq
<1>4. x + 0 = x /\ \A k \in 1 .. n : x + k - 1 = b + k
  OBVIOUS
<1> HIDE DEF in, x, y
<1>5. /\ payload \in Seq(Pieces)
      /\ Len(payload) = IF x <= y THEN y - x + 1 ELSE 0
      /\ \A i \in 1 .. y - x + 1 : payload[i] = in[x + i - 1]
  BY <1>2, <1>3, SubSeqProperties
<1>6. Len(payload) = n
  BY <1>2, <1>5
<1> HIDE DEF payload
<1>7. DOMAIN payload = 1 .. n /\ (payload = <<>> <=> n = 0)
  BY <1>5, <1>6, LenProperties, EmptySeq
<1>8. \A k \in 1 .. n : payload[k] = in[b + k]
  BY <1>2, <1>4, <1>5
<1>9. QED
  BY <1>6, <1>7, <1>8 DEF payload, in, x, y

LEMMA SoundMessage ==
  ASSUME NEW t, Stream(t), NEW k \in 1 .. Len(t.sent), t.ends[k] <= Len(t.in)
  PROVE  Mcp!MessageIn(SubSeq(t.in, BlankOf(t, k) + 1, t.ends[k])) = Bodies[t.sent[k]]
<1> DEFINE b == BlankOf(t, k)
           f == t.sent[k]
           n == SizeOf[f]
           payload == SubSeq(t.in, b + 1, b + n)
<1>1. /\ b \in Nat /\ t.ends[k] = b + n /\ n \in Nat \ {0} /\ Len(t.in) \in Nat
      /\ \A i \in b + 1 .. b + n : i <= Len(t.in) => t.in[i] = <<"body", f, i - b>>
  <2>1. n \in Nat \ {0} /\ Len(t.in) \in Nat
    BY StreamTyped
  <2>2. /\ b \in Nat /\ t.ends[k] = b + n
        /\ \A i \in b + 1 .. t.ends[k] : i <= Len(t.in) => t.in[i] = <<"body", f, i - b>>
    BY FrameParts
  <2> HIDE DEF b, f, n
  <2>3. QED
    BY <2>1, <2>2
<1>2. /\ Len(payload) = n /\ DOMAIN payload = 1 .. n /\ (payload = <<>> <=> n = 0)
      /\ \A p \in 1 .. n : payload[p] = t.in[b + p]
  <2>1. b + n <= Len(t.in)
    BY <1>1
  <2>2. b \in Nat /\ n \in Nat
    BY <1>1
  <2> HIDE DEF b, n
  <2>3. QED
    BY <2>1, <2>2, SlicePieces
<1>3. \A p \in 1 .. n : payload[p] = <<"body", f, p>>
  <2>0. t.ends[k] <= Len(t.in)
    OBVIOUS
  <2> HIDE DEF b, n, f, payload
  <2> TAKE p \in 1 .. n
  <2>1. b + p \in b + 1 .. b + n /\ b + p <= Len(t.in) /\ (b + p) - b = p
    BY <1>1, <2>0
  <2>2. QED
    BY <1>1, <1>2, <2>1
<1> HIDE DEF b, n, f, payload
<1>4. \A p \in 1 .. n : Mcp!IsBody(payload[p]) /\ payload[p][2] = f /\ payload[p][3] = p
  <2> TAKE p \in 1 .. n
  <2>1. payload[p] = <<"body", f, p>>
    BY <1>3
  <2>2. QED
    BY <2>1, BodyPiece
<1>5. payload # <<>> /\ 1 \in 1 .. n /\ payload[1][2] = f
  BY <1>1, <1>2, <1>4
<1>6. Mcp!MessageIn(payload) = Bodies[f]
  BY <1>2, <1>4, <1>5 DEF Mcp!MessageIn, n
<1>7. QED
  BY <1>1, <1>6 DEF payload, b, f, n

(* Behind frame k, at most its body ends the input. *)
LEMMA NextPiece ==
  ASSUME NEW t, Stream(t), NEW k \in 1 .. Len(t.sent), t.ends[k] < Len(t.in)
  PROVE  /\ k < Len(t.sent)
         /\ t.in[t.ends[k] + 1] =
              IF t.ends[k] = BlankOf(t, k + 1) - 3 THEN <<"header">>
              ELSE <<"length", LengthIn(t, k + 1)>>
         /\ ~Mcp!IsBody(t.in[t.ends[k] + 1])
<1> DEFINE e == t.ends[k]
           in == t.in
<1>1. Len(in) \in Nat /\ Len(t.sent) \in Nat /\ e \in Nat /\ Before(t, k + 1) = e
  BY StreamTyped, FrameParts
<1>2. k < Len(t.sent)
  <2>1. Len(in) <= Before(t, Len(t.sent) + 1)
    BY DEF Stream
  <2>2. QED
    BY <1>1, <2>1
<1> DEFINE k2 == k + 1
           b == BlankOf(t, k2)
<1>3. k2 \in 1 .. Len(t.sent) /\ Before(t, k2) = e /\ e < Len(in)
  BY <1>1, <1>2
<1> HIDE DEF k2
<1>4. /\ b \in Nat /\ (e = b - 2 \/ e = b - 3)
      /\ e = b - 3 /\ e < Len(in) => in[b - 2] = <<"header">>
      /\ b - 1 <= Len(in) => in[b - 1] = <<"length", LengthIn(t, k2)>>
  <2>1. /\ b \in Nat /\ (Before(t, k2) = b - 2 \/ Before(t, k2) = b - 3)
        /\ Before(t, k2) = b - 3 /\ Before(t, k2) < Len(in) => in[b - 2] = <<"header">>
        /\ b - 1 <= Len(in) => in[b - 1] = <<"length", LengthIn(t, k2)>>
    BY <1>3, FrameParts
  <2> HIDE DEF b, e, in
  <2>2. QED
    BY <1>3, <2>1
<1> HIDE DEF b, e, in
<1>5. in[e + 1] = IF e = b - 3 THEN <<"header">> ELSE <<"length", LengthIn(t, k2)>>
  <2>1. CASE e = b - 3
    <3>1. e + 1 = b - 2
      BY <1>1, <1>4, <2>1
    <3>2. QED
      BY <1>3, <1>4, <2>1, <3>1
  <2>2. CASE e # b - 3
    <3>1. e + 1 = b - 1 /\ b - 1 <= Len(in)
      BY <1>1, <1>3, <1>4, <2>2
    <3>2. QED
      BY <1>4, <2>2, <3>1
  <2>3. QED
    BY <2>1, <2>2
<1>6. ~Mcp!IsBody(in[e + 1])
  <2>1. ~Mcp!IsBody(<<"header">>) /\ ~Mcp!IsBody(<<"length", LengthIn(t, k2)>>)
    BY PieceFacts
  <2>2. QED
    BY <1>5, <2>1
<1>7. QED
  BY <1>2, <1>5, <1>6 DEF e, in, b, k2

LEMMA WrongMessage ==
  ASSUME NEW t, Stream(t), NEW k \in 1 .. Len(t.sent), NEW n \in Nat, n # SizeOf[t.sent[k]],
         BlankOf(t, k) + n <= Len(t.in)
  PROVE  Mcp!MessageIn(SubSeq(t.in, BlankOf(t, k) + 1, BlankOf(t, k) + n)) = Mcp!NotJson
<1> DEFINE b == BlankOf(t, k)
           f == t.sent[k]
           size == SizeOf[f]
           payload == SubSeq(t.in, b + 1, b + n)
<1>1. /\ b \in Nat /\ t.ends[k] = b + size /\ size \in Nat \ {0} /\ Len(t.in) \in Nat
      /\ \A i \in b + 1 .. b + size : i <= Len(t.in) => t.in[i] = <<"body", f, i - b>>
  <2>1. size \in Nat \ {0} /\ Len(t.in) \in Nat
    BY StreamTyped
  <2>2. /\ b \in Nat /\ t.ends[k] = b + size
        /\ \A i \in b + 1 .. t.ends[k] : i <= Len(t.in) => t.in[i] = <<"body", f, i - b>>
    BY FrameParts
  <2> HIDE DEF b, f, size
  <2>3. QED
    BY <2>1, <2>2
<1>2. /\ Len(payload) = n /\ DOMAIN payload = 1 .. n /\ (payload = <<>> <=> n = 0)
      /\ \A p \in 1 .. n : payload[p] = t.in[b + p]
  <2>1. b + n <= Len(t.in)
    OBVIOUS
  <2>2. b \in Nat
    BY <1>1
  <2> HIDE DEF b
  <2>3. QED
    BY <2>1, <2>2, SlicePieces
<1>3. CASE n = 0
  BY <1>2, <1>3 DEF Mcp!MessageIn
<1>4. CASE n # 0 /\ n < size
  <2>1. b + 1 \in b + 1 .. b + size /\ b + 1 <= Len(t.in) /\ (b + 1) - b = 1 /\ 1 \in 1 .. n
    BY <1>1, <1>4
  <2>2. payload[1] = <<"body", f, 1>>
    <3> HIDE DEF b, size, f
    <3>1. QED
      BY <1>1, <1>2, <2>1
  <2> HIDE DEF payload
  <2>3. payload[1][2] = f
    BY <2>2, BodyPiece
  <2>4. Len(payload) # SizeOf[payload[1][2]]
    BY <1>2, <1>4, <2>3
  <2>5. QED
    BY <2>4 DEF Mcp!MessageIn, payload
<1>5. CASE n # 0 /\ ~(n < size)
  <2>1. n > size /\ size + 1 \in 1 .. n /\ t.ends[k] < Len(t.in) /\ t.ends[k] + 1 = b + (size + 1)
    BY <1>1, <1>5
  <2>2. ~Mcp!IsBody(t.in[t.ends[k] + 1])
    BY <2>1, NextPiece
  <2>3. ~Mcp!IsBody(payload[size + 1])
    <3> HIDE DEF b, size, f
    <3>1. QED
      BY <1>2, <2>1, <2>2
  <2> HIDE DEF size
  <2>4. QED
    BY <1>2, <2>1, <2>3 DEF Mcp!MessageIn
<1>6. QED
  BY <1>3, <1>4, <1>5

(* One frame is answered. *)
LEMMA OneServed ==
  ASSUME NEW t, Stream(t), NEW k \in 1 .. Len(t.sent), k # t.miscounted, t.ends[k] <= Len(t.in)
  PROVE  LET from == Served(t.in)
             i == Before(t, k) + 1
             j == Before(t, k + 1) + 1
         IN  /\ i \in 1 .. Len(t.in) + 1 /\ j \in 1 .. Len(t.in) + 1
             /\ from[i].out = Mcp!Answers(Bodies[t.sent[k]]) \o from[j].out
             /\ from[i].end = from[j].end
<1> DEFINE in == t.in
           a == Before(t, k)
           b == BlankOf(t, k)
           e == t.ends[k]
           size == SizeOf[t.sent[k]]
           i == a + 1
           frame == Mcp!ReadFrame(in, i)
           payload == SubSeq(in, b + 1, e)
           from == Served(in)
<1>1. /\ Len(in) \in Nat /\ a \in Nat /\ b \in Nat /\ e \in Nat /\ size \in Nat \ {0} /\ e = b + size
      /\ (a = b - 2 \/ a = b - 3) /\ Before(t, k + 1) = e /\ e <= Len(in)
  BY StreamTyped, FrameParts
<1>2. LengthIn(t, k) = size
  BY DEF LengthIn
<1>3. i \in a + 1 .. b - 1 /\ i <= Len(in) /\ i \in 1 .. Len(in) + 1 /\ e + 1 \in 1 .. Len(in) + 1
  <2> HIDE DEF in, a, b, e, size
  <2>1. QED
    BY <1>1
<1>4. frame = ReadHere(t, k)
  BY <1>3, AtHeaders
<1>5. frame = [end |-> "no", payload |-> payload, next |-> e + 1]
  <2>1. ReadHere(t, k) = IF size = -1 \/ b + size > Len(in) THEN Mcp!Ended("error")
                         ELSE [end |-> "no", payload |-> SubSeq(in, b + 1, b + size),
                               next |-> b + size + 1]
    BY <1>2 DEF ReadHere
  <2> HIDE DEF in, a, b, e, size, frame
  <2>2. ~(size = -1 \/ b + size > Len(in))
    BY <1>1
  <2>3. QED
    BY <1>1, <1>4, <2>1, <2>2
<1>6. Mcp!MessageIn(payload) = Bodies[t.sent[k]]
  BY SoundMessage
<1>7. /\ frame.end = "no" => /\ from[i].out = AnswersAt(in, i) \o from[frame.next].out
                             /\ from[i].end = from[frame.next].end
  <2>1. \A x \in 1 .. Len(t.in) + 1 :
          /\ Mcp!ReadFrame(t.in, x).end = "no" =>
               /\ Served(t.in)[x].out = AnswersAt(t.in, x) \o Served(t.in)[Mcp!ReadFrame(t.in, x).next].out
               /\ Served(t.in)[x].end = Served(t.in)[Mcp!ReadFrame(t.in, x).next].end
    BY ServeStep
  <2>2. i \in 1 .. Len(t.in) + 1
    BY <1>3
  <2> HIDE DEF i
  <2>3. QED
    BY <2>1, <2>2
<1>8. AnswersAt(in, i) = Mcp!Answers(Mcp!MessageIn(frame.payload))
  BY DEF AnswersAt
<1> HIDE DEF payload, frame, from, in, a, b, e, i
<1>9. frame.end = "no" /\ frame.payload = payload /\ frame.next = e + 1
  BY <1>5
<1>10. from[i].out = Mcp!Answers(Bodies[t.sent[k]]) \o from[e + 1].out /\ from[i].end = from[e + 1].end
  BY <1>6, <1>7, <1>8, <1>9
<1>11. QED
  BY <1>1, <1>3, <1>10 DEF from, in, i, a

-----------------------------------------------------------------------------
(* The answers to frames that follow each other. *)

Span(t, j, k) == AnswersTo(SubSeq(t.sent, j, k))

LEMMA SpanFacts ==
  ASSUME NEW t, Stream(t), NEW j \in 1 .. Len(t.sent) + 1, NEW k \in 0 .. Len(t.sent)
  PROVE  /\ Span(t, j, k) \in Seq(Replies(t))
         /\ k < j => Span(t, j, k) = <<>>
         /\ j <= k => Span(t, j, k) = Span(t, j, k - 1) \o Mcp!Answers(Bodies[t.sent[k]])
<1> DEFINE s == t.sent
<1>1. s \in Seq(DOMAIN Bodies) /\ Len(s) \in Nat
  BY StreamTyped
<1> HIDE DEF s
<1>2. SUFFICES /\ AnswersTo(SubSeq(s, j, k)) \in Seq(Replies(t))
               /\ k < j => AnswersTo(SubSeq(s, j, k)) = <<>>
               /\ j <= k => AnswersTo(SubSeq(s, j, k)) =
                              AnswersTo(SubSeq(s, j, k - 1)) \o Mcp!Answers(Bodies[s[k]])
  BY DEF Span, s
<1>3. j \in 1 .. Len(s) + 1 /\ k \in 0 .. Len(s)
  BY DEF s
<1>4. \A y \in 0 .. Len(s) : SubSeq(s, j, y) \in Seq(DOMAIN Bodies)
  <2> TAKE y \in 0 .. Len(s)
  <2>1. \A i \in j .. y : s[i] \in DOMAIN Bodies
    <3> TAKE i \in j .. y
    <3>1. i \in 1 .. Len(s)
      BY <1>1, <1>3
    <3>2. QED
      BY <1>1, <3>1, ElementOfSeq
  <2>2. j \in Int /\ y \in Int
    BY <1>1, <1>3
  <2>3. QED
    BY <2>1, <2>2, SubSeqProperties
<1>5. AnswersTo(SubSeq(s, j, k)) \in Seq(Replies(t))
  BY <1>3, <1>4, AnswersToTyped
<1>6. ASSUME k < j PROVE AnswersTo(SubSeq(s, j, k)) = <<>>
  <2>1. SubSeq(s, j, k) = <<>>
    BY <1>1, <1>3, <1>6, SubSeqEmpty
  <2>2. QED
    BY <1>3, <1>4, <2>1, AnswersToTyped
<1>7. ASSUME j <= k
      PROVE  AnswersTo(SubSeq(s, j, k)) = AnswersTo(SubSeq(s, j, k - 1)) \o Mcp!Answers(Bodies[s[k]])
  <2> DEFINE frames == SubSeq(s, j, k - 1)
             f == s[k]
  <2>1. j \in 1 .. Len(s) /\ k \in j .. Len(s) /\ k \in 1 .. Len(s) /\ k - 1 \in 0 .. Len(s)
    BY <1>1, <1>3, <1>7
  <2>2. f \in DOMAIN Bodies /\ frames \in Seq(DOMAIN Bodies)
    BY <1>1, <1>4, <2>1, ElementOfSeq
  <2>3. SubSeq(s, j, k) = frames \o <<f>>
    BY <1>1, <2>1, SubSeqRecursiveSecond
  <2> HIDE DEF frames, f
  <2>4. SubSeq(s, j, k) = Append(frames, f)
    BY <2>2, <2>3, AppendIsConcat
  <2>5. AnswersTo(Append(frames, f)) = AnswersTo(frames) \o Mcp!Answers(Bodies[f])
    BY <2>2, AnswersSnoc
  <2>6. QED
    BY <2>4, <2>5 DEF frames, f
<1>8. QED
  BY <1>5, <1>6, <1>7

LEMMA ConcatThree ==
  ASSUME NEW S, NEW s \in Seq(S), NEW u \in Seq(S), NEW v \in Seq(S)
  PROVE  s \o (u \o v) = (s \o u) \o v
<1>1. (s \o u) \o v = s \o (u \o v)
  BY ConcatAssociative
<1>2. QED
  BY <1>1

(* Frames that arrive whole, and have the right length, are answered one after the other. *)
LEMMA Chain ==
  ASSUME NEW t, Stream(t), NEW j \in 1 .. Len(t.sent) + 1, NEW k \in j - 1 .. Len(t.sent),
         Before(t, j) <= Len(t.in),
         \A i \in j .. k : i # t.miscounted /\ t.ends[i] <= Len(t.in)
  PROVE  LET from == Served(t.in)
         IN  /\ Before(t, k + 1) + 1 \in 1 .. Len(t.in) + 1
             /\ from[Before(t, j) + 1].out = Span(t, j, k) \o from[Before(t, k + 1) + 1].out
             /\ from[Before(t, j) + 1].end = from[Before(t, k + 1) + 1].end
<1> DEFINE from == Served(t.in)
           n == Len(t.sent)
           at(i) == Before(t, i) + 1
           N == Len(t.in) + 1
           R == Replies(t)
           ans(i) == Mcp!Answers(Bodies[t.sent[i]])
           Good(x) == /\ at(x + 1) \in 1 .. N
                      /\ from[at(j)].out = Span(t, j, x) \o from[at(x + 1)].out
                      /\ from[at(j)].end = from[at(x + 1)].end
<1>1. n \in Nat /\ Len(t.in) \in Nat /\ \A i \in 1 .. n + 1 : Before(t, i) \in Nat
  BY StreamTyped
<1>2. \A x \in 1 .. N : from[x].out \in Seq(R)
  <2>1. \A x \in 1 .. Len(t.in) + 1 : Served(t.in)[x] \in Outcomes(t)
    BY ServeStep
  <2>2. QED
    BY <2>1 DEF Outcomes
<1>3. at(j) \in 1 .. N /\ j \in Nat /\ k \in Int
  BY <1>1
<1>4. Good(j - 1)
  <2>1. (j - 1) + 1 = j /\ j - 1 \in 0 .. n /\ j - 1 < j
    BY <1>1
  <2>2. Span(t, j, j - 1) = <<>>
    BY <2>1, SpanFacts
  <2> HIDE DEF at, from, N, R
  <2>3. <<>> \o from[at(j)].out = from[at(j)].out
    BY <1>2, <1>3, ConcatEmptySeq
  <2>4. QED
    BY <1>3, <2>1, <2>2, <2>3
<1>5. ASSUME NEW x \in j .. k, Good(x - 1) PROVE Good(x)
  <2>1. (x - 1) + 1 = x /\ x \in 1 .. n /\ x - 1 \in 0 .. n /\ x \in 0 .. n /\ j <= x
    BY <1>1, <1>3
  <2>2. x # t.miscounted /\ t.ends[x] <= Len(t.in)
    OBVIOUS
  <2>3. /\ at(x + 1) \in 1 .. N
        /\ from[at(x)].out = ans(x) \o from[at(x + 1)].out
        /\ from[at(x)].end = from[at(x + 1)].end
    BY <2>1, <2>2, OneServed
  <2>4. Span(t, j, x) = Span(t, j, x - 1) \o ans(x) /\ Span(t, j, x - 1) \in Seq(R)
    BY <2>1, SpanFacts
  <2>5. ans(x) \in Seq(R)
    <3>1. t.sent[x] \in DOMAIN Bodies
      BY <2>1, StreamTyped
    <3>2. QED
      BY <3>1, AnswersTyped
  <2>6. /\ from[at(j)].out = Span(t, j, x - 1) \o from[at(x)].out
        /\ from[at(j)].end = from[at(x)].end
    <3>1. Good(x - 1)
      BY <1>5
    <3> HIDE DEF at, from, N, R, ans
    <3>2. QED
      BY <2>1, <3>1
  <2> HIDE DEF at, from, N, R, ans
  <2> DEFINE p == Span(t, j, x - 1)
             a == ans(x)
             o == from[at(x + 1)].out
  <2>7. o \in Seq(R) /\ p \in Seq(R) /\ a \in Seq(R)
    BY <1>2, <2>3, <2>4, <2>5
  <2> HIDE DEF p, a, o
  <2>8. p \o (a \o o) = (p \o a) \o o
    BY <2>7, ConcatThree, SMTT(20)
  <2>9. from[at(j)].out = Span(t, j, x) \o from[at(x + 1)].out
    BY <2>3, <2>4, <2>6, <2>8 DEF p, a, o
  <2>10. QED
    BY <2>3, <2>6, <2>9
<1> HIDE DEF Good
<1> DEFINE good == {d \in 0 .. k - j + 1 : Good(j - 1 + d)}
<1>6. good = 0 .. k - j + 1
  <2> DEFINE top == k - j + 1
  <2>1. top \in Nat /\ j - 1 + 0 = j - 1
    BY <1>1, <1>3
  <2>2. 0 \in good
    BY <1>4, <2>1
  <2>3. ASSUME NEW d \in 1 .. top, d - 1 \in good PROVE d \in good
    <3>1. j - 1 + d \in j .. k /\ (j - 1 + d) - 1 = j - 1 + (d - 1) /\ d \in 0 .. top
      BY <1>3, <2>1
    <3>2. Good(j - 1 + (d - 1))
      BY <2>3
    <3>3. Good(j - 1 + d)
      BY <1>5, <3>1, <3>2
    <3>4. QED
      BY <3>1, <3>3
  <2>4. good \in SUBSET (0 .. top)
    OBVIOUS
  <2> HIDE DEF good, top
  <2>5. good = 0 .. top
    BY <2>1, <2>2, <2>3, <2>4, Climb
  <2>6. QED
    BY <2>5 DEF top
<1>7. Good(k)
  <2>1. k - j + 1 \in 0 .. k - j + 1 /\ j - 1 + (k - j + 1) = k
    BY <1>1, <1>3
  <2>2. k - j + 1 \in good
    BY <1>6, <2>1
  <2>3. QED
    BY <2>1, <2>2
<1>8. QED
  BY <1>7 DEF Good

(* The frames that arrive whole are the first m. *)
Whole(t, m) == /\ m \in 0 .. Len(t.sent)
               /\ \A k \in 1 .. Len(t.sent) : t.ends[k] <= Len(t.in) <=> k <= m

LEMMA WholeExists ==
  ASSUME NEW t, Stream(t)
  PROVE  \E m : Whole(t, m)
<1> DEFINE n == Len(t.sent)
           S == {k \in 1 .. n + 1 : k = n + 1 \/ t.ends[k] > Len(t.in)}
<1>1. n \in Nat /\ Len(t.in) \in Nat /\ \A k \in 1 .. n : t.ends[k] \in Nat
  BY StreamTyped
<1>2. \A k \in 1 .. n : \A j \in 1 .. k - 1 : t.ends[j] < t.ends[k]
  BY DEF Stream
<1>3. n + 1 \in S /\ S \in SUBSET Nat
  BY <1>1
<1>4. PICK x \in S : \A j \in S : x <= j
  <2> HIDE DEF S
  <2>1. QED
    BY <1>3, MinExists
<1>5. x \in 1 .. n + 1 /\ x - 1 \in 0 .. n
  BY <1>1
<1>6. ASSUME NEW k \in 1 .. n PROVE t.ends[k] <= Len(t.in) <=> k <= x - 1
  <2>1. CASE k <= x - 1
    <3>1. k \notin S
      BY <1>1, <1>4, <1>5, <2>1
    <3>2. QED
      BY <1>1, <2>1, <3>1
  <2>2. CASE k = x
    BY <1>1, <1>4, <2>2
  <2>3. CASE k > x
    <3>1. x \in 1 .. k - 1 /\ x \in 1 .. n
      BY <1>1, <1>5, <2>3
    <3>2. t.ends[x] > Len(t.in) /\ t.ends[x] < t.ends[k]
      BY <1>1, <1>2, <1>4, <3>1
    <3>3. QED
      BY <1>1, <1>5, <2>3, <3>1, <3>2
  <2>4. QED
    BY <1>5, <2>1, <2>2, <2>3
<1>7. Whole(t, x - 1)
  BY <1>5, <1>6 DEF Whole
<1>8. QED
  BY <1>7

LEMMA WholeFacts ==
  ASSUME NEW t, Stream(t), NEW m, Whole(t, m)
  PROVE  /\ m \in 0 .. Len(t.sent) /\ m \in Nat
         /\ Before(t, m + 1) \in Nat /\ Before(t, m + 1) <= Len(t.in)
         /\ \A k \in 1 .. m : t.ends[k] <= Len(t.in)
         /\ Before(t, m + 1) # Len(t.in) =>
              m + 1 \in 1 .. Len(t.sent) /\ t.ends[m + 1] > Len(t.in)
         /\ Len(t.in) = Before(t, m + 1) <=> Len(t.in) \in {0} \cup {t.ends[k] : k \in 1 .. m}
<1> DEFINE n == Len(t.sent)
<1>1. n \in Nat /\ Len(t.in) \in Nat /\ \A k \in 1 .. n : t.ends[k] \in Nat
  BY StreamTyped
<1>2. m \in 0 .. n /\ \A k \in 1 .. n : t.ends[k] <= Len(t.in) <=> k <= m
  BY DEF Whole
<1>3. Before(t, m + 1) = IF m = 0 THEN 0 ELSE t.ends[m]
  BY <1>1, <1>2 DEF Before
<1>4. \A k \in 1 .. m : k \in 1 .. n /\ t.ends[k] <= Len(t.in)
  BY <1>1, <1>2
<1>5. m # 0 => m \in 1 .. m
  BY <1>1, <1>2
<1>6. Before(t, m + 1) \in Nat /\ Before(t, m + 1) <= Len(t.in)
  BY <1>1, <1>3, <1>4, <1>5
<1>7. ASSUME Before(t, m + 1) # Len(t.in)
      PROVE  m + 1 \in 1 .. n /\ t.ends[m + 1] > Len(t.in)
  <2>1. Len(t.in) <= Before(t, n + 1)
    BY DEF Stream
  <2>2. m # n
    BY <1>1, <1>6, <1>7, <2>1
  <2>3. m + 1 \in 1 .. n /\ ~(m + 1 <= m)
    BY <1>1, <1>2, <2>2
  <2>4. ~(t.ends[m + 1] <= Len(t.in)) /\ t.ends[m + 1] \in Nat
    BY <1>1, <1>2, <2>3
  <2>5. QED
    BY <1>1, <2>3, <2>4
<1>8. ASSUME Len(t.in) = Before(t, m + 1) PROVE Len(t.in) \in {0} \cup {t.ends[k] : k \in 1 .. m}
  BY <1>3, <1>5, <1>8
<1>9. ASSUME Len(t.in) \in {0} \cup {t.ends[k] : k \in 1 .. m} PROVE Len(t.in) = Before(t, m + 1)
  <2>1. CASE Len(t.in) = 0
    BY <1>6, <2>1
  <2>2. CASE Len(t.in) # 0
    <3>1. PICK k \in 1 .. m : Len(t.in) = t.ends[k]
      BY <1>9, <2>2
    <3>2. m # 0 /\ m \in 1 .. n
      BY <1>1, <1>2, <3>1
    <3>3. k = m \/ k \in 1 .. m - 1
      BY <1>1, <1>2
    <3>4. t.ends[k] <= t.ends[m]
      <4>1. \A j \in 1 .. m - 1 : t.ends[j] < t.ends[m]
        BY <3>2 DEF Stream
      <4>2. t.ends[k] \in Nat /\ t.ends[m] \in Nat
        BY <1>1, <1>4, <3>2
      <4>3. QED
        BY <3>3, <4>1, <4>2
    <3>5. t.ends[m] <= Len(t.in) /\ t.ends[m] \in Nat
      BY <1>1, <1>4, <1>5, <3>2
    <3>6. QED
      BY <1>1, <1>3, <3>1, <3>2, <3>4, <3>5
  <2>3. QED
    BY <2>1, <2>2
<1>10. m \in Nat
  BY <1>1, <1>2
<1>11. QED
  BY <1>2, <1>4, <1>6, <1>7, <1>8, <1>9, <1>10

(* Behind the frames that arrive whole, there is nothing to answer. *)
LEMMA LastServed ==
  ASSUME NEW t, Stream(t), NEW m, Whole(t, m), m + 1 # t.miscounted
  PROVE  /\ Before(t, m + 1) + 1 \in 1 .. Len(t.in) + 1
         /\ Served(t.in)[Before(t, m + 1) + 1] =
              [out |-> <<>>, end |-> IF Len(t.in) = Before(t, m + 1) THEN "clean" ELSE "error"]
<1> DEFINE in == t.in
           a == Before(t, m + 1)
           i == a + 1
<1>1. a \in Nat /\ a <= Len(in) /\ Len(in) \in Nat /\ m \in Nat
  BY WholeFacts, StreamTyped
<1>2. i \in 1 .. Len(in) + 1
  BY <1>1
<1>3. Mcp!ReadFrame(in, i) = Mcp!Ended(IF Len(in) = a THEN "clean" ELSE "error")
  <2>1. CASE Len(in) = a
    BY <1>1, <2>1, ReadEnd
  <2>2. CASE Len(in) # a
    <3> DEFINE k == m + 1
               b == BlankOf(t, k)
               n == LengthIn(t, k)
    <3>1. k \in 1 .. Len(t.sent) /\ t.ends[k] > Len(in)
      BY <2>2, WholeFacts
    <3>2. k # t.miscounted
      OBVIOUS
    <3> HIDE DEF k
    <3>3. /\ Before(t, k) \in Nat /\ b \in Nat /\ t.ends[k] = b + SizeOf[t.sent[k]]
          /\ (Before(t, k) = b - 2 \/ Before(t, k) = b - 3)
      BY <3>1, FrameParts
    <3>4. n = SizeOf[t.sent[k]]
      BY <3>2 DEF LengthIn
    <3>5. a = Before(t, k)
      BY DEF k
    <3> HIDE DEF b, n, a, in
    <3>6. i \in Before(t, k) + 1 .. b - 1 /\ i <= Len(in) /\ b + n > Len(in)
      BY <1>1, <2>2, <3>1, <3>3, <3>4, <3>5
    <3>7. Mcp!ReadFrame(in, i) = ReadHere(t, k)
      BY <3>1, <3>6, AtHeaders DEF in, b
    <3>8. ReadHere(t, k) = Mcp!Ended("error")
      BY <3>6 DEF ReadHere, b, n, in
    <3>9. QED
      BY <2>2, <3>7, <3>8
  <2>3. QED
    BY <2>1, <2>2
<1> DEFINE end == IF Len(in) = a THEN "clean" ELSE "error"
<1>4. Mcp!ReadFrame(in, i).end = end /\ end # "no"
  BY <1>3 DEF Mcp!Ended
<1>5. \A x \in 1 .. Len(t.in) + 1 : Mcp!ReadFrame(t.in, x).end # "no" =>
         Served(t.in)[x] = [out |-> <<>>, end |-> Mcp!ReadFrame(t.in, x).end]
  BY ServeStep
<1>6. Served(in)[i] = [out |-> <<>>, end |-> end]
  <2> HIDE DEF i, end
  <2>1. QED
    BY <1>2, <1>4, <1>5
<1>7. QED
  BY <1>2, <1>6

LEMMA RestServed ==
  ASSUME NEW t, Stream(t), NEW m, Whole(t, m), NEW j \in 1 .. m + 1,
         t.miscounted \notin j .. m + 1
  PROVE  LET served == Served(t.in)[Before(t, j) + 1]
         IN  /\ served.out = Span(t, j, m)
             /\ served.end = IF Len(t.in) = Before(t, m + 1) THEN "clean" ELSE "error"
<1> DEFINE from == Served(t.in)
           end == IF Len(t.in) = Before(t, m + 1) THEN "clean" ELSE "error"
           a == Before(t, j) + 1
           z == Before(t, m + 1) + 1
<1>1. /\ m \in 0 .. Len(t.sent) /\ m \in Nat /\ Len(t.sent) \in Nat
      /\ \A k \in 1 .. m : t.ends[k] <= Len(t.in)
      /\ Before(t, m + 1) <= Len(t.in)
  BY WholeFacts, StreamTyped
<1>2. m + 1 # t.miscounted
  <2>1. m + 1 \in j .. m + 1
    BY <1>1
  <2>2. QED
    BY <2>1
<1>3. from[z] = [out |-> <<>>, end |-> end]
  BY <1>2, LastServed
<1>4. j \in 1 .. Len(t.sent) + 1 /\ m \in j - 1 .. Len(t.sent)
  BY <1>1
<1>5. Before(t, j) <= Len(t.in)
  <2>1. CASE j = m + 1
    BY <1>1, <2>1
  <2>2. CASE j = 1
    <3>1. Before(t, j) = 0 /\ Len(t.in) \in Nat
      BY <2>2, StreamTyped DEF Before
    <3>2. QED
      BY <3>1
  <2>3. CASE j # m + 1 /\ j # 1
    <3>1. j - 1 \in 1 .. m /\ Before(t, j) = t.ends[j - 1]
      BY <1>1, <2>3 DEF Before
    <3>2. QED
      BY <1>1, <3>1
  <2>4. QED
    BY <2>1, <2>2, <2>3
<1>6. \A i \in j .. m : i # t.miscounted /\ t.ends[i] <= Len(t.in)
  <2> TAKE i \in j .. m
  <2>1. i \in j .. m + 1 /\ i \in 1 .. m
    BY <1>1
  <2>2. QED
    BY <1>1, <2>1
<1>7. from[a].out = Span(t, j, m) \o from[z].out /\ from[a].end = from[z].end
  BY <1>4, <1>5, <1>6, Chain
<1>8. Span(t, j, m) \in Seq(Replies(t))
  BY <1>1, <1>4, SpanFacts
<1> HIDE DEF from, a, z, end
<1>9. from[z].out = <<>> /\ from[z].end = end
  BY <1>3
<1>10. Span(t, j, m) \o <<>> = Span(t, j, m)
  BY <1>8, ConcatEmptySeq
<1>11. QED
  BY <1>7, <1>9, <1>10 DEF from, a, end

-----------------------------------------------------------------------------
(* Behind a length that is wrong. *)

Refusal == Mcp!Response("null", -32700)

LEMMA SameServed ==
  ASSUME NEW t, Stream(t), NEW i \in 1 .. Len(t.in) + 1, NEW j \in 1 .. Len(t.in) + 1,
         Mcp!ReadFrame(t.in, i) = Mcp!ReadFrame(t.in, j)
  PROVE  Served(t.in)[i].out = Served(t.in)[j].out
<1> DEFINE from == Served(t.in)
           frame(x) == Mcp!ReadFrame(t.in, x)
           ans(x) == AnswersAt(t.in, x)
<1>1. \A x \in 1 .. Len(t.in) + 1 :
         /\ frame(x).end # "no" => from[x] = [out |-> <<>>, end |-> frame(x).end]
         /\ frame(x).end = "no" => from[x].out = ans(x) \o from[frame(x).next].out
  BY ServeStep
<1>2. ans(i) = ans(j) /\ frame(i) = frame(j)
  BY DEF AnswersAt
<1> HIDE DEF ans, frame, from
<1>3. from[i].out = from[j].out
  <2>1. CASE frame(i).end # "no"
    BY <1>1, <1>2, <2>1
  <2>2. CASE frame(i).end = "no"
    BY <1>1, <1>2, <2>2
  <2>3. QED
    BY <2>1, <2>2
<1>4. QED
  BY <1>3 DEF from

LEMMA EndServed ==
  ASSUME NEW t, Stream(t), NEW i \in 1 .. Len(t.in) + 1, NEW end \in {"clean", "error"},
         Mcp!ReadFrame(t.in, i) = Mcp!Ended(end)
  PROVE  Served(t.in)[i].out = <<>> /\ Served(t.in)[i].end = end
<1>1. Mcp!ReadFrame(t.in, i).end = end /\ end # "no"
  BY DEF Mcp!Ended
<1>2. Served(t.in)[i] = [out |-> <<>>, end |-> Mcp!ReadFrame(t.in, i).end]
  BY <1>1, ServeStep
<1>3. QED
  BY <1>1, <1>2

(* What is answered is all that arrives whole from some frame on. *)
LEMMA TailServed ==
  ASSUME NEW t, Stream(t), NEW m, Whole(t, m), t.miscounted # 0,
         NEW i \in 1 .. Len(t.in) + 1, BlankOf(t, t.miscounted) < i
  PROVE  \E k \in t.miscounted + 1 .. Len(t.sent) + 1 : Served(t.in)[i].out = Span(t, k, m)
<1> DEFINE n == Len(t.sent)
           w == t.miscounted
           from == Served(t.in)
<1>1. n \in Nat /\ Len(t.in) \in Nat /\ w \in 1 .. n /\ m \in 0 .. n
  BY StreamTyped, WholeFacts
<1>2. /\ Before(t, w) \in Nat /\ BlankOf(t, w) \in Nat
      /\ (Before(t, w) = BlankOf(t, w) - 2 \/ Before(t, w) = BlankOf(t, w) - 3)
  BY <1>1, FrameParts
<1>3. CASE from[i].out = <<>>
  <2>1. n + 1 \in w + 1 .. n + 1 /\ n + 1 \in 1 .. n + 1 /\ m < n + 1
    BY <1>1
  <2>2. Span(t, n + 1, m) = <<>>
    BY <1>1, <2>1, SpanFacts
  <2>3. QED
    BY <1>3, <2>1, <2>2
<1>4. CASE from[i].out # <<>>
  <2>1. i # Len(t.in) + 1
    BY <1>1, <1>4, ReadEnd, EndServed
  <2>2. i \in 1 .. Len(t.in) /\ i \in Nat
    BY <1>1, <2>1
  <2>3. Mcp!ReadFrame(t.in, i) # Mcp!Ended("error")
    BY <1>4, EndServed
  <2>4. Before(t, w) < i
    <3>1. BlankOf(t, w) < i
      OBVIOUS
    <3> HIDE DEF w
    <3>2. QED
      BY <1>2, <2>2, <3>1
  <2>5. PICK k \in w .. n : i < BlankOf(t, k) /\ Mcp!ReadFrame(t.in, i) = ReadHere(t, k)
    BY <1>1, <2>2, <2>3, <2>4, Found
  <2>6. k \in 1 .. n
    BY <1>1
  <2>7. LengthIn(t, k) \in Nat /\ BlankOf(t, k) + LengthIn(t, k) <= Len(t.in)
    BY <2>3, <2>5, <2>6, HereAhead
  <2>8. /\ Before(t, k) \in Nat /\ BlankOf(t, k) \in Nat
        /\ (Before(t, k) = BlankOf(t, k) - 2 \/ Before(t, k) = BlankOf(t, k) - 3)
        /\ t.ends[k] = BlankOf(t, k) + SizeOf[t.sent[k]]
    BY <2>6, FrameParts
  <2>9. k # w
    <3>1. BlankOf(t, w) < i
      OBVIOUS
    <3> HIDE DEF w
    <3>2. QED
      BY <1>2, <2>2, <2>5, <3>1
  <2>10. LengthIn(t, k) = SizeOf[t.sent[k]]
    BY <2>9 DEF LengthIn
  <2>11. k <= m
    BY <2>6, <2>7, <2>8, <2>10 DEF Whole
  <2> DEFINE j == Before(t, k) + 1
  <2>12. j \in 1 .. Len(t.in) + 1 /\ j \in Before(t, k) + 1 .. BlankOf(t, k) - 1 /\ j <= Len(t.in)
    <3> DEFINE a == Before(t, k)
               b == BlankOf(t, k)
               size == LengthIn(t, k)
    <3>1. /\ a \in Nat /\ b \in Nat /\ (a = b - 2 \/ a = b - 3)
          /\ size \in Nat /\ b + size <= Len(t.in) /\ Len(t.in) \in Nat
      BY <1>1, <2>7, <2>8
    <3> HIDE DEF a, b, size
    <3>2. a + 1 \in 1 .. Len(t.in) + 1 /\ a + 1 \in a + 1 .. b - 1 /\ a + 1 <= Len(t.in)
      BY <3>1
    <3>3. QED
      BY <3>2 DEF a, b
  <2>13. Mcp!ReadFrame(t.in, j) = ReadHere(t, k)
    BY <2>6, <2>12, AtHeaders
  <2>14. from[i].out = from[j].out
    <3> HIDE DEF j
    <3>1. QED
      BY <2>5, <2>12, <2>13, SameServed
  <2>15. k \in 1 .. m + 1 /\ t.miscounted \notin k .. m + 1 /\ k \in w + 1 .. n + 1
    BY <1>1, <2>6, <2>9, <2>11
  <2>16. from[j].out = Span(t, k, m)
    BY <2>15, RestServed
  <2>17. QED
    BY <2>14, <2>15, <2>16
<1>5. QED
  BY <1>3, <1>4

(* The frame itself is refused, if the server can go on behind it. *)
LEMMA WrongServed ==
  ASSUME NEW t, Stream(t), t.miscounted # 0, Before(t, t.miscounted) <= Len(t.in)
  PROVE  LET from == Served(t.in)
             w == t.miscounted
             i == Before(t, w) + 1
             j == BlankOf(t, w) + t.length + 1
         IN  /\ i \in 1 .. Len(t.in) + 1
             /\ \/ from[i].out = <<>>
                \/ /\ from[i].out = <<Refusal>> \o from[j].out
                   /\ j \in 1 .. Len(t.in) + 1 /\ BlankOf(t, w) < j
             /\ t.length < SizeOf[t.sent[w]] /\ t.ends[w] <= Len(t.in) =>
                  IF t.length = -1 THEN from[i].out = <<>> /\ from[i].end = "error"
                  ELSE /\ from[i].out = <<Refusal>> \o from[j].out /\ from[i].end = from[j].end
                       /\ j \in BlankOf(t, w) + 1 .. t.ends[w]
<1> DEFINE in == t.in
           w == t.miscounted
           n == t.length
           size == SizeOf[t.sent[w]]
           a == Before(t, w)
           b == BlankOf(t, w)
           e == t.ends[w]
           i == a + 1
           j == b + n + 1
           from == Served(in)
           payload == SubSeq(in, b + 1, b + n)
<1>1. Len(in) \in Nat /\ w \in 1 .. Len(t.sent) /\ size \in Nat \ {0}
  BY StreamTyped
<1>2. LengthIn(t, w) = n
  BY DEF LengthIn
<1>3. n \in Int /\ n >= -1 /\ n # size
  BY <1>1, <1>2, StreamTyped DEF Stream
<1>4. a \in Nat /\ b \in Nat /\ e = b + size /\ (a = b - 2 \/ a = b - 3) /\ e \in Nat
  BY <1>1, FrameParts
<1>5. a <= Len(in)
  OBVIOUS
<1>6. i \in 1 .. Len(in) + 1
  BY <1>1, <1>4, <1>5
<1>7. CASE a = Len(in)
  <2>1. Mcp!ReadFrame(in, i) = Mcp!Ended("clean")
    BY <1>1, <1>7, ReadEnd
  <2>2. from[i].out = <<>>
    BY <1>6, <2>1, EndServed
  <2>3. ~(e <= Len(in))
    <3> HIDE DEF a, b, e, size, in
    <3>1. QED
      BY <1>1, <1>4, <1>7
  <2>4. QED
    BY <1>6, <2>2, <2>3
<1>8. CASE a # Len(in)
  <2>1. i \in a + 1 .. b - 1 /\ i <= Len(in)
    <3> HIDE DEF a, b, e, size, in
    <3>1. QED
      BY <1>1, <1>4, <1>5, <1>8
  <2>2. Mcp!ReadFrame(in, i) = ReadHere(t, w)
    BY <1>1, <2>1, AtHeaders
  <2>3. ReadHere(t, w) = IF n = -1 \/ b + n > Len(in) THEN Mcp!Ended("error")
                         ELSE [end |-> "no", payload |-> payload, next |-> j]
    BY <1>2 DEF ReadHere
  <2>4. CASE n = -1 \/ b + n > Len(in)
    <3>1. Mcp!ReadFrame(in, i) = Mcp!Ended("error")
      BY <2>2, <2>3, <2>4
    <3>2. from[i].out = <<>> /\ from[i].end = "error"
      BY <1>6, <3>1, EndServed
    <3>3. n < size /\ e <= Len(in) => n = -1
      <4> HIDE DEF a, b, e, size, in, n
      <4>1. QED
        BY <1>1, <1>3, <1>4, <2>4
    <3>4. QED
      BY <1>6, <3>2, <3>3
  <2>5. CASE ~(n = -1 \/ b + n > Len(in))
    <3>1. Mcp!ReadFrame(in, i) = [end |-> "no", payload |-> payload, next |-> j]
      BY <2>2, <2>3, <2>5
    <3>2. n \in Nat /\ b + n <= Len(in) /\ j \in 1 .. Len(in) + 1 /\ b < j
          /\ (n < size => j \in b + 1 .. e)
      <4> HIDE DEF a, b, e, size, in, n
      <4>1. QED
        BY <1>1, <1>3, <1>4, <2>5
    <3>3. Mcp!MessageIn(payload) = Mcp!NotJson
      <4>1. n # SizeOf[t.sent[w]]
        BY <1>3
      <4> HIDE DEF n, w
      <4>2. QED
        BY <1>1, <3>2, <4>1, WrongMessage
    <3>4. Mcp!ReadFrame(in, i).end = "no" /\ Mcp!ReadFrame(in, i).payload = payload
          /\ Mcp!ReadFrame(in, i).next = j
      <4> HIDE DEF payload, j
      <4>1. QED
        BY <3>1
    <3>5. AnswersAt(in, i) = <<Refusal>>
      <4>1. AnswersAt(in, i) = Mcp!Answers(Mcp!NotJson)
        <5> HIDE DEF payload, in, i
        <5>1. QED
          BY <3>3, <3>4 DEF AnswersAt
      <4>2. Mcp!Answers(Mcp!NotJson) = <<Refusal>>
        BY DEF Mcp!Answers, Mcp!NotJson, Refusal
      <4>3. QED
        BY <4>1, <4>2
    <3>6. from[i].out = AnswersAt(in, i) \o from[Mcp!ReadFrame(in, i).next].out
          /\ from[i].end = from[Mcp!ReadFrame(in, i).next].end
      <4>1. \A x \in 1 .. Len(t.in) + 1 : Mcp!ReadFrame(t.in, x).end = "no" =>
               /\ Served(t.in)[x].out = AnswersAt(t.in, x) \o Served(t.in)[Mcp!ReadFrame(t.in, x).next].out
               /\ Served(t.in)[x].end = Served(t.in)[Mcp!ReadFrame(t.in, x).next].end
        BY ServeStep
      <4> HIDE DEF i
      <4>2. QED
        BY <1>6, <3>4, <4>1
    <3>7. from[i].out = <<Refusal>> \o from[j].out /\ from[i].end = from[j].end
      <4> HIDE DEF i, j, from, in
      <4>1. QED
        BY <3>4, <3>5, <3>6
    <3>8. n # -1
      BY <2>5
    <3> HIDE DEF i, j, from, in, n, e, b, w, size
    <3>9. QED
      BY <1>6, <3>2, <3>7, <3>8 DEF i, j, from, in, n, e, b, w, size
  <2>6. QED
    BY <2>4, <2>5
<1>9. QED
  BY <1>7, <1>8

-----------------------------------------------------------------------------
(* Any stream is answered in order: m frames arrive whole, and s of them are sound. *)

AnsweredBy(t, m, s, sound) ==
  LET served == Mcp!Serve(t.in)
      wrong == t.miscounted
      before == AnswersTo(SubSeq(t.sent, 1, s))
      refused == Append(before, Mcp!Response("null", -32700))
      lengthFirst == \/ wrong = Len(t.sent) /\ ~t.cut
                     \/ /\ t.ends[wrong] < Len(t.in)
                        /\ t.in[t.ends[wrong] + 1][1] = "length"
  IN  /\ wrong = 0 =>
           /\ served.out = before
           /\ served.end = "clean" <=> Len(t.in) \in {0} \cup {t.ends[k] : k \in sound}
      /\ wrong # 0 =>
           \/ served.out = before
           \/ \E k \in wrong + 1 .. Len(t.sent) + 1 :
                 served.out = refused \o AnswersTo(SubSeq(t.sent, k, m))
      /\ wrong # 0 /\ t.length < SizeOf[t.sent[wrong]] /\ lengthFirst =>
           /\ served.end = "error"
           /\ served.out = IF t.length = -1 THEN before ELSE refused

SoundCount(t, m) == IF t.miscounted # 0 /\ t.miscounted <= m THEN t.miscounted - 1 ELSE m

LEMMA StreamAnswered ==
  ASSUME NEW t, Stream(t), NEW m, Whole(t, m)
  PROVE  AnsweredBy(t, m, SoundCount(t, m), 1 .. SoundCount(t, m))
<1> DEFINE w == t.miscounted
           s == SoundCount(t, m)
           from == Served(t.in)
           n == Len(t.sent)
<1>2. /\ n \in Nat /\ Len(t.in) \in Nat /\ w \in 0 .. n /\ m \in 0 .. n /\ m \in Nat
      /\ Before(t, m + 1) <= Len(t.in) /\ \A k \in 1 .. m : t.ends[k] <= Len(t.in)
  BY StreamTyped, WholeFacts
<1>3. Before(t, 1) + 1 = 1 /\ Before(t, 1) = 0
  BY DEF Before
<1>1. s = IF w # 0 /\ w <= m THEN w - 1 ELSE m
  BY DEF SoundCount
<1> HIDE DEF s
<1>4. s \in 0 .. n /\ 1 \in 1 .. n + 1 /\ 1 \in 1 .. m + 1
  BY <1>1, <1>2
<1> DEFINE before == AnswersTo(SubSeq(t.sent, 1, s))
           refused == Append(before, Mcp!Response("null", -32700))
           R == Replies(t)
<1>7. before = Span(t, 1, s) /\ \A k \in Int : AnswersTo(SubSeq(t.sent, k, m)) = Span(t, k, m)
  BY DEF Span
<1>8. before \in Seq(R) /\ <<Refusal>> \in Seq(R) /\ Refusal \in R
  <2>1. Refusal \in R
    BY DEF Refusal, Replies
  <2>2. QED
    BY <1>4, <1>7, <2>1, SpanFacts
<1>9. refused = before \o <<Refusal>>
  BY <1>8, AppendIsConcat DEF Refusal
<1>10. Mcp!Serve(t.in) = from[1]
  BY ServeIs
<1> HIDE DEF before, refused, R
<1>5. CASE w = 0 \/ w > m + 1
  <2>1. w \notin 1 .. m + 1 /\ s = m
    BY <1>1, <1>2, <1>5
  <2>2. /\ from[1].out = before
        /\ from[1].end = IF Len(t.in) = Before(t, m + 1) THEN "clean" ELSE "error"
    BY <1>3, <1>4, <1>7, <2>1, RestServed
  <2>3. Len(t.in) = Before(t, m + 1) <=> Len(t.in) \in {0} \cup {t.ends[k] : k \in 1 .. m}
    BY WholeFacts
  <2>4. w # 0 => /\ ~(w = n /\ ~t.cut)
                 /\ ~(t.ends[w] < Len(t.in))
    <3> HAVE w # 0
    <3>1. w \in 1 .. n /\ ~(w <= m)
      BY <1>2, <1>5
    <3>2. ~(t.ends[w] <= Len(t.in)) /\ t.ends[w] \in Nat
      BY <3>1, StreamTyped DEF Whole
    <3>3. ASSUME w = n, ~t.cut PROVE FALSE
      <4>1. Len(t.in) = Before(t, n + 1)
        BY <3>3 DEF Stream
      <4>2. Before(t, n + 1) = t.ends[n]
        BY <1>2, <3>1 DEF Before
      <4>3. QED
        BY <1>2, <3>2, <3>3, <4>1, <4>2
    <3>4. QED
      BY <1>2, <3>2, <3>3
  <2>5. /\ w = 0 => /\ Mcp!Serve(t.in).out = before
                    /\ Mcp!Serve(t.in).end = "clean" <=>
                         Len(t.in) \in {0} \cup {t.ends[k] : k \in 1 .. s}
        /\ w # 0 => Mcp!Serve(t.in).out = before
    BY <1>10, <2>1, <2>2, <2>3
  <2>6. QED
    BY <2>4, <2>5 DEF AnsweredBy, before, s
<1>6. CASE w # 0 /\ w <= m + 1
  <2> DEFINE i == Before(t, w) + 1
             j == BlankOf(t, w) + t.length + 1
  <2>1. s = w - 1 /\ s + 1 = w /\ s \in 1 - 1 .. n /\ w \in 1 .. n /\ w \in 1 .. n + 1
    BY <1>1, <1>2, <1>6
  <2>2. \A k \in 1 .. s : k # w /\ t.ends[k] <= Len(t.in)
    BY <1>2, <1>6, <2>1
  <2>3. Before(t, 1) <= Len(t.in)
    BY <1>2, <1>3
  <2>4. Before(t, s + 1) + 1 \in 1 .. Len(t.in) + 1
        /\ from[1].out = Span(t, 1, s) \o from[Before(t, s + 1) + 1].out
        /\ from[1].end = from[Before(t, s + 1) + 1].end
    <3> DEFINE z == Before(t, s + 1) + 1
               o == Before(t, 1) + 1
    <3>1. /\ z \in 1 .. Len(t.in) + 1
          /\ from[o].out = Span(t, 1, s) \o from[z].out
          /\ from[o].end = from[z].end
      <4>1. /\ 1 \in 1 .. Len(t.sent) + 1 /\ s \in 1 - 1 .. Len(t.sent)
            /\ Before(t, 1) <= Len(t.in)
            /\ \A k \in 1 .. s : k # t.miscounted /\ t.ends[k] <= Len(t.in)
        BY <1>2, <2>1, <2>2, <2>3
      <4>2. QED
        BY <1>4, <4>1, Chain
    <3>2. o = 1
      BY <1>3
    <3> HIDE DEF from, o, z
    <3>3. QED
      BY <3>1, <3>2 DEF z
  <2>5. i \in 1 .. Len(t.in) + 1 /\ from[1].out = before \o from[i].out /\ from[1].end = from[i].end
    BY <1>7, <2>1, <2>4
  <2>6. Before(t, w) <= Len(t.in)
    <3>1. Before(t, w) \in Nat
      BY <2>1, StreamTyped
    <3>2. QED
      BY <1>2, <2>5, <3>1
  <2>8. /\ \/ from[i].out = <<>>
           \/ /\ from[i].out = <<Refusal>> \o from[j].out
              /\ j \in 1 .. Len(t.in) + 1 /\ BlankOf(t, w) < j
        /\ t.length < SizeOf[t.sent[w]] /\ t.ends[w] <= Len(t.in) =>
             IF t.length = -1 THEN from[i].out = <<>> /\ from[i].end = "error"
             ELSE /\ from[i].out = <<Refusal>> \o from[j].out /\ from[i].end = from[j].end
                  /\ j \in BlankOf(t, w) + 1 .. t.ends[w]
    BY <1>6, <2>6, WrongServed
  <2>9. \/ from[1].out = before
        \/ \E k \in w + 1 .. n + 1 : from[1].out = refused \o Span(t, k, m)
    <3>1. CASE from[i].out = <<>>
      <4>1. before \o <<>> = before
        BY <1>8, ConcatEmptySeq
      <4>2. QED
        BY <2>5, <3>1, <4>1
    <3>2. CASE /\ from[i].out = <<Refusal>> \o from[j].out
               /\ j \in 1 .. Len(t.in) + 1 /\ BlankOf(t, w) < j
      <4>1. PICK k \in w + 1 .. n + 1 : from[j].out = Span(t, k, m)
        <5> HIDE DEF j
        <5>1. QED
          BY <1>6, <3>2, TailServed
      <4>2. k \in 1 .. n + 1 /\ Span(t, k, m) \in Seq(R)
        <5>1. k \in 1 .. n + 1
          BY <1>2, <2>1
        <5>2. QED
          BY <1>2, <5>1, SpanFacts DEF R
      <4> DEFINE x == <<Refusal>>
                 y == Span(t, k, m)
      <4> HIDE DEF i, j, from, x, y
      <4>3. before \o (x \o y) = (before \o x) \o y
        BY <1>8, <4>2, ConcatThree DEF x, y
      <4>4. from[1].out = before \o (x \o y)
        BY <2>5, <3>2, <4>1 DEF x, y
      <4>5. QED
        BY <1>9, <4>1, <4>3, <4>4 DEF x, y
    <3>3. QED
      BY <2>8, <3>1, <3>2
  <2>10. ASSUME t.length < SizeOf[t.sent[w]],
                \/ w = n /\ ~t.cut
                \/ t.ends[w] < Len(t.in) /\ t.in[t.ends[w] + 1][1] = "length"
         PROVE  /\ from[1].end = "error"
                /\ from[1].out = IF t.length = -1 THEN before ELSE refused
    <3>1. t.ends[w] <= Len(t.in) /\ t.ends[w] \in Nat
      <4>1. CASE w = n /\ ~t.cut
        <5>1. Len(t.in) = Before(t, n + 1)
          BY <4>1 DEF Stream
        <5>2. Before(t, n + 1) = t.ends[w] /\ t.ends[w] \in Nat
          BY <1>2, <2>1, <4>1, StreamTyped DEF Before
        <5>3. QED
          BY <1>2, <5>1, <5>2
      <4>2. CASE t.ends[w] < Len(t.in)
        <5>1. t.ends[w] \in Nat
          BY <2>1, StreamTyped
        <5>2. QED
          BY <1>2, <4>2, <5>1
      <4>3. QED
        BY <2>10, <4>1, <4>2
    <3>2. CASE t.length = -1
      <4>1. from[i].out = <<>> /\ from[i].end = "error"
        BY <2>8, <2>10, <3>1, <3>2
      <4>2. before \o <<>> = before
        BY <1>8, ConcatEmptySeq
      <4>3. QED
        BY <2>5, <3>2, <4>1, <4>2
    <3>3. CASE t.length # -1
      <4>1. from[i].out = <<Refusal>> \o from[j].out /\ from[i].end = from[j].end
            /\ j \in BlankOf(t, w) + 1 .. t.ends[w]
        BY <2>8, <2>10, <3>1, <3>3
      <4>2. BlankOf(t, w) \in Nat /\ Before(t, w + 1) = t.ends[w]
        BY <2>1, FrameParts
      <4>3. j <= Len(t.in) /\ j \in 1 .. Len(t.in) + 1
        <5> HIDE DEF j, w
        <5>1. QED
          BY <1>2, <3>1, <4>1, <4>2
      <4>4. ~(w < n /\ Before(t, w + 1) = BlankOf(t, w + 1) - 3)
        <5>1. CASE w = n /\ ~t.cut
          BY <1>2, <5>1
        <5>2. CASE t.ends[w] < Len(t.in) /\ t.in[t.ends[w] + 1][1] = "length"
          <6>1. t.in[t.ends[w] + 1] = IF t.ends[w] = BlankOf(t, w + 1) - 3 THEN <<"header">>
                                      ELSE <<"length", LengthIn(t, w + 1)>>
            BY <2>1, <5>2, NextPiece
          <6>2. t.in[t.ends[w] + 1] # <<"header">>
            BY <5>2, PieceFacts
          <6>3. QED
            BY <4>2, <6>1, <6>2
        <5>3. QED
          BY <2>10, <5>1, <5>2
      <4>5. Mcp!ReadFrame(t.in, j) = Mcp!Ended("error")
        <5> HIDE DEF j, w
        <5>1. QED
          BY <2>1, <4>1, <4>3, <4>4, InBody
      <4>6. from[j].out = <<>> /\ from[j].end = "error"
        <5> HIDE DEF j
        <5>1. QED
          BY <4>3, <4>5, EndServed
      <4>7. <<Refusal>> \o <<>> = <<Refusal>>
        BY <1>8, ConcatEmptySeq
      <4> HIDE DEF i, j, from
      <4>8. QED
        BY <1>9, <2>5, <3>3, <4>1, <4>6, <4>7
    <3>4. QED
      BY <3>2, <3>3
  <2>11. \/ Mcp!Serve(t.in).out = before
         \/ \E k \in w + 1 .. n + 1 :
               Mcp!Serve(t.in).out = refused \o AnswersTo(SubSeq(t.sent, k, m))
    <3>1. \A k \in w + 1 .. n + 1 : k \in Int
      BY <1>2
    <3>2. QED
      BY <1>7, <1>10, <2>9, <3>1
  <2>12. ASSUME t.length < SizeOf[t.sent[w]],
                \/ w = n /\ ~t.cut
                \/ t.ends[w] < Len(t.in) /\ t.in[t.ends[w] + 1][1] = "length"
         PROVE  /\ Mcp!Serve(t.in).end = "error"
                /\ Mcp!Serve(t.in).out = IF t.length = -1 THEN before ELSE refused
    BY <1>10, <2>10, <2>12
  <2>13. QED
    BY <1>6, <2>11, <2>12 DEF AnsweredBy, before, refused, s
<1>11. QED
  BY <1>2, <1>5, <1>6

-----------------------------------------------------------------------------
(* What a client writes is a stream. *)

(* frame has h headers that are no length, then the length n, and a body of that size. *)
IsFrame(frame, h, size, f, n) ==
  /\ h \in {0, 1} /\ size \in Nat \ {0}
  /\ frame \in Seq(Pieces) /\ Len(frame) = h + 2 + size
  /\ \A i \in 1 .. Len(frame) :
       frame[i] = IF i <= h THEN <<"header">>
                  ELSE IF i = h + 1 THEN <<"length", n>>
                  ELSE IF i = h + 2 THEN <<"blank">>
                  ELSE <<"body", f, i - (h + 2)>>

LEMMA FrameIs ==
  ASSUME NEW f \in DOMAIN Bodies, NEW headers \in {<<>>, <<<<"header">>>>}, NEW n \in Int
  PROVE  IsFrame(FrameOf(f, headers, n), Len(headers), SizeOf[f], f, n)
<1> SUFFICES ASSUME NEW frame, frame = FrameOf(f, headers, n), NEW h, h = Len(headers),
                    NEW size, size = SizeOf[f]
             PROVE  IsFrame(frame, h, size, f, n)
  OBVIOUS
<1> DEFINE two == <<<<"length", n>>, <<"blank">>>>
           body == BodyOf(f)
<1>1. size \in Nat \ {0}
  BY ServerAssumption
<1>2. /\ <<"header">> \in Pieces /\ <<"blank">> \in Pieces /\ <<"length", n>> \in Pieces
      /\ \A p \in Nat : <<"body", f, p>> \in Pieces
  BY DEF Pieces
<1>3. /\ two \in Seq(Pieces) /\ Len(two) = 2
      /\ two[1] = <<"length", n>> /\ two[2] = <<"blank">>
  BY <1>2
<1>4. body \in Seq(Pieces) /\ Len(body) = size /\ \A p \in 1 .. size : body[p] = <<"body", f, p>>
  <2>1. body = [p \in 1 .. size |-> <<"body", f, p>>]
    BY DEF BodyOf
  <2> HIDE DEF body
  <2>2. body \in [1 .. size -> Pieces]
    BY <1>2, <2>1
  <2>3. QED
    BY <1>1, <2>1, <2>2
<1>5. headers \in Seq(Pieces) /\ h \in {0, 1} /\ (h = 1 => headers[1] = <<"header">>)
  <2>1. CASE headers = <<>>
    BY <2>1, EmptySeq
  <2>2. CASE headers = <<<<"header">>>>
    BY <1>2, <2>2
  <2>3. QED
    BY <2>1, <2>2
<1>6. frame = headers \o two \o body
  BY DEF FrameOf
<1> HIDE DEF two, body
<1> DEFINE front == headers \o two
<1>7. /\ front \in Seq(Pieces) /\ Len(front) = h + 2
      /\ \A i \in 1 .. h + 2 : front[i] = IF i <= h THEN headers[i] ELSE two[i - h]
  <2>1. headers \in Seq(Pieces) /\ two \in Seq(Pieces)
    BY <1>3, <1>5
  <2>2. /\ front \in Seq(Pieces) /\ Len(front) = Len(headers) + Len(two)
        /\ \A i \in 1 .. Len(headers) + Len(two) :
             front[i] = IF i <= Len(headers) THEN headers[i] ELSE two[i - Len(headers)]
    BY <2>1, ConcatProperties
  <2> HIDE DEF front
  <2>3. QED
    BY <1>3, <2>2
<1>8. frame = front \o body
  BY <1>6
<1> HIDE DEF front
<1>9. /\ frame \in Seq(Pieces) /\ Len(frame) = h + 2 + size
      /\ \A i \in 1 .. h + 2 + size : frame[i] = IF i <= h + 2 THEN front[i] ELSE body[i - (h + 2)]
  <2>1. front \in Seq(Pieces) /\ body \in Seq(Pieces)
    BY <1>4, <1>7
  <2>2. /\ front \o body \in Seq(Pieces) /\ Len(front \o body) = Len(front) + Len(body)
        /\ \A i \in 1 .. Len(front) + Len(body) :
             (front \o body)[i] = IF i <= Len(front) THEN front[i] ELSE body[i - Len(front)]
    BY <2>1, ConcatProperties
  <2>3. QED
    BY <1>4, <1>7, <1>8, <2>2
<1>10. ASSUME NEW i \in 1 .. Len(frame)
       PROVE  frame[i] = IF i <= h THEN <<"header">>
                         ELSE IF i = h + 1 THEN <<"length", n>>
                         ELSE IF i = h + 2 THEN <<"blank">>
                         ELSE <<"body", f, i - (h + 2)>>
  <2>1. i \in 1 .. h + 2 + size /\ i \in Nat
    BY <1>1, <1>5, <1>9
  <2>2. CASE i <= h
    <3>1. i = 1 /\ h = 1 /\ i \in 1 .. h + 2 /\ i <= h + 2
      BY <1>5, <2>1, <2>2
    <3>2. frame[i] = headers[1]
      BY <1>7, <1>9, <2>1, <2>2, <3>1
    <3>3. QED
      BY <1>5, <2>2, <3>1, <3>2
  <2>3. CASE i = h + 1
    <3>1. ~(i <= h) /\ i \in 1 .. h + 2 /\ i <= h + 2 /\ i - h = 1
      BY <1>5, <2>3
    <3>2. frame[i] = front[i] /\ front[i] = two[i - h]
      BY <1>7, <1>9, <2>1, <3>1
    <3>3. QED
      BY <1>3, <2>3, <3>1, <3>2
  <2>4. CASE i = h + 2
    <3>1. ~(i <= h) /\ i \in 1 .. h + 2 /\ i <= h + 2 /\ i - h = 2 /\ i # h + 1
      BY <1>5, <2>4
    <3>2. frame[i] = front[i] /\ front[i] = two[i - h]
      BY <1>7, <1>9, <2>1, <3>1
    <3>3. QED
      BY <1>3, <2>4, <3>1, <3>2
  <2>5. CASE i > h + 2
    <3>1. ~(i <= h) /\ ~(i <= h + 2) /\ i # h + 1 /\ i # h + 2 /\ i - (h + 2) \in 1 .. size
      <4>1. h \in Nat /\ size \in Nat /\ i \in Nat /\ i <= h + 2 + size
        BY <1>1, <1>5, <2>1
      <4>2. QED
        BY <2>5, <4>1
    <3>2. frame[i] = body[i - (h + 2)]
      BY <1>9, <2>1, <3>1
    <3>3. QED
      BY <1>4, <3>1, <3>2
  <2>6. QED
    BY <1>5, <2>1, <2>2, <2>3, <2>4, <2>5
<1>11. QED
  BY <1>1, <1>5, <1>9, <1>10 DEF IsFrame

(* u is t with one more frame. *)
Framed(t, u, f, headers, n) ==
  /\ u \in [sent : {Append(t.sent, f)}, in : {t.in \o FrameOf(f, headers, n)},
            ends : {Append(t.ends, Len(t.in) + Len(FrameOf(f, headers, n)))},
            cut : {FALSE}, miscounted : {u.miscounted}, length : {u.length}]
  /\ \/ u.miscounted = t.miscounted /\ u.length = t.length /\ n = SizeOf[f]
     \/ /\ t.miscounted = 0 /\ u.miscounted = Len(t.sent) + 1
        /\ u.length = n /\ n >= -1 /\ n # SizeOf[f]

LEMMA StillStream ==
  ASSUME NEW t, Stream(t), ~t.cut, NEW u, NEW f \in DOMAIN Bodies,
         NEW headers \in {<<>>, <<<<"header">>>>}, NEW n \in Int, Framed(t, u, f, headers, n)
  PROVE  Stream(u)
<1> DEFINE frame == FrameOf(f, headers, n)
           h == Len(headers)
           size == SizeOf[f]
           N == Len(t.sent)
           a == Len(t.in)
           e == a + Len(frame)
<1>1. /\ t.in \in Seq(Pieces) /\ t.sent \in Seq(DOMAIN Bodies) /\ t.ends \in Seq(Nat)
      /\ t.miscounted \in 0 .. N /\ t.length \in Int
      /\ a \in Nat /\ N \in Nat /\ Len(t.ends) = N
      /\ \A k \in 1 .. N : t.ends[k] \in Nat
  BY StreamTyped DEF Stream, Texts
<1>2. /\ h \in {0, 1} /\ size \in Nat \ {0} /\ frame \in Seq(Pieces) /\ Len(frame) = h + 2 + size
      /\ \A i \in 1 .. Len(frame) :
           frame[i] = IF i <= h THEN <<"header">>
                      ELSE IF i = h + 1 THEN <<"length", n>>
                      ELSE IF i = h + 2 THEN <<"blank">>
                      ELSE <<"body", f, i - (h + 2)>>
  <2>1. IsFrame(frame, h, size, f, n)
    BY FrameIs
  <2> HIDE DEF frame, h, size
  <2>2. QED
    BY <2>1 DEF IsFrame
<1>3. /\ u.sent = Append(t.sent, f) /\ u.in = t.in \o frame /\ u.ends = Append(t.ends, e)
      /\ u.cut = FALSE
  BY DEF Framed
<1>4. \/ u.miscounted = t.miscounted /\ u.length = t.length /\ n = size
      \/ t.miscounted = 0 /\ u.miscounted = N + 1 /\ u.length = n /\ n >= -1 /\ n # size
  BY DEF Framed
<1>5. e = a + Len(frame)
  OBVIOUS
<1>6. t.in \o frame \in Seq(Pieces) /\ a = Len(t.in) /\ N = Len(t.sent)
  BY <1>1, <1>2, ConcatProperties
<1> HIDE DEF frame, h, size, N, a, e
<1>7. e \in Nat /\ e = a + h + 2 + size
  BY <1>1, <1>2, <1>5
<1>8. /\ u.sent \in Seq(DOMAIN Bodies) /\ Len(u.sent) = N + 1
      /\ (\A k \in 1 .. N : u.sent[k] = t.sent[k]) /\ u.sent[N + 1] = f
  <2>1. t.sent \in Seq(DOMAIN Bodies) /\ Len(t.sent) = N /\ f \in DOMAIN Bodies
    BY <1>1, <1>6
  <2>2. QED
    BY <1>3, <2>1, AppendProperties
<1>9. /\ u.ends \in Seq(Nat) /\ Len(u.ends) = N + 1
      /\ (\A k \in 1 .. N : u.ends[k] = t.ends[k]) /\ u.ends[N + 1] = e
  <2>1. t.ends \in Seq(Nat) /\ Len(t.ends) = N /\ e \in Nat
    BY <1>1, <1>7
  <2>2. QED
    BY <1>3, <2>1, AppendProperties
<1>10. /\ u.in \in Seq(Pieces) /\ Len(u.in) = e
      /\ \A i \in 1 .. e : u.in[i] = IF i <= a THEN t.in[i] ELSE frame[i - a]
  <2>1. /\ t.in \o frame \in Seq(Pieces) /\ Len(t.in \o frame) = a + Len(frame)
        /\ \A i \in 1 .. a + Len(frame) : (t.in \o frame)[i] = IF i <= a THEN t.in[i] ELSE frame[i - a]
    <3>1. /\ Len(t.in \o frame) = Len(t.in) + Len(frame)
          /\ \A i \in 1 .. Len(t.in) + Len(frame) :
               (t.in \o frame)[i] = IF i <= Len(t.in) THEN t.in[i] ELSE frame[i - Len(t.in)]
      <4>1. t.in \in Seq(Pieces) /\ frame \in Seq(Pieces)
        BY <1>1, <1>2
      <4>2. QED
        BY <4>1, ConcatProperties
    <3>2. QED
      BY <1>6, <3>1
  <2>2. QED
    BY <1>3, <1>5, <2>1
<1>11. u \in Texts
  <2>1. u.miscounted \in Nat /\ u.length \in Int
    <3>1. CASE u.miscounted = t.miscounted /\ u.length = t.length
      BY <1>1, <3>1
    <3>2. CASE u.miscounted = N + 1 /\ u.length = n
      BY <1>1, <3>2
    <3>3. QED
      BY <1>4, <3>1, <3>2
  <2>2. u.miscounted \in Nat /\ u.length \in Int /\ u.cut \in BOOLEAN
    BY <1>3, <2>1
  <2>3. u = [sent |-> u.sent, in |-> u.in, ends |-> u.ends, cut |-> u.cut,
             miscounted |-> u.miscounted, length |-> u.length]
    BY DEF Framed
  <2>4. QED
    BY <1>8, <1>9, <1>10, <2>2, <2>3 DEF Texts
<1>12. u.miscounted <= N + 1 /\ (u.miscounted # 0 => u.length >= -1 /\ u.length # SizeOf[u.sent[u.miscounted]])
  <2>1. CASE u.miscounted = t.miscounted /\ u.length = t.length
    <3>1. t.miscounted # 0 => t.length >= -1 /\ t.length # SizeOf[t.sent[t.miscounted]]
      BY DEF Stream
    <3>2. t.miscounted # 0 => t.miscounted \in 1 .. N
      BY <1>1
    <3>3. QED
      BY <1>1, <1>8, <2>1, <3>1, <3>2
  <2>2. CASE t.miscounted = 0 /\ u.miscounted = N + 1 /\ u.length = n /\ n >= -1 /\ n # size
    BY <1>1, <1>8, <2>2 DEF size
  <2>3. QED
    BY <1>4, <2>1, <2>2
<1>13. a = Before(t, N + 1)
  BY DEF Stream, a, N
<1>14. \A k \in 1 .. N + 1 : Before(u, k) = Before(t, k)
  <2> TAKE k \in 1 .. N + 1
  <2>1. k # 1 => k - 1 \in 1 .. N
    BY <1>1
  <2>2. CASE k = 1
    BY <2>2 DEF Before
  <2>3. CASE k # 1
    <3>1. u.ends[k - 1] = t.ends[k - 1]
      BY <1>9, <2>1, <2>3
    <3>2. QED
      BY <2>3, <3>1 DEF Before
  <2>4. QED
    BY <2>2, <2>3
<1>15. Before(u, N + 2) = e
  <2> DEFINE k == N + 2
  <2>1. k # 1 /\ k - 1 = N + 1
    BY <1>1
  <2>2. u.ends[N + 1] = e
    BY <1>9
  <2> HIDE DEF k
  <2>3. Before(u, k) = e
    BY <2>1, <2>2 DEF Before
  <2>4. QED
    BY <2>3 DEF k
<1>16. \A k \in 1 .. N : t.ends[k] <= a
  <2> TAKE k \in 1 .. N
  <2>1. N # 0 /\ N \in 1 .. N /\ N + 1 # 1 /\ N + 1 - 1 = N
    BY <1>1
  <2>2. a = t.ends[N]
    BY <1>13, <2>1 DEF Before
  <2>3. \A j \in 1 .. N - 1 : t.ends[j] < t.ends[N]
    BY <2>1 DEF Stream, N
  <2>4. k = N \/ k \in 1 .. N - 1
    BY <1>1
  <2>5. t.ends[k] \in Nat /\ t.ends[N] \in Nat
    BY <1>1, <2>1
  <2>6. QED
    BY <2>2, <2>3, <2>4, <2>5
<1>17. \A k \in 1 .. N : FrameLies(u, k)
  <2> TAKE k \in 1 .. N
  <2>1. FrameLies(t, k)
    BY DEF Stream, N
  <2>2. /\ Before(u, k) = Before(t, k) /\ u.ends[k] = t.ends[k] /\ u.sent[k] = t.sent[k]
        /\ t.ends[k] <= a /\ t.ends[k] \in Nat /\ Before(t, k) \in Nat
    <3>1. k \in 1 .. N + 1
      BY <1>1
    <3>2. Before(t, k) \in Nat
      BY <1>6, <3>1, StreamTyped
    <3>3. QED
      BY <1>1, <1>8, <1>9, <1>14, <1>16, <3>1, <3>2
  <2>3. BlankOf(u, k) = BlankOf(t, k)
    BY <2>2 DEF BlankOf
  <2>4. LengthIn(u, k) = LengthIn(t, k)
    <3>1. CASE u.miscounted = t.miscounted /\ u.length = t.length
      BY <2>2, <3>1 DEF LengthIn
    <3>2. CASE t.miscounted = 0 /\ u.miscounted = N + 1
      <4>1. k # t.miscounted /\ k # u.miscounted
        BY <1>1, <3>2
      <4>2. QED
        BY <2>2, <4>1 DEF LengthIn
    <3>3. QED
      BY <1>4, <3>1, <3>2
  <2>5. \A i : PieceAt(u, k, i) = PieceAt(t, k, i)
    BY <2>2, <2>3, <2>4 DEF PieceAt
  <2>6. ASSUME NEW i \in Before(u, k) + 1 .. u.ends[k] PROVE u.in[i] = PieceAt(u, k, i)
    <3>1. i \in Before(t, k) + 1 .. t.ends[k] /\ i <= Len(t.in) /\ i \in 1 .. e /\ i <= a
      <4>1. i \in Before(t, k) + 1 .. t.ends[k]
        BY <2>2, <2>6
      <4>2. i \in Int /\ 1 <= i /\ i <= a
        <5>1. a \in Nat /\ Before(t, k) \in Nat /\ t.ends[k] \in Nat /\ t.ends[k] <= a
          BY <1>1, <2>2
        <5>2. QED
          BY <4>1, <5>1
      <4>3. a \in Nat /\ e \in Nat /\ a <= e
        BY <1>1, <1>2, <1>7
      <4>4. QED
        BY <1>6, <4>1, <4>2, <4>3
    <3>2. t.in[i] = PieceAt(t, k, i)
      BY <2>1, <3>1 DEF FrameLies
    <3>3. QED
      BY <1>10, <2>5, <3>1, <3>2
  <2>7. QED
    BY <2>1, <2>2, <2>3, <2>6 DEF FrameLies
<1>18. FrameLies(u, N + 1)
  <2> DEFINE k == N + 1
  <2>1. Before(u, k) = a
    <3>1. N + 1 \in 1 .. N + 1
      BY <1>1
    <3>2. QED
      BY <1>13, <1>14, <3>1
  <2>2. u.ends[k] = e /\ u.sent[k] = f
    BY <1>8, <1>9
  <2>3. BlankOf(u, k) = a + h + 2
    <3>1. BlankOf(u, k) = e - size
      BY <2>2 DEF BlankOf, size
    <3>2. QED
      BY <1>1, <1>2, <1>7, <3>1
  <2>4. LengthIn(u, k) = n
    <3>1. CASE u.miscounted = t.miscounted /\ n = size
      <4>1. k # u.miscounted
        BY <1>1, <3>1
      <4>2. QED
        BY <2>2, <3>1, <4>1 DEF LengthIn, size
    <3>2. CASE u.miscounted = N + 1 /\ u.length = n
      BY <3>2 DEF LengthIn
    <3>3. QED
      BY <1>4, <3>1, <3>2
  <2> HIDE DEF k
  <2>5. a + 1 \in {(a + h + 2) - 2, (a + h + 2) - 1}
    BY <1>1, <1>2
  <2>6. ASSUME NEW i \in a + 1 .. e PROVE u.in[i] = PieceAt(u, k, i)
    <3>1. i \in 1 .. e /\ ~(i <= a) /\ i - a \in 1 .. Len(frame)
      BY <1>1, <1>2, <1>7
    <3>2. u.in[i] = frame[i - a]
      BY <1>10, <3>1
    <3>3. frame[i - a] = IF i - a <= h THEN <<"header">>
                         ELSE IF i - a = h + 1 THEN <<"length", n>>
                         ELSE IF i - a = h + 2 THEN <<"blank">>
                         ELSE <<"body", f, (i - a) - (h + 2)>>
      BY <1>2, <3>1
    <3>4. /\ i - a <= h <=> i < (a + h + 2) - 1
          /\ i - a = h + 1 <=> i = (a + h + 2) - 1
          /\ i - a = h + 2 <=> i = a + h + 2
          /\ (i - a) - (h + 2) = i - (a + h + 2)
      BY <1>1, <1>2, <3>1
    <3>5. PieceAt(u, k, i) = IF i < (a + h + 2) - 1 THEN <<"header">>
                             ELSE IF i = (a + h + 2) - 1 THEN <<"length", n>>
                             ELSE IF i = a + h + 2 THEN <<"blank">>
                             ELSE <<"body", f, i - (a + h + 2)>>
      BY <2>2, <2>3, <2>4 DEF PieceAt
    <3>6. QED
      BY <3>2, <3>3, <3>4, <3>5
  <2>7. FrameLies(u, k)
    BY <2>1, <2>2, <2>3, <2>5, <2>6 DEF FrameLies
  <2>8. QED
    BY <2>7 DEF k
<1>19. \A k \in 1 .. N + 1 : \A j \in 1 .. k - 1 : u.ends[j] < u.ends[k]
  <2> TAKE k \in 1 .. N + 1
  <2> TAKE j \in 1 .. k - 1
  <2>1. j \in 1 .. N /\ u.ends[j] = t.ends[j]
    BY <1>1, <1>9
  <2>2. CASE k = N + 1
    <3>1. t.ends[j] <= a /\ t.ends[j] \in Nat /\ u.ends[k] = e
      BY <1>1, <1>9, <1>16, <2>1, <2>2
    <3>2. a \in Nat /\ e \in Nat /\ a < e
      BY <1>1, <1>2, <1>7
    <3>3. QED
      BY <2>1, <3>1, <3>2
  <2>3. CASE k # N + 1
    <3>1. k \in 1 .. N
      BY <1>1, <2>3
    <3>2. t.ends[j] < t.ends[k] /\ u.ends[k] = t.ends[k]
      BY <1>9, <3>1 DEF Stream, N
    <3>3. QED
      BY <2>1, <3>2
  <2>4. QED
    BY <2>2, <2>3
<1>20. \A k \in 1 .. N + 1 : FrameLies(u, k)
  <2> TAKE k \in 1 .. N + 1
  <2>1. k \in 1 .. N \/ k = N + 1
    BY <1>1
  <2>2. QED
    BY <1>17, <1>18, <2>1
<1>21. Len(u.in) = Before(u, (N + 1) + 1)
  <2>1. (N + 1) + 1 = N + 2
    BY <1>1
  <2>2. QED
    BY <1>10, <1>15, <2>1
<1>22. QED
  BY <1>7, <1>8, <1>9, <1>10, <1>11, <1>12, <1>19, <1>20, <1>21 DEF Stream

LEMMA StreamCut ==
  ASSUME NEW t, Stream(t), NEW n \in 0 .. Len(t.in) - 1
  PROVE  Stream([t EXCEPT !.in = SubSeq(@, 1, n), !.cut = TRUE])
<1> DEFINE in == SubSeq(t.in, 1, n)
           u == [t EXCEPT !.in = SubSeq(@, 1, n), !.cut = TRUE]
<1>1. t \in Texts /\ t.in \in Seq(Pieces) /\ Len(t.in) \in Nat /\ Len(t.sent) \in Nat
  BY StreamTyped DEF Stream, Texts
<1>2. /\ in \in Seq(Pieces) /\ Len(in) = n /\ n \in Nat /\ n <= Len(t.in)
      /\ \A i \in 1 .. n : in[i] = t.in[i]
  <2>1. \A i \in 1 .. n : t.in[i] \in Pieces
    <3> TAKE i \in 1 .. n
    <3>1. i \in 1 .. Len(t.in)
      BY <1>1
    <3>2. QED
      BY <1>1, <3>1, ElementOfSeq
  <2>2. n \in Int /\ 1 \in Int /\ n \in Nat
    BY <1>1
  <2>3. /\ in \in Seq(Pieces) /\ Len(in) = IF 1 <= n THEN n - 1 + 1 ELSE 0
        /\ \A i \in 1 .. n - 1 + 1 : in[i] = t.in[1 + i - 1]
    BY <2>1, <2>2, SubSeqProperties
  <2> HIDE DEF in
  <2>4. \A i \in 1 .. n : 1 + i - 1 = i /\ i \in 1 .. n - 1 + 1
    BY <2>2
  <2>5. \A i \in 1 .. n : in[i] = t.in[i]
    BY <2>3, <2>4
  <2>6. QED
    BY <1>1, <2>2, <2>3, <2>5
<1>3. u = [t EXCEPT !.in = in, !.cut = TRUE]
  OBVIOUS
<1> HIDE DEF in, u
<1>4. u \in Texts
  BY <1>1, <1>2, <1>3 DEF Texts
<1>5. /\ u.sent = t.sent /\ u.ends = t.ends /\ u.miscounted = t.miscounted /\ u.length = t.length
      /\ u.in = in /\ u.cut = TRUE
  BY <1>1, <1>3 DEF Texts
<1>6. \A k : Before(u, k) = Before(t, k) /\ BlankOf(u, k) = BlankOf(t, k) /\ LengthIn(u, k) = LengthIn(t, k)
  BY <1>5 DEF Before, BlankOf, LengthIn
<1>7. \A k, i : PieceAt(u, k, i) = PieceAt(t, k, i)
  BY <1>5, <1>6 DEF PieceAt
<1>8. \A k \in 1 .. Len(t.sent) : FrameLies(u, k)
  <2> TAKE k \in 1 .. Len(t.sent)
  <2>1. FrameLies(t, k) /\ Before(t, k) \in Nat /\ t.ends[k] \in Nat
    BY StreamTyped DEF Stream
  <2>2. ASSUME NEW i \in Before(t, k) + 1 .. t.ends[k], i <= n PROVE in[i] = PieceAt(t, k, i)
    <3>1. i \in 1 .. n /\ i <= Len(t.in)
      BY <1>1, <1>2, <2>1, <2>2
    <3>2. QED
      BY <1>2, <2>1, <3>1 DEF FrameLies
  <2>3. QED
    BY <1>2, <1>5, <1>6, <1>7, <2>1, <2>2 DEF FrameLies
<1>9. n <= Before(t, Len(t.sent) + 1)
  <2>1. Len(t.in) <= Before(t, Len(t.sent) + 1) /\ Before(t, Len(t.sent) + 1) \in Nat
    <3>1. Len(t.sent) + 1 \in 1 .. Len(t.sent) + 1
      BY <1>1
    <3>2. QED
      BY <3>1, StreamTyped DEF Stream
  <2>2. QED
    BY <1>1, <1>2, <2>1
<1>10. Stream(u)
  BY <1>2, <1>4, <1>5, <1>6, <1>8, <1>9 DEF Stream
<1>11. QED
  BY <1>10 DEF u

LEMMA StreamBegins ==
  ASSUME form = "stdin", MainInit
  PROVE  Stream(text)
<1> DEFINE none == <<>>
<1>1. text = [sent |-> none, ends |-> none, in |-> none, cut |-> FALSE, miscounted |-> 0, length |-> 0]
  BY DEF MainInit
<1>2. none \in Seq(DOMAIN Bodies) /\ none \in Seq(Nat) /\ none \in Seq(Pieces) /\ Len(none) = 0
  BY EmptySeq
<1> HIDE DEF none
<1>3. text \in Texts
  BY <1>1, <1>2 DEF Texts
<1>4. /\ text.sent = none /\ text.ends = none /\ text.in = none /\ text.miscounted = 0
  BY <1>1
<1>5. Before(text, 0 + 1) = 0 /\ 1 .. 0 = {}
  BY DEF Before
<1>6. QED
  BY <1>2, <1>3, <1>4, <1>5 DEF Stream

LEMMA StreamGoesOn ==
  ASSUME StdinTyped, MainNext, form' = "stdin"
  PROVE  Stream(text')
<1>1. form = "stdin" /\ Stream(text)
  <2>1. form' = form
    BY DEF MainNext, TypeArg, Send, SendMiscounted, Killed, SaveSession, Garble, TypeCommand,
           WriteDefinition, WriteBroken, TypeCharacter, Install, Edit
  <2>2. QED
    BY <2>1 DEF StdinTyped
<1>2. Send \/ SendMiscounted \/ Killed
  BY <1>1 DEF MainNext, TypeArg, SaveSession, Garble, TypeCommand, WriteDefinition, WriteBroken,
              TypeCharacter, Install, Edit
<1>3. text \in Texts
  BY <1>1 DEF Stream
<1>4. CASE Send
  <2>1. PICK f \in DOMAIN Bodies, headers \in {<<>>, <<<<"header">>>>} :
           text' = WithFrame(f, FrameOf(f, headers, SizeOf[f]))
    BY <1>4 DEF Send
  <2> DEFINE frame == FrameOf(f, headers, SizeOf[f])
  <2>2. ~text.cut
    BY <1>4 DEF Send
  <2>3. text' = [text EXCEPT !.sent = Append(text.sent, f), !.in = text.in \o frame,
                             !.ends = Append(text.ends, Len(text.in) + Len(frame))]
    BY <2>1 DEF WithFrame
  <2>4. Framed(text, text', f, headers, SizeOf[f])
    <3> DEFINE u == text'
    <3>1. u = [text EXCEPT !.sent = Append(text.sent, f), !.in = text.in \o frame,
                           !.ends = Append(text.ends, Len(text.in) + Len(frame))]
      BY <2>3
    <3> HIDE DEF u, frame
    <3>2. /\ u \in [sent : {Append(text.sent, f)}, in : {text.in \o frame},
                    ends : {Append(text.ends, Len(text.in) + Len(frame))},
                    cut : {FALSE}, miscounted : {u.miscounted}, length : {u.length}]
          /\ u.miscounted = text.miscounted /\ u.length = text.length
      BY <1>3, <2>2, <3>1 DEF Texts
    <3>3. Framed(text, u, f, headers, SizeOf[f])
      BY <3>2 DEF Framed, frame
    <3>4. QED
      BY <3>3 DEF u
  <2>5. SizeOf[f] \in Int
    BY ServerAssumption
  <2>6. QED
    BY <1>1, <2>2, <2>4, <2>5, StillStream
<1>5. CASE SendMiscounted
  <2>1. PICK f \in DOMAIN Bodies : \E n \in (-1 .. MaxLength) \ {SizeOf[f]} :
           text' = [WithFrame(f, FrameOf(f, <<>>, n)) EXCEPT !.miscounted = Len(text.sent) + 1,
                                                            !.length = n]
    BY <1>5 DEF SendMiscounted
  <2>2. PICK n \in (-1 .. MaxLength) \ {SizeOf[f]} :
           text' = [WithFrame(f, FrameOf(f, <<>>, n)) EXCEPT !.miscounted = Len(text.sent) + 1,
                                                            !.length = n]
    BY <2>1
  <2> DEFINE headers == <<>>
             frame == FrameOf(f, headers, n)
  <2>3. ~text.cut /\ text.miscounted = 0
    BY <1>5 DEF SendMiscounted
  <2>4. n \in Int /\ n >= -1 /\ n # SizeOf[f] /\ headers \in {<<>>, <<<<"header">>>>}
    BY ServerAssumption
  <2>5. Framed(text, text', f, headers, n)
    <3> DEFINE u == text'
               x == [text EXCEPT !.sent = Append(text.sent, f), !.in = text.in \o frame,
                                 !.ends = Append(text.ends, Len(text.in) + Len(frame))]
               w == Len(text.sent) + 1
    <3>1. u = [x EXCEPT !.miscounted = w, !.length = n]
      BY <2>2 DEF WithFrame
    <3> HIDE DEF u, frame, headers, w
    <3>2. /\ u \in [sent : {Append(text.sent, f)}, in : {text.in \o frame},
                    ends : {Append(text.ends, Len(text.in) + Len(frame))},
                    cut : {FALSE}, miscounted : {u.miscounted}, length : {u.length}]
          /\ u.miscounted = w /\ u.length = n
      BY <1>3, <2>3, <3>1 DEF Texts
    <3>3. Framed(text, u, f, headers, n)
      BY <2>3, <2>4, <3>2 DEF Framed, frame, w
    <3>4. QED
      BY <3>3 DEF u
  <2> HIDE DEF headers
  <2>6. QED
    BY <1>1, <2>3, <2>4, <2>5, StillStream
<1>6. CASE Killed
  <2>1. PICK n \in 0 .. Len(text.in) - 1 : text' = [text EXCEPT !.in = SubSeq(@, 1, n), !.cut = TRUE]
    BY <1>6 DEF Killed
  <2>2. QED
    BY <1>1, <2>1, StreamCut
<1>7. QED
  BY <1>2, <1>4, <1>5, <1>6

LEMMA StdinAnswered == StdinTyped => AnsweredInOrder
<1> SUFFICES ASSUME Stream(text), form = "stdin" PROVE AnsweredInOrder
  BY DEF StdinTyped, AnsweredInOrder
<1>1. PICK m : Whole(text, m)
  BY WholeExists
<1> DEFINE s == SoundCount(text, m)
           wrong == text.miscounted
<1>2. /\ DOMAIN text.sent = 1 .. Len(text.sent) /\ wrong \in 0 .. Len(text.sent)
      /\ Len(text.sent) \in Nat /\ m \in 0 .. Len(text.sent) /\ m \in Nat
  BY <1>1, StreamTyped, WholeFacts
<1>3. Arrived = 1 .. m
  BY <1>1, <1>2 DEF Whole, Arrived
<1>4. s \in Nat /\ Sound = 1 .. s
  <2>1. s = IF wrong # 0 /\ wrong <= m THEN wrong - 1 ELSE m
    BY DEF SoundCount
  <2>2. Sound = {k \in Arrived : wrong # 0 => k < wrong}
    BY DEF Sound
  <2> HIDE DEF wrong, s
  <2>3. QED
    BY <1>2, <1>3, <2>1, <2>2
<1>5. ASSUME NEW x \in Nat PROVE Cardinality(1 .. x) = x
  <2>1. Cardinality(1 .. x) = IF 1 > x THEN 0 ELSE x - 1 + 1
    BY FS_Interval
  <2>2. QED
    BY <2>1
<1>6. AnsweredBy(text, m, s, 1 .. s)
  BY <1>1, StreamAnswered
<1> HIDE DEF s, wrong
<1>7. AnsweredBy(text, Cardinality(Arrived), Cardinality(Sound), Sound)
  BY <1>2, <1>3, <1>4, <1>5, <1>6
<1>8. QED
  BY <1>7 DEF AnsweredBy, AnsweredInOrder

(* What arrives whole at claw mcp serve (read_frame, mcp_server.rs) is     *)
(* answered, once and in order, and the server ends well exactly when its  *)
(* input ends between two frames; behind a Content-Length that is wrong,   *)
(* answers are lost but never made up, and behind one that is too short    *)
(* the server stops, unless the next frame begins with its length.  For    *)
(* any bodies, lengths and number of frames, and wherever the client is    *)
(* killed.                                                                 *)
THEOREM AnsweredInOrderAlways == MainSpec => []AnsweredInOrder
<1>1. MainInit => StdinTyped
  BY StreamBegins DEF StdinTyped
<1>2. StdinTyped /\ [MainNext]_mainVars => StdinTyped'
  <2>1. ASSUME StdinTyped, UNCHANGED mainVars PROVE StdinTyped'
    <3>1. text' = text /\ form' = form
      BY <2>1 DEF mainVars
    <3>2. form = "stdin" => Stream(text)
      BY <2>1 DEF StdinTyped
    <3>3. form' = "stdin" => Stream(text')
      BY <3>1, <3>2
    <3>4. QED
      BY <3>3 DEF StdinTyped, Stream, Before, FrameLies, BlankOf, PieceAt, LengthIn
  <2>2. QED
    BY <2>1, StreamGoesOn DEF StdinTyped
<1>3. QED
  BY <1>1, <1>2, StdinAnswered, PTL DEF MainSpec

-----------------------------------------------------------------------------
(* Names of skills: what trimming leaves. *)

LEMMA TrimStartKeeps ==
  ASSUME NEW S, NEW t \in Seq(S), NEW chars
  PROVE  LET u == Skills!TrimStart(t, chars)
         IN  /\ u \in Seq(S)
             /\ u # <<>> => u[1] \notin chars /\ t # <<>> /\ u[Len(u)] = t[Len(t)]
             /\ t # <<>> /\ t[1] \notin chars => u = t
<1> DEFINE n == Len(t)
           inked == {k \in 1 .. n : t[k] \notin chars}
           u == Skills!TrimStart(t, chars)
<1>1. n \in Nat /\ DOMAIN t = 1 .. n /\ \A k \in 1 .. n : t[k] \in S
  BY LenProperties, ElementOfSeq
<1>2. u = IF inked = {} THEN <<>> ELSE SubSeq(t, CHOOSE k \in inked : \A j \in inked : k <= j, n)
  BY <1>1 DEF Skills!TrimStart
<1>3. t # <<>> => n # 0
  BY EmptySeq
<1> HIDE DEF u
<1>4. CASE inked = {}
  <2>1. u = <<>>
    BY <1>2, <1>4
  <2>2. t # <<>> => t[1] \in chars
    BY <1>1, <1>3, <1>4
  <2>3. u \in Seq(S)
    BY <2>1, EmptySeq
  <2>4. QED
    BY <2>1, <2>2, <2>3 DEF u
<1>5. CASE inked # {}
  <2>1. inked \in SUBSET Nat /\ \A k \in inked : k \in 1 .. n
    BY <1>1
  <2> HIDE DEF inked
  <2>2. PICK m \in inked : \A j \in inked : m <= j
    BY <1>5, <2>1, MinExists
  <2>3. \A j \in inked : j \in Int /\ m <= j
    BY <2>1, <2>2
  <2>4. (CHOOSE k \in inked : \A j \in inked : k <= j) = m
    BY <2>1, <2>2, <2>3, LeastIs
  <2>5. u = SubSeq(t, m, n)
    BY <1>2, <1>5, <2>4
  <2>6. m \in 1 .. n /\ t[m] \notin chars
    BY <2>1, <2>2 DEF inked
  <2>7. /\ u \in Seq(S) /\ Len(u) = n - m + 1
        /\ \A i \in 1 .. n - m + 1 : u[i] = t[m + i - 1]
    <3>1. \A i \in m .. n : t[i] \in S
      BY <1>1, <2>6
    <3>2. m \in Int /\ n \in Int /\ m <= n
      BY <1>1, <2>6
    <3>3. /\ SubSeq(t, m, n) \in Seq(S)
          /\ Len(SubSeq(t, m, n)) = IF m <= n THEN n - m + 1 ELSE 0
          /\ \A i \in 1 .. n - m + 1 : SubSeq(t, m, n)[i] = t[m + i - 1]
      BY <3>1, <3>2, SubSeqProperties
    <3>4. QED
      BY <2>5, <3>2, <3>3
  <2>8. u[1] = t[m] /\ u[Len(u)] = t[n] /\ t # <<>>
    <3>1. 1 \in 1 .. n - m + 1 /\ n - m + 1 \in 1 .. n - m + 1 /\ m + 1 - 1 = m /\ m + (n - m + 1) - 1 = n
      BY <1>1, <2>6
    <3>2. u[1] = t[m + 1 - 1] /\ u[n - m + 1] = t[m + (n - m + 1) - 1]
      BY <2>7, <3>1
    <3>3. t # <<>>
      <4>1. n # 0
        BY <1>1, <2>6
      <4>2. Len(<<>>) = 0
        BY EmptySeq
      <4>3. QED
        BY <4>1, <4>2
    <3>4. QED
      BY <2>7, <3>1, <3>2, <3>3
  <2>9. ASSUME t[1] \notin chars PROVE u = t
    <3>1. 1 \in inked
      BY <1>1, <2>6, <2>9 DEF inked
    <3>2. m = 1
      BY <2>2, <2>6, <3>1
    <3>3. Len(u) = Len(t)
      BY <1>1, <2>7, <3>2
    <3>4. \A i \in 1 .. Len(u) : u[i] = t[i]
      <4> TAKE i \in 1 .. Len(u)
      <4>1. i \in 1 .. n - m + 1 /\ m + i - 1 = i
        BY <1>1, <2>7, <3>2
      <4>2. QED
        BY <2>7, <4>1
    <3>5. QED
      BY <2>7, <3>3, <3>4, SeqEqual
  <2>10. QED
    BY <2>6, <2>7, <2>8, <2>9 DEF u
<1>6. QED
  BY <1>4, <1>5

LEMMA ReverseKeeps ==
  ASSUME NEW S, NEW t \in Seq(S)
  PROVE  /\ Skills!Reverse(t) \in Seq(S) /\ Len(Skills!Reverse(t)) = Len(t)
         /\ \A k \in 1 .. Len(t) : Skills!Reverse(t)[k] = t[Len(t) - k + 1]
         /\ Skills!Reverse(Skills!Reverse(t)) = t
<1> DEFINE n == Len(t)
           u == Skills!Reverse(t)
           v == Skills!Reverse(u)
<1>1. n \in Nat /\ \A k \in 1 .. n : t[k] \in S
  BY LenProperties, ElementOfSeq
<1>2. u = [k \in 1 .. n |-> t[n - k + 1]]
  BY DEF Skills!Reverse
<1>3. v = [k \in 1 .. Len(u) |-> u[Len(u) - k + 1]]
  BY DEF Skills!Reverse
<1> HIDE DEF n, u, v
<1>4. \A k \in 1 .. n : n - k + 1 \in 1 .. n /\ n - (n - k + 1) + 1 = k
  BY <1>1
<1>5. u \in [1 .. n -> S]
  BY <1>1, <1>2, <1>4
<1>6. u \in Seq(S) /\ Len(u) = n
  BY <1>1, <1>5
<1>7. \A k \in 1 .. n : u[k] = t[n - k + 1]
  BY <1>2
<1>8. v = [k \in 1 .. n |-> u[n - k + 1]]
  BY <1>3, <1>6
<1>9. v \in [1 .. n -> S]
  BY <1>4, <1>5, <1>8
<1>10. v \in Seq(S) /\ Len(v) = n
  BY <1>1, <1>9
<1>11. \A k \in 1 .. Len(v) : v[k] = t[k]
  <2> TAKE k \in 1 .. Len(v)
  <2>1. k \in 1 .. n /\ n - k + 1 \in 1 .. n
    BY <1>4, <1>10
  <2>2. v[k] = u[n - k + 1]
    BY <1>8, <2>1
  <2>3. u[n - k + 1] = t[n - (n - k + 1) + 1]
    BY <1>7, <2>1
  <2>4. QED
    BY <1>4, <2>1, <2>2, <2>3
<1>12. v = t
  BY <1>10, <1>11, SeqEqual DEF n
<1>13. QED
  BY <1>6, <1>7, <1>12 DEF n, u, v

LEMMA TrimKeeps ==
  ASSUME NEW S, NEW t \in Seq(S), NEW chars
  PROVE  LET u == Skills!Trim(t, chars)
         IN  /\ u \in Seq(S)
             /\ u # <<>> => u[1] \notin chars /\ u[Len(u)] \notin chars
             /\ t # <<>> /\ t[1] \notin chars /\ t[Len(t)] \notin chars => u = t
<1> DEFINE r == Skills!Reverse(t)
           s == Skills!TrimStart(r, chars)
           v == Skills!Reverse(s)
           u == Skills!TrimStart(v, chars)
<1>1. Skills!Trim(t, chars) = u
  BY DEF Skills!Trim, Skills!TrimEnd
<1>2. /\ r \in Seq(S) /\ Len(r) = Len(t) /\ Skills!Reverse(r) = t
      /\ \A k \in 1 .. Len(t) : r[k] = t[Len(t) - k + 1]
  BY ReverseKeeps
<1> HIDE DEF r
<1>3. /\ s \in Seq(S)
      /\ s # <<>> => s[1] \notin chars
      /\ r # <<>> /\ r[1] \notin chars => s = r
  BY <1>2, TrimStartKeeps
<1> HIDE DEF s
<1>4. /\ v \in Seq(S) /\ Len(v) = Len(s)
      /\ \A k \in 1 .. Len(s) : v[k] = s[Len(s) - k + 1]
  BY <1>3, ReverseKeeps
<1> HIDE DEF v
<1>5. /\ u \in Seq(S)
      /\ u # <<>> => u[1] \notin chars /\ v # <<>> /\ u[Len(u)] = v[Len(v)]
      /\ v # <<>> /\ v[1] \notin chars => u = v
  BY <1>4, TrimStartKeeps
<1> HIDE DEF u
<1>6. Len(t) \in Nat /\ Len(s) \in Nat
  BY <1>3, LenProperties
<1>7. v # <<>> => v[Len(v)] \notin chars
  <2> HAVE v # <<>>
  <2>1. Len(v) # 0
    BY <1>4, EmptySeq
  <2>2. s # <<>>
    BY <1>4, <2>1, EmptySeq
  <2>3. Len(s) \in 1 .. Len(s) /\ Len(s) - Len(s) + 1 = 1
    BY <1>4, <1>6, <2>1
  <2>4. v[Len(s)] = s[1]
    BY <1>4, <2>3
  <2>5. QED
    BY <1>3, <1>4, <2>2, <2>4
<1>8. ASSUME t # <<>>, t[1] \notin chars, t[Len(t)] \notin chars PROVE u = t
  <2>1. Len(t) # 0
    BY <1>8, EmptySeq
  <2>2. 1 \in 1 .. Len(t) /\ Len(t) - 1 + 1 = Len(t)
    BY <1>6, <2>1
  <2>3. r[1] = t[Len(t)] /\ r # <<>>
    <3>1. r[1] = t[Len(t) - 1 + 1]
      BY <1>2, <2>2
    <3>2. r # <<>>
      BY <1>2, <2>1, EmptySeq
    <3>3. QED
      BY <2>2, <3>1, <3>2
  <2>4. s = r
    BY <1>3, <1>8, <2>3
  <2>5. v = t
    BY <1>2, <2>4 DEF v
  <2>6. QED
    BY <1>5, <1>8, <2>5
<1>9. QED
  BY <1>1, <1>5, <1>7, <1>8

-----------------------------------------------------------------------------
(* What is kept of a name, character by character, and the name that a     *)
(* skill is installed under.                                               *)

(* Characters of a name, and what a fold over characters has kept so far. *)
NameChars == {"a", "b", "1"} \cup Skills!Marks
Accs == [text : Seq(NameChars), separated : BOOLEAN]
NoName == [text |-> <<>>, separated |-> FALSE]

LEMMA KeptTyped ==
  ASSUME NEW acc \in Accs, NEW c
  PROVE  Skills!Kept(acc, c) \in Accs
<1>1. acc.text \in Seq(NameChars)
  BY DEF Accs
<1>2. CASE c \in Skills!Marks \cup {"a", "b", "1", "A"}
  <2>1. Skills!Lower(c) \in NameChars
    BY <1>2 DEF Skills!Lower, NameChars
  <2>2. Append(acc.text, Skills!Lower(c)) \in Seq(NameChars)
    BY <1>1, <2>1, AppendProperties
  <2>3. Skills!Kept(acc, c) = [text |-> Append(acc.text, Skills!Lower(c)), separated |-> FALSE]
    BY <1>2 DEF Skills!Kept, Skills!Marks
  <2>4. QED
    BY <2>2, <2>3 DEF Accs
<1>3. CASE c \in {" ", "/"} /\ ~acc.separated /\ acc.text # <<>>
  <2>1. "-" \in NameChars
    BY DEF NameChars, Skills!Marks
  <2>2. Append(acc.text, "-") \in Seq(NameChars)
    BY <1>1, <2>1, AppendProperties
  <2>3. Skills!Kept(acc, c) = [text |-> Append(acc.text, "-"), separated |-> TRUE]
    BY <1>3 DEF Skills!Kept, Skills!Marks
  <2>4. QED
    BY <2>2, <2>3 DEF Accs
<1>4. CASE /\ c \notin Skills!Marks \cup {"a", "b", "1", "A"}
           /\ ~(c \in {" ", "/"} /\ ~acc.separated /\ acc.text # <<>>)
  BY <1>4 DEF Skills!Kept
<1>5. QED
  BY <1>2, <1>3, <1>4

(* A character of a name is kept. *)
LEMMA KeptSame ==
  ASSUME NEW acc \in Accs, NEW c \in NameChars
  PROVE  Skills!Kept(acc, c).text = Append(acc.text, c)
<1>1. c \in Skills!Marks \cup {"a", "b", "1", "A"}
  BY DEF NameChars
<1>2. Skills!Lower(c) = c
  BY DEF NameChars, Skills!Lower, Skills!Marks
<1>3. Skills!Kept(acc, c) = [text |-> Append(acc.text, Skills!Lower(c)), separated |-> FALSE]
  BY <1>1 DEF Skills!Kept, Skills!Marks
<1>4. QED
  BY <1>2, <1>3

(* What is kept after each character. *)
LEMMA KeptRun ==
  ASSUME NEW S, NEW t \in Seq(S)
  PROVE  \E g : /\ g[0] = NoName
                /\ \A k \in 0 .. Len(t) : g[k] \in Accs
                /\ \A k \in 1 .. Len(t) : g[k] = Skills!Kept(g[k - 1], t[k])
                /\ Skills!FoldLeft(Skills!Kept, NoName, t) = g[Len(t)]
<1> DEFINE n == Len(t)
           step == [k \in 1 .. n |-> [acc \in Accs |-> Skills!Kept(acc, t[k])]]
           IsIt(f) == f = [s \in SUBSET (1 .. n) |->
                             IF s = {} THEN NoName
                             ELSE Skills!Kept(f[s \ {Max(s)}], t[Max(s)])]
           it == CHOOSE f : IsIt(f)
<1>1. n \in Nat /\ DOMAIN t = 1 .. n
  BY LenProperties
<1>2. step \in [1 .. n -> [Accs -> Accs]]
  BY KeptTyped
<1>3. NoName \in Accs
  BY EmptySeq DEF NoName, Accs
<1>4. PICK f : IsFold(f, n, NoName, step) /\ \A s \in SUBSET (1 .. n) : f[s] \in Accs
  <2> HIDE DEF n, step
  <2>1. QED
    BY <1>1, <1>2, <1>3, FoldExists
<1>5. ASSUME NEW s \in SUBSET (1 .. n), s # {}
      PROVE  step[Max(s)][f[s \ {Max(s)}]] = Skills!Kept(f[s \ {Max(s)}], t[Max(s)])
  <2>1. Max(s) \in 1 .. n
    BY <1>1, <1>5, TopOf
  <2>2. f[s \ {Max(s)}] \in Accs
    BY <1>4
  <2>3. QED
    BY <2>1, <2>2
<1> HIDE DEF step
<1>6. IsIt(f)
  BY <1>4, <1>5 DEF IsFold
<1>7. IsIt(it)
  <2> HIDE DEF IsIt
  <2>1. QED
    BY <1>6
<1>8. Skills!FoldLeft(Skills!Kept, NoName, t) = it[1 .. n]
  BY <1>1 DEF Skills!FoldLeft, Skills!MapThenFoldSet, Skills!Max, Max
<1> DEFINE g == [k \in 0 .. n |-> it[1 .. k]]
<1>9. g[0] = NoName
  <2>1. {} = 1 .. 0 /\ {} \in SUBSET (1 .. n) /\ 0 \in 0 .. n
    BY <1>1
  <2>2. it[{}] = NoName
    BY <1>7, <2>1
  <2> HIDE DEF it
  <2>3. QED
    BY <2>1, <2>2
<1>10. ASSUME NEW k \in 1 .. n
       PROVE  g[k] = Skills!Kept(g[k - 1], t[k])
  <2>1. /\ Max(1 .. k) = k /\ (1 .. k) \ {k} = 1 .. k - 1
        /\ 1 .. k \in SUBSET (1 .. n) /\ 1 .. k # {}
    BY <1>1, TopOfRange
  <2>2. it[1 .. k] = Skills!Kept(it[1 .. k - 1], t[k])
    BY <1>7, <2>1
  <2>3. k \in 0 .. n /\ k - 1 \in 0 .. n
    BY <1>1
  <2> HIDE DEF it
  <2>4. QED
    BY <2>2, <2>3
<1>11. Skills!FoldLeft(Skills!Kept, NoName, t) = g[n]
  <2>1. n \in 0 .. n
    BY <1>1
  <2> HIDE DEF it
  <2>2. QED
    BY <1>8, <2>1
<1> HIDE DEF g
<1>12. \A k \in 0 .. n : g[k] \in Accs
  <2> DEFINE good == {k \in 0 .. n : g[k] \in Accs}
  <2>1. 0 \in good
    BY <1>1, <1>3, <1>9
  <2>2. ASSUME NEW k \in 1 .. n, k - 1 \in good PROVE k \in good
    BY <1>1, <1>10, <2>2, KeptTyped
  <2>3. good \in SUBSET (0 .. n)
    OBVIOUS
  <2> HIDE DEF good, n
  <2>4. good = 0 .. n
    BY <1>1, <2>1, <2>2, <2>3, Climb
  <2>5. QED
    BY <2>4 DEF good
<1>13. QED
  BY <1>9, <1>10, <1>11, <1>12

(* A name that can be installed under *)
IsName(t) ==
  /\ t \in Seq(NameChars) /\ t # <<>>
  /\ t[1] \notin Skills!Marks /\ t[Len(t)] \notin Skills!Marks

LEMMA SanitizeIs ==
  ASSUME NEW t
  PROVE  LET trimmed == Skills!TrimStart(Skills!TrimStart(Skills!Trim(t, {" "}), {"/"}), {"$"})
             clean == Skills!Trim(Skills!FoldLeft(Skills!Kept, NoName, trimmed).text, Skills!Marks)
         IN  Skills!SanitizeSkillInvocationName(t) = IF clean = <<>> THEN <<>> ELSE <<clean>>
<1>1. QED
  BY DEF Skills!SanitizeSkillInvocationName, NoName

LEMMA Sanitized ==
  ASSUME NEW S, NEW t \in Seq(S)
  PROVE  \/ Skills!SanitizeSkillInvocationName(t) = <<>>
         \/ \E u : IsName(u) /\ Skills!SanitizeSkillInvocationName(t) = <<u>>
<1> DEFINE one == Skills!Trim(t, {" "})
           two == Skills!TrimStart(one, {"/"})
           trimmed == Skills!TrimStart(two, {"$"})
           kept == Skills!FoldLeft(Skills!Kept, NoName, trimmed)
           clean == Skills!Trim(kept.text, Skills!Marks)
<1>1. Skills!SanitizeSkillInvocationName(t) = IF clean = <<>> THEN <<>> ELSE <<clean>>
  BY SanitizeIs
<1>2. one \in Seq(S)
  BY TrimKeeps
<1> HIDE DEF one
<1>3. two \in Seq(S)
  BY <1>2, TrimStartKeeps
<1> HIDE DEF two
<1>4. trimmed \in Seq(S)
  BY <1>3, TrimStartKeeps
<1> HIDE DEF trimmed
<1>5. kept \in Accs
  <2>1. Len(trimmed) \in 0 .. Len(trimmed)
    BY <1>4, LenProperties
  <2>2. QED
    BY <1>4, <2>1, KeptRun
<1> HIDE DEF kept
<1>6. kept.text \in Seq(NameChars)
  BY <1>5 DEF Accs
<1>7. /\ clean \in Seq(NameChars)
      /\ clean # <<>> => clean[1] \notin Skills!Marks /\ clean[Len(clean)] \notin Skills!Marks
  BY <1>6, TrimKeeps
<1> HIDE DEF clean
<1>8. QED
  BY <1>1, <1>7 DEF IsName

LEMMA SanitizeAgain ==
  ASSUME NEW t, IsName(t)
  PROVE  Skills!SanitizeSkillInvocationName(t) = <<t>>
<1>1. /\ t \in Seq(NameChars) /\ t # <<>> /\ Len(t) \in Nat
      /\ t[1] \notin Skills!Marks /\ t[Len(t)] \notin Skills!Marks
  BY LenProperties DEF IsName
<1>2. 1 \in 1 .. Len(t) /\ Len(t) \in 1 .. Len(t)
  BY <1>1, EmptySeq
<1>3. \A k \in 1 .. Len(t) : t[k] \in NameChars /\ t[k] \notin {" ", "/", "$"}
  <2> TAKE k \in 1 .. Len(t)
  <2>1. t[k] \in NameChars
    BY <1>1, ElementOfSeq
  <2>2. QED
    BY <2>1 DEF NameChars, Skills!Marks
<1>4. Skills!Trim(t, {" "}) = t
  BY <1>1, <1>2, <1>3, TrimKeeps
<1>5. Skills!TrimStart(t, {"/"}) = t /\ Skills!TrimStart(t, {"$"}) = t
  BY <1>1, <1>2, <1>3, TrimStartKeeps
<1> DEFINE kept == Skills!FoldLeft(Skills!Kept, NoName, t)
<1>6. kept.text = t
  <2>1. PICK g : /\ g[0] = NoName
                 /\ \A k \in 0 .. Len(t) : g[k] \in Accs
                 /\ \A k \in 1 .. Len(t) : g[k] = Skills!Kept(g[k - 1], t[k])
                 /\ kept = g[Len(t)]
    BY <1>1, KeptRun
  <2> DEFINE n == Len(t)
             Same(k) == /\ g[k].text \in Seq(NameChars) /\ Len(g[k].text) = k
                        /\ \A j \in 1 .. k : g[k].text[j] = t[j]
             good == {k \in 0 .. n : Same(k)}
  <2>2. 0 \in good
    <3>1. n \in Nat /\ 0 \in 0 .. n
      BY <1>1
    <3>2. g[0].text = <<>>
      BY <2>1 DEF NoName
    <3>3. <<>> \in Seq(NameChars) /\ Len(<<>>) = 0
      BY EmptySeq
    <3>4. Same(0)
      <4> HIDE DEF n
      <4>1. \A j \in 1 .. 0 : FALSE
        OBVIOUS
      <4>2. QED
        BY <3>2, <3>3, <4>1
    <3>5. QED
      BY <3>1, <3>4
  <2>3. ASSUME NEW k \in 1 .. n, k - 1 \in good PROVE k \in good
    <3> DEFINE u == g[k - 1].text
    <3>1. k - 1 \in 0 .. n /\ k \in 0 .. n /\ k \in Nat /\ (k - 1) + 1 = k
      BY <1>1
    <3>2. u \in Seq(NameChars) /\ Len(u) = k - 1 /\ \A j \in 1 .. k - 1 : u[j] = t[j]
      BY <2>3
    <3>3. g[k].text = Append(u, t[k])
      BY <1>3, <2>1, <3>1, KeptSame
    <3> HIDE DEF u
    <3>4. t[k] \in NameChars
      BY <1>3
    <3>5. /\ g[k].text \in Seq(NameChars) /\ Len(g[k].text) = k
          /\ (\A j \in 1 .. k - 1 : g[k].text[j] = u[j]) /\ g[k].text[k] = t[k]
      BY <3>1, <3>2, <3>3, <3>4, AppendProperties
    <3>6. \A j \in 1 .. k : g[k].text[j] = t[j]
      <4> TAKE j \in 1 .. k
      <4>1. j = k \/ j \in 1 .. k - 1
        BY <3>1
      <4>2. QED
        BY <3>2, <3>5, <4>1
    <3>7. QED
      BY <3>1, <3>5, <3>6
  <2>4. good \in SUBSET (0 .. n)
    OBVIOUS
  <2> HIDE DEF good
  <2>5. n \in good
    <3>1. n \in Nat /\ n \in 0 .. n
      BY <1>1
    <3> HIDE DEF n
    <3>2. good = 0 .. n
      BY <2>2, <2>3, <2>4, <3>1, Climb
    <3>3. QED
      BY <3>1, <3>2
  <2>6. Same(n)
    BY <2>5 DEF good
  <2>7. kept.text \in Seq(NameChars) /\ Len(kept.text) = Len(t) /\ \A j \in 1 .. Len(t) : kept.text[j] = t[j]
    BY <2>1, <2>6
  <2> HIDE DEF kept
  <2>8. QED
    BY <1>1, <2>7, SeqEqual
<1>7. Skills!Trim(t, Skills!Marks) = t
  BY <1>1, TrimKeeps
<1>8. QED
  BY <1>1, <1>4, <1>5, <1>6, <1>7, SanitizeIs

(* What a skill is installed under is a name. *)
LEMMA NameIs ==
  ASSUME NEW S, NEW t \in Seq(S)
  PROVE  \E u : IsName(u) /\ Skills!DeriveSkillInstallName(<<t>>, <<"b">>) = <<u>>
<1> DEFINE b == <<"b">>
           s == Skills!SanitizeSkillInvocationName(t)
<1>1. <<t>> # <<>> /\ <<t>>[1] = t
  OBVIOUS
<1>2. Skills!DeriveSkillInstallName(<<t>>, b) = IF s # <<>> THEN s ELSE Skills!SanitizeSkillInvocationName(b)
  BY <1>1 DEF Skills!DeriveSkillInstallName
<1>3. IsName(b)
  <2>1. "b" \in NameChars /\ "b" \notin Skills!Marks
    BY DEF NameChars, Skills!Marks
  <2>2. b \in Seq(NameChars) /\ Len(b) = 1 /\ b[1] = "b" /\ b # <<>>
    BY <2>1
  <2>3. QED
    BY <2>1, <2>2 DEF IsName
<1> HIDE DEF b
<1>4. Skills!SanitizeSkillInvocationName(b) = <<b>>
  BY <1>3, SanitizeAgain
<1>5. s = <<>> \/ \E u : IsName(u) /\ s = <<u>>
  BY Sanitized
<1> HIDE DEF s
<1>6. \E u : IsName(u) /\ Skills!DeriveSkillInstallName(<<t>>, b) = <<u>>
  BY <1>2, <1>3, <1>4, <1>5
<1>7. QED
  BY <1>6 DEF b

NameTyped == form = "name" => text \in Seq(Characters)

LEMMA NamesStable == NameTyped => NameStable
<1> SUFFICES ASSUME text \in Seq(Characters), form = "name" PROVE NameStable
  BY DEF NameTyped, NameStable
<1> DEFINE name == Skills!DeriveSkillInstallName(<<text>>, <<"b">>)
<1>1. PICK u : IsName(u) /\ name = <<u>>
  BY NameIs
<1> HIDE DEF name
<1>2. name # <<>> /\ name[1] = u
  BY <1>1
<1>3. Skills!SanitizeSkillInvocationName(u) = <<u>>
  BY <1>1, SanitizeAgain
<1>4. DOMAIN u = 1 .. Len(u) /\ \A k \in 1 .. Len(u) : u[k] \in NameChars
  BY <1>1, LenProperties, ElementOfSeq DEF IsName
<1>5. \A k \in DOMAIN u : u[k] \notin {"/", " ", "$"}
  BY <1>4 DEF NameChars, Skills!Marks
<1>6. u[1] # "."
  BY <1>1 DEF IsName, Skills!Marks
<1>7. QED
  BY <1>1, <1>2, <1>3, <1>5, <1>6 DEF NameStable, name

(* The name that a skill is installed under (derive_skill_install_name) is *)
(* never missing, names one directory directly below the registry, and is  *)
(* what sanitize_skill_invocation_name makes of it again, for any          *)
(* characters, and any number of them.                                     *)
THEOREM NameStableAlways == MainSpec => []NameStable
<1>1. MainInit => NameTyped
  <2> SUFFICES ASSUME MainInit, form = "name" PROVE text \in Seq(Characters)
    BY DEF NameTyped
  <2>1. text = <<>>
    BY DEF MainInit
  <2>2. QED
    BY <2>1, EmptySeq
<1>2. NameTyped /\ [MainNext]_mainVars => NameTyped'
  <2> SUFFICES ASSUME NameTyped, [MainNext]_mainVars, form' = "name"
               PROVE  text' \in Seq(Characters)
    BY DEF NameTyped
  <2>1. CASE TypeCharacter
    <3>1. PICK c \in Characters : text' = Append(text, c)
      BY <2>1 DEF TypeCharacter
    <3>2. text \in Seq(Characters)
      BY <2>1 DEF TypeCharacter, Edit, NameTyped
    <3>3. QED
      BY <3>1, <3>2, AppendProperties
  <2>2. CASE TypeArg \/ Send \/ SendMiscounted \/ Killed \/ SaveSession \/ Garble \/ TypeCommand
             \/ WriteDefinition \/ WriteBroken
    <3>1. form # "name" /\ form' = form
      BY <2>2 DEF TypeArg, Send, SendMiscounted, Killed, SaveSession, Garble, TypeCommand,
                  WriteDefinition, WriteBroken, Edit
    <3>2. QED
      BY <3>1
  <2>3. CASE Install \/ UNCHANGED mainVars
    <3>1. form' = form /\ text' = text
      BY <2>3 DEF Install, mainVars
    <3>2. QED
      BY <3>1 DEF NameTyped
  <2>4. QED
    BY <2>1, <2>2, <2>3 DEF MainNext
<1>3. QED
  BY <1>1, <1>2, NamesStable, PTL DEF MainSpec
=============================================================================
