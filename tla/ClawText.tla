------------------------------ MODULE ClawText ------------------------------
(***************************************************************************)
(* The texts claw reads: each is written by claw or by hand and then       *)
(* changed by its user, one edit at a time, before claw reads it again.    *)
(* form says which text a behaviour is about:                              *)
(*   json      characters, for the parser of json.rs                       *)
(*   records   the lines of a session file                                 *)
(*   settings  the object of a settings file                               *)
(*   chat      the messages of a conversation that is compacted            *)
(*   word      a key typed into a settings file                            *)
(*   project   the instruction files and git outputs of a system prompt    *)
(***************************************************************************)
EXTENDS Integers, Sequences, FiniteSets, SequencesExt

CONSTANTS JsonSeeds, Alphabet,              \* values, and the characters that are typed
          SessionSeeds, LegacySeeds,        \* sessions in memory, files of the older format
          SettingsSeeds, KeyOrder,          \* settings objects, and their keys in order
          ChatMessages, PendingWords, FileWords, Sorted(_), Short, Long,
          Candidates, Typed, Letters,       \* names of settings, what is typed, and letters
          Cwd, FileSizes, FileTexts, MaxTotal, MaxFile, MarkerSize,
          MaxI64, MaxU32,
          MaxEdits                          \* bound: edits of one text

ASSUME WidthAssumption == /\ MaxI64 \in Nat /\ MaxU32 \in Nat /\ MaxU32 <= MaxI64
                          /\ Short \in Nat /\ Long \in Nat
                          /\ MaxTotal \in Nat /\ MaxFile \in Nat /\ MarkerSize \in Nat

VARIABLES form, text, edits
vars == <<form, text, edits>>

J == INSTANCE ClawJson
R == INSTANCE ClawRecords
S == INSTANCE ClawSummary
C == INSTANCE ClawConfig
W == INSTANCE ClawSuggest
P == INSTANCE ClawPrompt

InstructionFiles == Range(P!InstructionCandidates(Cwd))
NoFile(path) == [path |-> path, kind |-> "absent", size |-> 0, text |-> 0]
GitOutputs == [status |-> <<"M a">>, staged |-> <<"+a">>, unstaged |-> <<"+b">>, inside |-> TRUE,
               branch |-> <<"main">>, log |-> <<<<[hash |-> 1, subject |-> "first"]>>>>,
               names |-> <<<<"a">>>>]

Init == /\ edits = 0
        /\ \/ form = "json"     /\ text \in {J!Render(v) : v \in JsonSeeds}
           \/ form = "records"  /\ text \in {R!Snapshot(s)[1] : s \in SessionSeeds} \cup LegacySeeds
           \/ form = "settings" /\ text \in SettingsSeeds
           \/ form = "chat"     /\ text = [said |-> {}, messages |-> <<>>]
           \/ form = "word"     /\ text \in Typed
           \/ form = "project"  /\ text = [files |-> [p \in InstructionFiles |-> NoFile(p)],
                                           git |-> GitOutputs]

(***************************************************************************)
(* Edits.                                                                  *)
(***************************************************************************)
EditsLeft(f) == form = f /\ edits < MaxEdits /\ edits' = edits + 1 /\ UNCHANGED form
\* insert, delete or replace one element
EditSeq(s, elements) ==
    {InsertAt(s, i, e) : i \in 1 .. Len(s) + 1, e \in elements}
      \cup {RemoveAt(s, i) : i \in DOMAIN s}
      \cup {ReplaceAt(s, i, e) : i \in DOMAIN s, e \in elements}

Junk == {<<"null">>, <<"num", -1>>, <<"num", MaxI64>>, <<"str", "x">>, <<"arr", <<>>>>,
         <<"obj", [k \in {} |-> 0]>>}
\* the values that one edit makes of a JSON value
RECURSIVE Damaged(_)
Damaged(v) ==
    Junk \cup
    CASE v[1] = "obj" ->
           {<<"obj", [k \in DOMAIN v[2] \ {x} |-> v[2][k]]>> : x \in DOMAIN v[2]}
             \cup UNION {{<<"obj", [v[2] EXCEPT ![x] = d]>> : d \in Damaged(v[2][x])} :
                           x \in DOMAIN v[2]}
      [] v[1] = "arr" ->
           {<<"arr", RemoveAt(v[2], i)>> : i \in DOMAIN v[2]}
             \cup UNION {{<<"arr", [v[2] EXCEPT ![i] = d]>> : d \in Damaged(v[2][i])} :
                           i \in DOMAIN v[2]}
      [] OTHER -> {}

EditJson == EditsLeft("json") /\ text' \in EditSeq(text, Alphabet)
\* lines are removed, repeated somewhere, damaged, or made unreadable
EditRecords ==
    /\ EditsLeft("records")
    /\ \/ \E i \in DOMAIN text : text' = RemoveAt(text, i)
       \/ \E i \in DOMAIN text, j \in 1 .. Len(text) + 1 :
             text' = InsertAt(text, j, text[i])
       \/ \E i \in DOMAIN text :
             \E line \in {R!Blank, R!Garbage} \cup
                         (IF R!IsObj(text[i]) THEN Damaged(text[i]) ELSE {}) :
                text' = [text EXCEPT ![i] = line]
EditSettings == /\ EditsLeft("settings")
                /\ text' \in {v \in Damaged(text) : v[1] = "obj"}
TypeWord == EditsLeft("word") /\ text' \in EditSeq(text, Letters)
EditProject ==
    /\ EditsLeft("project")
    /\ \/ \E p \in InstructionFiles, size \in FileSizes, t \in FileTexts :
             text' = [text EXCEPT !.files[p] = [path |-> p, kind |-> "text", size |-> size,
                                                text |-> <<size, t>>]]
       \/ \E p \in InstructionFiles :
             text' = [text EXCEPT !.files[p] = [NoFile(p) EXCEPT !.kind = "unreadable"]]
       \/ \E command \in DOMAIN GitOutputs :
             text' = [text EXCEPT !.git[command] = IF command = "inside" THEN FALSE ELSE <<>>]
       \/ \E command \in {"status", "staged", "unstaged"} :
             text' = [text EXCEPT !.git[command] = <<"">>]

Say == /\ form = "chat"
       /\ \E m \in DOMAIN ChatMessages \ text.said :
             text' = [said |-> text.said \cup {m},
                      messages |-> Append(text.messages, ChatMessages[m])]
       /\ UNCHANGED <<form, edits>>
Compact == /\ EditsLeft("chat")
           /\ \E cut \in 1 .. Len(text.messages) :
                 /\ cut > Len(S!ExistingSummary(text.messages[1]))
                 /\ text' = [text EXCEPT !.messages = S!CompactAt(@, cut)]

Next == EditJson \/ EditRecords \/ EditSettings \/ TypeWord \/ EditProject \/ Say \/ Compact
Spec == Init /\ [][Next]_vars

(***************************************************************************)
(* The grammar of JSON as claw reads it, by ways to split a text: integers *)
(* only, any character raw in a string, and a comma allowed before a       *)
(* closing bracket.                                                        *)
(***************************************************************************)
Ends == {34, 47, 92, 98, 102, 110, 114, 116}          \* letters behind a backslash
IsHex(c) == c \in 48 .. 57 \cup 65 .. 70 \cup 97 .. 102
RECURSIVE IsBody(_)
IsBody(b) ==
    \/ b = <<>>
    \/ b[1] \notin {34, 92} /\ IsBody(Tail(b))
    \/ Len(b) > 1 /\ b[1] = 92 /\ b[2] \in Ends /\ IsBody(SubSeq(b, 3, Len(b)))
    \/ /\ Len(b) > 5 /\ b[1] = 92 /\ b[2] = 117 /\ \A k \in 3 .. 6 : IsHex(b[k])
       /\ ~(b[3] \in {68, 100} /\ b[4] \notin 48 .. 55)          \* a surrogate
       /\ IsBody(SubSeq(b, 7, Len(b)))
IsString(t) == Len(t) > 1 /\ t[1] = 34 /\ Last(t) = 34 /\ IsBody(SubSeq(t, 2, Len(t) - 1))
IsNumber(t) ==
    LET neg == t[1] = 45
        digits == IF neg THEN Tail(t) ELSE t
        n == FoldLeft(LAMBDA acc, c : 10 * acc + c - 48, 0, digits)
    IN  /\ digits # <<>> /\ \A k \in DOMAIN digits : digits[k] \in 48 .. 57
        /\ n <= IF neg THEN MaxI64 + 1 ELSE MaxI64
Ink(t) == {k \in DOMAIN t : t[k] \notin J!Space}
Trimmed(t) == IF Ink(t) = {} THEN <<>>
              ELSE SubSeq(t, CHOOSE i \in Ink(t) : \A k \in Ink(t) : i <= k,
                             CHOOSE i \in Ink(t) : \A k \in Ink(t) : i >= k)
RECURSIVE IsValue(_), IsItems(_), IsMembers(_)
IsMember(t) == \E c \in DOMAIN t : /\ t[c] = 58
                                   /\ IsString(Trimmed(SubSeq(t, 1, c - 1)))
                                   /\ IsValue(Trimmed(SubSeq(t, c + 1, Len(t))))
IsItems(t) ==
    \/ Ink(t) = {}
    \/ IsValue(Trimmed(t))
    \/ \E k \in DOMAIN t : /\ t[k] = 44
                           /\ IsValue(Trimmed(SubSeq(t, 1, k - 1)))
                           /\ IsItems(SubSeq(t, k + 1, Len(t)))
IsMembers(t) ==
    \/ Ink(t) = {}
    \/ IsMember(t)
    \/ \E k \in DOMAIN t : /\ t[k] = 44
                           /\ IsMember(SubSeq(t, 1, k - 1))
                           /\ IsMembers(SubSeq(t, k + 1, Len(t)))
IsValue(t) ==
    /\ t # <<>>
    /\ \/ \E k \in DOMAIN J!Literals : t = J!Literals[k].text
       \/ IsString(t)
       \/ IsNumber(t)
       \/ t[1] = 91 /\ Last(t) = 93 /\ Len(t) > 1 /\ IsItems(SubSeq(t, 2, Len(t) - 1))
       \/ t[1] = 123 /\ Last(t) = 125 /\ Len(t) > 1 /\ IsMembers(SubSeq(t, 2, Len(t) - 1))

(***************************************************************************)
(* Properties.                                                             *)
(***************************************************************************)
\* The parser of json.rs accepts exactly the texts of the grammar above, however a file was
\* edited, and what it read it reads again from its own rendering.
JsonFaithful ==
    form = "json" =>
      LET r == J!Parse(text)
      IN  /\ r.ok <=> IsValue(Trimmed(text))
          /\ r.ok => J!Parse(J!Render(r.v)) = [r EXCEPT !.at = Len(J!Render(r.v)) + 1]

MessagesIn(lines) ==
    IF R!IsOlderFormat(lines) THEN Len(R!Lenient(R!Ink(lines)[1], "messages", "arr")[1])
    ELSE Cardinality({i \in DOMAIN lines : R!IsObj(lines[i]) /\
                                            R!RequiredString(lines[i], "type") = <<"message">>})
\* A damaged session file is refused, or it is read with every message that is in it; and a
\* session that was read is written to a file that reads as the same session.
RecordsFaithful ==
    form = "records" =>
      LET s == R!LoadText(text, 1, "fresh")
      IN  s # <<>> =>
            /\ Len(s[1].messages) = MessagesIn(text)
            /\ R!Snapshot(s[1]) # <<>>
            /\ R!LoadText(R!Snapshot(s[1])[1], 2, "other") = s

\* The source text of a value: a key on every line, the keys in order.  A token is
\* [text, path], path being that of the key, or empty for what is no key.
Token(t) == <<[text |-> t, path |-> <<>>]>>
RECURSIVE Tokens(_, _)
Tokens(v, path) ==
    CASE v[1] = "obj" ->
           LET keys == SelectSeq(KeyOrder, LAMBDA k : k \in DOMAIN v[2])
               Line(key) == Token("\n") \o <<[text |-> key, path |-> Append(path, key)]>>
                              \o Token(":") \o Tokens(v[2][key], Append(path, key))
           IN  Token("{") \o FlattenSeq([i \in DOMAIN keys |-> Line(keys[i])])
                 \o Token("\n") \o Token("}")
      [] v[1] = "arr" -> FlattenSeq([i \in DOMAIN v[2] |-> Tokens(v[2][i], Append(path, "[]"))])
      [] v[1] = "str" -> Token(v[2])
      [] OTHER -> Token(v[1])
WellTyped(object, table) ==
    \A k \in DOMAIN object :
       \/ k \in C!DeprecatedFields
       \/ k \in DOMAIN table /\ C!Matches(table[k], object[k])
\* A diagnostic points at the line of the key it is about, unless a key of the same name stands
\* further up, in another object: then at the first such key.  And settings without errors
\* have only known fields of the declared types, deprecated names apart.
LinesFaithful ==
    form = "settings" =>
      LET object == text[2]
          tokens == Tokens(text, <<>>)
          source == [i \in DOMAIN tokens |-> tokens[i].text]
          LineOf(i) == 1 + Cardinality({j \in 1 .. i : source[j] = "\n"})
          errors == C!Errors(object, source)
          Own(d) == CHOOSE i \in DOMAIN tokens : tokens[i].path = d.field
          TwinsBefore(i) == {j \in 1 .. i - 1 : tokens[j].path # <<>> /\ source[j] = source[i]}
      IN  /\ \A d \in errors \cup C!Warnings(object, source) :
               IF TwinsBefore(Own(d)) = {} THEN d.line = LineOf(Own(d))
               ELSE \E j \in TwinsBefore(Own(d)) : d.line = LineOf(j) /\ TwinsBefore(j) = {}
          /\ errors = {} => /\ WellTyped(object, [C!TopLevelFields EXCEPT !["permissionMode"] = "str"])
                            /\ \A part \in DOMAIN C!Nested \cap DOMAIN object :
                                  WellTyped(object[part][2], C!Nested[part])

RECURSIVE EditDistance(_, _)
EditDistance(a, b) ==
    IF a = <<>> \/ b = <<>> THEN Len(a) + Len(b)
    ELSE LET swap == EditDistance(Tail(a), Tail(b)) + (IF a[1] = b[1] THEN 0 ELSE 1)
             drop == EditDistance(Tail(a), b) + 1
             add == EditDistance(a, Tail(b)) + 1
         IN  W!Least(swap, W!Least(drop, add))
\* The suggestion for an unknown key is a name no other name is closer than, and there is
\* one exactly when a name is within three edits, capital letters being no edit; the command
\* line puts a name that continues the word, or begins it, before all others.
SuggestionIsNearest ==
    form = "word" =>
      LET best == W!SuggestField(text, Candidates)
          away == [k \in DOMAIN Candidates |-> EditDistance(W!Lower(text), W!Lower(Candidates[k]))]
          related == {k \in DOMAIN Candidates : IsPrefix(text, Candidates[k])
                                                  \/ IsPrefix(Candidates[k], text)}
          cli == W!SuggestClosestTerm(text, {Candidates[k] : k \in DOMAIN Candidates})
      IN  /\ best = <<>> <=> \A k \in DOMAIN Candidates : away[k] > 3
          /\ best # <<>> => \E b \in DOMAIN Candidates :
                              best[1] = Candidates[b] /\ \A k \in DOMAIN Candidates : away[b] <= away[k]
          /\ text # <<>> /\ related # {} => cli[1] \in {Candidates[k] : k \in related}

\* What claw tells the user about settings or a key it does not accept points at the line of
\* the key, twins further up apart, and at the nearest name.
DiagnosticsFaithful == LinesFaithful /\ SuggestionIsNearest

Words(t) == {t[k] : k \in DOMAIN t} \ S!White
HasEmptyLine(m) == \E k \in DOMAIN m.blocks : \E i \in DOMAIN S!Lines(m.blocks[k].text) :
                      S!IsBlank(S!Lines(m.blocks[k].text)[i])
Headings == {"Conversation summary:", "Conversation summary", "<summary>", "</summary>"}
\* A compaction carries every word of the summary that was there over to the new one, and
\* every word of the messages it removes that the cut of a text to its limit leaves.  Words
\* are lost in one case: there was a summary, and the message or one removed before it
\* holds an empty line, where the timeline of a merge ends.
NothingLostSilently ==
    [][form = "chat" /\ text'.said = text.said =>
         LET before == text.messages
             existing == S!ExistingSummary(before[1])
             removed == SubSeq(before, Len(existing) + 1, Len(before) - Len(text'.messages) + 1)
             summary == Words(S!ExistingSummary(text'.messages[1])[1])
             shown(m) == UNION {Words(S!Truncate(m.blocks[k].text, Short)) :
                                  k \in {b \in DOMAIN m.blocks : m.blocks[b].kind = "text"}}
         IN  /\ \A k \in DOMAIN existing : Words(existing[k]) \ Headings \subseteq summary
             /\ \A i \in DOMAIN removed :
                   \/ shown(removed[i]) \subseteq summary
                   \/ existing # <<>> /\ \E j \in 1 .. i : HasEmptyLine(removed[j])]_vars

\* The instruction files of a prompt keep to the budget and two markers (a file that is cut
\* to what remains may be cut again to the size of a file); every file with text is shown,
\* or its text is that of a file before it, or the prompt says that something was left out,
\* which happens only when the budget is used up.  Work that is not committed shows under the
\* heading of each command that tells of it, whichever other commands fail, with one
\* exception: of the two diffs neither shows unless both of their commands succeed.  What
\* comes from instruction files stands behind the boundary that ends the part common to all
\* prompts.
PromptWhole ==
    form = "project" =>
      LET found == P!DiscoverInstructionFiles(Cwd, text.files)
          prompt == P!SystemPrompt(found)
          r == P!RenderFiles(found[1])
          total == FoldLeft(LAMBDA acc, f : acc + f.chars, 0, r.shown)
          inked == {p \in InstructionFiles : text.files[p].size > 0}
          g == text.git
          Shows(heading) == \E k \in DOMAIN P!ProjectSections(g, found[1]) :
                              P!ProjectSections(g, found[1])[k] = heading
          Tells(output) == output # <<>> /\ output # <<"">>
      IN  IF prompt = <<>> THEN \E p \in InstructionFiles : text.files[p].kind = "unreadable"
          ELSE /\ inked # {} => \E j, k \in DOMAIN prompt[1] :
                    j < k /\ prompt[1][j] = "boundary" /\ prompt[1][k] = "instructions"
               /\ Tells(g.status) => Shows("status")
               /\ g.inside /\ g.names # <<>> => Shows("staged files")
               /\ Tells(g.staged) => Shows("staged diff") \/ g.unstaged = <<>>
               /\ Tells(g.unstaged) => Shows("unstaged diff") \/ g.staged = <<>>
               /\ total <= MaxTotal + 2 * MarkerSize
               /\ \A p \in inked : \/ \E k \in DOMAIN r.shown : r.shown[k].path = p
                                   \/ \E q \in inked \ {p} : text.files[q].text = text.files[p].text
                                   \/ r.omitted /\ total >= MaxTotal
=============================================================================
