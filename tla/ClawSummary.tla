----------------------------- MODULE ClawSummary -----------------------------
(***************************************************************************)
(* runtime/src/compact.rs: the text that stands for the messages a         *)
(* compaction removes, how a later compaction merges it with a new one,    *)
(* and how it is found again in the first message.                         *)
(*                                                                         *)
(* A text is a sequence of tokens: words, the tags, the fixed lines, NL    *)
(* and Indent; punctuation and counts are left out.  A message is          *)
(* [role, blocks], a block [kind, name, text].                             *)
(***************************************************************************)
EXTENDS Integers, Sequences, SequencesExt

CONSTANTS Short, Long,      \* 160 and 200: the lengths texts are cut to
          PendingWords,     \* words that announce work: todo, next, pending, ...
          FileWords,        \* words that look like paths of source files
          Sorted(_)         \* the sequence of a set of words in their order

NL == "\n"
Indent == "  "
White == {NL, Indent}
Preamble == "preamble"
Note == "recent messages are preserved"
Resume == "resume directly"
Timeline == "- Key timeline:"
NewlyLine == "- Newly compacted context:"
PreviouslyLine == "- Previously compacted context:"

\* F(x), with x evaluated once
With(x, F(_)) == CHOOSE y \in {F(z) : z \in {x}} : TRUE
Lowest(S) == CHOOSE x \in S : \A y \in S : x <= y
Find(t, pat) == LET at == {i \in 1 .. Len(t) - Len(pat) + 1 :
                             t[i] = pat[1] /\ SubSeq(t, i, i + Len(pat) - 1) = pat}
                IN  IF at = {} THEN 0 ELSE Lowest(at)
Before(t, pat) ==
    With(t, LAMBDA u : IF Find(u, pat) = 0 THEN u ELSE SubSeq(u, 1, Find(u, pat) - 1))
TrimEnd(t) == LET ink == {i \in DOMAIN t : t[i] \notin White}
              IN  SubSeq(t, 1, IF ink = {} THEN 0 ELSE Len(t) - Lowest({Len(t) - i : i \in ink}))
Trim(t) == LET ink == {i \in DOMAIN t : t[i] \notin White}
           IN  IF ink = {} THEN <<>> ELSE TrimEnd(SubSeq(t, Lowest(ink), Len(t)))
IsBlank(t) == Trim(t) = <<>>
Positions(s) == [k \in DOMAIN s |-> k]
\* lines(): what follows the last newline is a line unless it is empty
Lines(t) ==
    LET cuts == SelectSeq(Positions(t), LAMBDA i : t[i] = NL)
        all == [k \in 1 .. Len(cuts) + 1 |->
                  SubSeq(t, IF k = 1 THEN 1 ELSE cuts[k - 1] + 1,
                            IF k > Len(cuts) THEN Len(t) ELSE cuts[k] - 1)]
    IN  IF Last(all) = <<>> THEN Front(all) ELSE all
JoinLines(ls) == FlattenSeq([k \in DOMAIN ls |-> IF k = 1 THEN ls[k] ELSE <<NL>> \o ls[k]])

(***************************************************************************)
(* Showing a summary.                                                      *)
(***************************************************************************)
StripAnalysis(t) ==
    LET start == Find(t, <<"<analysis>">>)
        end == Find(t, <<"</analysis>">>)
    IN  IF start = 0 \/ end = 0 THEN t
        ELSE SubSeq(t, 1, start - 1) \o SubSeq(t, end + 1, Len(t))
\* a blank line behind a blank line goes
Collapse(t) ==
    LET ls == Lines(t)
        kept == SelectSeq(Positions(ls), LAMBDA k : ~(k > 1 /\ IsBlank(ls[k]) /\ IsBlank(ls[k - 1])))
    IN  FlattenSeq([k \in DOMAIN kept |-> Append(ls[kept[k]], NL)])
\* <summary>content</summary> becomes a title line and the content
Titled(t) ==
    LET start == Find(t, <<"<summary>">>)
        len == Find(SubSeq(t, start + 1, Len(t)), <<"</summary>">>)
    IN  IF start = 0 \/ len = 0 THEN t
        ELSE SubSeq(t, 1, start - 1) \o <<"Summary:", NL>>
               \o Trim(SubSeq(t, start + 1, start + len - 1))
               \o SubSeq(t, start + len + 1, Len(t))
Format(summary) == With(With(With(With(summary, StripAnalysis), Titled), Collapse), Trim)

Continuation(summary, suppressQuestions, preserved) ==
    <<Preamble>> \o Format(summary)
      \o (IF preserved THEN <<NL, NL, Note>> ELSE <<>>)
      \o (IF suppressQuestions THEN <<NL, Resume>> ELSE <<>>)

\* the first text block that is not blank
FirstText(m) == LET texts == SelectSeq(m.blocks, LAMBDA b : b.kind = "text" /\ ~IsBlank(b.text))
                IN  IF texts = <<>> THEN <<>> ELSE <<Head(texts).text>>
\* The summary a continuation message carries, as an option.
ExistingSummary(m) ==
    IF m.role # "system" \/ FirstText(m) = <<>> \/ Head(FirstText(m)[1]) # Preamble THEN <<>>
    ELSE <<Trim(Before(Before(Tail(FirstText(m)[1]), <<NL, NL, Note>>), <<NL, Resume>>))>>

(***************************************************************************)
(* A new summary of messages.                                              *)
(***************************************************************************)
Truncate(t, max) == IF Len(t) <= max THEN t ELSE Append(SubSeq(t, 1, max), "...")
SummarizeBlock(b) ==
    Truncate(CASE b.kind = "text"     -> b.text
               [] b.kind = "thinking" -> <<"thinking">>
               [] OTHER               -> <<b.kind, b.name>> \o b.text, Short)
TextsOf(messages) == FlattenSeq([k \in DOMAIN messages |-> FirstText(messages[k])])
LastOf(s, n) == SubSeq(s, IF Len(s) > n THEN Len(s) - n + 1 ELSE 1, Len(s))
Cut(texts, max) == [k \in DOMAIN texts |-> Truncate(texts[k], max)]

RecentRequests(messages) ==
    Cut(LastOf(TextsOf(SelectSeq(messages, LAMBDA m : m.role = "user")), 3), Short)
PendingWork(messages) ==
    Cut(LastOf(SelectSeq(TextsOf(messages), LAMBDA t : \E k \in DOMAIN t : t[k] \in PendingWords), 3),
        Short)
CurrentWork(messages) == Cut(LastOf(TextsOf(messages), 1), Long)
AllBlocks(messages) == FlattenSeq([k \in DOMAIN messages |-> messages[k].blocks])
TokensOf(b) == {b.text[i] : i \in DOMAIN b.text}
KeyFiles(messages) ==
    LET blocks == AllBlocks(messages)
        files == Sorted(FileWords \cap UNION {TokensOf(blocks[k]) : k \in DOMAIN blocks})
    IN  SubSeq(files, 1, IF Len(files) < 8 THEN Len(files) ELSE 8)
ToolNames(messages) ==
    LET tools == SelectSeq(AllBlocks(messages), LAMBDA b : b.kind \in {"tool_use", "tool_result"})
    IN  Sorted({tools[k].name : k \in DOMAIN tools})

Section(title, items) ==
    IF items = <<>> THEN <<>>
    ELSE <<<<title>>>> \o [k \in DOMAIN items |-> <<Indent>> \o items[k]]
OneLine(title, tokens) == IF tokens = <<>> THEN <<>> ELSE <<<<title>> \o tokens>>
TimelineLine(m) ==
    <<Indent, m.role>> \o FlattenSeq([k \in DOMAIN m.blocks |-> SummarizeBlock(m.blocks[k])])
Summarize(messages) ==
    JoinLines(<<<<"<summary>">>, <<"Conversation summary:">>, <<"- Scope:">>>>
                \o OneLine("- Tools mentioned:", ToolNames(messages))
                \o Section("- Recent user request:", RecentRequests(messages))
                \o Section("- Pending work:", PendingWork(messages))
                \o OneLine("- Key files referenced:", KeyFiles(messages))
                \o OneLine("- Current work:", FlattenSeq(CurrentWork(messages)))
                \o <<<<Timeline>>>>
                \o [k \in DOMAIN messages |-> TimelineLine(messages[k])]
                \o <<<<"</summary>">>>>)

(***************************************************************************)
(* Merging.                                                                *)
(***************************************************************************)
\* Mutant of Highlights: the lines stop at the timeline, indented or not
HighlightsToTimeline(summary) ==
    LET ls == Lines(Format(summary))
        stop == {k \in DOMAIN ls : \E i \in DOMAIN ls[k] : ls[k][i] = Timeline}
    IN  SubSeq(ls, 1, IF stop = {} THEN Len(ls) ELSE Lowest(stop) - 1)
\* The code looks for "-Key timeline:", which no summary holds: nothing is left out but
\* blank lines and the headings "Summary" (never there) and "Conversation summary:".
Highlights(summary) ==
    SelectSeq(Lines(Format(summary)),
              LAMBDA line : TrimEnd(line) \notin {<<>>, <<"Summary">>, <<"Conversation summary:">>})
\* Behind the heading, to the first blank line.
TimelineOf(summary) ==
    LET ls == Lines(Format(summary))
        heads == {k \in DOMAIN ls : TrimEnd(ls[k]) = <<Timeline>>}
        blanks == {k \in DOMAIN ls : \E h \in heads : h < k /\ TrimEnd(ls[k]) = <<>>}
        end == IF blanks = {} THEN Len(ls) ELSE Lowest(blanks) - 1
    IN  IF heads = {} THEN <<>>
        ELSE SelectSeq(SubSeq(ls, Lowest(heads) + 1, end), LAMBDA l : TrimEnd(l) # <<Timeline>>)
Indented(ls) == [k \in DOMAIN ls |-> <<Indent>> \o TrimEnd(ls[k])]
\* The lines below "- Newly compacted context:" are those of the timeline, not new highlights.
Merge(existing, new) ==
    IF existing = <<>> THEN new
    ELSE LET old == Indented(Highlights(existing[1]))
             timeline == With(Format(new), LAMBDA t : Indented(TimelineOf(t)))
         IN  JoinLines(<<<<"<summary>">>, <<"Conversation summary">>>>
                         \o (IF old = <<>> THEN <<>> ELSE <<<<PreviouslyLine>>>> \o old)
                         \o (IF With(Format(new), Highlights) = <<>> THEN <<>>
                             ELSE <<<<NewlyLine>>>> \o timeline)
                         \o (IF timeline = <<>> THEN <<>> ELSE <<<<Timeline>>>> \o timeline)
                         \o <<<<"</summary>">>>>)

\* compact_session with the cut behind the first `removed` messages
CompactAt(messages, cut) ==
    LET kept == SubSeq(messages, cut + 1, Len(messages))
        SummaryOver(existing) ==
          With(Summarize(SubSeq(messages, Len(existing) + 1, cut)),
               LAMBDA new : Merge(existing, new))
        summary == With(ExistingSummary(messages[1]), SummaryOver)
    IN  <<[role |-> "system",
           blocks |-> <<[kind |-> "text", name |-> "",
                         text |-> Continuation(summary, TRUE, kept # <<>>)]>>]>> \o kept
=============================================================================
