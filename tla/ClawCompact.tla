---------------------------- MODULE ClawCompact ----------------------------
(***************************************************************************)
(* compact_session of                                                      *)
(* Rust/handwritten-claw-code/rust/crates/runtime/src/compact.rs.          *)
(*                                                                         *)
(* A message is a record: its kind, as far as compaction looks at it       *)
(* ("summary": a System message that starts with the continuation          *)
(* preamble; "use": some block is a ToolUse; "result": the first block is  *)
(* a ToolResult; "text": anything else), ids, the messages of the          *)
(* conversation it stands for: itself, or those with a line in the         *)
(* timeline of a summary, and gaps, those among them that make an empty    *)
(* line there: texts, inputs or results of several paragraphs, or with a   *)
(* newline at the end.                                                     *)
(***************************************************************************)
EXTENDS Naturals, Sequences, FiniteSets

CONSTANT Preserve  \* CompactionConfig.preserve_recent_messages

\* With 0 the code would index one past the last message.
ASSUME PreserveAssumption == Preserve \in Nat \ {0}

(* extract_existing_compacted_summary finds a summary in front. *)
PrefixLen(m) == IF m # <<>> /\ m[1].kind = "summary" THEN 1 ELSE 0

(* /compact sets max_estimated_tokens to 0, so only the count matters. *)
ShouldCompact(m) == Len(m) - PrefixLen(m) > Preserve

\* Mutant of KeepFrom: the cut is not moved back over a ToolUse.
KeepFromUnadjusted(m) == Len(m) - Preserve

(* How many messages in front are not kept: all but the last Preserve, less
   those needed to keep a tool result with the call it answers. *)
KeepFrom(m) ==
  LET back[k \in 0 .. Len(m) - 1] ==
        IF k <= PrefixLen(m) \/ m[k + 1].kind # "result" THEN k
        ELSE IF m[k].kind = "use" THEN k - 1 ELSE back[k - 1]
  IN back[Len(m) - Preserve]

\* Mutant of Tells: a compaction on top of another tells only what is new.
TellsNew(m) ==
  {i \in PrefixLen(m) + 1 .. KeepFrom(m) :
     PrefixLen(m) = 1 => \A k \in 2 .. i - 1 : m[k].gaps = {}}

(* The messages that the new summary tells.  A first summary has the whole
   timeline.  A later one is merged: the lines of the older summary survive,
   since extract_summary_highlights looks for "-Key timeline:", which no
   summary contains, and takes them all; but extract_summary_timeline reads
   what is new only to the first empty line. *)
Tells(m) ==
  {i \in 1 .. KeepFrom(m) :
     PrefixLen(m) = 1 => \A k \in 2 .. i - 1 : m[k].gaps = {}}

(* merge_compact_summaries and the message made of it; ClawSummary has the
   text itself. *)
Summary(m) ==
  [kind |-> "summary",
   ids |-> UNION {m[i].ids : i \in Tells(m)},
   gaps |-> UNION {m[i].gaps : i \in Tells(m)}]

Compacted(m) ==
  IF ShouldCompact(m)
  THEN <<Summary(m)>> \o SubSeq(m, KeepFrom(m) + 1, Len(m))
  ELSE m

(* What compaction must respect: no tool result without its call in front
   of it; the last messages of a conversation of n in full and in order; and
   the Away(m, n) messages before them in the summary, all but those that a
   merge has lost, which stand right behind one with an empty line. *)
ResultsHaveCalls(m) ==
  \A j \in DOMAIN m : m[j].kind = "result" =>
    \E i \in 1 .. j - 1 : /\ m[i].kind = "use"
                          /\ \A k \in i + 1 .. j - 1 : m[k].kind = "result"

Away(m, n) == n - Len(m) + PrefixLen(m)

LostBehindGap(s, i) == \E g \in s.gaps : g < i /\ s.ids \cap (g + 1 .. i) = {}

InFull(m, n) ==
  \A i \in PrefixLen(m) + 1 .. Len(m) :
    /\ m[i].kind # "summary"
    /\ m[i].ids = {n - Len(m) + i}
    /\ m[i].gaps \subseteq m[i].ids

CoversFirst(m, n) ==
  /\ InFull(m, n)
  /\ IF PrefixLen(m) = 0 THEN Away(m, n) = 0
     ELSE /\ Away(m, n) >= 0
          /\ m[1].gaps \subseteq m[1].ids /\ m[1].ids \subseteq 1 .. Away(m, n)
          /\ \A i \in 1 .. Away(m, n) : i \in m[1].ids \/ LostBehindGap(m[1], i)
=============================================================================
