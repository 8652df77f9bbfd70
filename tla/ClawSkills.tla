----------------------------- MODULE ClawSkills -----------------------------
(***************************************************************************)
(* commands/src/lib.rs: where skills and agents are looked for, which of   *)
(* several of one name is active, what the arguments of claw skills and    *)
(* claw agents ask for, and the name a skill is installed under.           *)
(*                                                                         *)
(* A directory is a sequence of names.  An entry of a directory is         *)
(* [file, kind, name]: kind is "skill" for a directory with a readable     *)
(* SKILL.md, "md" and "toml" for such files, "broken" for what should be   *)
(* read but cannot be, "other" for the rest; file is its name without      *)
(* extension and name the name that it declares, an option.                *)
(***************************************************************************)
EXTENDS Integers, Sequences, FiniteSets, SequencesExt

CONSTANTS LowerCase,      \* name |-> the name in lower case
          NameRank        \* name |-> its place in the order of names

Ancestors(cwd) == [k \in 1 .. Len(cwd) + 1 |-> SubSeq(cwd, 1, Len(cwd) + 1 - k)]
Root(source, path, origin) == [source |-> source, path |-> path, origin |-> origin]

SkillRootsAt(dir) ==
    <<Root("ProjectClaw", dir \o <<".claw", "skills">>, "SkillsDir"),
      Root("ProjectClaw", dir \o <<".omc", "skills">>, "SkillsDir"),
      Root("ProjectClaw", dir \o <<".agents", "skills">>, "SkillsDir"),
      Root("ProjectCodex", dir \o <<".codex", "skills">>, "SkillsDir"),
      Root("ProjectClaude", dir \o <<".claude", "skills">>, "SkillsDir"),
      Root("ProjectClaw", dir \o <<".claw", "commands">>, "LegacyCommandsDir"),
      Root("ProjectCodex", dir \o <<".codex", "commands">>, "LegacyCommandsDir"),
      Root("ProjectClaude", dir \o <<".claude", "commands">>, "LegacyCommandsDir")>>
\* env: the variables that are set, each an option of a directory
SkillRootsOf(env) ==
    FlattenSeq([k \in DOMAIN env.claude |->
      <<Root("UserClaude", env.claude[k] \o <<"skills">>, "SkillsDir"),
        Root("UserClaude", env.claude[k] \o <<"skills", "omc-learned">>, "SkillsDir"),
        Root("UserClaude", env.claude[k] \o <<"commands">>, "LegacyCommandsDir")>>])
DefinitionRootsAt(dir, leaf) ==
    <<Root("ProjectClaw", dir \o <<".claw", leaf>>, leaf),
      Root("ProjectCodex", dir \o <<".codex", leaf>>, leaf),
      Root("ProjectClaude", dir \o <<".claude", leaf>>, leaf)>>
DefinitionRootsOf(env, leaf) ==
    LET under(source, dirs, sub) ==
          [k \in DOMAIN dirs |-> Root(source, dirs[k] \o sub \o <<leaf>>, leaf)]
    IN  under("UserClawConfigHome", env.claw, <<>>) \o under("UserCodexHome", env.codex, <<>>)
          \o under("UserClaude", env.claude, <<>>) \o under("UserClaw", env.home, <<".claw">>)
          \o under("UserCodex", env.home, <<".codex">>)
          \o under("UserClaude", env.home, <<".claude">>)
\* Mutant of PushUnique: a directory is taken again
PushAlways(roots, dirs) == SelectSeq(roots, LAMBDA r : r.path \in dirs)
\* the directories that exist, each where it comes first
PushUnique(roots, dirs) ==
    FoldLeft(LAMBDA acc, r : IF r.path \in dirs /\ ~\E k \in DOMAIN acc : acc[k].path = r.path
                             THEN Append(acc, r) ELSE acc, <<>>, roots)
DiscoverSkillRoots(cwd, env, dirs) ==
    PushUnique(FlattenSeq([k \in DOMAIN Ancestors(cwd) |-> SkillRootsAt(Ancestors(cwd)[k])])
                 \o SkillRootsOf(env), dirs)
DiscoverDefinitionRoots(cwd, env, dirs, leaf) ==
    PushUnique(FlattenSeq([k \in DOMAIN Ancestors(cwd) |-> DefinitionRootsAt(Ancestors(cwd)[k], leaf)])
                 \o DefinitionRootsOf(env, leaf), dirs)

(***************************************************************************)
(* Loading.                                                                *)
(***************************************************************************)
Declared(entry, fallback) == IF entry.name = <<>> THEN fallback ELSE entry.name[1]
\* parse_skill_frontmatter: the last name that is not empty before the second rule; a line
\* is "rule", "text" or [name |-> n]
FrontmatterName(lines) ==
    IF lines = <<>> \/ lines[1] # <<"rule">> THEN <<>>
    ELSE LET rules == {k \in DOMAIN lines \ {1} : lines[k] = <<"rule">>}
             end == IF rules = {} THEN Len(lines) + 1
                    ELSE CHOOSE k \in rules : \A j \in rules : k <= j
             named == {k \in 2 .. end - 1 : lines[k][1] = "name" /\ lines[k][2] # ""}
         IN  IF named = {} THEN <<>>
             ELSE <<lines[CHOOSE k \in named : \A j \in named : j <= k][2]>>
SkillIn(root, entry) ==
    CASE root.origin = "SkillsDir" /\ entry.kind = "skill" -> <<Declared(entry, entry.file)>>
      [] root.origin = "LegacyCommandsDir" /\ entry.kind = "skill" -> <<Declared(entry, "SKILL")>>
      [] root.origin = "LegacyCommandsDir" /\ entry.kind = "md" -> <<Declared(entry, entry.file)>>
      [] OTHER -> <<>>
\* What an agent's file declares is lost: parse_toml_string takes a quote from the front
\* twice, and none from the end.
AgentIn(root, entry) == IF entry.kind = "toml" THEN <<entry.file>> ELSE <<>>
DefinitionIn(leaf, root, entry) ==
    IF leaf = "skills" THEN SkillIn(root, entry) ELSE AgentIn(root, entry)
\* the definitions of one root, in the order of their names
InRoot(leaf, root, entries) ==
    LET found == {[name |-> DefinitionIn(leaf, root, e)[1], source |-> root.source,
                   path |-> root.path, file |-> e.file, kind |-> e.kind] :
                    e \in {x \in entries : DefinitionIn(leaf, root, x) # <<>>}}
    IN  SetToSortSeq(found, LAMBDA a, b : NameRank[a.name] <= NameRank[b.name])
Shadow(before, d) ==
    [d EXCEPT !.shadowed = \E k \in DOMAIN before : LowerCase[before[k].name] = LowerCase[d.name]]
\* The first of a name is active, the others are shadowed by it; whatever cannot be read is
\* an error of the whole.
Load(leaf, roots, entriesOf) ==
    IF \E k \in DOMAIN roots : \E e \in entriesOf[roots[k].path] : e.kind = "broken" THEN <<>>
    ELSE LET all == FlattenSeq([k \in DOMAIN roots |->
                                  InRoot(leaf, roots[k], entriesOf[roots[k].path])])
         IN  <<FoldLeft(LAMBDA acc, d : Append(acc, Shadow(acc, d @@ [shadowed |-> FALSE])),
                        <<>>, all)>>
LoadSkillsFromRoots(roots, entriesOf) == Load("skills", roots, entriesOf)
LoadAgentsFromRoots(roots, entriesOf) == Load("agents", roots, entriesOf)
ReportScope(source) ==
    CASE source \in {"ProjectClaw", "ProjectCodex", "ProjectClaude"} -> "Project"
      [] source \in {"UserClawConfigHome", "UserCodexHome"} -> "UserConfigHome"
      [] source \in {"UserClaw", "UserCodex", "UserClaude"} -> "UserHome"
\* the report: how many are active, and the groups that are not empty, each in order
Render(definitions) ==
    LET Group(scope) == SelectSeq(definitions, LAMBDA d : ReportScope(d.source) = scope)
    IN  [active |-> Len(SelectSeq(definitions, LAMBDA d : ~d.shadowed)),
         lines |-> Group("Project") \o Group("UserConfigHome") \o Group("UserHome")]

(***************************************************************************)
(* The arguments, as words.  Prefixed are the words that only start with   *)
(* show, info or describe, which the text report takes for them.           *)
(***************************************************************************)
HelpWords == {"help", "-h", "--help"}
ShowWords == {"show", "info", "describe"}
HelpPath(words) == IF \E k \in DOMAIN words : words[k] \in HelpWords
                   THEN <<SubSeq(words, 1, (CHOOSE k \in DOMAIN words :
                            /\ words[k] \in HelpWords
                            /\ \A j \in 1 .. k - 1 : words[j] \notin HelpWords) - 1)>>
                   ELSE <<>>
Usage(unexpected) == [do |-> "usage", of |-> unexpected]
SkillsRequest(words, prefixed) ==
    LET help == HelpPath(words)
        shows == ShowWords \cup prefixed
    IN  CASE help # <<>> ->
               Usage(IF help[1] # <<>> /\ help[1][1] = "install" THEN <<"install">> ELSE help[1])
          [] help = <<>> /\ words \in {<<>>, <<"list">>} -> [do |-> "list", of |-> <<>>]
          [] help = <<>> /\ Len(words) > 1 /\ words[1] = "list" ->
               [do |-> "filter", of |-> Tail(words)]
          [] help = <<>> /\ Len(words) = 1 /\ words[1] \in ShowWords -> [do |-> "list", of |-> <<>>]
          [] help = <<>> /\ words # <<>> /\ words[1] \in shows
               /\ ~(Len(words) = 1 /\ words[1] \in ShowWords) ->
               [do |-> "show", of |-> Tail(words)]
          [] help = <<>> /\ words = <<"install">> -> Usage(words)
          [] help = <<>> /\ Len(words) > 1 /\ words[1] = "install" ->
               [do |-> "install", of |-> Tail(words)]
          [] OTHER -> Usage(words)
\* The JSON report wants the whole word.
SkillsRequestJson(words) == SkillsRequest(words, {})
AgentsRequest(words) ==
    CASE HelpPath(words) # <<>> -> Usage(HelpPath(words)[1])
      [] HelpPath(words) = <<>> /\ words \in {<<>>, <<"list">>} -> [do |-> "list", of |-> <<>>]
      [] OTHER -> Usage(words)
\* claw mcp: loads says whether the settings load
McpRequest(words, loads) ==
    LET help == HelpPath(words)
    IN  CASE help # <<>> ->
               Usage(IF help[1] # <<>> /\ help[1][1] = "show" THEN <<"show">> ELSE help[1])
          [] help = <<>> /\ words \in {<<>>, <<"list">>} ->
               [do |-> "list", status |-> IF loads THEN "ok" ELSE "degraded"]
          [] help = <<>> /\ words = <<"show">> -> Usage(words)
          [] help = <<>> /\ Len(words) = 2 /\ words[1] = "show" ->
               [do |-> "show", status |-> IF loads THEN "ok" ELSE "degraded", of |-> words[2]]
          [] help = <<>> /\ Len(words) > 1 /\ words[1] = "list" -> [do |-> "error", of |-> words]
          [] help = <<>> /\ words # <<>> /\ words[1] \in {"info", "describe"} ->
               [do |-> "error", of |-> words]
          [] OTHER -> Usage(words)

(***************************************************************************)
(* Names to install under.  A character is one of the small letters and    *)
(* digits, "A" for a capital, " ", "/", "$", a mark "-" or ".", or "!".    *)
(***************************************************************************)
Marks == {"-", "_", "."}
Lower(c) == IF c = "A" THEN "a" ELSE c
TrimStart(t, chars) == LET inked == {k \in DOMAIN t : t[k] \notin chars}
                       IN  IF inked = {} THEN <<>>
                           ELSE SubSeq(t, CHOOSE k \in inked : \A j \in inked : k <= j, Len(t))
TrimEnd(t, chars) == Reverse(TrimStart(Reverse(t), chars))
Trim(t, chars) == TrimStart(TrimEnd(t, chars), chars)
Kept(acc, c) ==
    CASE c \in Marks \cup {"a", "b", "1", "A"} ->
           [text |-> Append(acc.text, Lower(c)), separated |-> FALSE]
      [] c \in {" ", "/"} /\ ~acc.separated /\ acc.text # <<>> ->
           [text |-> Append(acc.text, "-"), separated |-> TRUE]
      [] OTHER -> acc
\* an option: nothing is left of some names
SanitizeSkillInvocationName(candidate) ==
    LET trimmed == TrimStart(TrimStart(Trim(candidate, {" "}), {"/"}), {"$"})
        kept == FoldLeft(Kept, [text |-> <<>>, separated |-> FALSE], trimmed)
        clean == Trim(kept.text, Marks)
    IN  IF clean = <<>> THEN <<>> ELSE <<clean>>
\* the declared name if anything is left of it, else that of the file or directory
DeriveSkillInstallName(declared, fallback) ==
    LET fromDeclared == IF declared = <<>> THEN <<>> ELSE SanitizeSkillInvocationName(declared[1])
    IN  IF fromDeclared # <<>> THEN fromDeclared ELSE SanitizeSkillInvocationName(fallback)
=============================================================================
