------------------------------ MODULE ClawMain ------------------------------
(***************************************************************************)
(* What claw is started with and finds, and what it makes of it.  form     *)
(* says which input a behaviour is about; a user, or a client, changes it  *)
(* one step at a time:                                                     *)
(*   argv     the words of the command line                                *)
(*   stdin    what a client writes to claw mcp serve                       *)
(*   resume   the session files of a workspace, and the commands to resume *)
(*   roots    the directories of skills and agents                         *)
(*   name     the name that a skill declares                               *)
(*   install  the registry of skills, see ClawInstall                      *)
(***************************************************************************)
EXTENDS ClawInstall, Integers, Sequences, SequencesExt

CONSTANTS EqParts, Dashed, Slashed, Blank, KnownTools,       \* ClawCli
          CommandLineWords, Environments,
          Bodies, SizeOf, Tools, MaxLength,                           \* ClawMcp
          PreserveRecent, CommandRoot,                                      \* ClawStore
          Workspace, Paths, Roots, Updates, Conversation,
          LowerCase, NameRank, Cwd, Env, Dirs, FileNames, FrontMatters,  \* ClawSkills
          Requests, Characters,
          MaxWords, MaxEdits   \* bounds: words or characters typed, other changes made

Cli == INSTANCE ClawCli
Mcp == INSTANCE ClawMcp
Store == INSTANCE ClawStore WITH Preserve <- PreserveRecent
Skills == INSTANCE ClawSkills

\* A word "flag=value" is none of the flags themselves, and no subcommand has a slash.
ASSUME CommandLineAssumption ==
    /\ EqParts \in [DOMAIN EqParts -> STRING \X STRING]
    /\ \A w \in DOMAIN EqParts :
         w \notin Cli!ValueFlags \cup {"--help", "-h", "--version", "-V", "--print", "--resume",
                                     "--dangerously-skip-permissions", "-p"}
    /\ Slashed \cap Cli!Subcommands = {}

\* A body is not empty.
ASSUME ServerAssumption ==
    /\ SizeOf \in [DOMAIN Bodies -> Nat \ {0}]
    /\ MaxLength \in Nat

\* A session that was saved has a time, and at most one root.
ASSUME SessionFilesAssumption ==
    /\ Paths \subseteq [dir : {p.dir[1] : p \in Paths} \X {"own", "legacy", "files"}, id : Nat,
                        ext : {"jsonl", "json", ""}, bak : {0}]
    /\ Updates \subseteq Nat \ {0}
    /\ \A r \in Roots : r = <<>> \/ r = <<r[1]>>

VARIABLES form, text, edits
mainVars == <<form, text, edits, installVars>>

MainInit ==
    /\ edits = 0
    /\ InstallInit
    /\ \/ form = "install" /\ text = <<>>
       \/ /\ \A p, q \in Installers : src[p] = src[q]
          /\ \/ form = "argv" /\ \E env \in Environments : text = [args |-> <<>>, env |-> env]
             \/ form = "stdin" /\ text = [sent |-> <<>>, ends |-> <<>>, in |-> <<>>, cut |-> FALSE,
                                          miscounted |-> 0, length |-> 0]
             \/ form = "resume" /\ text = [files |-> <<>>, commands |-> <<>>]
             \/ form = "roots" /\ text = [d \in Dirs |-> {}]
             \/ form = "name" /\ text = <<>>

Edit(f, bound) == /\ form = f /\ edits < bound /\ edits' = edits + 1
                  /\ UNCHANGED <<form, installVars>>

TypeArg == /\ Edit("argv", MaxWords)
           /\ \E w \in CommandLineWords : text' = [text EXCEPT !.args = Append(@, w)]

(***************************************************************************)
(* The client of claw mcp serve.  It may get one length wrong, and be      *)
(* killed in the middle of a frame.                                        *)
(***************************************************************************)
BodyOf(f) == [k \in 1 .. SizeOf[f] |-> <<"body", f, k>>]
FrameOf(f, headers, length) == headers \o <<<<"length", length>>, <<"blank">>>> \o BodyOf(f)
WithFrame(f, frame) == [text EXCEPT !.sent = Append(@, f), !.in = @ \o frame,
                                   !.ends = Append(@, Len(text.in) + Len(frame))]
Send == /\ Edit("stdin", MaxEdits) /\ ~text.cut
        /\ \E f \in DOMAIN Bodies, headers \in {<<>>, <<<<"header">>>>} :
              text' = WithFrame(f, FrameOf(f, headers, SizeOf[f]))
SendMiscounted ==
    /\ Edit("stdin", MaxEdits) /\ ~text.cut /\ text.miscounted = 0
    /\ \E f \in DOMAIN Bodies : \E n \in (-1 .. MaxLength) \ {SizeOf[f]} :
          text' = [WithFrame(f, FrameOf(f, <<>>, n)) EXCEPT !.miscounted = Len(text.sent) + 1,
                                                           !.length = n]
Killed == /\ Edit("stdin", MaxEdits) /\ ~text.cut
          /\ \E n \in 0 .. Len(text.in) - 1 :
                text' = [text EXCEPT !.in = SubSeq(@, 1, n), !.cut = TRUE]

(***************************************************************************)
(* The files of a workspace.                                               *)
(***************************************************************************)
SavedFile(path, parses, root, upd) ==
    [parses |-> parses, root |-> root, id |-> path.id, upd |-> upd, mt |-> edits + 1,
     msgs |-> Conversation]
PutFile(path, s) == text' = [text EXCEPT !.files = Store!Write(@, path, s)]
SaveSession == /\ Edit("resume", MaxEdits)
               /\ \E p \in Paths, root \in Roots, upd \in Updates :
                     PutFile(p, SavedFile(p, TRUE, root, upd))
Garble == /\ Edit("resume", MaxEdits)
          /\ \E p \in Paths : PutFile(p, SavedFile(p, FALSE, <<>>, 0))
TypeCommand == /\ Edit("resume", MaxEdits)
               /\ \E c \in DOMAIN CommandRoot : text' = [text EXCEPT !.commands = Append(@, c)]

\* a file of skills or agents is written, over what was there; or one that cannot be read
WriteDefinition ==
    /\ Edit("roots", MaxEdits)
    /\ \E d \in Dirs, f \in FileNames, kind \in {"skill", "md", "toml"}, lines \in FrontMatters :
          text' = [text EXCEPT ![d] = {e \in @ : <<e.file, e.kind>> # <<f, kind>>} \cup
                     {[file |-> f, kind |-> kind, name |-> Skills!FrontmatterName(lines)]}]
WriteBroken ==
    /\ Edit("roots", MaxEdits)
    /\ \E d \in Dirs :
          text' = [text EXCEPT ![d] = @ \cup {[file |-> "z", kind |-> "broken", name |-> <<>>]}]

TypeCharacter == /\ Edit("name", MaxWords)
                 /\ \E c \in Characters : text' = Append(text, c)

Install == form = "install" /\ InstallNext /\ UNCHANGED <<form, text, edits>>

MainNext == \/ TypeArg \/ Send \/ SendMiscounted \/ Killed
        \/ SaveSession \/ Garble \/ TypeCommand
        \/ WriteDefinition \/ WriteBroken \/ TypeCharacter \/ Install
MainSpec == MainInit /\ [][MainNext]_mainVars

(***************************************************************************)
(* Properties.                                                             *)
(***************************************************************************)
\* A word is the value of the flag before it if an odd number of flags that take a value
\* stand directly before it.
IsValueAt(args, i) ==
    LET others == {k \in 1 .. i - 1 : args[k] \notin Cli!ValueFlags}
        run == IF others = {} THEN i - 1 ELSE i - 1 - CHOOSE k \in others : \A j \in others : j <= k
    IN  run % 2 = 1
ModeFlags(args) ==
    LET free == {i \in DOMAIN args : ~IsValueAt(args, i)}
    IN  {i \in free : \A k \in free : args[k] = "-p" => i < k}
ModesAskedAt(args, i) ==
    CASE args[i] = "--dangerously-skip-permissions" -> {"danger-full-access"}
      [] args[i] = "--permission-mode" /\ i < Len(args) ->
           {Cli!NormalizePermissionMode(args[i + 1])[1]}
      [] args[i] \in DOMAIN EqParts /\ EqParts[args[i]][1] = "--permission-mode" ->
           {Cli!NormalizePermissionMode(EqParts[args[i]][2])[1]}
      [] OTHER -> {}
\* Whatever runs under a permission mode runs under the mode that the command line asks for
\* last, wherever it stands before "-p" and if it is no flag's value, and else under the
\* default: no order of words widens it.
ModeAsAsked ==
    form = "argv" =>
      LET args == text.args
          action == Cli!ParseArgs(args, text.env)
          asked == {i \in ModeFlags(args) : ModesAskedAt(args, i) # {}}
      IN  action.kind \in {"prompt", "repl", "status"} =>
            action.mode \in
              IF asked = {} THEN {Cli!DefaultPermissionMode(text.env)}
              ELSE ModesAskedAt(args, CHOOSE i \in asked : \A j \in asked : j <= i)

AnswersTo(frames) == FlattenSeq([k \in DOMAIN frames |-> Mcp!Answers(Bodies[frames[k]])])
\* the frames that arrive whole, and those before a length that is wrong
Arrived == {k \in DOMAIN text.sent : text.ends[k] <= Len(text.in)}
Sound == {k \in Arrived : text.miscounted # 0 => k < text.miscounted}
\* What arrives whole is answered, once and in order, and the server ends well exactly when
\* its input ends between two frames.  Behind a length that is wrong, answers are lost but
\* never made up: one refusal, then nothing, or all that arrives whole from some frame on.
\* Behind one that is too short no frame is guessed at: the server stops, unless the length
\* of the next frame is not its first header.
AnsweredInOrder ==
    form = "stdin" =>
      LET served == Mcp!Serve(text.in)
          wrong == text.miscounted
          before == AnswersTo(SubSeq(text.sent, 1, Cardinality(Sound)))
          refused == Append(before, Mcp!Response("null", -32700))
          lengthFirst == \/ wrong = Len(text.sent) /\ ~text.cut
                         \/ /\ text.ends[wrong] < Len(text.in)
                            /\ text.in[text.ends[wrong] + 1][1] = "length"
      IN  /\ wrong = 0 =>
               /\ served.out = before
               /\ served.end = "clean" <=> Len(text.in) \in {0} \cup {text.ends[k] : k \in Sound}
          /\ wrong # 0 =>
               \/ served.out = before
               \/ \E k \in wrong + 1 .. Len(text.sent) + 1 :
                     served.out = refused \o AnswersTo(SubSeq(text.sent, k, Cardinality(Arrived)))
          /\ wrong # 0 /\ text.length < SizeOf[text.sent[wrong]] /\ lengthFirst =>
               /\ served.end = "error"
               /\ served.out = IF text.length = -1 THEN before ELSE refused

Belongs(path, s) == s.root = <<Workspace>> \/ (s.root = <<>> /\ path.dir[1] = Workspace)
Loadable == {p \in DOMAIN text.files : /\ Store!IsManagedSessionFile(p)
                                       /\ p.dir[1] = Workspace /\ p.dir[2] \in {"own", "legacy"}
                                       /\ text.files[p].parses /\ Belongs(p, text.files[p])}
Started == 100   \* the time at which claw is started
FilesNamed == {[kind |-> "path", path |-> p] : p \in Paths} \cup
              {[kind |-> "id", id |-> p.id] : p \in Paths}
\* the process runs the first k commands, and a second one the others
InTwo(ref, k) ==
    UNION {IF first.exit # 0 THEN {first}
           ELSE {[second EXCEPT !.out = first.out \o @] :
                   second \in Store!ResumeSession(first.files, ref, Workspace,
                                SubSeq(text.commands, k + 1, Len(text.commands)), first.now)} :
             first \in Store!ResumeSession(text.files, ref, Workspace,
                                           SubSeq(text.commands, 1, k), Started)}
\* Only sessions of the workspace are loaded; "latest" finds the one updated last among those
\* that can be loaded, whatever else lies in the directories.  Resuming with several commands
\* does to the files what resuming with the first ones and then with the others does, and a
\* command that the help says works with --resume is not refused as unimplemented.
ResumeFaithful ==
    form = "resume" =>
      LET latest == Store!LoadSession(text.files, [kind |-> "alias"], Workspace)
      IN  /\ \A ref \in FilesNamed \cup {[kind |-> "alias"]} :
                \A r \in Store!LoadSession(text.files, ref, Workspace) :
                   r.ok => Belongs(r.path, r.session)
          /\ Loadable # {} =>
               \A r \in latest : /\ r.ok /\ r.path \in Loadable
                                 /\ \A p \in Loadable : text.files[p].upd <= r.session.upd
          /\ \A ref \in FilesNamed, k \in 1 .. Len(text.commands) - 1 :
                InTwo(ref, k) =
                  Store!ResumeSession(text.files, ref, Workspace, text.commands, Started)
          /\ \A c \in DOMAIN CommandRoot, line \in Store!Help :
                line.name = CommandRoot[c] /\ line.resume =>
                  CommandRoot[c] \notin Store!Commands!STUB_COMMANDS

Existing == {d \in Dirs : text[d] # {}}
\* the ancestor of the working directory that a directory of definitions lies in
Holder(dir) == SubSeq(dir, 1, Len(dir) - 2)
InLowerCase(all) == {LowerCase[all[k].name] : k \in DOMAIN all}
\* of the definitions of one kind, skills or agents
Listed(leaf, roots, loaded) ==
    LET found == UNION {{<<roots[r].path, e>> : e \in {x \in text[roots[r].path] :
                                                   Skills!DefinitionIn(leaf, roots[r], x) # <<>>}} :
                          r \in DOMAIN roots}
        all == loaded[1]
        Of(d) == {k \in DOMAIN all : LowerCase[all[k].name] = LowerCase[d.name]}
        broken == \E r \in DOMAIN roots : \E e \in text[roots[r].path] : e.kind = "broken"
    IN  /\ loaded = <<>> <=> broken
        /\ ~broken =>
          /\ Len(all) = Cardinality(found)
          /\ \A f \in found : \E k \in DOMAIN all :
                all[k].path = f[1] /\ all[k].file = f[2].file /\ all[k].kind = f[2].kind
          /\ \A n \in InLowerCase(all) :
                \E k \in DOMAIN all :
                   /\ LowerCase[all[k].name] = n /\ ~all[k].shadowed
                   /\ \A j \in Of(all[k]) \ {k} :
                        all[j].shadowed /\ Len(Holder(all[j].path)) <= Len(Holder(all[k].path))
          /\ LET report == Skills!Render(all)
             IN  report.active = Cardinality(InLowerCase(all)) /\ Len(report.lines) = Len(all)
\* The name that a skill is installed under names one directory, below the registry, and is
\* what is made of it when it is declared itself: a skill can declare the name it was given.
NameStable ==
    form = "name" =>
      LET name == Skills!DeriveSkillInstallName(<<text>>, <<"b">>)
      IN  /\ name # <<>> /\ Skills!SanitizeSkillInvocationName(name[1]) = name
          /\ \A k \in DOMAIN name[1] : name[1][k] \notin {"/", " ", "$"}
          /\ name[1][1] # "."
\* claw skills and claw agents list every definition that they find exactly once, also when
\* a directory is the home's and an ancestor's; one of each name is active whatever the case
\* of its letters, none lies nearer than it, and the count is theirs.  Help changes nothing,
\* wherever it is asked for; and what is installed has a name as above.
DefinitionsWhole ==
    /\ form = "roots" =>
         LET skills == Skills!DiscoverSkillRoots(Cwd, Env, Existing)
             agents == Skills!DiscoverDefinitionRoots(Cwd, Env, Existing, "agents")
         IN  /\ Listed("skills", skills, Skills!LoadSkillsFromRoots(skills, text))
             /\ Listed("agents", agents, Skills!LoadAgentsFromRoots(agents, text))
             /\ \A words \in Requests :
                  Skills!HelpPath(words) # <<>> =>
                    {Skills!SkillsRequest(words, {"showcase"}).do,
                     Skills!SkillsRequestJson(words).do, Skills!AgentsRequest(words).do,
                     Skills!McpRequest(words, FALSE).do} = {"usage"}
    /\ NameStable
=============================================================================
