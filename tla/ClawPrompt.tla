----------------------------- MODULE ClawPrompt -----------------------------
(***************************************************************************)
(* runtime/src/prompt.rs: the instruction files and sections of the system *)
(* prompt.  A file is [path, kind, size, text, ext]: path is the sequence  *)
(* of its directories and its name, kind absent, unreadable or text, size  *)
(* the number of its characters without the white space around it, text    *)
(* what is left of it when blank lines are collapsed (its hash), and ext   *)
(* whether it is more than blank.                                          *)
(***************************************************************************)
EXTENDS Integers, Sequences, SequencesExt

CONSTANTS MaxTotal, MaxFile, MarkerSize   \* 12000, 4000, and the 13 of "\n\n[truncated]"

CandidateNames == <<<<"CLAUDE.md">>, <<"CLAUDE.local.md">>,
                    <<".claw", "CLAUDE.md">>, <<".claw", "instructions.md">>>>
\* from the root down to the working directory
Directories(cwd) == [k \in 1 .. Len(cwd) + 1 |-> SubSeq(cwd, 1, k - 1)]
InstructionCandidates(cwd) == FlattenSeq([d \in DOMAIN Directories(cwd) |->
                                 [n \in DOMAIN CandidateNames |->
                                    Directories(cwd)[d] \o CandidateNames[n]]])

\* Two files of the same text are shown once, where the first of them is.
Dedup(files) ==
    FoldLeft(LAMBDA acc, f : IF \E k \in DOMAIN acc : acc[k].text = f.text THEN acc
                             ELSE Append(acc, f), <<>>, files)
\* A file that cannot be read stops the search with an error: the empty sequence.
DiscoverInstructionFiles(cwd, files) ==
    LET found == [k \in DOMAIN InstructionCandidates(cwd) |-> files[InstructionCandidates(cwd)[k]]]
    IN  IF \E k \in DOMAIN found : found[k].kind = "unreadable" THEN <<>>
        ELSE <<Dedup(SelectSeq(found, LAMBDA f : f.kind = "text" /\ f.size > 0))>>

Min2(a, b) == IF a <= b THEN a ELSE b
\* the number of characters that are kept, the marker of a cut included
Truncated(size, remaining) == IF size <= Min2(MaxFile, remaining) THEN size
                              ELSE Min2(MaxFile, remaining) + MarkerSize
\* Mutant of RenderFiles: what a file takes is not charged
RenderFilesUncharged(files) ==
    FoldLeft(LAMBDA acc, f :
               LET shown == Truncated(Truncated(f.size, acc.remaining), MaxFile)
               IN  [acc EXCEPT !.shown = Append(@, [path |-> f.path, chars |-> shown])],
             [remaining |-> MaxTotal, shown |-> <<>>, omitted |-> FALSE], files)
\* Cut once to what remains and once more to the size of a file; the marker is charged
\* as far as anything remains.
RenderFiles(files) ==
    FoldLeft(LAMBDA acc, f :
               IF acc.omitted THEN acc
               ELSE IF acc.remaining = 0 THEN [acc EXCEPT !.omitted = TRUE]
               ELSE LET shown == Truncated(Truncated(f.size, acc.remaining), MaxFile)
                    IN  [acc EXCEPT !.remaining = @ - Min2(shown, @),
                                    !.shown = Append(@, [path |-> f.path, chars |-> shown])],
             [remaining |-> MaxTotal, shown |-> <<>>, omitted |-> FALSE], files)

\* The directory named as a file's scope: that of the first file in whose directory it lies.
Scope(file, files) == LET in == {k \in DOMAIN files : IsPrefix(Front(files[k].path), file.path)}
                      IN  Front(files[CHOOSE k \in in : \A j \in in : k <= j].path)

(***************************************************************************)
(* What git says.  An output is an option: empty when the command fails or *)
(* writes no UTF-8.  g = [status, staged, unstaged, inside, branch, log,   *)
(* names]; "" is blank output, a commit is [hash, subject].                *)
(***************************************************************************)
NonBlank(output) == SelectSeq(output, LAMBDA text : text # "")
GitStatus(g) == NonBlank(g.status)
ReadBranch(g) == SelectSeq(g.branch, LAMBDA b : b \notin {"", "HEAD"})
\* lines without a blank are no commits
ReadRecentCommits(g) == SelectSeq(FlattenSeq(g.log), LAMBDA c : c.subject # "")
ReadStagedFiles(g) == FlattenSeq(g.names)
DetectGit(g) == IF ~g.inside THEN <<>>
                ELSE <<[branch |-> ReadBranch(g), commits |-> ReadRecentCommits(g),
                        staged |-> ReadStagedFiles(g)]>>
If(condition, section) == IF condition THEN <<section>> ELSE <<>>
\* Mutant of GitDiff: the changes that are not staged go under the other heading.
GitDiffOneHeading(g) ==
    IF g.staged = <<>> \/ g.unstaged = <<>> THEN <<>>
    ELSE If(NonBlank(g.staged) # <<>> \/ NonBlank(g.unstaged) # <<>>, "staged diff")
\* The headings of the diff: neither, when the second command fails what the first has shown
\* is dropped.
GitDiff(g) ==
    IF g.staged = <<>> \/ g.unstaged = <<>> THEN <<>>
    ELSE If(NonBlank(g.staged) # <<>>, "staged diff")
           \o If(NonBlank(g.unstaged) # <<>>, "unstaged diff")
RenderGit(context) == If(context.branch # <<>>, "branch")
                        \o If(context.commits # <<>>, "commits")
                        \o If(context.staged # <<>>, "staged files")
\* render_project_context
ProjectSections(g, files) ==
    LET context == DetectGit(g)
    IN  <<"date", "directory">> \o If(files # <<>>, "number of files")
          \o If(GitStatus(g) # <<>>, "status")
          \o (IF context = <<>> THEN <<>> ELSE If(context[1].commits # <<>>, "recent commits"))
          \o GitDiff(g)
          \o (IF context = <<>> THEN <<>> ELSE RenderGit(context[1]))

(***************************************************************************)
(* build: the sections in order.  project and config are options.          *)
(***************************************************************************)
Sections(style, project, config, extra) ==
    <<"intro">> \o (IF style THEN <<"output style">> ELSE <<>>)
      \o <<"system", "doing tasks", "actions", "boundary", "environment">>
      \o (IF project = <<>> THEN <<>>
          ELSE <<"project">> \o (IF project[1] = <<>> THEN <<>> ELSE <<"instructions">>))
      \o (IF config = <<>> THEN <<>> ELSE <<"config">>) \o extra
\* load_system_prompt: an unreadable instruction file is an error.  ConfigLoader::load, called
\* behind it, is unfinished: its configuration is taken to be there.
SystemPrompt(instructions) ==
    IF instructions = <<>> THEN <<>> ELSE <<Sections(FALSE, instructions, <<"config">>, <<>>)>>
=============================================================================
