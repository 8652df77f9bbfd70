----------------------------- MODULE ClawStore -----------------------------
(***************************************************************************)
(* runtime/src/session_control.rs, the sessions of a workspace and how a   *)
(* reference finds one, and the commands of claw --resume in               *)
(* rusty-claude-cli/src/main.rs, where only one process is at work.        *)
(*                                                                         *)
(* A path is [dir, id, ext, bak]: dir is <<ws, "own">>, the directory of   *)
(* the workspace's fingerprint, <<ws, "legacy">>, its parent, or           *)
(* <<ws, "files">>, the workspace itself; ext is "" for a name without     *)
(* extension; bak > 0 marks a backup of /clear.  A file is [parses, root,  *)
(* id, upd, mt, msgs], root being an option.                               *)
(***************************************************************************)
EXTENDS Integers, Sequences, FiniteSets, SequencesExt

CONSTANTS Preserve,     \* messages a compaction keeps
          CommandRoot   \* a command as it is typed |-> its name

Compaction == INSTANCE ClawCompact
Commands == INSTANCE ClawCommands

Failed(reason) == [ok |-> FALSE, reason |-> reason]
IsManagedSessionFile(path) == path.ext \in {"jsonl", "json"} /\ path.bak = 0

\* A session without a root belongs to the workspace its file lies in.
ValidateLoadedSession(path, s, ws) ==
    IF s.root = <<>> THEN path.dir[1] = ws ELSE s.root[1] = ws

\* A file that cannot be read is listed too, as never updated.
Summary(files, path) ==
    [path |-> path, id |-> IF files[path].parses THEN files[path].id ELSE path.id,
     upd |-> IF files[path].parses THEN files[path].upd ELSE 0, mt |-> files[path].mt]
Collect(files, dir, ws) ==
    {Summary(files, p) : p \in {q \in DOMAIN files :
        /\ q.dir = dir /\ IsManagedSessionFile(q)
        /\ files[q].parses => ValidateLoadedSession(q, files[q], ws)}}
ListSessions(files, ws) == Collect(files, <<ws, "own">>, ws) \cup Collect(files, <<ws, "legacy">>, ws)
\* sort_managed_sessions: by time of update, then of the file, then id; what ties is in no order
Before(a, b) == \/ a.upd > b.upd
                \/ a.upd = b.upd /\ a.mt > b.mt
                \/ a.upd = b.upd /\ a.mt = b.mt /\ a.id > b.id
Latest(files, ws) == {s \in ListSessions(files, ws) :
                        \A t \in ListSessions(files, ws) : ~Before(t, s)}

\* The file of an id: in the directory of the workspace as it stands, in the older one only
\* if it can be read and belongs here; what was found first is not passed over.
ResolveManagedPath(files, id, ws) ==
    LET At(kind, ext) == [dir |-> <<ws, kind>>, id |-> id, ext |-> ext, bak |-> 0]
        places == <<At("own", "jsonl"), At("own", "json"), At("legacy", "jsonl"), At("legacy", "json")>>
        there == {k \in 1 .. 4 : places[k] \in DOMAIN files}
        first == CHOOSE k \in there : \A j \in there : k <= j
        path == places[first]
    IN  IF there = {} THEN Failed("session not found")
        ELSE IF first <= 2 THEN [ok |-> TRUE, path |-> path]
        ELSE IF ~files[path].parses THEN Failed("unreadable")
        ELSE IF ValidateLoadedSession(path, files[path], ws) THEN [ok |-> TRUE, path |-> path]
        ELSE Failed("mismatch")
\* A reference is [alias], [path] or [id]; a path that exists is taken first, and so is a
\* file of the workspace that is named like the id.  The results, where what ties may come.
ResolveReference(files, ref, ws) ==
    CASE ref.kind = "alias" ->
           IF Latest(files, ws) = {} THEN {Failed("no managed sessions found")}
           ELSE {[ok |-> TRUE, path |-> s.path] : s \in Latest(files, ws)}
      [] ref.kind = "path" -> {IF ref.path \in DOMAIN files THEN [ok |-> TRUE, path |-> ref.path]
                               ELSE Failed("session not found")}
      [] ref.kind = "id" ->
           LET direct == [dir |-> <<ws, "files">>, id |-> ref.id, ext |-> "", bak |-> 0]
           IN  {IF direct \in DOMAIN files THEN [ok |-> TRUE, path |-> direct]
                ELSE ResolveManagedPath(files, ref.id, ws)}
LoadSession(files, ref, ws) ==
    {IF ~r.ok THEN r
     ELSE IF ~files[r.path].parses THEN Failed("unreadable")
     ELSE IF ~ValidateLoadedSession(r.path, files[r.path], ws) THEN Failed("mismatch")
     ELSE [ok |-> TRUE, path |-> r.path, session |-> files[r.path]] :
       r \in ResolveReference(files, ref, ws)}

(***************************************************************************)
(* claw --resume.  st is what the process has: the files, the session in   *)
(* memory, its path, the clock, what it prints and its exit status.        *)
(***************************************************************************)
Write(files, path, s) == [p \in DOMAIN files \cup {path} |-> IF p = path THEN s ELSE files[p]]
Said(st, what) == [st EXCEPT !.out = Append(@, what), !.now = @ + 1]
Refused(st, status, what) == [Said(st, what) EXCEPT !.exit = status]
ResumeCompact(st) ==
    LET s == IF Compaction!ShouldCompact(st.session.msgs)
             THEN [st.session EXCEPT !.msgs = Compaction!Compacted(@), !.upd = st.now]
             ELSE st.session
        saved == [s EXCEPT !.mt = st.now]
    IN  [Said(st, "compact") EXCEPT !.session = saved, !.files = Write(@, st.path, saved)]
NewCliSession(st, ws) == [parses |-> TRUE, root |-> <<ws>>, id |-> st.now, upd |-> st.now,
                          mt |-> st.now, msgs |-> <<>>]
Backup(st) == [st.path EXCEPT !.bak = st.now]
\* Mutant of ResumeClear: the process keeps the old session in memory
ResumeClearForgotten(st, ws) ==
    [Said(st, "clear") EXCEPT
       !.files = Write(Write(@, Backup(st), st.session), st.path, NewCliSession(st, ws))]
ResumeClear(st, ws) ==
    [Said(st, "clear") EXCEPT
       !.files = Write(Write(@, Backup(st), [st.session EXCEPT !.mt = st.now]),
                       st.path, NewCliSession(st, ws)),
       !.session = NewCliSession(st, ws)]
\* what /help prints
Help == Commands!HelpFiltered(Commands!STUB_COMMANDS)
\* /clear without --confirm is told to be an error, and ends well.
RunResumeCommand(st, ws, command) ==
    IF st.exit # 0 THEN st
    ELSE IF CommandRoot[command] \in Commands!STUB_COMMANDS
         THEN Refused(st, 2, "not yet implemented")
    ELSE CASE command = "/help" -> Said(st, "help")
           [] command = "/compact" -> ResumeCompact(st)
           [] command = "/clear" -> Said(st, "confirmation required")
           [] command = "/clear --confirm" -> ResumeClear(st, ws)
           [] OTHER -> Refused(st, 2, "unsupported resumed command")
\* The message starts with "failed to restore session", which the classification looks for
\* before "no managed sessions found".
ClassifyErrorKind(reason) ==
    IF reason = "session not found" THEN "session_not_found" ELSE "session_load_failed"
\* the process after the commands, one after the other, and what it leaves
RunAll(st, ws, commands) ==
    LET after[k \in 0 .. Len(commands)] ==
          IF k = 0 THEN st ELSE RunResumeCommand(after[k - 1], ws, commands[k])
    IN  after[Len(commands)]
Left(st) == [files |-> st.files, now |-> st.now, out |-> st.out, exit |-> st.exit]
ResumeSession(files, ref, ws, commands, now) ==
    {LET st == [files |-> files, now |-> now, out |-> <<>>, exit |-> 0]
     IN  IF ~r.ok THEN Refused(st, 1, ClassifyErrorKind(r.reason))
         ELSE IF commands = <<>> THEN Said(st, "restored")
         ELSE Left(RunAll([session |-> r.session, path |-> r.path, files |-> files, now |-> now,
                           out |-> <<>>, exit |-> 0], ws, commands)) :
       r \in LoadSession(files, ref, ws)}
=============================================================================
