---------------------------- MODULE ClawSession ----------------------------
(***************************************************************************)
(* Session files of Rust/handwritten-claw-code/rust/crates:                *)
(* runtime/src/session.rs (load_from_path, save_to_path with rotation,     *)
(* atomic write and cleanup), runtime/src/session_control.rs (the choice   *)
(* of the latest session) and the commands /compact and /clear --confirm   *)
(* of resume_session in rusty-claude-cli/src/main.rs.                      *)
(*                                                                         *)
(* Processes work on one directory.  Each system call that other processes *)
(* or a later run can tell apart is a step, and a process may be killed    *)
(* between any two of them.  A file name is the sequence of what was       *)
(* appended to the session's name: <<>> is s.jsonl, <<"rot", t>> makes     *)
(* s.rot-t.jsonl and <<"bak", t>> s.jsonl.before-clear-t.bak.  Temporary   *)
(* files have names of their own and are left out: no other code opens     *)
(* them, and two processes are taken not to issue the same millisecond     *)
(* and counter.  The conversation runtime, which adds messages and saves,  *)
(* is a stub in the repository; Talk stands for it.                        *)
(***************************************************************************)
EXTENDS ClawCompact, SequencesExt

CONSTANTS Procs,      \* processes that may run at the same time
          MaxRotated, \* MAX_ROTATED_FILES, 3 in the code
          RotateLen,  \* a file with this many messages has ROTATE_AFTER_BYTES
          Openings,   \* messages of the session at the start
          MaxStarts,  \* bound on the number of process starts
          MaxCommands,\* bound on the number of commands, over all processes
          MaxSaid,    \* bound on the messages of a conversation
          MaxTicks    \* bound on how often the clock outruns a running process

ASSUME SessionAssumption ==
  /\ MaxRotated \in Nat \ {0}
  /\ {RotateLen, MaxStarts, MaxCommands, MaxSaid, MaxTicks} \subseteq Nat

VARIABLES files,   \* file name |-> content: sid, msgs, said, upd, mt
          wall,    \* the wall clock in milliseconds
          pc,      \* per process
          last,    \* per process: LAST_TIMESTAMP_MS
          path,    \* per process: resolved_path
          sess,    \* per process: the Session in memory
          dest,    \* per process: the path save_to_path is called with
          doomed,  \* per process: the archives cleanup_rotated_logs removes
          starts, commands, ticks, \* counters for the bounds
          overlap, \* history: two processes were alive at the same time
          split,   \* history: an archive was resumed beside the file it came from
          clash,   \* history: the names or ages of two archives were the same
          current, \* history: the session last renamed to a managed name
          clears,  \* history: the sessions made by /clear, what they replaced
          reused   \* history: backups that a second /clear of the millisecond took

clock == <<wall, last>>
bounds == <<starts, commands, ticks, overlap, split>>
vars == <<files, clock, pc, path, sess, dest, doomed, bounds, current, clears, reused, clash>>

Main == <<>>
NoSession == [sid |-> 0, msgs |-> <<>>, said |-> 0, upd |-> 0]
Alive == {p \in Procs : pc[p] # "off"}

Kind(name) == IF name = Main THEN "main" ELSE name[Len(name)][1]

(* is_managed_session_file: *.jsonl *)
Managed == {n \in DOMAIN files : Kind(n) \in {"main", "rot"}}

(* Mutant of Archives: whatever is named after the session. *)
ArchivesAnyName(n) ==
  {a \in DOMAIN files : Len(a) > Len(n) /\ SubSeq(a, 1, Len(n)) = n}

(* The archives of a path: <stem>.rot-*.jsonl, archives of archives too. *)
Archives(n) ==
  {a \in DOMAIN files :
     /\ Len(a) > Len(n) /\ SubSeq(a, 1, Len(n)) = n
     /\ Kind(a) = "rot" /\ a[Len(n) + 1][1] = "rot"}

Session(f) == [sid |-> f.sid, msgs |-> f.msgs, said |-> f.said, upd |-> f.upd]

(* The file of a session, with its modification time. *)
OnDisk(s, t) ==
  [sid |-> s.sid, msgs |-> s.msgs, said |-> s.said, upd |-> s.upd, mt |-> t]

(* The archives that some process is about to remove. *)
AllDoomed == UNION {doomed[p] : p \in Procs}

(* sort_managed_sessions: by updated_at, then mtime.  What ties is in no
   order that a user could know. *)
Latest ==
  {n \in Managed :
     \A m \in Managed :
       \/ files[n].upd > files[m].upd
       \/ files[n].upd = files[m].upd /\ files[n].mt >= files[m].mt}

(* current_time_millis: strictly increasing within a process. *)
Now(p) == IF wall > last[p] THEN wall ELSE last[p] + 1

(* The message with the number id, that makes an empty line or does not. *)
Message(kind, id, gap) ==
  [kind |-> kind, ids |-> {id}, gaps |-> IF gap THEN {id} ELSE {}]

Opening(said) ==
  [i \in DOMAIN said |-> Message(said[i].kind, i, said[i].gap)]

\* A conversation in which every tool result has its call and a summary is in front.
ASSUME OpeningsAssumption ==
  /\ Openings \subseteq Seq([kind : {"text", "use", "result", "summary"}, gap : BOOLEAN])
  /\ \A said \in Openings :
       /\ ResultsHaveCalls(Opening(said))
       /\ \A i \in DOMAIN said : said[i].kind = "summary" => i = 1

Init ==
  /\ \E said \in Openings :
       LET s == [sid |-> 1, msgs |-> Opening(said), said |-> Len(said),
                 upd |-> 1]
       IN /\ files = [n \in {Main} |-> OnDisk(s, 1)]
          /\ current = s
  /\ wall = 2
  /\ pc = [p \in Procs |-> "off"]
  /\ last = [p \in Procs |-> 0]
  /\ path = [p \in Procs |-> Main]
  /\ sess = [p \in Procs |-> NoSession]
  /\ dest = [p \in Procs |-> Main]
  /\ doomed = [p \in Procs |-> {}]
  /\ starts = 0
  /\ commands = 0
  /\ ticks = 0
  /\ overlap = FALSE
  /\ split = FALSE
  /\ clash = FALSE
  /\ clears = {}
  /\ reused = {}

Goto(p, step) == pc' = [pc EXCEPT ![p] = step]

Exit(p) ==
  /\ Goto(p, "off")
  /\ last' = [last EXCEPT ![p] = 0]
  /\ path' = [path EXCEPT ![p] = Main]
  /\ sess' = [sess EXCEPT ![p] = NoSession]
  /\ dest' = [dest EXCEPT ![p] = Main]
  /\ doomed' = [doomed EXCEPT ![p] = {}]

Issued(p, n) == last' = [last EXCEPT ![p] = Now(p) + n - 1]

(* claw --resume: the reference is the path of the session, or "latest".
   list_sessions loads every session and each load takes a timestamp; these,
   which only put the process further ahead of the clock, are left out.  A
   process that starts when none is running is taken to start later than the
   few milliseconds by which earlier ones may have run ahead of the clock. *)
Start(p) ==
  /\ pc[p] = "off"
  /\ starts < MaxStarts
  /\ starts' = starts + 1
  /\ wall' = IF Alive = {} THEN Max({wall} \cup {files[n].upd : n \in DOMAIN files}) + 1
             ELSE wall
  /\ \E n \in Latest \cup ({Main} \cap DOMAIN files) :
       /\ path' = [path EXCEPT ![p] = n]
       /\ split' = (split \/ (n # Main /\ Main \in DOMAIN files))
  /\ overlap' = (overlap \/ Alive # {})
  /\ Goto(p, "load")
  /\ UNCHANGED <<files, last, sess, dest, doomed, commands, ticks, current, clears, reused, clash>>

(* load_session_reference reads the file, or fails when another process has
   moved it away since the reference was resolved. *)
Load(p) ==
  /\ pc[p] = "load"
  /\ IF path[p] \in DOMAIN files
     THEN /\ sess' = [sess EXCEPT ![p] = Session(files[path[p]])]
          /\ Issued(p, 1)
          /\ Goto(p, "ready")
          /\ UNCHANGED <<path, dest, doomed>>
     ELSE Exit(p)
  /\ UNCHANGED <<files, wall, bounds, current, clears, reused, clash>>

Command(p) ==
  /\ pc[p] = "ready"
  /\ commands < MaxCommands
  /\ commands' = commands + 1
  /\ Goto(p, "stat")
  /\ UNCHANGED <<files, wall, path, doomed, starts, ticks, overlap, split,
                 current, clears, reused, clash>>

(* /compact: record_compaction touches the session, a skipped compaction
   does not; both are saved. *)
Compact(p) ==
  /\ Command(p)
  /\ dest' = [dest EXCEPT ![p] = path[p]]
  /\ IF ShouldCompact(sess[p].msgs)
     THEN /\ sess' = [sess EXCEPT ![p].msgs = Compacted(@), ![p].upd = Now(p)]
          /\ Issued(p, 1)
     ELSE UNCHANGED <<sess, last>>

(* /clear --confirm saves a backup named after the wall clock first ... *)
Clear(p) ==
  /\ Command(p)
  /\ dest' = [dest EXCEPT ![p] = Append(path[p], <<"bak", wall>>)]
  /\ UNCHANGED <<sess, last>>

(* ... and then a new session in place of the old one. *)
NewSession(p) ==
  /\ pc[p] = "saved"
  /\ Kind(dest[p]) = "bak"
  /\ sess' = [sess EXCEPT ![p] = [sid |-> Now(p) + 1, msgs |-> <<>>, said |-> 0,
                                  upd |-> Now(p)]]
  /\ Issued(p, 2)
  /\ clears' = clears \cup {[by |-> p, sid |-> Now(p) + 1, bak |-> dest[p], old |-> sess[p]]}
  /\ dest' = [dest EXCEPT ![p] = path[p]]
  /\ Goto(p, "stat")
  /\ UNCHANGED <<files, wall, path, doomed, bounds, current, reused, clash>>

(* A message is added to the conversation and the session saved. *)
Talk(p) ==
  /\ Command(p)
  /\ sess[p].said < MaxSaid
  /\ dest' = [dest EXCEPT ![p] = path[p]]
  /\ \E kind \in {"text", "use", "result"}, gap \in BOOLEAN :
       /\ kind = "result" => /\ sess[p].msgs # <<>>
                             /\ Last(sess[p].msgs).kind \in {"use", "result"}
       /\ sess' = [sess EXCEPT
            ![p].msgs = Append(@, Message(kind, sess[p].said + 1, gap)),
            ![p].said = @ + 1, ![p].upd = Now(p)]
  /\ Issued(p, 1)

(* save_to_path(dest): rotate_session_file_if_needed looks at the file ... *)
Stat(p) ==
  /\ pc[p] = "stat"
  /\ Goto(p, IF dest[p] \in DOMAIN files /\ Len(files[dest[p]].msgs) >= RotateLen
             THEN "rotate" ELSE "write")
  /\ UNCHANGED <<files, clock, path, sess, dest, doomed, bounds, current, clears, reused, clash>>

Reuses(p) ==
  reused' = IF Kind(dest[p]) = "bak" /\ dest[p] \in DOMAIN files
            THEN reused \cup {dest[p]} ELSE reused

(* Mutant of Rotate: the old file is removed. *)
RotateRemoves(p) ==
  /\ pc[p] = "rotate"
  /\ files' = [n \in DOMAIN files \ {dest[p]} |-> files[n]]
  /\ Goto(p, "write")
  /\ UNCHANGED <<clock, path, sess, dest, doomed, bounds, current, clears, reused, clash>>

(* ... and renames it, which fails when another process was faster, and
   replaces an archive of the same millisecond. *)
Rotate(p) ==
  /\ pc[p] = "rotate"
  /\ IF dest[p] \in DOMAIN files
     THEN LET archive == Append(dest[p], <<"rot", Now(p)>>)
          IN /\ files' = [n \in (DOMAIN files \ {dest[p]}) \cup {archive} |->
                           IF n = archive THEN files[dest[p]] ELSE files[n]]
             /\ Issued(p, 1)
             /\ Goto(p, "write")
             /\ clash' = (clash \/ archive \in DOMAIN files \cup AllDoomed)
             /\ UNCHANGED <<path, sess, dest, doomed>>
     ELSE Exit(p) /\ UNCHANGED <<files, clash>>
  /\ Reuses(p)
  /\ UNCHANGED <<wall, bounds, current, clears>>

(* write_atomic: the temporary file is renamed to dest. *)
Write(p) ==
  /\ pc[p] = "write"
  /\ files' = [n \in DOMAIN files \cup {dest[p]} |->
                 IF n = dest[p] THEN OnDisk(sess[p], wall) ELSE files[n]]
  /\ Issued(p, 1)
  /\ current' = IF Kind(dest[p]) = "bak" THEN current ELSE sess[p]
  /\ Reuses(p)
  /\ clash' = (clash \/ dest[p] \in AllDoomed)
  /\ Goto(p, "list")
  /\ UNCHANGED <<wall, path, sess, dest, doomed, bounds, clears>>

(* cleanup_rotated_logs: all but the MaxRotated newest archives ... *)
ListArchives(p) ==
  /\ pc[p] = "list"
  /\ \E old \in SUBSET Archives(dest[p]) :
       /\ Cardinality(old) = Max({0, Cardinality(Archives(dest[p])) - MaxRotated})
       /\ \A o \in old, n \in Archives(dest[p]) \ old : files[o].mt <= files[n].mt
       /\ doomed' = [doomed EXCEPT ![p] = old]
       /\ clash' = (clash \/ \E o \in old, n \in Archives(dest[p]) \ old :
                               files[o].mt = files[n].mt)
       /\ Goto(p, IF old = {} THEN "saved" ELSE "remove")
  /\ UNCHANGED <<files, clock, path, sess, dest, bounds, current, clears, reused>>

(* ... are removed, oldest first; one that another process has removed ends
   the command with an error although the session is saved. *)
RemoveArchive(p) ==
  /\ pc[p] = "remove"
  /\ \E a \in doomed[p] :
       IF a \in DOMAIN files
       THEN /\ \A b \in doomed[p] \cap DOMAIN files : files[a].mt <= files[b].mt
            /\ files' = [n \in DOMAIN files \ {a} |-> files[n]]
            /\ doomed' = [doomed EXCEPT ![p] = @ \ {a}]
            /\ Goto(p, IF doomed[p] = {a} THEN "saved" ELSE "remove")
            /\ UNCHANGED <<last, path, sess, dest>>
       ELSE Exit(p) /\ UNCHANGED files
  /\ UNCHANGED <<wall, bounds, current, clears, reused, clash>>

Saved(p) ==
  /\ pc[p] = "saved"
  /\ Kind(dest[p]) # "bak"
  /\ Goto(p, "ready")
  /\ UNCHANGED <<files, clock, path, sess, dest, doomed, bounds, current, clears, reused, clash>>

(* The command line ends, or the process is killed. *)
End(p) ==
  /\ pc[p] # "off"
  /\ Exit(p)
  /\ UNCHANGED <<files, wall, bounds, current, clears, reused, clash>>

(* The clock passes everything issued so far. *)
Tick ==
  /\ \E p \in Procs : last[p] >= wall
  /\ ticks < MaxTicks
  /\ ticks' = ticks + 1
  /\ wall' = Max({last[p] : p \in Procs}) + 1
  /\ UNCHANGED <<files, last, pc, path, sess, dest, doomed, starts, commands, overlap, split,
                 current, clears, reused, clash>>

Next ==
  \/ Tick
  \/ \E p \in Procs :
       \/ Start(p) \/ Load(p) \/ Compact(p) \/ Clear(p) \/ NewSession(p) \/ Talk(p)
       \/ Stat(p) \/ Rotate(p) \/ Write(p) \/ ListArchives(p) \/ RemoveArchive(p)
       \/ Saved(p) \/ End(p)

Spec == Init /\ [][Next]_vars

-----------------------------------------------------------------------------
(* Whatever is loaded, continued, compacted and saved in whatever order, by
   processes that overwrite each other's work: no tool result in a session
   file has lost the call it answers, the file ends with the last messages of
   the conversation in full and in their order, and its summary tells of every
   message before them, with one exception: at a compaction on top of another
   the messages between one that makes an empty line and the kept ones are
   lost.  Each stretch of lost messages begins behind such a message, which is
   itself told. *)
ConversationWhole ==
  \A n \in DOMAIN files :
    ResultsHaveCalls(files[n].msgs) /\ CoversFirst(files[n].msgs, files[n].said)

(* There is always a session to resume, also when a process was killed
   between the rename to the archive and the new file; and unless two
   processes worked at the same time, "latest" is the session saved last.

   What several processes save survives as long as an archive can be told
   from the others: they can lose the session when a cleanup chooses between
   archives with one modification time, or when a file takes the name of an
   archive that is there or is being removed.  And "latest" is not the last
   once the session has split: a file that is saved again unchanged in the
   millisecond in which its archive was made ties with that archive, "latest"
   may resume the archive, and what is said there is in a file of its own: a
   later start by the path of the session continues without it. *)
LatestIsCurrent ==
  /\ ~overlap \/ ~clash => Managed # {}
  /\ ~overlap /\ ~split => \A n \in Latest : Session(files[n]) = current

(* A cleared session can be resumed from the backup the user was told of,
   unless another /clear took the same millisecond. *)
ClearKeepsBackup ==
  \A n \in Managed : \A c \in clears :
    c.sid = files[n].sid =>
      \/ c.bak \in DOMAIN files /\ Session(files[c.bak]) = c.old
      \/ c.bak \in reused

=============================================================================
