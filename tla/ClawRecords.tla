----------------------------- MODULE ClawRecords -----------------------------
(***************************************************************************)
(* runtime/src/session.rs: what a session file says and how it is read     *)
(* back.  A file is a sequence of lines; a line is a JSON value of         *)
(* ClawJson (with names for strings), <<"blank">>, or <<"garbage">>, which *)
(* is no JSON.  An Option is the empty sequence or a sequence of one.      *)
(* A reader returns the sequence of what it read: empty is an error.       *)
(*                                                                         *)
(* ConversationMessage::to_json and SessionFork::to_json are called and    *)
(* not defined in the repository: they are taken to write what from_json   *)
(* reads, the block tag too_result included (line 698).                    *)
(***************************************************************************)
EXTENDS Integers, Sequences, SequencesExt

CONSTANTS MaxU32, MaxI64         \* the largest u32 and i64

Str(s)  == <<"str", s>>
Num(n)  == <<"num", n>>
Arr(vs) == <<"arr", vs>>
Obj(f)  == <<"obj", f>>
Blank   == <<"blank">>
Garbage == <<"garbage">>

(***************************************************************************)
(* Fields of an object, read with the accessors of JsonValue.              *)
(***************************************************************************)
As(tag, v)       == IF v[1] = tag THEN <<v[2]>> ELSE <<>>
IsObj(v)         == v[1] = "obj"
Field(v, key)    == IF key \in DOMAIN v[2] THEN <<v[2][key]>> ELSE <<>>
\* an optional field that counts as absent when it has another type
Lenient(v, key, tag) == FlattenSeq([k \in DOMAIN Field(v, key) |-> As(tag, Field(v, key)[k])])
RequiredString(v, key) == Lenient(v, key, "str")
InRange(v, key, max)   == SelectSeq(Lenient(v, key, "num"), LAMBDA n : n \in 0 .. max)
RequiredU32(v, key)    == InRange(v, key, MaxU32)
RequiredU64(v, key)    == InRange(v, key, MaxI64)
RequiredUsize(v, key)  == InRange(v, key, MaxI64)

\* collect::<Result<Vec<_>, _>>: all of them, or none
Collected(options) == IF \A k \in DOMAIN options : options[k] # <<>>
                      THEN <<FlattenSeq(options)>> ELSE <<>>
\* map(read).transpose(): a field that is there must be readable
Transposed(field, Read(_)) == IF field = <<>> THEN <<<<>>>>
                              ELSE IF Read(field[1]) = <<>> THEN <<>> ELSE <<Read(field[1])>>
\* the record of options, if every one of them is there
Record(f) == IF \A k \in DOMAIN f : f[k] # <<>> THEN <<[k \in DOMAIN f |-> f[k][1]]>> ELSE <<>>

UsageFields == {"input_tokens", "output_tokens",
                "cache_creation_input_tokens", "cache_read_input_tokens"}
ReadUsage(v) == IF IsObj(v) THEN Record([k \in UsageFields |-> RequiredU32(v, k)]) ELSE <<>>
ReadFork(v)  == IF IsObj(v) THEN Record([parent |-> RequiredString(v, "parent_session_id"),
                                         branch |-> <<Lenient(v, "branch_name", "str")>>])
                ELSE <<>>
ReadCompaction(v) ==
    IF IsObj(v) THEN Record([count   |-> RequiredU32(v, "count"),
                             removed |-> RequiredUsize(v, "removed_message_count"),
                             summary |-> RequiredString(v, "summary")]) ELSE <<>>
\* from_json_opt
ReadPrompt(v) == IF IsObj(v) THEN Record([at   |-> RequiredU64(v, "timestamp_ms"),
                                          text |-> RequiredString(v, "text")]) ELSE <<>>
ReadBlock(v) ==
    LET tag == IF IsObj(v) THEN RequiredString(v, "type") ELSE <<>>
        text(k) == RequiredString(v, k)
    IN  CASE tag = <<"text">> -> Record([tag |-> tag, text |-> text("text")])
          [] tag = <<"thinking">> ->
               Record([tag |-> tag, thinking |-> text("thinking"),
                       signature |-> <<Lenient(v, "signature", "str")>>])
          [] tag = <<"tool_use">> ->
               Record([tag |-> tag, id |-> text("id"), name |-> text("name"),
                       input |-> text("input")])
          [] tag = <<"too_result">> ->
               Record([tag |-> tag, tool_use_id |-> text("tool_use_id"),
                       tool_name |-> text("tool_name"), output |-> text("output"),
                       is_error |-> Lenient(v, "is_error", "bool")])
          [] OTHER -> <<>>
Roles == {"system", "user", "assistant", "tool"}
ReadMessage(v) ==
    IF ~IsObj(v) THEN <<>>
    ELSE Record([role   |-> SelectSeq(RequiredString(v, "role"), LAMBDA r : r \in Roles),
                 blocks |-> FlattenSeq([k \in DOMAIN Lenient(v, "blocks", "arr") |->
                              LET vs == Lenient(v, "blocks", "arr")[k]
                              IN  Collected([j \in DOMAIN vs |-> ReadBlock(vs[j])])]),
                 usage  |-> Transposed(Field(v, "usage"), ReadUsage)])

(***************************************************************************)
(* The file of the older format: one JSON object with all of the session.  *)
(* now and fresh are the clock and the generated session id.               *)
(***************************************************************************)
OrElse(option, default) == IF option = <<>> THEN default ELSE option[1]
FromJson(v, now, fresh) ==
    LET created == Transposed(Field(v, "created_at_ms"), LAMBDA x : RequiredU64(v, "created_at_ms"))
        updated == Transposed(Field(v, "updated_at_ms"), LAMBDA x : RequiredU64(v, "updated_at_ms"))
        createdAt == IF created = <<>> THEN now ELSE OrElse(created[1], now)
        messages == Lenient(v, "messages", "arr")
        prompts == Lenient(v, "prompt_history", "arr")
    IN  IF created = <<>> \/ updated = <<>> \/ messages = <<>> THEN <<>>
        ELSE Record([version    |-> RequiredU32(v, "version"),
                     session_id |-> <<OrElse(RequiredString(v, "session_id"), fresh)>>,
                     created    |-> <<createdAt>>,
                     updated    |-> <<OrElse(updated[1], createdAt)>>,
                     messages   |-> Collected([k \in DOMAIN messages[1] |->
                                                 ReadMessage(messages[1][k])]),
                     compaction |-> Transposed(Field(v, "compaction"), ReadCompaction),
                     fork       |-> Transposed(Field(v, "fork"), ReadFork),
                     root       |-> <<Lenient(v, "workspace_root", "str")>>,
                     prompts    |-> <<IF prompts = <<>> THEN <<>>
                                      ELSE FlattenSeq([k \in DOMAIN prompts[1] |->
                                                         ReadPrompt(prompts[1][k])])>>,
                     model      |-> <<Lenient(v, "model", "str")>>])

(***************************************************************************)
(* One record per line.                                                    *)
(***************************************************************************)
MetaFrom(v) ==
    Record([version    |-> RequiredU32(v, "version"),
            session_id |-> RequiredString(v, "session_id"),
            created    |-> RequiredU64(v, "created_at_ms"),
            updated    |-> RequiredU64(v, "updated_at_ms"),
            fork       |-> Transposed(Field(v, "fork"), ReadFork),
            root       |-> <<Lenient(v, "workspace_root", "str")>>,
            model      |-> <<Lenient(v, "model", "str")>>])

\* What a line adds to the session read so far; the empty sequence refuses the file.
\* A prompt entry that cannot be read is passed over.
AddLine(s, line) ==
    LET type == IF IsObj(line) THEN RequiredString(line, "type") ELSE <<>>
    IN  CASE line = Blank -> <<s>>
          [] type = <<"session_meta">> ->
               LET m == MetaFrom(line)
               IN  IF m = <<>> THEN <<>>
                   ELSE <<[k \in DOMAIN s |-> IF k \in DOMAIN m[1] THEN m[1][k] ELSE s[k]]>>
          [] type = <<"message">> ->
               LET m == IF Field(line, "message") = <<>> THEN <<>>
                        ELSE ReadMessage(Field(line, "message")[1])
               IN  IF m = <<>> THEN <<>> ELSE <<[s EXCEPT !.messages = @ \o m]>>
          [] type = <<"compaction">> ->
               LET c == ReadCompaction(line)
               IN  IF c = <<>> THEN <<>> ELSE <<[s EXCEPT !.compaction = c]>>
          [] type = <<"prompt_history">> -> <<[s EXCEPT !.prompts = @ \o ReadPrompt(line)]>>
          [] OTHER -> <<>>
FromJsonl(lines, now, fresh) ==
    FoldLeft(LAMBDA acc, line : IF acc = <<>> THEN <<>> ELSE AddLine(acc[1], line),
             <<[version |-> 1, session_id |-> fresh, created |-> now, updated |-> now,
                messages |-> <<>>, compaction |-> <<>>, fork |-> <<>>, root |-> <<>>,
                prompts |-> <<>>, model |-> <<>>]>>,
             lines)

\* load_from_path: one JSON object that has messages is the older format.
Ink(lines) == SelectSeq(lines, LAMBDA l : l # Blank)
IsOlderFormat(lines) == /\ Len(Ink(lines)) = 1
                        /\ IsObj(Ink(lines)[1])
                        /\ Field(Ink(lines)[1], "messages") # <<>>
LoadText(lines, now, fresh) == IF IsOlderFormat(lines) THEN FromJson(Ink(lines)[1], now, fresh)
                               ELSE FromJsonl(lines, now, fresh)

(***************************************************************************)
(* Saving.                                                                 *)
(***************************************************************************)
Present(key, option) == [k \in IF option = <<>> THEN {} ELSE {key} |-> option[1]]
Merged(fs) == FoldLeft(LAMBDA f, g : [k \in DOMAIN f \cup DOMAIN g |->
                                        IF k \in DOMAIN g THEN g[k] ELSE f[k]],
                       [k \in {} |-> 0], fs)
Each(Write(_), option) == [k \in DOMAIN option |-> Write(option[k])]

ForkJson(f) == Obj(Merged(<<[parent_session_id |-> Str(f.parent)],
                            Present("branch_name", Each(Str, f.branch))>>))
MetaRecord(s) == Obj(Merged(<<[type |-> Str("session_meta"), version |-> Num(s.version),
                               session_id |-> Str(s.session_id), created_at_ms |-> Num(s.created),
                               updated_at_ms |-> Num(s.updated)],
                              Present("fork", Each(ForkJson, s.fork)),
                              Present("workspace_root", Each(Str, s.root)),
                              Present("model", Each(Str, s.model))>>))
CompactionRecord(c) == Obj([type |-> Str("compaction"), count |-> Num(c.count),
                            removed_message_count |-> Num(c.removed), summary |-> Str(c.summary)])
PromptRecord(p) == Obj([type |-> Str("prompt_history"), text |-> Str(p.text),
                        timestamp_ms |-> Num(IF p.at > MaxI64 THEN MaxI64 ELSE p.at)])
BlockJson(b) ==
    Obj([k \in ((DOMAIN b \ {"tag"}) \cup {"type"})
                 \ (IF "signature" \in DOMAIN b /\ b.signature = <<>> THEN {"signature"} ELSE {}) |->
           CASE k = "type"      -> Str(b.tag)
             [] k = "signature" -> Str(b.signature[1])
             [] k = "is_error"  -> <<"bool", b.is_error>>
             [] OTHER           -> Str(b[k])])
UsageJson(u) == Obj([k \in UsageFields |-> Num(u[k])])
MessageJson(m) == Obj(Merged(<<[role |-> Str(m.role), blocks |-> Arr(Each(BlockJson, m.blocks))],
                               Present("usage", Each(UsageJson, m.usage))>>))
MessageRecord(m) == Obj([type |-> Str("message"), message |-> MessageJson(m)])

\* Mutant of Snapshot: the prompts of the session are not written
SnapshotWithoutPrompts(s) ==
    <<<<MetaRecord(s)>> \o Each(CompactionRecord, s.compaction) \o Each(MessageRecord, s.messages)>>
\* Timestamps and counts beyond i64 refuse the save; a prompt's is cut to the largest.
Snapshot(s) ==
    IF s.created > MaxI64 \/ s.updated > MaxI64
         \/ \E k \in DOMAIN s.compaction : s.compaction[k].removed > MaxI64 THEN <<>>
    ELSE <<<<MetaRecord(s)>> \o Each(CompactionRecord, s.compaction)
             \o Each(PromptRecord, s.prompts) \o Each(MessageRecord, s.messages)>>
=============================================================================
