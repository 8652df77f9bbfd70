----------------------------- MODULE MCClawText -----------------------------
(***************************************************************************)
(* An instance of ClawText.                                                *)
(***************************************************************************)
EXTENDS ClawText

\* {"\u0001":-12}, ["\"\\",] and [null]
MCJsonSeeds == {<<"obj", (<<1>> :> <<"num", -12>>)>>, <<"arr", <<<<"str", <<34, 92>>>>>>>>,
                <<"arr", <<<<"null">>>>>>}
MCAlphabet == {34, 92, 44, 58, 45, 91, 93, 123, 125, 110, 49, 32}

Message1 == [role |-> "user", blocks |-> <<[tag |-> "text", text |-> "hi"]>>, usage |-> <<>>]
Message2 == [role |-> "assistant",
             blocks |-> <<[tag |-> "thinking", thinking |-> "hm", signature |-> <<"s">>],
                          [tag |-> "tool_use", id |-> "1", name |-> "grep", input |-> "x"]>>,
             usage |-> <<[k \in R!UsageFields |-> 2]>>]
Message3 == [role |-> "tool",
             blocks |-> <<[tag |-> "too_result", tool_use_id |-> "1", tool_name |-> "grep",
                           output |-> "y", is_error |-> FALSE]>>, usage |-> <<>>]
MCSessionSeeds ==
    {[version |-> 1, session_id |-> "id", created |-> 3, updated |-> 4,
      messages |-> <<Message1, Message2>>,
      compaction |-> <<[count |-> 1, removed |-> 2, summary |-> "so far"]>>,
      fork |-> <<[parent |-> "p", branch |-> <<"b">>]>>, root |-> <<"/w">>,
      prompts |-> <<[at |-> 9, text |-> "hi"]>>, model |-> <<"m">>],
     [version |-> 1, session_id |-> "id", created |-> 3, updated |-> 4,
      messages |-> <<Message3>>, compaction |-> <<>>, fork |-> <<>>, root |-> <<>>,
      prompts |-> <<>>, model |-> <<>>]}
MCLegacySeeds ==
    {<<R!Obj([version |-> R!Num(1), messages |-> R!Arr(<<R!MessageJson(Message1)>>),
              created_at_ms |-> R!Num(3), workspace_root |-> R!Str("/w"),
              prompt_history |-> R!Arr(<<R!PromptRecord([at |-> 2, text |-> "hi"])>>)])>>}

MCSettingsSeeds ==
    {<<"obj", [model |-> <<"str", "enabled">>,
               permissionMode |-> <<"str", "hooks">>,
               plugins |-> <<"obj", [enabled |-> <<"obj", [x |-> <<"bool", TRUE>>]>>]>>,
               sandbox |-> <<"obj", [enabled |-> <<"bool", TRUE>>,
                                     allowedMounts |-> <<"arr", <<<<"str", "sandbox">>>>>>]>>]>>,
     <<"obj", [hooks |-> <<"obj", [PreToolUse |-> <<"arr", <<<<"str", "model">>>>>>,
                                   permissionMode |-> <<"num", 1>>]>>,
               modle |-> <<"str", "m">>]>>}
MCKeyOrder == <<"PreToolUse", "allowedMounts", "enabled", "hooks", "model", "modle",
                "permissionMode", "plugins", "sandbox", "x">>

Text(t) == [kind |-> "text", name |-> "", text |-> t]
Say2(role, blocks) == [role |-> role, blocks |-> blocks]
MCChatMessages ==
    <<Say2("user", <<Text(<<"fix", "\n", "lib.rs">>)>>),
      Say2("assistant", <<[kind |-> "thinking", name |-> "", text |-> <<"hm">>],
                          [kind |-> "tool_use", name |-> "grep", text |-> <<"lib.rs">>]>>),
      Say2("user", <<Text(<<"todo", "\n", "\n", "later">>)>>),
      Say2("assistant", <<Text(<<"a", "b", "c", "d", "e", "f", "g">>), Text(<<"end">>)>>)>>
MCSorted(names) == SelectSeq(<<"grep", "lib.rs">>, LAMBDA x : x \in names)

MCCwd == <<"a">>

\* "env", "model" and "ask"
MCCandidates == <<<<101, 110, 118>>, <<109, 111, 100, 101, 108>>, <<97, 115, 107>>>>
\* two of them, and a word that is close to none: up to 5 edits away
MCTyped == {<<101, 110, 118>>, <<109, 111, 100, 101, 108>>, <<109, 109, 109, 109, 109, 109>>}
=============================================================================
