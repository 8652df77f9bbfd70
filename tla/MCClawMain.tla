----------------------------- MODULE MCClawMain -----------------------------
(***************************************************************************)
(* Words, frames, session files, definitions and sources for ClawMain.     *)
(***************************************************************************)
EXTENDS ClawMain

MCEqParts == "--permission-mode=workspace-write" :> <<"--permission-mode", "workspace-write">>
               @@ "--resume=s" :> <<"--resume", "s">>
MCCommandLineWords == {"--permission-mode", "workspace-write", "ready-only", "--model",
                       "--permission-mode=workspace-write", "--dangerously-skip-permissions",
                       "-p", "prompt", "status", "vim", "--output-format", "fix"}
MCDashed == {w \in MCCommandLineWords \cup DOMAIN MCEqParts :
               w \notin {"workspace-write", "ready-only", "prompt", "status", "vim", "fix"}}
MCEnvironments == {[var |-> <<>>, config |-> <<>>],
                   [var |-> <<"workspace-write">>, config |-> <<"read-only">>],
                   [var |-> <<"read-only">>, config |-> <<"workspace-write">>]}

Asks(id, method, params) ==
    [json |-> TRUE, id |-> <<id>>, request |-> TRUE, method |-> method, params |-> params]
MCBodies == <<Asks("1", "initialize", "none"),
              Asks("2", "tools/call", "grep"),
              Asks("3", "tools/call", "none"),
              Asks("4", "shutdown", "none"),
              [json |-> TRUE, id |-> <<>>, request |-> TRUE, method |-> "initialized",
               params |-> "none"],
              [json |-> TRUE, id |-> <<"6">>, request |-> FALSE],
              [json |-> FALSE]>>
MCSizeOf == <<2, 1, 2, 1, 1, 1, 1>>

MCPaths == {[dir |-> <<"w", "own">>, id |-> 1, ext |-> "jsonl", bak |-> 0],
            [dir |-> <<"w", "own">>, id |-> 2, ext |-> "json", bak |-> 0],
            [dir |-> <<"w", "legacy">>, id |-> 3, ext |-> "jsonl", bak |-> 0],
            [dir |-> <<"w", "files">>, id |-> 2, ext |-> "", bak |-> 0],
            [dir |-> <<"v", "own">>, id |-> 4, ext |-> "jsonl", bak |-> 0]}
MCRoots == {<<>>, <<"w">>, <<"v">>}
MCCommandRoot == "/help" :> "help" @@ "/compact" :> "compact" @@ "/clear" :> "clear"
                   @@ "/clear --confirm" :> "clear" @@ "/vim" :> "vim" @@ "/what" :> "what"
MCConversation == [k \in 1 .. 3 |-> [kind |-> "text", ids |-> {k}, gaps |-> {}]]

MCLowerCase == "a" :> "a" @@ "A" :> "a" @@ "b" :> "b" @@ "SKILL" :> "skill"
MCNameRank == "A" :> 1 @@ "SKILL" :> 2 @@ "a" :> 3 @@ "b" :> 4
MCCwd == <<"h", "p">>
MCEnv == [home |-> <<<<"h">>>>, claude |-> <<<<"h", ".claude">>>>, claw |-> <<<<"c">>>>,
          codex |-> <<>>]
MCDirs == {<<"h", "p", ".claw", "skills">>, <<"h", ".claude", "skills">>,
           <<"h", ".claude", "commands">>, <<"h", ".claw", "agents">>}
MCFrontMatters == {<<<<"text">>>>, <<<<"rule">>, <<"name", "b">>, <<"name", "A">>, <<"rule">>>>}
MCRequests == {<<>>, <<"list">>, <<"help">>, <<"install", "x">>, <<"install", "help">>,
               <<"show", "a", "-h">>, <<"list", "--help">>, <<"showcase", "help">>,
               <<"info", "a">>, <<"show", "a">>}

MCNameOf == [a |-> "x", b |-> "x", c |-> "y"]
MCFilesOf == [a |-> {1, 2}, b |-> {1}, c |-> {1}]
=============================================================================
