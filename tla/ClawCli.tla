------------------------------ MODULE ClawCli ------------------------------
(***************************************************************************)
(* rusty-claude-cli/src/main.rs: what parse_args makes of a command line.  *)
(* A word is a string; what it looks like is given by the constants.  The  *)
(* result is an action with the fields it carries, or an error.            *)
(***************************************************************************)
EXTENDS Integers, Sequences, FiniteSets, SequencesExt

CONSTANTS EqParts,    \* word "flag=value" |-> <<flag, value>>
          Dashed,     \* the words that start with a dash
          Slashed,    \* the words that start with a slash
          Blank,      \* the words of white space
          KnownTools  \* the tools of the registry

Commands == INSTANCE ClawCommands

Aliases == [opus |-> "claude-opus-4-6", sonnet |-> "claude-sonnet-4-6",
            haiku |-> "claude-haiku-4-5-20251213"]
ResolveModelAlias(model) == IF model \in DOMAIN Aliases THEN Aliases[model] ELSE model

(***************************************************************************)
(* Permission modes.  An option is a sequence of at most one element.      *)
(***************************************************************************)
\* The word for the narrowest mode is mistyped in the source.
NormalizePermissionMode(word) ==
    CASE word = "ready-only" -> <<"read-only">>
      [] word \in {"workspace-write", "danger-full-access"} -> <<word>>
      [] OTHER -> <<>>
\* env: var, what RUSTY_CLAUDE_PERMISSION_MODE says, and config, what the settings say
DefaultPermissionMode(env) ==
    LET fromVar == IF env.var = <<>> THEN <<>> ELSE NormalizePermissionMode(env.var[1])
    IN  IF fromVar # <<>> THEN fromVar[1]
        ELSE IF env.config # <<>> THEN env.config[1]
        ELSE "danger-full-access"
ModeOr(override, env) == IF override = <<>> THEN DefaultPermissionMode(env) ELSE override[1]

(***************************************************************************)
(* The flags.  st is what the loop has found so far; awaits is the flag    *)
(* whose value comes next.                                                 *)
(***************************************************************************)
Start == [model |-> "claude-opus-4-6", format |-> "text", mode |-> <<>>, help |-> FALSE,
          version |-> FALSE, tools |-> <<>>, rest |-> <<>>, error |-> "", prompt |-> <<>>,
          awaits |-> ""]
ToolFlags == {"--allowedTools", "--allowed-tools"}
ValueFlags == {"--model", "--output-format", "--permission-mode"} \cup ToolFlags
Given(st, flag, value) ==
    CASE flag = "--model" -> [st EXCEPT !.model = ResolveModelAlias(value)]
      [] flag \in ToolFlags -> [st EXCEPT !.tools = Append(@, value)]
      [] flag = "--output-format" ->
           IF value \in {"text", "json"} THEN [st EXCEPT !.format = value]
           ELSE [st EXCEPT !.error = "output format"]
      [] flag = "--permission-mode" ->
           IF NormalizePermissionMode(value) = <<>> THEN [st EXCEPT !.error = "permission mode"]
           ELSE [st EXCEPT !.mode = NormalizePermissionMode(value)]
\* Mutant of Plain: flags stop counting behind the first word
PlainStops(st, word) == [st EXCEPT !.rest = Append(@, word), !.mode = <<>>]
Plain(st, word) == [st EXCEPT !.rest = Append(@, word)]
\* one word that takes no value from the next
OneWord(st, word) ==
    CASE word \in {"--help", "-h"} /\ st.rest = <<>> -> [st EXCEPT !.help = TRUE]
      [] word \in {"--version", "-V"} -> [st EXCEPT !.version = TRUE]
      [] word = "--dangerously-skip-permissions" ->
           [st EXCEPT !.mode = <<"danger-full-access">>]
      [] word = "--print" -> [st EXCEPT !.format = "text"]
      [] word = "--resume" /\ st.rest = <<>> -> Plain(st, word)
      [] word \in DOMAIN EqParts /\ EqParts[word][1] \in ValueFlags ->
           Given(st, EqParts[word][1], EqParts[word][2])
      [] word \in DOMAIN EqParts /\ EqParts[word][1] = "--resume" /\ st.rest = <<>> ->
           [st EXCEPT !.rest = EqParts[word]]
      [] word \in Dashed \ {"--help", "-h", "--version", "-V", "--print", "--resume",
                            "--dangerously-skip-permissions"}
         /\ ~(word \in DOMAIN EqParts /\ EqParts[word][1] \in ValueFlags \cup {"--resume"})
         /\ st.rest = <<>> -> [st EXCEPT !.error = "unknown option"]
      [] OTHER -> Plain(st, word)
\* One turn of the loop.  A flag takes the next word as its value, whatever that word is, and
\* "-p" takes all that follow as the prompt; an error ends the loop.
Read(st, word) ==
    IF st.error # "" THEN st
    ELSE IF st.awaits = "-p" THEN [st EXCEPT !.prompt = Append(@, word)]
    ELSE IF st.awaits # "" THEN [Given(st, st.awaits, word) EXCEPT !.awaits = ""]
    ELSE IF word \in ValueFlags \cup {"-p"} THEN [st EXCEPT !.awaits = word]
    ELSE OneWord(st, word)
\* the end of the words, with what is still awaited
Finish(st) ==
    IF st.error # "" \/ st.awaits = "" THEN st
    ELSE IF st.awaits # "-p" THEN [st EXCEPT !.error = "missing value"]
    ELSE IF \A k \in DOMAIN st.prompt : st.prompt[k] \in Blank THEN [st EXCEPT !.error = "empty prompt"]
    ELSE st
ParseFlags(args) == Finish(FoldLeft(Read, Start, args))

(***************************************************************************)
(* The commands.                                                           *)
(***************************************************************************)
Error(reason) == [kind |-> "error", reason |-> reason]
Subcommands == {"dump-manifests", "bootstrap-plan", "agents", "mcp", "skills", "system-prompt",
                "login", "logout", "init", "prompt"}
\* the name of a slash command is no prompt: the error says how to run the command
BareSlashCommandGuidance(word) == word \in Commands!SlashCommandNames \ Subcommands
PromptAction(st, words, env) ==
    [kind |-> "prompt", words |-> words, mode |-> ModeOr(st.mode, env), model |-> st.model,
     format |-> st.format]
\* rest[0] of several words, or of one that is no alias
Dispatch(st, env) ==
    LET word == st.rest[1]
        more == Tail(st.rest)
    IN  CASE word \in {"agents", "mcp", "skills"} -> [kind |-> word, args |-> more]
          [] word \in {"dump-manifests", "bootstrap-plan"} -> [kind |-> word, format |-> st.format]
          [] word \in {"system-prompt", "login", "logout", "init"} -> [kind |-> word]
          [] word = "prompt" /\ (\A k \in DOMAIN more : more[k] \in Blank) ->
               Error("empty prompt")
          [] word = "prompt" /\ ~(\A k \in DOMAIN more : more[k] \in Blank) ->
               PromptAction(st, more, env)
          [] word \in Slashed -> [kind |-> "slash", args |-> st.rest]
          [] OTHER -> PromptAction(st, st.rest, env)
SingleWord(st, env) ==
    LET word == st.rest[1]
        guided == BareSlashCommandGuidance(word)
    IN  CASE word \in {"help", "version", "sandbox"} -> [kind |-> word]
          [] word = "status" -> [kind |-> word, model |-> st.model, mode |-> ModeOr(st.mode, env)]
          [] word \notin {"help", "version", "sandbox", "status"} /\ guided ->
               Error("slash command")
          [] OTHER -> Dispatch(st, env)
ToolsRefused(st) == \E k \in DOMAIN st.tools : st.tools[k] \notin KnownTools
ParseArgs(args, env) ==
    LET st == ParseFlags(args)
    IN  CASE st.error # "" -> Error(st.error)
          [] st.error = "" /\ st.prompt # <<>> ->
               IF ToolsRefused(st) THEN Error("tools") ELSE PromptAction(st, st.prompt, env)
          [] st.error = "" /\ st.prompt = <<>> /\ st.help -> [kind |-> "help"]
          [] st.error = "" /\ st.prompt = <<>> /\ ~st.help /\ st.version -> [kind |-> "version"]
          [] OTHER ->
               IF ToolsRefused(st) THEN Error("tools")
               ELSE IF st.rest = <<>>
                    THEN [kind |-> "repl", model |-> st.model, mode |-> ModeOr(st.mode, env)]
               ELSE IF st.rest[1] = "--resume" THEN [kind |-> "resume", args |-> Tail(st.rest)]
               ELSE IF Len(st.rest) = 1 THEN SingleWord(st, env)
               ELSE Dispatch(st, env)
=============================================================================
