---------------------------- MODULE ClawCommands ----------------------------
(***************************************************************************)
(* The slash commands: the table of commands/src/lib.rs, in the order of   *)
(* the source, with whether a command works with --resume; the list of     *)
(* rusty-claude-cli/src/main.rs of those that are not implemented; and     *)
(* the help made of both.                                                  *)
(***************************************************************************)
EXTENDS FiniteSets

SpecsA == [resume |-> {"help", "status", "sandbox", "compact", "clear", "cost",
                      "config", "mcp", "memory", "init", "diff", "version"},
           only_repl |-> {"model", "permissions", "resume", "bughunter", "commit", "pr",
                         "issue", "ultraplan", "teleport"}]
SpecsB == [resume |-> {"export", "agents", "skills", "doctor", "plan", "tasks", "theme",
                      "vim", "usage", "stats", "copy"},
           only_repl |-> {"debug-tool-call", "session", "plugin", "review", "voice",
                         "upgrade", "rename", "share", "feedback"}]
SpecsC == [resume |-> {"hooks", "files", "context", "color", "effort", "fast",
                      "summary", "tag", "brief", "advisor", "stickers", "insights",
                      "thinkback", "keybindings"},
           only_repl |-> {"exit", "branch", "rewind", "desktop", "ide", "release-notes",
                         "security-review"}]
SpecsD == [resume |-> {"privacy-settings", "output-style", "allowed-tools",
                      "terminal-setup", "language", "max-tokens", "temperature"},
           only_repl |-> {"add-dir", "api-key", "approve", "deny", "undo", "stop",
                         "retry", "paste", "screenshot", "image", "search", "listen",
                         "speak", "profile"}]
SpecsE == [resume |-> {"system-prompt", "tool-details", "bookmarks", "workspace",
                      "history", "tokens", "cache", "providers", "notifications",
                      "changelog", "blame", "log"},
           only_repl |-> {"format", "pin", "unpin", "test", "lint", "build", "run",
                         "git", "stash"}]
SpecsF == [resume |-> {"cron", "team", "telemetry", "env", "project", "map", "symbols"},
           only_repl |-> {"benchmark", "migrate", "reset", "templates", "explain",
                         "refactor", "docs", "fix", "perf", "chat", "focus", "unfocus",
                         "web", "references"}]
SpecsG == [resume |-> {"hover", "diagnostics", "alias", "agent", "subagent",
                      "reasoning", "budget", "rate-limit", "metrics"},
           only_repl |-> {"definition", "autofix", "multi", "macro", "parallel"}]
Specs == {SpecsA, SpecsB, SpecsC, SpecsD, SpecsE, SpecsF, SpecsG}
ResumeSupported == UNION {s.resume : s \in Specs}
SlashCommandNames == UNION {s.resume \cup s.only_repl : s \in Specs}

STUB_COMMANDS == {"login", "logout", "vim", "upgrade", "share", "feedback", "files",
                  "fast", "exit", "summary", "desktop", "brief", "advisor", "stickers",
                  "insights", "thinkback", "release-notes", "security-review",
                  "keybindings", "privacy-settings", "plan", "review", "tasks",
                  "theme", "voice", "usage", "rename", "copy", "hooks", "context",
                  "color", "effort", "branch", "rewind", "ide", "tag", "output-style",
                  "add-dir", "allowed-tools", "bookmarks", "workspace", "reasoning",
                  "budget", "rate-limit", "changelog", "diagnostics", "metrics",
                  "tool-details", "focus", "unfocus", "pin", "unpin", "language",
                  "profile", "max-tokens", "temperature", "system-prompt",
                  "notifications", "telemetry", "env", "project", "terminal-setup",
                  "api-key", "reset", "undo", "stop", "retry", "paste", "screenshot",
                  "image", "search", "listen", "speak", "format", "test", "lint",
                  "build", "run", "git", "stash", "blame", "log", "cron", "team",
                  "benchmark", "migrate", "templates", "explain", "refactor", "docs",
                  "fix", "perf", "chat", "web", "map", "symbols", "references",
                  "definition", "hover", "autofix", "multi", "macro", "alias",
                  "parallel", "subagent", "agent"}

SessionCategory == {"help", "status", "cost", "resume", "session", "version", "usage",
                    "stats", "rename", "clear", "compact", "history", "tokens",
                    "cache", "exit", "summary", "tag", "thinkback", "copy", "share",
                    "feedback", "rewind", "pin", "unpin", "bookmarks", "context",
                    "files", "focus", "unfocus", "retry", "stop", "undo"}
ConfigCategory == {"model", "permissions", "config", "memory", "theme", "vim", "voice",
                   "color", "effort", "fast", "brief", "output-style", "keybindings",
                   "privacy-settings", "stickers", "language", "profile", "max-tokens",
                   "temperature", "system-prompt", "api-key", "terminal-setup",
                   "notifications", "telemetry", "providers", "env", "project",
                   "reasoning", "budget", "rate-limit", "workspace", "reset", "ide",
                   "desktop", "upgrade"}
DebugCategory == {"debug-tool-call", "doctor", "sandbox", "diagnostics",
                  "tool-details", "changelog", "metrics"}
\* slash_command_category: the rest are tools
Category(name) == CASE name \in SessionCategory -> "Session"
                    [] name \in ConfigCategory -> "Config"
                    [] name \in DebugCategory -> "Debug"
                    [] OTHER -> "Tools"
\* the lines of the help: every command once, under its category, but for those excluded
HelpLines(exclude) ==
    {[name |-> n, under |-> c, resume |-> n \in ResumeSupported] :
       n \in SlashCommandNames \ exclude, c \in {"Session", "Tools", "Config", "Debug"}}
HelpFiltered(exclude) == {line \in HelpLines(exclude) : Category(line.name) = line.under}
=============================================================================
