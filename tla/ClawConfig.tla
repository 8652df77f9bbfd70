----------------------------- MODULE ClawConfig -----------------------------
(***************************************************************************)
(* runtime/src/config_validate.rs: the diagnostics of the validator of     *)
(* settings.  Values are those of ClawJson with names for strings; the     *)
(* source text of a file is a sequence of tokens, a key or string being    *)
(* one token.  ConfigLoader::load and read_optional_json_object, which     *)
(* would call it, end in the middle of their bodies and are not modelled.  *)
(***************************************************************************)
EXTENDS Integers, Sequences, SequencesExt

Fields(type, names) == [k \in names |-> type]
TopLevelFields ==
    Fields("str", {"$schema", "model", "permissionMode"})
      @@ Fields("obj", {"hooks", "permissions", "mcpServers", "oauth", "enabledPlugins", "plugins",
                        "sandbox", "env", "aliases", "providerFallbacks"})
      @@ Fields("strs", {"trustedRoots"})
DeprecatedFields == {"permissionMode", "enabledPlugins"}
HooksFields == Fields("strs", {"PreToolUse", "PostToolUse", "PostToolUseFailure"})
PermissionsFields == Fields("str", {"defaultMode"}) @@ Fields("strs", {"allow", "deny", "ask"})
PluginsFields == Fields("obj", {"enabled"}) @@ Fields("strs", {"externalDirectories"})
                   @@ Fields("str", {"installRoot", "registryPath", "bundledRoot"})
                   @@ Fields("num", {"maxOutputTokens"})
SandboxFields == Fields("bool", {"enabled", "namespaceRestrictions", "networkIsolation"})
                   @@ Fields("str", {"filesystemMode"}) @@ Fields("strs", {"allowedMounts"})
OauthFields == Fields("str", {"clientId", "authorizeUrl", "tokenUrl", "manualRedirectUrl"})
                 @@ Fields("num", {"callbackPort"}) @@ Fields("strs", {"scopes"})
Nested == [hooks |-> HooksFields, permissions |-> PermissionsFields, plugins |-> PluginsFields,
           sandbox |-> SandboxFields, oauth |-> OauthFields]

Matches(type, v) ==
    IF type = "strs" THEN v[1] = "arr" /\ \A k \in DOMAIN v[2] : v[2][k][1] = "str"
    ELSE v[1] = type

(***************************************************************************)
(* The line a diagnostic points to: that of the first token equal to the   *)
(* key with a colon behind it, at whatever depth.  0 is None.              *)
(***************************************************************************)
NL == "\n"
NextInk(source, i) == LET ink == {j \in DOMAIN source : j > i /\ source[j] # NL}
                      IN  IF ink = {} THEN "" ELSE source[CHOOSE j \in ink : \A k \in ink : j <= k]
\* Mutant of FindKeyLine: the first mention counts, be it a key or a value
FindMentionLine(source, key) ==
    LET at == {i \in DOMAIN source : source[i] = key}
    IN  IF at = {} THEN 0
        ELSE 1 + Cardinality({j \in DOMAIN source :
                                source[j] = NL /\ \A i \in at : j < i})
FindKeyLine(source, key) ==
    LET at == {i \in DOMAIN source : source[i] = key /\ NextInk(source, i) = ":"}
    IN  IF at = {} THEN 0
        ELSE 1 + Cardinality({j \in DOMAIN source :
                                source[j] = NL /\ \A i \in at : j < i})

Diagnostic(field, line, kind) == [field |-> field, line |-> line, kind |-> kind]
\* Errors for the keys of one object.  A deprecated name that is not in the table is let
\* through, whatever its value; the suggestion for an unknown key is that of ClawSuggest.
KeyErrors(object, known, prefix, source) ==
    {Diagnostic(Append(prefix, key), FindKeyLine(source, key),
                IF key \in DOMAIN known THEN "wrong type" ELSE "unknown key") :
       key \in {k \in DOMAIN object :
                  IF k \in DOMAIN known THEN ~Matches(known[k], object[k])
                  ELSE k \notin DeprecatedFields}}
Warnings(object, source) ==
    {Diagnostic(<<key>>, FindKeyLine(source, key), "deprecated") :
       key \in DeprecatedFields \cap DOMAIN object}
Errors(object, source) ==
    KeyErrors(object, TopLevelFields, <<>>, source)
      \cup UNION {KeyErrors(object[part][2], Nested[part], <<part>>, source) :
                    part \in {p \in DOMAIN Nested \cap DOMAIN object : object[p][1] = "obj"}}
=============================================================================
