---------------------------- MODULE Configuration ----------------------------
(***************************************************************************)
(* The configuration a command or the daemon runs under: the schema's      *)
(* defaults, the TOML file, the PREFAIX_* variables, what is refused and    *)
(* what is reported (src/core/config; src/cli/config.ts).  A value is its  *)
(* type and what the schema asks of it; one field is given at a time, with *)
(* the two fields that are related.                                        *)
(***************************************************************************)
EXTENDS Naturals, Sequences

VARIABLES
    document,   \* the file: "none", "unreadable", "broken", "table"
    field,      \* the field under study
    stray,      \* the file holds a key the schema does not know
    inFile,     \* field -> value or Absent
    inEnv,      \* name -> raw text or Absent
    persona,    \* what the file's [personas.ask] gives, or Absent
    resolved    \* the resolved configuration, or Absent

configVars == <<document, field, stray, inFile, inEnv, persona, resolved>>

Absent == "absent"
Null == "null"

Node(kind, default) == [kind |-> kind, default |-> default, closed |-> FALSE, min |-> FALSE, regex |-> FALSE]

\* One field of each shape of CONFIG_SCHEMA.
Schema ==
    [backend |-> Node("enum", "default"),
     bin |-> Node("string", "default"),
     model |-> Node("optionalString", Null),
     session_dir |-> Node("optionalPath", Null),
     max_children |-> [Node("integer", "default") EXCEPT !.min = TRUE],
     idle_minutes |-> [Node("number", "default") EXCEPT !.min = TRUE],
     spare |-> Node("boolean", "default"),
     footer |-> [Node("stringList", "default") EXCEPT !.closed = TRUE],
     extra_redact_patterns |-> [Node("stringList", "default") EXCEPT !.regex = TRUE],
     passthrough |-> Node("enum", "default"),
     allowlist |-> Node("optionalStringList", Null),
     pattern |-> [Node("string", "default") EXCEPT !.regex = TRUE]]

Fields == DOMAIN Schema
EnvNames(f) == IF f = "backend" THEN <<f, "PREFAIX_BACKEND">> ELSE <<f>>
Names == Fields \union {"PREFAIX_BACKEND"}

Strings == {"", "good", "odd", "home"}    \* "good": allowed, compiles, absolute
Numbers == {"int", "fraction", "small"}   \* "small": below the minimum
Lists == {"[]", "list", "badlist"}        \* "badlist": an item is not allowed or does not compile
FileValues == Strings \union Numbers \union Lists \union {"true", "mixed", "subtable"}
RawValues == Strings \union Numbers \union Lists \union {"true", "mixed"}
-----------------------------------------------------------------------------
(* One value (toml.ts, env.ts). *)

Optional(kind) == kind \in {"optionalString", "optionalPath"}
ListKind(kind) == kind \in {"stringList", "optionalStringList"}

Coerces(kind, v) == CASE kind \in {"string", "enum"} \/ Optional(kind) -> v \in Strings
                      [] kind = "boolean" -> v = "true"
                      [] kind \in {"integer", "number"} -> v \in Numbers
                      [] ListKind(kind) -> v \in Lists

\* coerceField, and expandHome
Coerced(kind, v) == CASE Optional(kind) /\ v = "" -> Null
                      [] kind = "optionalPath" /\ v = "home" -> "good"
                      [] OTHER -> v

\* validateFieldValue
Valid(node, v) ==
    CASE node.kind = "optionalPath" -> v \in {"good", "home", Null}
      [] node.kind = "enum" -> v = "good"
      [] node.kind = "string" -> v # "" /\ (node.regex => v # "odd")
      [] ListKind(node.kind) -> v = "badlist" => ~node.closed /\ ~node.regex
      [] node.kind \in {"integer", "number"} -> /\ v = "fraction" => node.kind = "number"
                                                /\ v = "small" => ~node.min
      [] OTHER -> TRUE

\* parseEnvValue: the field's value for a raw text, or Absent.
ParsedEnv(kind, raw) ==
    CASE kind = "boolean" -> IF raw = "true" THEN raw ELSE Absent
      [] kind \in {"integer", "number"} -> IF raw \in Numbers THEN raw ELSE Absent
      [] ListKind(kind) /\ raw = "" -> IF kind = "stringList" THEN "[]" ELSE Null
      [] ListKind(kind) /\ raw # "" -> IF raw \in Lists THEN raw ELSE Absent
      [] OTHER -> Coerced(kind, IF raw \in Strings THEN raw ELSE "odd")

\* An optional string that is empty is refused by checkFieldValue, but both readers
\* have made it null by then.
EnvUsable(f, raw) == raw # Absent /\ ParsedEnv(Schema[f].kind, raw) # Absent /\ Valid(Schema[f], ParsedEnv(Schema[f].kind, raw))
FileUsable(f, v) == v # Absent /\ Coerces(Schema[f].kind, v) /\ Valid(Schema[f], Coerced(Schema[f].kind, v))
-----------------------------------------------------------------------------
(* The whole of it (index.ts, env.ts). *)

Given(f) == IF document = "table" THEN inFile[f] ELSE Absent

\* memberDefaults
Default(f) == Schema[f].default

\* readNode: the file's value, or the default.
Read(f) == IF FileUsable(f, Given(f)) THEN Coerced(Schema[f].kind, Given(f)) ELSE Default(f)

\* applyField: the variable that decides a field, or Absent.
Override(f) ==
    LET usable == {i \in DOMAIN EnvNames(f) : EnvUsable(f, inEnv[EnvNames(f)[i]])}
    IN IF usable = {} THEN Absent ELSE EnvNames(f)[CHOOSE i \in usable : \A j \in usable : i <= j]

Value(f) == IF Override(f) = Absent THEN Read(f) ELSE ParsedEnv(Schema[f].kind, inEnv[Override(f)])

\* applyField reports the names it passes over, up to the one it takes.
EnvDiagnostics == {n \in Names : \E f \in Fields : \E i \in DOMAIN EnvNames(f) :
                      /\ EnvNames(f)[i] = n /\ inEnv[n] # Absent /\ ~EnvUsable(f, inEnv[n])
                      /\ \A j \in 1..i : ~EnvUsable(f, inEnv[EnvNames(f)[j]])}

FileDiagnostics == CASE document = "broken" -> {"document"}
                     [] document = "table" -> {f \in Fields : inFile[f] # Absent /\ ~FileUsable(f, inFile[f])}
                                              \union (IF stray THEN {"unknown"} ELSE {})
                     [] OTHER -> {}

\* Mutant of Unrelated: a list is not asked for.
UnrelatedNever == FALSE

\* checkRelations
Unrelated == Value("passthrough") = "good" /\ Value("allowlist") = Null   \* "good" stands for "allowlist" here

\* readMap: an entry of the file replaces the shipped one.
Persona == IF ~persona.given \/ document # "table" THEN [given |-> FALSE, tools |-> "shipped", guideline |-> "shipped"] ELSE persona

\* describeConfig: what is reported as set, and by what.
Described == {<<f, "file">> : f \in {g \in Fields : FileUsable(g, Given(g)) /\ Override(g) = Absent}}
             \union {<<f, Override(f)>> : f \in {g \in Fields : Override(g) # Absent}}

\* filterEnv: the list filters whenever there is one, and its absence lets everything through.
Variables == {"listed", "other", "denied"}
Inherits(value, key) == key # "denied" /\ (value["allowlist"] # Null => key = "listed" /\ value["allowlist"] # "[]")

ConfigInit ==
    /\ document \in {"none", "unreadable", "broken", "table"} /\ field \in Fields /\ stray \in BOOLEAN
    /\ \E v \in FileValues \union {Absent}, mode \in {Absent, "good"}, names \in {Absent, "list"} :
          inFile = [f \in Fields |-> CASE f = field -> v
                                       [] f = "passthrough" /\ f # field -> mode
                                       [] f = "allowlist" /\ f # field -> names
                                       [] OTHER -> Absent]
    /\ \E raw, alias \in RawValues \union {Absent} :
          /\ field # "backend" => alias = Absent
          /\ inEnv = [n \in Names |-> CASE n = field -> raw [] n = "PREFAIX_BACKEND" -> alias [] OTHER -> Absent]
    /\ persona \in {[given |-> FALSE]} \union [given : {TRUE}, tools : {"given", Null}, guideline : {"given", Null}]
    /\ stray \/ persona.given => field = "spare"
    /\ document # "table" => inFile[field] = Absent /\ ~stray
    /\ resolved = [done |-> FALSE]

\* The exit codes of `prefaix config check`, which says no more than loadConfig does.
Refused(exit) == [done |-> TRUE, ok |-> FALSE, exit |-> exit]

\* loadConfig and `prefaix config check`: one resolution, refused when anything is
\* wrong with what was given.
Resolve ==
    /\ ~resolved.done
    /\ resolved' = IF document = "unreadable" THEN Refused(1)
                   ELSE IF FileDiagnostics \union EnvDiagnostics # {} \/ Unrelated THEN Refused(2)
                   ELSE [done |-> TRUE, ok |-> TRUE, exit |-> 0, value |-> [f \in Fields |-> Value(f)], ask |-> Persona,
                         described |-> Described]
    /\ UNCHANGED <<document, field, stray, inFile, inEnv, persona>>

ConfigNext == Resolve
ConfigSpec == ConfigInit /\ [][ConfigNext]_configVars
-----------------------------------------------------------------------------
Accepted == resolved.done /\ resolved.ok

\* A configuration that loads has in it everything that was given, the environment
\* before the file and the file before the default: nothing the user wrote is dropped
\* without a word (resolveConfig, loadConfig).
WhatIsGivenIsUsed ==
    Accepted => ~stray /\ document # "broken" /\ \A f \in Fields :
        LET raws == {inEnv[EnvNames(f)[i]] : i \in DOMAIN EnvNames(f)} \ {Absent}
            main == inEnv[f]
            v == resolved.value[f]
        IN CASE main # Absent -> v = ParsedEnv(Schema[f].kind, main)
             [] main = Absent /\ raws # {} -> \E raw \in raws : v = ParsedEnv(Schema[f].kind, raw)
             [] raws = {} /\ Given(f) # Absent -> v = Coerced(Schema[f].kind, Given(f))
             [] OTHER -> v = Schema[f].default

\* Under a configuration that says "allowlist" the child gets no variable that is not
\* on the list, and never one that is denied (checkRelations, filterEnv).
AllowlistIsKept ==
    Accepted => \A key \in Variables :
        Inherits(resolved.value, key) => /\ key # "denied"
                                         /\ resolved.value["passthrough"] = "good" => key = "listed"

\* A persona the file defines has nothing left of the shipped one: "a complete override
\* and never a surprise half-override" (schema.ts:67).
PersonasAreReplaced == Accepted /\ persona.given /\ document = "table" => resolved.ask = persona

\* A setting is reported once, with the source that decided it (describeConfig).
ReportsOf(f) == {d \in resolved.described : d[1] = f}
SettingsAreReportedOnce ==
    Accepted => \A f \in Fields :
        /\ \A d, e \in ReportsOf(f) : d = e
        /\ resolved.value[f] # Schema[f].default => ReportsOf(f) # {}
-----------------------------------------------------------------------------
(* Why it holds. *)

\* Inductive: what was resolved is what the document and the variables say, and nothing
\* was wrong with them.
ConfigInductive ==
    /\ document \in {"none", "unreadable", "broken", "table"} /\ stray \in BOOLEAN
    /\ document # "table" => ~stray
    /\ resolved.done => /\ resolved.ok \in BOOLEAN
                        /\ resolved.ok => /\ FileDiagnostics = {} /\ EnvDiagnostics = {} /\ ~Unrelated
                                          /\ resolved.value = [f \in Fields |-> Value(f)]
                                          /\ resolved.ask = Persona /\ resolved.described = Described
=============================================================================
