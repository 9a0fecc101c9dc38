---------------------------- MODULE PromptContext -----------------------------
(* The recent commands of a shell and what the model is told of them: the       *)
(* plugins keep the newest ones (src/shells/plugins), `prefaix run` is given    *)
(* them as arguments (parseRunArgs), and the client cuts the list to the        *)
(* configured length before it redacts it (src/context/shell-context.ts).       *)
EXTENDS Integers, Sequences, SequencesExt

CONSTANTS
    Limits,        \* values of context.recent_commands
    MaxCommands    \* bound on the commands the user runs

Commands == {"plain", "secret"}     \* "secret": one of the redactor's shapes is in it
Codes == {"0", "1", "none"}         \* exit codes; none where includeExitCodes is off

VARIABLES
    limit,         \* recentCommands of the configuration, now
    exitCodes,     \* includeExitCodes
    redacts,       \* redact
    pluginLimit,   \* __prefaix_limit, as the plugin was generated
    recent,        \* __prefaix_recent
    command,       \* __prefaix_command, "" when the line that ended ran none
    executed,      \* history: the commands the shell ran since it has the plugin
    told           \* history: what the last run told, with the length of the history then

contextVars == <<limit, exitCodes, redacts, pluginLimit, recent, command, executed, told>>

Entry(cmd, code) == [cmd |-> cmd, exit |-> code]
Unasked == [entries |-> <<>>, at |-> 0, limit |-> 0]

ContextInit ==
    /\ limit \in Limits /\ pluginLimit = limit
    /\ exitCodes \in BOOLEAN /\ redacts \in BOOLEAN
    /\ recent = <<>> /\ command = "" /\ executed = <<>> /\ told = Unasked

\* The last `n` entries; all of them when there are not so many.
Newest(n, seq) == SubSeq(seq, Max({1, Len(seq) - n + 1}), Len(seq))

\* preexec: the shell runs a command.
Preexec ==
    /\ command = "" /\ Len(executed) < MaxCommands
    /\ command' \in Commands
    /\ UNCHANGED <<limit, exitCodes, redacts, pluginLimit, recent, executed, told>>

\* The array holds the newest commands, and none where the limit is 0.
Remembered(seq) == IF pluginLimit = 0 THEN <<>> ELSE Newest(pluginLimit, seq)

\* precmd (postexec in fish), with $? still the command's.
Precmd(code) ==
    /\ command # ""
    /\ recent' = Remembered(Append(recent, Entry(command, code)))
    /\ executed' = Append(executed, Entry(command, code))
    /\ command' = ""
    /\ UNCHANGED <<limit, exitCodes, redacts, pluginLimit, told>>

\* JavaScript's slice(-n): from the end, but from the start where n is 0.
SliceFromEnd(n, seq) == IF n = 0 THEN seq ELSE Newest(n, seq)

Redacted(cmd) == IF redacts /\ cmd = "secret" THEN "redacted" ELSE cmd

\* A line for prefaix: the arguments are parsed, and the context built of them.
Run ==
    /\ command = ""
    /\ LET kept == SliceFromEnd(limit, recent)
       IN  told' = [entries |-> [i \in DOMAIN kept |->
                        Entry(Redacted(kept[i].cmd), IF exitCodes THEN kept[i].exit ELSE "none")],
                    at |-> Len(executed), limit |-> limit]
    /\ UNCHANGED <<limit, exitCodes, redacts, pluginLimit, recent, command, executed>>

\* `eval "$(prefaix init ...)"` again, in a shell that has the plugin: the array stays.
Reload ==
    /\ command = "" /\ pluginLimit # limit
    /\ pluginLimit' = limit
    /\ UNCHANGED <<limit, exitCodes, redacts, recent, command, executed, told>>

\* The configuration, or the variable that overrides it, changes under the plugin.
EditLimit(new) ==
    /\ new # limit /\ limit' = new
    /\ UNCHANGED <<exitCodes, redacts, pluginLimit, recent, command, executed, told>>

ContextNext ==
    \/ Preexec \/ Run \/ Reload
    \/ \E code \in {"0", "1"} : Precmd(code)
    \/ \E new \in Limits \ {0} : EditLimit(new)
\* With the limit set to 0 as well, under a plugin that was generated with another.
LooseContextNext == ContextNext \/ EditLimit(0)
ContextSpec == ContextInit /\ [][ContextNext]_contextVars
-----------------------------------------------------------------------------
\* What was executed, as it may be told.
Tellable(entry) == Entry(Redacted(entry.cmd), IF exitCodes THEN entry.exit ELSE "none")

\* The model is told the last commands of the shell, in order, each with its own exit
\* code, and none that looks like a secret (the two hooks of the plugins, buildContext).
ToldIsTheNewest ==
    LET n == Len(told.entries)
    IN  /\ n <= told.at
        /\ \A i \in 1 .. n : told.entries[i] = Tellable(executed[told.at - n + i])
        /\ redacts => \A i \in 1 .. n : told.entries[i].cmd # "secret"

\* It is told no more of them than context.recent_commands says, whatever the limit
\* was when the plugin was loaded ("the limit is about what the model sees",
\* shell-context.ts:79).
LimitIsKept == Len(told.entries) <= told.limit
-----------------------------------------------------------------------------
(* Why it holds. *)

\* The plugin's array is the end of what was executed.
Remembers ==
    /\ Len(recent) <= Len(executed)
    /\ \A i \in 1 .. Len(recent) : recent[i] = executed[Len(executed) - Len(recent) + i]

\* Inductive.  A limit of 0 was there from the start, so nothing was remembered.
ContextInductive ==
    /\ limit \in Nat /\ pluginLimit \in Nat
    /\ recent \in Seq([cmd : Commands, exit : Codes]) /\ executed \in Seq([cmd : Commands, exit : Codes])
    /\ command \in Commands \union {""}
    /\ limit = 0 => pluginLimit = 0 /\ recent = <<>>
    /\ Remembers
    /\ Len(told.entries) \in Nat /\ told.at \in 0 .. Len(executed)
    /\ ToldIsTheNewest /\ LimitIsKept
=============================================================================
