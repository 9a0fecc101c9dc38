----------------------------- MODULE ShellPlugin -----------------------------
(***************************************************************************)
(* Enter in a shell with the plugin loaded: the cheap test of the line, the*)
(* classifier it may ask, the client that is run on the line, and the file *)
(* of directives that is applied to the buffer afterwards                  *)
(* (src/shells/plugins, src/shells/directives.ts; the file's writer is     *)
(* writeDirectives of src/client/run.ts).  The three plugins take the same *)
(* steps; fish knows no continued command.                                 *)
(***************************************************************************)
EXTENDS LineGrammar

CONSTANTS Conversations, MaxRuns

VARIABLES
    shell,
    config,       \* grammar.passthrough of the configuration file, now
    loaded,       \* the pattern the plugin was generated with
    pc,           \* "prompt", "classifying", "running", "applying"
    continued,    \* the line continues an unfinished command (CONTEXT, PS2)
    buffer,       \* the line editor's text
    sequence,     \* runs so far, the changing part of the nonce
    file,         \* the directives file
    conversation, previous,   \* PREFAIX_CONVERSATION_ID, PREFAIX_PREVIOUS_CONVERSATION_ID
    used,         \* the conversations the shell was in, in order
    ran,          \* what the shell last executed
    swallowed     \* a line was taken out of the buffer and went nowhere

shellVars == <<shell, config, loaded, pc, continued, buffer, sequence, file, conversation, previous, used, ran, swallowed>>

Empty == [is |-> "empty"]
Typed(l) == [is |-> "typed", line |-> l]
Proposed(n) == [is |-> "proposed", by |-> n]
NoFile == [nonce |-> 0]

\* Another pattern a user may configure: `: word` is the shell's too.
CustomPattern == DEFAULT_PASSTHROUGH \union {"word"}
Patterns == {DEFAULT_PASSTHROUGH, CustomPattern}

ShellInit ==
    /\ shell \in {"zsh", "bash", "fish"} /\ config \in Patterns /\ loaded = config
    /\ pc = "prompt" /\ continued = FALSE /\ buffer = Empty /\ sequence = 0 /\ file = NoFile
    /\ conversation = "" /\ previous = "" /\ used = <<>> /\ ran = Empty /\ swallowed = FALSE

Type ==
    /\ pc = "prompt" /\ buffer = Empty /\ sequence < MaxRuns
    /\ \E l \in Lines : buffer' = Typed(l)
    /\ continued' \in (IF shell = "fish" THEN {FALSE} ELSE BOOLEAN)
    /\ ran' = Empty
    /\ UNCHANGED <<shell, config, loaded, pc, sequence, file, conversation, previous, used, swallowed>>

\* The shell parses what is in the buffer.
Execute == /\ ran' = buffer /\ buffer' = Empty /\ pc' = "prompt" /\ continued' = FALSE
           /\ UNCHANGED <<shell, config, loaded, sequence, file, conversation, previous, used, swallowed>>

\* The prefix test of the three accept-line functions.
ShellsOwn(l) == ~l.colon \/ continued \/ (loaded = DEFAULT_PASSTHROUGH /\ l.head \in loaded)

\* __prefaix_classify and __prefaix_classify_hint
AsksFirst(l) == loaded # DEFAULT_PASSTHROUGH \/ l.head \notin Alphanumeric

\* A fresh nonce, an empty buffer, and `prefaix run`.
StartRun == /\ sequence' = sequence + 1 /\ buffer' = Empty /\ pc' = "running"
            /\ UNCHANGED <<shell, config, loaded, continued, file, conversation, previous, used>>

\* run.ts answers a line it does not take with a message only.
Swallows(l) == ParseLine(l, config).kind = "pass"

Enter ==
    /\ pc = "prompt" /\ buffer # Empty
    /\ IF buffer.is = "proposed" THEN Execute
       ELSE LET l == buffer.line
            IN CASE ShellsOwn(l) -> Execute
                 [] ~ShellsOwn(l) /\ AsksFirst(l) ->
                       pc' = "classifying" /\ UNCHANGED <<shell, config, loaded, continued, buffer, sequence, file,
                                                          conversation, previous, used, ran, swallowed>>
                 [] OTHER -> StartRun /\ swallowed' = (swallowed \/ Swallows(l)) /\ ran' = Empty

\* `prefaix classify` ends: 1 is the shell's line, 0 prefaix's, anything else keeps the buffer.
Classified(code) ==
    /\ pc = "classifying"
    /\ CASE code = 1 -> Execute
         [] code = 0 -> StartRun /\ swallowed' = (swallowed \/ Swallows(buffer.line)) /\ ran' = Empty
         [] OTHER -> pc' = "prompt" /\ continued' = FALSE /\ UNCHANGED <<shell, config, loaded, buffer, sequence, file, conversation,
                                                  previous, used, ran, swallowed>>

ClassifyAnswers == pc = "classifying" /\ Classified(IF ParseLine(buffer.line, config).kind = "pass" THEN 1 ELSE 0)

\* A configuration that does not load is a usage error.
ClassifyRefuses == Classified(2)

\* Any other failure is EXIT.agentError, and so is a crash of node: the code of "pass".
ClassifyCrashes == Classified(1)

\* What the client has to say, under the nonce it was given.
Directives(c, proposes) ==
    [nonce |-> sequence, conversation |-> c, buffer |-> IF proposes THEN Proposed(sequence) ELSE Empty]

\* The client ends and its directives replace the file at once, by a rename.
ClientWrites ==
    /\ pc = "running" /\ pc' = "applying"
    /\ \E c \in Conversations \union {""}, proposes \in BOOLEAN : file' = Directives(c, proposes)
    /\ UNCHANGED <<shell, config, loaded, continued, buffer, sequence, conversation, previous, used, ran, swallowed>>

\* It is killed before the rename, or returns early: the file is the one of an earlier run.
ClientDies ==
    /\ pc = "running" /\ pc' = "applying"
    /\ UNCHANGED <<shell, config, loaded, continued, buffer, sequence, file, conversation, previous, used, ran, swallowed>>

\* Mutant of Ours: the file is applied whoever wrote it.
OursAnyway == file # NoFile

Ours == file.nonce = sequence

Before(c) == IF conversation # "" /\ c # conversation THEN conversation ELSE previous

\* __prefaix_directives, and the end of the accept-line function.
Apply ==
    /\ pc = "applying" /\ pc' = "prompt" /\ continued' = FALSE
    /\ IF ~Ours THEN UNCHANGED <<conversation, previous, used, buffer>>
       ELSE LET c == IF file.conversation = "" THEN conversation ELSE file.conversation
            IN /\ conversation' = c /\ previous' = Before(c) /\ buffer' = file.buffer
               /\ used' = IF c = conversation THEN used ELSE Append(used, c)
    /\ UNCHANGED <<shell, config, loaded, sequence, file, ran, swallowed>>

\* The user edits config.toml; the plugin keeps the settings it was generated with.
EditConfig ==
    /\ pc = "prompt" /\ config' \in Patterns \ {config}
    /\ UNCHANGED <<shell, loaded, pc, continued, buffer, sequence, file, conversation, previous, used, ran, swallowed>>

ShellNext == Type \/ Enter \/ ClassifyAnswers \/ ClassifyRefuses \/ ClientWrites \/ ClientDies \/ Apply
ShellSpec == ShellInit /\ [][ShellNext]_shellVars
ShellNextLoose == ShellNext \/ ClassifyCrashes \/ EditConfig
-----------------------------------------------------------------------------
\* The shell and the grammar agree on whose a line is, whichever plugin asked: a line
\* the grammar takes is never parsed by the shell unless it continues a command, and
\* one it passes is never swallowed (the prefix tests of the three plugins against
\* parseLine).
TakesItsOwn ==
    /\ ran # ran' /\ ran'.is = "typed" => continued \/ ParseLine(ran'.line, config).kind = "pass"
    /\ sequence' # sequence => ~continued
ShellAndGrammarAgree == [][TakesItsOwn]_shellVars

\* A line the grammar passes still runs: "Passing it back to the shell is the safe
\* resolution: the user's command still runs" (run.ts:257).
PassedLinesRun == ~swallowed

\* Whatever a run leaves in the buffer is its own proposal, never an earlier run's, and
\* the shell executes a proposal only after the prompt has shown it (the nonce, and
\* accept-line after a run).
ProposalsAreFresh == buffer.is = "proposed" => buffer.by = sequence /\ pc = "prompt"

\* `:c -` goes back to the conversation the shell was in before this one, however the
\* runs between them ended.
PreviousIsTheLastOther ==
    /\ conversation = IF used = <<>> THEN "" ELSE used[Len(used)]
    /\ previous = IF Len(used) < 2 THEN "" ELSE used[Len(used) - 1]

\* The grammar's promises, on the line just typed.
GrammarHolds == buffer.is = "typed" => /\ NothingIsDropped(buffer.line, config) /\ TyposDoNotPrompt(buffer.line, config)
-----------------------------------------------------------------------------
(* Why they hold. *)

\* The buffer holds a line, or the proposal of the last run at the prompt.
BufferIsOfNow ==
    \/ buffer = Empty
    \/ pc \in {"prompt", "classifying"} /\ \E l \in Lines : buffer = Typed(l)
    \/ pc = "prompt" /\ buffer = Proposed(sequence)

\* The file holds what some run so far had to say.
FileIsOfARun ==
    \/ file = NoFile
    \/ \E n \in 1..sequence, c \in Conversations \union {""} :
          file \in {[nonce |-> n, conversation |-> c, buffer |-> b] : b \in {Empty, Proposed(n)}}

\* Inductive.
LineInductive ==
    /\ pc \in {"prompt", "classifying", "running", "applying"} /\ sequence \in Nat
    /\ loaded = config
    /\ BufferIsOfNow /\ FileIsOfARun
    /\ pc = "classifying" => ~continued /\ buffer # Empty
    /\ pc \in {"running", "applying"} => sequence > 0 /\ buffer = Empty
    /\ used \in Seq(Conversations \ {""}) /\ PreviousIsTheLastOther
    /\ PassedLinesRun
=============================================================================
