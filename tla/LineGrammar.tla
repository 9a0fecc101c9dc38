----------------------------- MODULE LineGrammar -----------------------------
(***************************************************************************)
(* What a line means (src/shells/grammar.ts).  A line is its colon, the    *)
(* space after it, its first word, the rest of the first line and the      *)
(* lines that follow; of a word only what the grammar asks of it is kept.  *)
(* A text is the sequence of the line's pieces it is made of.              *)
(***************************************************************************)
EXTENDS Naturals, Sequences, FiniteSets

\* One word of each class the grammar's tables and patterns tell apart.
Heads == {"",          \* nothing after the colon
          "meta",      \* begins with one of > | < & ; $ ( { [
          "/name", "/!",
          "new",       \* a command that takes arguments
          "copy",      \* a command that takes none
          "?",         \* an alias of one, and not alphanumeric
          "ask",       \* a built-in persona, and a command
          "mine",      \* a persona of the configuration
          "info",      \* a command, and the name of a persona of the configuration
          "modle",     \* shaped like a name, and close to one
          "word",      \* shaped like a name, close to none
          "3", "_x",   \* alphanumeric, not shaped like a name
          "!",         \* shell punctuation the default pattern does not match
          "-x"}        \* any other symbol

CommandHeads == {"new", "copy", "?", "ask", "info"}
Bare == {"copy", "info"}          \* COMMANDS without takesArgs
BuiltInPersonas == {"ask"}
ConfiguredPersonas == {"mine", "info"}
NameShaped == {"new", "copy", "?", "ask", "mine", "info", "modle", "word"}
Close == {"new", "copy", "ask", "info", "modle"}   \* suggestions(name) is not empty
Punctuation == {"!"}
Alphanumeric == (NameShaped \ {"?"}) \union {"3", "_x"}
\* A pattern is the set of heads it matches.
DEFAULT_PASSTHROUGH == {"", "meta"}

Lines == {l \in [colon: BOOLEAN, spaced: BOOLEAN, head: Heads, args: BOOLEAN, tail: BOOLEAN] :
             /\ l.head = "" => ~l.args
             /\ ~l.colon => ~l.spaced /\ l.head = "word"}

Args(l) == IF l.args THEN <<"args">> ELSE <<>>
Tail2(l) == IF l.tail THEN <<"tail">> ELSE <<>>
Pieces(l) == (IF l.head = "" THEN <<>> ELSE <<"head">>) \o Args(l) \o Tail2(l)

Pass == [kind |-> "pass"]
PromptOf(text, persona) == [kind |-> "prompt", text |-> text, persona |-> persona]
CommandOf(name, args, known) == [kind |-> "command", name |-> name, text |-> args, known |-> known]

\* `: copy the file` is a sentence, `:copy the file` the command with a mistake in it.
IsCommand(l) == l.head \in CommandHeads /\ (~l.spaced \/ ~l.args \/ l.head \notin Bare)

IsTypo(l) == l.head \in NameShaped /\ (~l.spaced \/ (~l.args /\ l.head \in Close))

IsPersona(h) == \/ h \in BuiltInPersonas
                \/ h \in ConfiguredPersonas /\ h \notin CommandHeads

\* parseFirstLine, for a configured pattern: the first test that holds decides.
FirstLine(l, passthrough) ==
    IF ~l.colon \/ l.head \in passthrough \/ l.head = "/!" THEN Pass
    ELSE IF l.head = "" THEN PromptOf(<<>>, "")
    ELSE IF l.head = "/name" THEN [kind |-> "agent", name |-> l.head, text |-> Args(l)]
    ELSE IF IsPersona(l.head) THEN IF l.args THEN PromptOf(Args(l), l.head) ELSE CommandOf(l.head, <<>>, TRUE)
    ELSE IF IsCommand(l) \/ IsTypo(l) THEN CommandOf(l.head, Args(l), IsCommand(l))
    ELSE IF l.head \in Punctuation /\ ~l.args THEN Pass
    ELSE PromptOf(<<"head">> \o Args(l), "")

ParseLine(l, passthrough) ==
    LET parsed == FirstLine(l, passthrough)
    IN IF ~l.tail \/ parsed.kind = "pass" THEN parsed
       ELSE IF parsed.kind = "command" /\ IsPersona(l.head) THEN PromptOf(Tail2(l), l.head)
       ELSE [parsed EXCEPT !.text = @ \o Tail2(l)]
-----------------------------------------------------------------------------
(* The closest names to a misspelling. *)

Least(S) == CHOOSE x \in S : \A y \in S : x <= y

Swap(a, b, i, j) == i > 1 /\ j > 1 /\ a[i] = b[j - 1] /\ a[i - 1] = b[j]

\* The table of editDistance, by rows and columns.
EditDistance(a, b) ==
    LET at[i \in 0..Len(a), j \in 0..Len(b)] ==
            IF i = 0 \/ j = 0 THEN i + j
            ELSE Least({at[i - 1, j] + 1, at[i, j - 1] + 1, at[i - 1, j - 1] + (IF a[i] = b[j] THEN 0 ELSE 1)}
                       \union (IF Swap(a, b, i, j) THEN {at[i - 2, j - 2] + 1} ELSE {}))
    IN at[Len(a), Len(b)]

\* suggestions: one edit for a short name, two for a name of Long letters (6 in the code).
Suggests(name, candidate, Long) == EditDistance(name, candidate) <= (IF Len(name) >= Long THEN 2 ELSE 1)
-----------------------------------------------------------------------------
(* What the grammar promises. *)

Cut(s, i, n) == SubSeq(s, 1, i - 1) \o SubSeq(s, i + n, Len(s))

\* One mistake of the keyboard: a letter too many, too few, wrong, or swapped with the next.
OneMistake(a, b) ==
    \/ \E i \in DOMAIN a : Cut(a, i, 1) = b
    \/ \E i \in DOMAIN b : Cut(b, i, 1) = a
    \/ Len(a) = Len(b) /\ Cardinality({i \in DOMAIN a : a[i] # b[i]}) = 1
    \/ \E i \in 1..(Len(a) - 1) :
          /\ Len(a) = Len(b) /\ a[i] = b[i + 1] /\ a[i + 1] = b[i]
          /\ \A k \in DOMAIN a \ {i, i + 1} : a[k] = b[k]

\* A name is offered for a short word exactly when the word is that name with at most
\* one mistake, two swapped letters counting as one (suggestions, editDistance).
OneMistakeIsSuggested(a, b) == Suggests(a, b, Len(a) + 1) <=> (a = b \/ OneMistake(a, b))

\* Whatever a line becomes, every piece the user wrote is in it: as the name or the
\* persona, the arguments or the text.  "Classification must never discard part of the
\* user's prompt."
NothingIsDropped(l, passthrough) ==
    LET parsed == ParseLine(l, passthrough)
        named == IF parsed.kind = "prompt" /\ parsed.persona = "" THEN <<>> ELSE <<"head">>
    IN parsed.kind # "pass" => named \o parsed.text = Pieces(l)

\* A misspelled command glued to the colon never prompts the model, with or without
\* arguments; a sentence that begins with the name of a command does.
TyposDoNotPrompt(l, passthrough) ==
    LET parsed == ParseLine(l, passthrough)
    IN l.colon /\ l.head \in NameShaped \ passthrough =>
          /\ ~l.spaced /\ ~IsPersona(l.head) => parsed.kind = "command"
          /\ l.spaced /\ l.head \in Bare /\ l.args => parsed.kind = "prompt"
=============================================================================
