----------------------------- MODULE CommitDraft -----------------------------
(***************************************************************************)
(* ":commit --run": the daemon drafts a message for the staged diff, the   *)
(* client shows it as a command and, when it was asked to, commits: only   *)
(* a command of its own form, only if the index still hashes to what was   *)
(* drafted, and never through a shell.  Sources: core/commit-proposal.ts,  *)
(* core/command-proposal.ts, context/staged-diff.ts, client/run.ts.        *)
(***************************************************************************)
EXTENDS Naturals, Sequences

CONSTANTS MaxMessage, MaxEdits

VARIABLES
  pc,         \* "diff", "draft", "offer", "verify", "commit" or "over"
  tree,       \* what is staged: a number, 0 when nothing is
  hash,       \* of the diff that was drafted from
  shell, message, command, run,
  committed,  \* what the commit took and under which message
  edits

commitVars == <<pc, tree, hash, shell, message, command, run, committed, edits>>

Shells == {"posix", "fish"}
\* A message is made of words, single quotes and backslashes.
Marks  == {"w", "q", "b"}
Texts(n) == UNION {[1 .. k -> Marks] : k \in 0 .. n}

-----------------------------------------------------------------------------
\* What commitCommand puts between the outer quotes, mark by mark: POSIX closes
\* the quotes around an escaped one, fish escapes inside them.
Quoted(s, c) ==
  CASE s = "posix" /\ c = "q" -> <<"q", "b", "q", "q">>
    [] s = "fish" /\ c \in {"q", "b"} -> <<"b", c>>
    [] OTHER -> <<c>>

\* commitCommand: the marks of a message, quoted one after the other.
CommitCommand(s, m) ==
  LET f[i \in 1 .. Len(m) + 1] ==
        IF i > Len(m) THEN <<>> ELSE Quoted(s, m[i]) \o f[i + 1] IN f[1]

\* How many marks of a body the replacement at i takes, and what it leaves.
Escape(s, body, i) ==
  CASE s = "posix" /\ i + 3 <= Len(body) /\ SubSeq(body, i, i + 3) = <<"q", "b", "q", "q">>
         -> [takes |-> 4, gives |-> "q"]
    [] s = "fish" /\ i < Len(body) /\ body[i] = "b" /\ body[i + 1] \in {"q", "b"}
         -> [takes |-> 2, gives |-> body[i + 1]]
    [] OTHER -> [takes |-> 1, gives |-> body[i]]

Unquoted(s, body) ==
  LET f[i \in 1 .. Len(body) + 1] ==
        IF i > Len(body) THEN <<>>
        ELSE <<Escape(s, body, i).gives>> \o f[i + Escape(s, body, i).takes] IN f[1]

\* A quote of the body that no escape accounts for.
StrayQuote(s, body) ==
  LET f[i \in 1 .. Len(body) + 1] ==
        /\ i <= Len(body)
        /\ \/ Escape(s, body, i).takes = 1 /\ body[i] = "q"
           \/ f[i + Escape(s, body, i).takes] IN f[1]

\* commitMessage: nothing but the command this program writes itself.
IsCanonical(s, body) ==
  /\ Unquoted(s, body) # <<>>
  /\ CommitCommand(s, Unquoted(s, body)) = body
  /\ ~StrayQuote(s, body)

-----------------------------------------------------------------------------
\* The index when the diff is read: nothing staged is an error.
CommitInit ==
  /\ pc = "diff" /\ tree \in {0, 1} /\ hash = 0 /\ edits = 0
  /\ shell \in Shells /\ run \in BOOLEAN
  /\ message = <<>> /\ command = <<>>
  /\ committed = [tree |-> 0, message |-> <<>>]

ReadDiff ==
  /\ pc = "diff" /\ hash' = tree
  /\ pc' = IF tree = 0 THEN "over" ELSE "draft"
  /\ UNCHANGED <<tree, shell, message, command, run, committed, edits>>

\* propose_commit quotes the model's message.  The turn can also end in a command
\* some extension put in its place, or without one.
Propose ==
  /\ pc = "draft"
  /\ \/ \E m \in Texts(MaxMessage) \ {<<>>} :
          /\ message' = m /\ command' = CommitCommand(shell, m)
          /\ pc' = "offer"
     \/ \E body \in Texts(MaxMessage) :
          /\ message' = <<>> /\ command' = body
          /\ pc' = IF IsCanonical(shell, body) THEN "offer" ELSE "over"
     \/ pc' = "over" /\ UNCHANGED <<message, command>>
  /\ UNCHANGED <<tree, hash, shell, run, committed, edits>>

\* The client leaves the command to the user, or runs it when it was told to.
Offer ==
  /\ pc = "offer"
  /\ pc' = IF run /\ IsCanonical(shell, command) THEN "verify" ELSE "over"
  /\ UNCHANGED <<tree, hash, shell, message, command, run, committed, edits>>

\* Mutant of Unchanged: something is staged, that is enough.
UnchangedAnyhow == tree # 0

Unchanged == tree = hash /\ tree # 0

Verify ==
  /\ pc = "verify" /\ pc' = IF Unchanged THEN "commit" ELSE "over"
  /\ UNCHANGED <<tree, hash, shell, message, command, run, committed, edits>>

\* git commit takes the index as it is now, and may fail.
Commit ==
  /\ pc = "commit" /\ pc' = "over"
  /\ \/ /\ committed' = [tree |-> tree, message |-> Unquoted(shell, command)]
        /\ tree' = 0
     \/ UNCHANGED <<tree, committed>>
  /\ UNCHANGED <<hash, shell, message, command, run, edits>>

\* The user stages something else.
Stage == \E t \in 0 .. 2 :
  /\ edits < MaxEdits /\ edits' = edits + 1
  /\ pc # "over" /\ t # tree /\ tree' = t
  /\ UNCHANGED <<pc, hash, shell, message, command, run, committed>>

\* Between the look at the index and the commit nothing may be staged; the code
\* does not see to that (LooseCommitNext).
CommitNext == ReadDiff \/ Propose \/ Offer \/ Verify \/ Commit \/ (pc # "commit" /\ Stage)
LooseCommitNext == ReadDiff \/ Propose \/ Offer \/ Verify \/ Commit \/ Stage
CommitSpec == CommitInit /\ [][CommitNext]_commitVars
LooseCommitSpec == CommitInit /\ [][LooseCommitNext]_commitVars

-----------------------------------------------------------------------------
(* Reference: how a shell reads the text between "git commit -m '" and the *)
(* closing quote.                                                          *)

\* Reading from position i, inside the quotes or not: the word, or nothing when
\* it is more than one word or unfinished.
ShellReads(s, body) ==
  LET text == Append(body, "q")
      n == Len(text)
      Bad == [ok |-> FALSE, word |-> <<>>]
      Then(c, rest) == IF rest.ok THEN [ok |-> TRUE, word |-> <<c>> \o rest.word] ELSE Bad
      f[i \in 1 .. n + 1, in \in BOOLEAN] ==
        CASE i > n -> [ok |-> ~in, word |-> <<>>]
          [] i <= n /\ text[i] = "q" -> f[i + 1, ~in]
          [] i <= n /\ text[i] = "w" -> IF in THEN Then("w", f[i + 1, in]) ELSE Bad
          [] i <= n /\ text[i] = "b" /\ (~in \/ s = "fish") /\ i < n
               -> IF ~in \/ text[i + 1] # "w" THEN Then(text[i + 1], f[i + 2, in])
                  ELSE Then("b", f[i + 1, in])
          [] i <= n /\ text[i] = "b" /\ in /\ s = "posix" -> Then("b", f[i + 1, in])
          [] OTHER -> Bad
  IN f[1, TRUE]

\* What is offered is one command with one argument to the user's shell, the very
\* message that was drafted; a shell and the program agree on what it says.
OfferedIsOneWord ==
  pc \in {"offer", "verify", "commit"} =>
    LET read == ShellReads(shell, command) IN
    /\ read.ok /\ read.word = Unquoted(shell, command)
    /\ message # <<>> => read.word = message

\* A commit holds the changes its message was drafted for.
CommittedIsDrafted == committed.tree # 0 => committed.tree = hash /\ run
=============================================================================
