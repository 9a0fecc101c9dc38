------------------------------ MODULE Terminal ------------------------------
(***************************************************************************)
(* The terminal during a turn: bytes become keys, keys abort, detach or    *)
(* are kept as typeahead, and every way out puts the terminal back         *)
(* (src/client/tty.ts; the handlers are startTty's in src/client/run.ts).  *)
(*                                                                         *)
(* A byte stands for the class of code units the decoder tells apart.      *)
(***************************************************************************)
EXTENDS Integers, Sequences, SequencesExt

CONSTANTS MaxKeys   \* bound: keys the user presses

VARIABLES
    typed,    \* every byte the user typed
    cancels,  \* presses of Esc and of Alt with a key
    unread,   \* what the terminal holds and the client has not read
    pending,  \* KeyDecoder.#pending
    timer,    \* the Esc window is open (#timer)
    keys,     \* the keys reported, [name, text]
    torn,     \* times what was held was let go of with more to come
    raw,      \* the terminal is in raw mode
    tty,      \* "new", "entered", "closed" (TtyController)
    guards,   \* the exit guards are installed
    exited    \* how the process ended: "no", "signal", "end"

ttyVars == <<typed, cancels, unread, pending, timer, keys, torn, raw, tty, guards, exited>>

Esc == "esc"
Bracket == "["     \* also "O": opens a sequence
Digit == "1"       \* inside a sequence, or a character
Letter == "A"      \* ends a sequence, or a character
High == "high"     \* the first unit of a surrogate pair
Low == "low"
Ctrl == {"ctrl-c", "ctrl-z"}

\* What one press sends: a terminal writes a sequence as a whole.
Presses == {<<Esc>>, <<Letter>>, <<Bracket>>, <<High, Low>>, <<Esc, Letter>>,
            <<Esc, Bracket, Letter>>, <<Esc, Bracket, Digit, Letter>>} \cup {<<c>> : c \in Ctrl}

Name(text) == IF Len(text) = 1 /\ text[1] \in Ctrl \cup {Esc} THEN text[1] ELSE "char"
KeyOf(text) == [name |-> Name(text), text |-> text]

\* The length of the sequence that follows an Esc, 0 for a lone Esc, -1 to wait.
Wait == -1
\* Mutant of EscapeBody: any byte after an Esc disambiguates it.
EscapeBodyHasty(rest) == IF rest = <<>> THEN Wait ELSE 0

EscapeBody(rest) ==
    IF rest = <<>> THEN Wait
    ELSE IF rest[1] # Bracket THEN 0
    ELSE LET ends == {n \in 2..Len(rest) : rest[n] = Letter}
         IN IF ends = {} THEN Wait ELSE CHOOSE n \in ends : \A m \in ends : n <= m

CharWidth(s) == IF s[1] # High THEN 1
                ELSE IF Len(s) > 1 /\ s[2] = Low THEN 2 ELSE Wait

Drop(s, n) == SubSeq(s, n + 1, Len(s))
Take(s, n) == SubSeq(s, 1, n)

\* The units the first key of s takes, or Wait.
Width(s) == IF s[1] # Esc THEN CharWidth(s)
            ELSE IF EscapeBody(Drop(s, 1)) = Wait THEN Wait ELSE EscapeBody(Drop(s, 1)) + 1
First(s, width) == IF s[1] = Esc THEN [name |-> IF width = 1 THEN Esc ELSE "sequence", text |-> Take(s, width)]
                   ELSE KeyOf(Take(s, width))

\* The loop of push, from the i-th unit on: what was decoded, what is held, and whether a
\* timer is due.
Decode(s) ==
    LET f[i \in 1..Len(s) + 1] ==
          LET rest == Drop(s, i - 1)
              width == Width(rest) IN
          IF rest = <<>> \/ width = Wait
          THEN [keys |-> <<>>, pending |-> rest, timer |-> rest # <<>> /\ rest[1] = Esc]
          ELSE [f[i + width] EXCEPT !.keys = <<First(rest, width)>> \o @]
    IN f[1]

\* What flush reports: a lone Esc, or each unit of a half sequence by itself.
Flushed == [i \in 1..Len(pending) |-> KeyOf(<<pending[i]>>)]

Flush ==
    /\ keys' = keys \o Flushed
    /\ torn' = IF Len(pending) > 1 \/ (pending = <<Esc>> /\ unread # <<>>) THEN torn + 1 ELSE torn
    /\ pending' = <<>> /\ timer' = FALSE
-----------------------------------------------------------------------------
TermInit ==
    /\ typed = <<>> /\ cancels = 0 /\ unread = <<>> /\ pending = <<>> /\ timer = FALSE /\ keys = <<>>
    /\ torn = 0 /\ raw = FALSE /\ tty = "new" /\ guards = FALSE /\ exited = "no"

\* The user types (external); what nobody reads stays with the terminal.
Press ==
    /\ Len(typed) < MaxKeys
    /\ exited = "no"
    /\ \E bytes \in Presses :
         /\ typed' = typed \o bytes /\ unread' = unread \o bytes
         /\ cancels' = IF bytes \in {<<Esc>>, <<Esc, Letter>>} THEN cancels + 1 ELSE cancels
    /\ UNCHANGED <<pending, timer, keys, torn, raw, tty, guards, exited>>

\* The guards are there before raw mode is.
InstallGuards ==
    /\ tty = "new" /\ ~guards /\ exited = "no"
    /\ guards' = TRUE
    /\ UNCHANGED <<typed, cancels, unread, pending, timer, keys, torn, raw, tty, exited>>

Enter(accepts) ==
    /\ tty = "new" /\ guards /\ exited = "no"
    /\ tty' = "entered" /\ raw' = accepts
    /\ UNCHANGED <<typed, cancels, unread, pending, timer, keys, torn, guards, exited>>

\* A read brings everything there is, or the first part of it.
Read ==
    /\ raw /\ tty = "entered" /\ unread # <<>>
    /\ \E n \in 1..Len(unread) :
         LET all == Decode(pending \o Take(unread, n)) IN
         /\ keys' = keys \o all.keys
         /\ pending' = all.pending
         /\ timer' = all.timer
         /\ unread' = Drop(unread, n)
    /\ UNCHANGED <<typed, cancels, torn, raw, tty, guards, exited>>

EscTimer ==
    /\ timer /\ tty = "entered"
    /\ Flush
    /\ UNCHANGED <<typed, cancels, unread, raw, tty, guards, exited>>

\* Idempotent: what is held is reported first, then the mode is put back.
DoRestore ==
    IF tty = "closed"
    THEN UNCHANGED <<pending, timer, keys, torn, raw, tty>>
    ELSE /\ Flush
         /\ raw' = FALSE /\ tty' = "closed"

\* The normal path of run(): the guards go first.
Restore ==
    /\ tty = "entered" /\ exited = "no"
    /\ guards' = FALSE /\ exited' = "end"
    /\ DoRestore
    /\ UNCHANGED <<typed, cancels, unread>>

\* A signal, or an exception nobody caught, with the guards installed.
Signal ==
    /\ exited = "no" /\ guards
    /\ DoRestore
    /\ exited' = "signal"
    /\ UNCHANGED <<typed, cancels, unread, guards>>

\* Without the guards a signal just ends the process.
SignalUnguarded ==
    /\ exited = "no" /\ ~guards
    /\ exited' = "signal"
    /\ UNCHANGED <<typed, cancels, unread, pending, timer, keys, torn, raw, tty, guards>>

TermNext ==
    \/ Press \/ InstallGuards \/ Read \/ EscTimer \/ Restore \/ Signal \/ SignalUnguarded
    \/ \E accepts \in BOOLEAN : Enter(accepts)

TermSpec == TermInit /\ [][TermNext]_ttyVars /\ WF_ttyVars(EscTimer) /\ WF_ttyVars(Read)
-----------------------------------------------------------------------------
TextOf(found) == FlattenSeq([i \in 1..Len(found) |-> found[i].text])

(* No byte is lost, invented or moved between the keyboard and the turn:    *)
(* what was reported, what is held and what was not read are what was       *)
(* typed (push, flush and restore of tty.ts).                               *)
NothingTypedIsLost == TextOf(keys) \o pending \o unread = typed

(* A terminal is never left in raw mode, whichever way the process ends     *)
(* ("a terminal left in raw mode is the single worst failure this program   *)
(* has").                                                                   *)
TerminalIsRestored == exited # "no" => ~raw

(* An arrow key is never taken for a cancel, except when its bytes came in  *)
(* two reads and the window closed, or the turn ended, in between (the      *)
(* disambiguation of KeyDecoder).                                           *)
ArrowIsNoCancel ==
    Len(SelectSeq(keys, LAMBDA k : k.name = Esc)) <= cancels + torn

(* An Esc somebody is waiting for is reported: it is not held for ever.     *)
EscIsHeld == pending = <<Esc>>
EscIsReported == EscIsHeld ~> ~EscIsHeld
=============================================================================
