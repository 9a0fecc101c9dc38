-------------------------------- MODULE Setup --------------------------------
(***************************************************************************)
(* `prefaix setup` and `prefaix uninstall` on a shell's rc file: the block *)
(* that is added or taken out, the diff the user confirms, the user's own  *)
(* editor meanwhile, and a crash on the way (src/cli/setup.ts).  A text is *)
(* a sequence of lines' contents and line ends; JOINED marks a file that   *)
(* had no final line end.                                                  *)
(***************************************************************************)
EXTENDS Naturals, Sequences, SequencesExt

CONSTANTS MaxRuns, MaxEdits

VARIABLES
    rc,        \* the rc file, or Missing
    own,       \* what the user wrote in it, without the block
    whole,     \* the user has left the block as it was written
    pc,        \* "idle", "asking", "checked", "backed", "renaming"
    uninstall, \* which of the two commands
    before,    \* the text it read
    after,     \* the text it means to write
    backup,    \* the last backup, or Missing
    litter,    \* a temporary file is left in the directory
    runs, edits,
    said       \* how the last command ended

setupVars == <<rc, own, whole, pc, uninstall, before, after, backup, litter, runs, edits, said>>

Missing == <<"missing">>
Text(file) == IF file = Missing THEN <<>> ELSE file
EndsLine(t) == t # <<>> => Last(t) = "nl"

\* setupBlock
Block(joined) == <<"start", "nl">> \o (IF joined THEN <<"joined", "nl">> ELSE <<>>) \o <<"init", "nl", "end", "nl">>

Count(t, x) == Len(SelectSeq(t, LAMBDA y : y = x))
At(t, s) == {i \in 1..(Len(t) + 1 - Len(s)) : SubSeq(t, i, i + Len(s) - 1) = s}
OwnLine(t, i) == i = 1 \/ t[i - 1] = "nl"

\* The text around the one block, with the line end that the block needed when nothing
\* follows it.
Without(t) ==
    LET joined == At(t, Block(TRUE)) # {}
        i == CHOOSE i \in At(t, Block(joined)) : OwnLine(t, i)
        suffix == SubSeq(t, i + Len(Block(joined)), Len(t))
    IN SubSeq(t, 1, IF joined /\ i > 1 /\ suffix = <<>> THEN i - 2 ELSE i - 1) \o suffix

Unmarked(t) == Count(t, "start") = 0 /\ Count(t, "end") = 0

Removable(t) == /\ Count(t, "start") = 1 /\ Count(t, "end") = 1
                /\ \E joined \in BOOLEAN : \E i \in At(t, Block(joined)) : OwnLine(t, i)

\* changeSetup: the text with the block at its end, on a line of its own.
With(t) == t \o (IF EndsLine(t) THEN Block(FALSE) ELSE <<"nl">> \o Block(TRUE))

SetupInit ==
    /\ rc \in {Missing, <<>>, <<"a", "nl">>, <<"a">>, <<"start", "nl", "a", "nl">>} /\ own = Text(rc)
    /\ whole = TRUE /\ pc = "idle" /\ uninstall = FALSE /\ before = Missing /\ after = <<>> /\ backup = Missing
    /\ litter = FALSE /\ runs = 0 /\ edits = 0 /\ said = "nothing"

End(s) == /\ pc' = "idle" /\ said' = s
          /\ before' = Missing /\ after' = <<>>

\* Up to the diff: the file is read, a block that is broken or edited is refused,
\* nothing to do is said, --dry-run stops.
Review ==
    /\ pc = "idle" /\ runs < MaxRuns /\ runs' = runs + 1
    /\ \E u \in BOOLEAN :
          /\ uninstall' = u
          /\ IF ~Unmarked(Text(rc)) /\ ~Removable(Text(rc)) THEN End("refused")
             ELSE IF Unmarked(Text(rc)) = u THEN End("done already")
             ELSE /\ before' = rc /\ pc' = "asking" /\ said' = "nothing"
                  /\ after' = IF u THEN Without(rc) ELSE With(Text(rc))
    /\ UNCHANGED <<rc, own, whole, backup, litter, edits>>

Declines == pc = "asking" /\ End("declined") /\ UNCHANGED <<rc, own, whole, uninstall, backup, litter, runs, edits>>

Unchanged == rc = before

\* Confirmed: the file is read again and compared.
Confirms ==
    /\ pc = "asking"
    /\ IF Unchanged THEN pc' = "checked" /\ UNCHANGED <<before, after, said>> ELSE End("changed")
    /\ UNCHANGED <<rc, own, whole, uninstall, backup, litter, runs, edits>>

\* A copy of what was read, then the new text beside the file.
BackUp ==
    /\ pc = "checked" /\ pc' = "backed"
    /\ backup' = IF before = Missing THEN backup ELSE before
    /\ UNCHANGED <<rc, own, whole, uninstall, before, after, litter, runs, edits, said>>

WriteBeside ==
    /\ pc = "backed" /\ pc' = "renaming" /\ litter' = TRUE
    /\ UNCHANGED <<rc, own, whole, uninstall, before, after, backup, runs, edits, said>>

\* The rename; the finally finds no temporary file to remove.
Rename ==
    /\ pc = "renaming" /\ End("changed it")
    /\ rc' = after /\ litter' = FALSE /\ whole' = TRUE
    /\ UNCHANGED <<own, uninstall, backup, runs, edits>>

Crash ==
    /\ pc \in {"asking", "checked", "backed", "renaming"} /\ End("crashed")
    /\ UNCHANGED <<rc, own, whole, uninstall, backup, litter, runs, edits>>

Installed == \E i \in At(Text(rc), <<"init">>) : TRUE

\* The user's editor saves: a line after, before or inside the block.
Edits ==
    /\ edits < MaxEdits /\ edits' = edits + 1
    /\ \/ /\ EndsLine(Text(rc)) /\ rc' = Text(rc) \o <<"b", "nl">> /\ own' = own \o (IF EndsLine(own) THEN <<>> ELSE <<"nl">>) \o <<"b", "nl">>
          /\ UNCHANGED whole
       \/ /\ rc' = <<"c", "nl">> \o Text(rc) /\ own' = <<"c", "nl">> \o own /\ UNCHANGED whole
       \/ /\ Installed /\ whole' = FALSE /\ UNCHANGED own
          /\ rc' = LET i == CHOOSE i \in At(rc, <<"init">>) : TRUE
                   IN SubSeq(rc, 1, i - 1) \o <<"mine", "nl">> \o SubSeq(rc, i, Len(rc))

EditsMeanwhile == /\ pc \in {"idle", "asking"} /\ Edits
                  /\ UNCHANGED <<pc, uninstall, before, after, backup, litter, runs, said>>

\* An editor does not know of the check either.
EditsLate == /\ pc \in {"checked", "backed", "renaming"} /\ Edits
             /\ UNCHANGED <<pc, uninstall, before, after, backup, litter, runs, said>>

SetupNext == Review \/ Declines \/ Confirms \/ BackUp \/ WriteBeside \/ Rename \/ Crash \/ EditsMeanwhile
SetupSpec == SetupInit /\ [][SetupNext]_setupVars
LooseSetupSpec == SetupInit /\ [][SetupNext \/ EditsLate]_setupVars
-----------------------------------------------------------------------------
\* The rc file is at every moment exactly what the user wrote, with the block in it or
\* not: no command, confirmed, declined, refused or cut short, loses a line, leaves
\* one, or tears the file (removeSetupBlock, changeSetup).
RcIsTheUsers ==
    /\ Unmarked(Text(rc)) => Text(rc) = own
    /\ Removable(Text(rc)) /\ whole => Without(Text(rc)) = own
=============================================================================
