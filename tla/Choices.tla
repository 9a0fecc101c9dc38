------------------------------- MODULE Choices -------------------------------
(***************************************************************************)
(* The two lists a user chooses from on the terminal: the picker of        *)
(* client/picker.ts, with its filter and its window of rows, and the       *)
(* select dialog of client/render/dialogs.ts.  Entries are numbers; a      *)
(* query keeps a part of them, a longer one a part of that.                *)
(***************************************************************************)
EXTENDS Integers, Sequences, FiniteSets

CONSTANTS MaxEntries, MaxQuery, MaxRows

VARIABLES
  list,       \* "picker", "fzf" or "select"
  entries,    \* how many there are
  keeps,      \* per length of the query the entries whose label contains it
  preview,    \* how many lines of preview an entry has
  rows,       \* of the terminal
  query,      \* its length
  selected,   \* the cursor, from 0 as in the code
  mark,       \* the entry the last drawn screen marks, 0 when none is
  result      \* the answer: an entry, Cancelled or, still, Open

choiceVars == <<list, entries, keeps, preview, rows, query, selected, mark, result>>

Open == -2
Cancelled == -1
Least(a, b) == IF a < b THEN a ELSE b
Most(a, b)  == IF a > b THEN a ELSE b

\* The entries that are listed, in order.
Matches(q) == LET kept == IF list = "picker" THEN keeps[q] ELSE 1 .. entries
                  Before(i) == Cardinality({j \in kept : j < i}) IN
  [k \in 1 .. Cardinality(kept) |-> CHOOSE i \in kept : Before(i) = k - 1]

Entry(q, cursor) ==
  IF cursor + 1 \in DOMAIN Matches(q) THEN Matches(q)[cursor + 1] ELSE 0

\* The picker's rows: a title, the list, part of the preview, the keys.
Height == Most(3, Least(16, rows - 1))
ListRows(q, cursor) ==
  LET shown == IF Entry(q, cursor) = 0 THEN 0 ELSE Least(preview, Least(5, Most(0, Height - 5)))
  IN Height - shown - 2

From(q, cursor) == Most(0, cursor - ListRows(q, cursor) + 1)

\* The entry the screen marks: one of the rows that are drawn.
Marked(q, cursor) ==
  IF list = "picker" /\ ~(From(q, cursor) <= cursor
                           /\ cursor < From(q, cursor) + ListRows(q, cursor))
    THEN 0 ELSE Entry(q, cursor)

ChoiceInit ==
  /\ list \in {"picker", "fzf", "select"}
  /\ entries \in 0 .. MaxEntries
  /\ keeps \in {k \in [0 .. MaxQuery -> SUBSET (1 .. entries)] :
                  k[0] = 1 .. entries /\ \A q \in 1 .. MaxQuery : k[q] \subseteq k[q - 1]}
  /\ preview \in {0, 2, 6} /\ rows \in 3 .. MaxRows
  /\ list # "picker" => keeps = [q \in 0 .. MaxQuery |-> 1 .. entries] /\ preview = 0 /\ rows = 3
  /\ query = 0 /\ selected = 0 /\ result = Open
  /\ mark = IF list = "select" /\ entries = 0 THEN 0 ELSE Marked(0, 0)

-----------------------------------------------------------------------------
Draw(q, cursor) == query' = q /\ selected' = cursor /\ mark' = Marked(q, cursor)
Given == UNCHANGED <<list, entries, keeps, preview, rows>>
Chooses == Given /\ result = Open

\* The picker stops at the ends of its list, the dialog goes round.
Up ==
  /\ Chooses /\ list # "fzf" /\ UNCHANGED result
  /\ entries > 0 \/ list = "picker"
  /\ Draw(query, IF list = "picker" THEN Most(0, selected - 1)
                                    ELSE (selected - 1 + entries) % entries)
Down ==
  /\ Chooses /\ list # "fzf" /\ UNCHANGED result
  /\ entries > 0 \/ list = "picker"
  /\ Draw(query, IF list = "picker" THEN Least(Len(Matches(query)) - 1, selected + 1)
                                    ELSE (selected + 1) % entries)

\* Another query puts the cursor on the first match.
Refiltered == 0

Type == /\ Chooses /\ list = "picker" /\ query < MaxQuery /\ UNCHANGED result
        /\ Draw(query + 1, Refiltered)
Backspace == /\ Chooses /\ list = "picker" /\ query > 0 /\ UNCHANGED result
             /\ Draw(query - 1, Refiltered)

\* Enter takes what the cursor is on; nothing there is a cancel.
Enter ==
  /\ Chooses /\ list # "fzf" /\ (list = "select" => entries > 0)
  /\ result' = IF Entry(query, selected) = 0 THEN Cancelled ELSE Entry(query, selected)
  /\ UNCHANGED <<query, selected, mark>>

\* Esc, ctrl-c, a signal, and a dialog that validate refuses.
Cancel == Chooses /\ result' = Cancelled /\ UNCHANGED <<query, selected, mark>>

\* fzf names a row, or leaves with the code of a cancel.
Fzf == \E row \in 1 .. entries :
  /\ Chooses /\ list = "fzf"
  /\ mark' = row /\ result' = row /\ UNCHANGED <<query, selected>>

ChoiceNext == Up \/ Down \/ Type \/ Backspace \/ Enter \/ Cancel \/ Fzf
ChoiceSpec == ChoiceInit /\ [][ChoiceNext]_choiceVars

-----------------------------------------------------------------------------
\* As long as there is something to choose the screen marks an entry, however
\* small it is and whatever was typed, and Enter returns the entry it marks.
ChosenIsMarked ==
  /\ Matches(query) # <<>> => mark # 0
  /\ result > 0 => result = mark
=============================================================================
