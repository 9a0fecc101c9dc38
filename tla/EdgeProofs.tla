----------------------------- MODULE EdgeProofs ------------------------------
(***************************************************************************)
(* The edge of the system: what the components that share no state keep,   *)
(* each in its scene of MCEdge, for every value of the constants.          *)
(***************************************************************************)
EXTENDS MCEdge, SequenceTheorems, FiniteSetTheorems, TLAPS

-----------------------------------------------------------------------------
(* The screen.                                                             *)

LEMMA ScreenInit == Screen!RenderInit => Screen!HalfLines /\ Screen!LinesAreDrawn
<1> SUFFICES ASSUME Screen!RenderInit PROVE Screen!HalfLines /\ Screen!LinesAreDrawn OBVIOUS
<1>1. Screen!HalfLines
  <2>1. screen = Screen!Blank /\ Screen!Blank \in Screen!Screens BY DEF Screen!RenderInit, Screen!Blank, Screen!Screens
  <2>2. screen.row = {} BY <2>1 DEF Screen!Blank
  <2> QED BY <2>1, <2>2 DEF Screen!RenderInit, Screen!HalfLines
<1>2. Screen!DoneOf(tool) = {} BY DEF Screen!RenderInit, Screen!DoneOf
<1>3. Screen!LinesAreDrawn BY <1>2 DEF Screen!RenderInit, Screen!LinesAreDrawn, Screen!Blank
<1> QED BY <1>1, <1>3

\* The half lines of a screen are those of blocks whose stream stands inside a line.
Fits(s, stands) == s \in Screen!Screens /\ \A b \in Blocks \ over : b \in s.row => ~stands[b]

\* The open block's half line is where #midLine says, and none of it was erased since s.
Spares(s, t) == open # Screen!NoBlock =>
  /\ open \in t.row => midLine
  /\ open \in t.lost => open \in s.lost

LEMMA NewRowIs ==
  ASSUME NEW s \in Screen!Screens
  PROVE  Screen!NewRow(s) \in Screen!Screens /\ Screen!NewRow(s).row = {} /\ Screen!NewRow(s).lost = s.lost
         /\ Screen!NewRow(s).lines = s.lines
BY DEF Screen!NewRow, Screen!Screens

LEMMA WriteIs ==
  ASSUME NEW s \in Screen!Screens, NEW what \in Blocks \cup {"tool"}
  PROVE  Screen!Write(s, what) \in Screen!Screens /\ Screen!Write(s, what).row = s.row \cup {what}
         /\ Screen!Write(s, what).lost = s.lost /\ Screen!Write(s, what).lines = s.lines
BY DEF Screen!Write, Screen!Screens

LEMMA EraseIs ==
  ASSUME NEW s \in Screen!Screens, NEW mid
  PROVE  /\ Screen!Erase(s, mid) \in Screen!Screens
         /\ mid => Screen!Erase(s, mid) = s
         /\ Screen!Erase(s, mid).row \subseteq s.row
         /\ Screen!Erase(s, mid).lost \subseteq s.lost \cup s.row
         /\ Screen!Erase(s, mid).lines = s.lines
<1>1. CASE ~inPlace \/ mid BY <1>1 DEF Screen!Erase
<1>2. CASE ~(~inPlace \/ mid)
  <2>1. Screen!Erase(s, mid) = [s EXCEPT !.row = {}, !.lost = @ \union (s.row \intersect Blocks)]
    BY <1>2 DEF Screen!Erase
  <2> QED BY <1>2, <2>1 DEF Screen!Screens
<1> QED BY <1>1, <1>2

LEMMA ClearedIs ==
  ASSUME NEW s \in Screen!Screens, NEW mid, NEW stands, Fits(s, stands)
  PROVE  /\ Screen!Cleared(s, mid) \in Screen!Screens /\ Fits(Screen!Cleared(s, mid), stands)
         /\ Screen!Cleared(s, mid).lines = s.lines
         /\ Spares(s, s) /\ mid = midLine => Spares(s, Screen!Cleared(s, mid))
BY EraseIs DEF Screen!Cleared, Fits, Spares

LEMMA ClosedIs ==
  ASSUME NEW s \in Screen!Screens, NEW ends \in BOOLEAN, Fits(s, atStart), Screen!HalfLines
  PROVE  /\ Fits(Screen!Closed(s, ends), Screen!ClosedStart(ends))
         /\ Screen!Closed(s, ends).lines = s.lines
         /\ Screen!ClosedStart(ends) \in [Blocks -> BOOLEAN] /\ Screen!ClosedMid(ends) \in BOOLEAN
<1>1. Screen!ClosedStart(ends) \in [Blocks -> BOOLEAN] BY DEF Screen!HalfLines, Screen!ClosedStart
<1>2. Screen!ClosedMid(ends) \in BOOLEAN BY <1>1 DEF Screen!HalfLines, Screen!ClosedMid
<1>3. CASE open # Screen!NoBlock /\ held[open]
  <2>1. open \in Blocks BY <1>3 DEF Screen!HalfLines
  <2>2. Screen!Closed(s, ends) = Screen!Text(s, open, ends) BY <1>3 DEF Screen!Closed
  <2>3. Screen!ClosedStart(ends) = [atStart EXCEPT ![open] = ends] BY <1>3 DEF Screen!ClosedStart
  <2>4. CASE ends
    <3>1. Screen!Closed(s, ends) = Screen!NewRow(s) BY <2>2, <2>4 DEF Screen!Text
    <3>2. Screen!NewRow(s) \in Screen!Screens /\ Screen!NewRow(s).row = {} /\ Screen!NewRow(s).lines = s.lines
      BY NewRowIs
    <3>3. Fits(Screen!NewRow(s), Screen!ClosedStart(ends)) BY <3>2 DEF Fits
    <3> QED BY <1>1, <1>2, <3>1, <3>2, <3>3
  <2>5. CASE ~ends
    <3>1. Screen!Closed(s, ends) = Screen!Write(s, open) BY <2>2, <2>5 DEF Screen!Text
    <3> QED BY <1>1, <1>2, <2>1, <2>3, <2>5, <3>1, WriteIs DEF Fits, Screen!HalfLines
  <2> QED BY <2>4, <2>5
<1>4. CASE ~(open # Screen!NoBlock /\ held[open])
  <2>1. Screen!Closed(s, ends) = s BY <1>4 DEF Screen!Closed
  <2>2. Screen!ClosedStart(ends) = atStart BY <1>4 DEF Screen!ClosedStart, Screen!HalfLines
  <2> QED BY <1>1, <1>2, <2>1, <2>2
<1> QED BY <1>3, <1>4

\* The lines with those of new.
WithLines(lines, new) == [t \in Tools |-> IF t \in new THEN lines[t] + 1 ELSE lines[t]]

LEMMA FlushedIs ==
  ASSUME NEW s \in Screen!Screens, NEW mid, NEW done, NEW live, NEW stands, Fits(s, stands),
         EdgeAssumption, Screen!HalfLines
  PROVE  /\ Fits(Screen!Flushed(s, mid, done, live), stands)
         /\ \A r \in Screen!Screens : Spares(r, s) /\ mid = midLine => Spares(r, Screen!Flushed(s, mid, done, live))
<1> DEFINE new == Screen!Undrawn(done)
           cleared == IF new = {} THEN s ELSE Screen!NewRow(Screen!Erase(s, mid))
           told == [cleared EXCEPT !.lines = [t \in Tools |-> IF t \in new THEN @[t] + 1 ELSE @[t]]]
<1>1. /\ cleared \in Screen!Screens /\ cleared.row \subseteq s.row
      /\ \A r \in Screen!Screens : Spares(r, s) /\ mid = midLine => Spares(r, cleared)
  <2>1. CASE new = {} BY <2>1
  <2>2. CASE new # {}
    <3>1. Screen!Erase(s, mid) \in Screen!Screens BY EraseIs
    <3> QED BY <2>2, <3>1, EraseIs, NewRowIs DEF Spares
  <2> QED BY <2>1, <2>2
<1> HIDE DEF cleared
<1>2. /\ told \in Screen!Screens /\ told.row = cleared.row /\ told.lost = cleared.lost
  BY <1>1 DEF Screen!Screens
<1> HIDE DEF told
<1>3. Fits(told, stands) BY <1>1, <1>2 DEF Fits
<1>4. \A r \in Screen!Screens : Spares(r, s) /\ mid = midLine => Spares(r, told) BY <1>1, <1>2 DEF Spares
<1> HIDE DEF new
<1>6. CASE live # Screen!NoTool /\ inPlace
  <2>1. Screen!Flushed(s, mid, done, live) = Screen!Write(Screen!Erase(told, mid), "tool")
    BY <1>6 DEF Screen!Flushed, told, cleared, new
  <2>2. Screen!Erase(told, mid) \in Screen!Screens BY <1>2, EraseIs
  <2>3. Fits(Screen!Write(Screen!Erase(told, mid), "tool"), stands)
    BY <1>2, <1>3, <2>2, EraseIs, WriteIs DEF Fits, EdgeAssumption
  <2>5. open # Screen!NoBlock => open # "tool" BY DEF EdgeAssumption, Screen!HalfLines
  <2>6. ASSUME NEW r \in Screen!Screens, Spares(r, told), mid = midLine
        PROVE  Spares(r, Screen!Write(Screen!Erase(told, mid), "tool"))
    <3> DEFINE e == Screen!Erase(told, mid)
    <3>1. e.row \subseteq told.row /\ e.lost \subseteq told.lost \cup told.row /\ (mid => e = told) BY <1>2, EraseIs
    <3>2. Screen!Write(e, "tool").row = e.row \cup {"tool"} /\ Screen!Write(e, "tool").lost = e.lost
      BY <2>2, WriteIs
    <3> HIDE DEF e
    <3> SUFFICES ASSUME open # Screen!NoBlock
                 PROVE  /\ open \in Screen!Write(e, "tool").row => midLine
                        /\ open \in Screen!Write(e, "tool").lost => open \in r.lost
      BY DEF Spares, e
    <3> QED BY <2>5, <2>6, <3>1, <3>2 DEF Spares
  <2> QED BY <1>2, <1>4, <2>1, <2>3, <2>6
<1>7. CASE ~(live # Screen!NoTool /\ inPlace)
  <2>1. Screen!Flushed(s, mid, done, live) = told BY <1>7 DEF Screen!Flushed, told, cleared, new
  <2> QED BY <1>3, <1>4, <2>1
<1> QED BY <1>6, <1>7

LEMMA FlushedLines ==
  ASSUME NEW s \in Screen!Screens, NEW mid, NEW done, NEW live
  PROVE  Screen!Flushed(s, mid, done, live).lines = WithLines(s.lines, done \ drawn)
<1> DEFINE new == Screen!Undrawn(done)
           cleared == IF new = {} THEN s ELSE Screen!NewRow(Screen!Erase(s, mid))
           told == [cleared EXCEPT !.lines = [t \in Tools |-> IF t \in new THEN @[t] + 1 ELSE @[t]]]
<1>1. cleared \in Screen!Screens /\ cleared.lines = s.lines BY EraseIs, NewRowIs
<1> HIDE DEF cleared
<1>2. told \in Screen!Screens /\ told.lines = WithLines(s.lines, new) BY <1>1 DEF Screen!Screens, WithLines
<1> HIDE DEF told
<1>3. Screen!Flushed(s, mid, done, live)
        = IF live # Screen!NoTool /\ inPlace THEN Screen!Write(Screen!Erase(told, mid), "tool") ELSE told
  BY DEF Screen!Flushed, told, cleared
<1>4. Screen!Write(Screen!Erase(told, mid), "tool").lines = told.lines BY <1>2, EraseIs, WriteIs
<1> QED BY <1>2, <1>3, <1>4 DEF Screen!Undrawn

LEMMA RowClears == Screen!HalfLines =>
  /\ Fits(screen, atStart) /\ Spares(screen, screen)
  /\ midLine \in BOOLEAN /\ Screen!Cleared(screen, midLine) \in Screen!Screens
  /\ Fits(Screen!Cleared(screen, midLine), atStart) /\ Spares(screen, Screen!Cleared(screen, midLine))
<1> SUFFICES ASSUME Screen!HalfLines
             PROVE  /\ Fits(screen, atStart) /\ Spares(screen, screen)
                    /\ midLine \in BOOLEAN /\ Screen!Cleared(screen, midLine) \in Screen!Screens
                    /\ Fits(Screen!Cleared(screen, midLine), atStart)
                    /\ Spares(screen, Screen!Cleared(screen, midLine))
  OBVIOUS
<1>1. Fits(screen, atStart) /\ midLine \in BOOLEAN /\ screen \in Screen!Screens BY DEF Screen!HalfLines, Fits
<1>2. Spares(screen, screen) BY DEF Screen!HalfLines, Spares
<1> QED BY <1>1, <1>2, ClearedIs

\* A step keeps the half lines true and spares the open one.
LEMMA TextDeltaKeeps ==
  ASSUME EdgeAssumption, Screen!HalfLines, NEW b \in Blocks, Screen!TextDelta(b)
  PROVE  Screen!HalfLines' /\ Screen!KeepsOpenLine
<1>1. PICK ends, flushEnds, holds, gives \in BOOLEAN :
        LET other == open \notin {b, Screen!NoBlock}
            ahead == IF other THEN Screen!Closed(Screen!Cleared(screen, midLine), flushEnds)
                      ELSE Screen!Cleared(screen, midLine)
            start0 == IF other THEN Screen!ClosedStart(flushEnds) ELSE atStart
            start1 == IF gives THEN [start0 EXCEPT ![b] = ends] ELSE start0 IN
        /\ screen' = IF gives THEN Screen!Text(ahead, b, ends) ELSE ahead
        /\ atStart' = start1
        /\ midLine' = Screen!MidAfter(start1[b])
  BY DEF Screen!TextDelta
<1>2. b \notin over /\ open' = b /\ over' = over BY DEF Screen!TextDelta
<1> DEFINE other == open \notin {b, Screen!NoBlock}
           s0 == Screen!Cleared(screen, midLine)
           ahead == IF other THEN Screen!Closed(s0, flushEnds) ELSE s0
           start0 == IF other THEN Screen!ClosedStart(flushEnds) ELSE atStart
           start1 == IF gives THEN [start0 EXCEPT ![b] = ends] ELSE start0
<1>3. s0 \in Screen!Screens /\ Fits(s0, atStart) /\ Spares(screen, s0) BY RowClears
<1>4. Fits(ahead, start0) /\ start0 \in [Blocks -> BOOLEAN]
  <2>1. CASE other BY <1>3, <2>1, ClosedIs
  <2>2. CASE ~other BY <1>3, <2>2 DEF Screen!HalfLines
  <2> QED BY <2>1, <2>2
<1>5. start1 \in [Blocks -> BOOLEAN] /\ (gives => start1[b] = ends)
  <2> HIDE DEF start0
  <2> QED BY <1>4
<1>6. /\ screen' = IF gives THEN Screen!Text(ahead, b, ends) ELSE ahead
      /\ atStart' = start1
      /\ midLine' = ~start1[b]
  BY <1>1 DEF Screen!MidAfter
<1>7. Fits(screen', start1) /\ screen'.lost = ahead.lost
  <2> HIDE DEF ahead, start0
  <2>1. CASE ~gives BY <1>4, <1>6, <2>1
  <2>2. CASE gives /\ ends
    <3>1. screen' = Screen!NewRow(ahead) BY <1>6, <2>2 DEF Screen!Text
    <3> QED BY <1>4, <3>1, NewRowIs DEF Fits
  <2>3. CASE gives /\ ~ends
    <3>1. screen' = Screen!Write(ahead, b) BY <1>6, <2>3 DEF Screen!Text
    <3> QED BY <1>4, <2>3, <3>1, WriteIs DEF Fits
  <2> QED BY <2>1, <2>2, <2>3
<1>8. Screen!HalfLines'
  <2> HIDE DEF start1
  <2>1. b \in Blocks \ over' /\ (midLine \in BOOLEAN)' /\ (midLine = ~atStart[open])'
    BY <1>2, <1>5, <1>6
  <2>2. (screen \in Screen!Screens)' BY <1>7 DEF Fits, Screen!Screens
  <2>3. \A c \in Blocks \ over' : c \in screen'.row => ~atStart'[c] BY <1>2, <1>6, <1>7 DEF Fits
  <2> QED BY <1>2, <1>5, <1>6, <2>1, <2>2, <2>3 DEF Screen!HalfLines
<1>9. Screen!KeepsOpenLine
  <2> SUFFICES ASSUME open # Screen!NoBlock, open' = open PROVE open \notin screen'.lost \ screen.lost
    BY DEF Screen!KeepsOpenLine
  <2>1. ahead = s0 BY <1>2
  <2> HIDE DEF ahead, s0
  <2> QED BY <1>3, <1>7, <2>1 DEF Spares
<1> QED BY <1>8, <1>9

\* The actions that close the open block, with the screen s that they leave.
Closes(ends) ==
  /\ open' = Screen!NoBlock /\ atStart' = Screen!ClosedStart(ends) /\ midLine' = Screen!ClosedMid(ends)
  /\ over' = over /\ Fits(screen', Screen!ClosedStart(ends))

LEMMA ClosingKeeps ==
  ASSUME Screen!HalfLines, NEW ends \in BOOLEAN, Closes(ends)
  PROVE  Screen!HalfLines' /\ Screen!KeepsOpenLine
<1>1. Screen!ClosedStart(ends) \in [Blocks -> BOOLEAN] /\ Screen!ClosedMid(ends) \in BOOLEAN
  BY ClosedIs, RowClears DEF Screen!HalfLines
<1>2. (screen \in Screen!Screens)' BY DEF Closes, Fits, Screen!Screens
<1>3. \A c \in Blocks \ over' : c \in screen'.row => ~atStart'[c] BY DEF Closes, Fits
<1>4. Screen!HalfLines' BY <1>1, <1>2, <1>3 DEF Closes, Screen!HalfLines, Screen!NoBlock
<1>5. Screen!KeepsOpenLine BY DEF Closes, Screen!KeepsOpenLine, Screen!NoBlock
<1> QED BY <1>4, <1>5

LEMMA TextEndKeeps ==
  ASSUME EdgeAssumption, Screen!HalfLines, NEW b \in Blocks, Screen!TextEnd(b)
  PROVE  Screen!HalfLines' /\ Screen!KeepsOpenLine
<1>1. PICK ends \in BOOLEAN :
        /\ screen' = Screen!Closed(Screen!Cleared(screen, midLine), ends)
        /\ midLine' = Screen!ClosedMid(ends)
        /\ atStart' = [Screen!ClosedStart(ends) EXCEPT ![b] = TRUE]
  BY DEF Screen!TextEnd
<1>2. open' = Screen!NoBlock /\ over' = over \union {b} BY DEF Screen!TextEnd
<1>3. /\ Fits(Screen!Closed(Screen!Cleared(screen, midLine), ends), Screen!ClosedStart(ends))
      /\ Screen!ClosedStart(ends) \in [Blocks -> BOOLEAN] /\ Screen!ClosedMid(ends) \in BOOLEAN
  BY RowClears, ClosedIs
<1>4. (screen \in Screen!Screens)' BY <1>1, <1>3 DEF Fits, Screen!Screens
<1>5. \A c \in Blocks \ over' : c \in screen'.row => ~atStart'[c] BY <1>1, <1>2, <1>3 DEF Fits
<1>6. atStart' \in [Blocks -> BOOLEAN] BY <1>1, <1>3
<1>7. Screen!HalfLines' BY <1>1, <1>2, <1>3, <1>4, <1>5, <1>6 DEF Screen!HalfLines, Screen!NoBlock
<1>8. Screen!KeepsOpenLine BY <1>2 DEF Screen!KeepsOpenLine, Screen!NoBlock
<1> QED BY <1>7, <1>8

LEMMA DrawsKeeps ==
  ASSUME EdgeAssumption, Screen!HalfLines, NEW newTool, NEW newActive, NEW closes \in BOOLEAN, NEW ends \in BOOLEAN,
         Screen!Draws(newTool, newActive, closes, ends)
  PROVE  Screen!HalfLines' /\ Screen!KeepsOpenLine
<1> DEFINE s0 == Screen!Cleared(screen, midLine)
           s1 == IF closes THEN Screen!Closed(s0, ends) ELSE s0
           mid == IF closes THEN Screen!ClosedMid(ends) ELSE midLine
           live == Screen!LiveOf(newTool, newActive)
           done == Screen!DoneOf(newTool)
<1>1. /\ screen' = Screen!Flushed(s1, mid, done, live) /\ midLine' = mid /\ over' = over
      /\ atStart' = (IF closes THEN Screen!ClosedStart(ends) ELSE atStart)
      /\ open' = (IF closes THEN Screen!NoBlock ELSE open)
  BY DEF Screen!Draws
<1>2. s0 \in Screen!Screens /\ Fits(s0, atStart) /\ Spares(screen, s0) /\ screen \in Screen!Screens
  BY RowClears DEF Screen!HalfLines
<1> HIDE DEF s0, live, done
<1>3. CASE closes
  <2>1. /\ Fits(Screen!Closed(s0, ends), Screen!ClosedStart(ends)) /\ Screen!ClosedMid(ends) \in BOOLEAN
        /\ Screen!Closed(s0, ends) \in Screen!Screens
    BY <1>2, ClosedIs DEF Fits
  <2>2. screen' = Screen!Flushed(Screen!Closed(s0, ends), Screen!ClosedMid(ends), done, live) BY <1>1, <1>3
  <2>3. Fits(screen', Screen!ClosedStart(ends)) BY <2>1, <2>2, FlushedIs
  <2>4. Closes(ends) BY <1>1, <1>3, <2>3 DEF Closes
  <2> QED BY <2>4, ClosingKeeps
<1>4. CASE ~closes
  <2>1. screen' = Screen!Flushed(s0, midLine, done, live) /\ midLine \in BOOLEAN BY <1>1, <1>4 DEF Screen!HalfLines
  <2>2. Fits(screen', atStart) /\ Spares(screen, screen') BY <1>2, <2>1, FlushedIs
  <2>3. midLine' = midLine /\ atStart' = atStart /\ open' = open /\ over' = over BY <1>1, <1>4
  <2>4. (screen \in Screen!Screens)' BY <2>2 DEF Fits, Screen!Screens
  <2>5. \A c \in Blocks \ over' : c \in screen'.row => ~atStart'[c] BY <2>2, <2>3 DEF Fits
  <2>6. Screen!HalfLines' BY <2>3, <2>4, <2>5 DEF Screen!HalfLines, Screen!NoBlock
  <2>7. Screen!KeepsOpenLine BY <2>2 DEF Spares, Screen!KeepsOpenLine, Screen!NoBlock
  <2> QED BY <2>6, <2>7
<1> QED BY <1>3, <1>4

LEMMA NoticeKeeps ==
  ASSUME Screen!HalfLines, Screen!Notice PROVE Screen!HalfLines' /\ Screen!KeepsOpenLine
<1>1. PICK ends \in BOOLEAN :
        /\ screen' = Screen!NewRow(Screen!Closed(Screen!Cleared(screen, midLine), ends))
        /\ midLine' = Screen!ClosedMid(ends) /\ atStart' = Screen!ClosedStart(ends)
        /\ open' = Screen!NoBlock /\ over' = over
  BY DEF Screen!Notice
<1>2. Fits(Screen!Closed(Screen!Cleared(screen, midLine), ends), Screen!ClosedStart(ends)) BY RowClears, ClosedIs
<1>3. Closes(ends) BY <1>1, <1>2, NewRowIs DEF Closes, Fits
<1> QED BY <1>3, ClosingKeeps

LEMMA SettledKeeps ==
  ASSUME EdgeAssumption, Screen!HalfLines, Screen!Settled PROVE Screen!HalfLines' /\ Screen!KeepsOpenLine
<1> DEFINE s0(ends) == Screen!Closed(Screen!Cleared(screen, midLine), ends)
           s1(ends) == IF frame /\ ~rowBusy THEN Screen!Erase(s0(ends), Screen!ClosedMid(ends)) ELSE s0(ends)
<1>1. PICK ends \in BOOLEAN :
        /\ screen' = Screen!NewRow(Screen!Flushed(s1(ends), Screen!ClosedMid(ends), Screen!DoneOf(tool),
                                                  Screen!LiveOf(tool, active)))
        /\ midLine' = Screen!ClosedMid(ends) /\ atStart' = Screen!ClosedStart(ends)
        /\ open' = Screen!NoBlock /\ over' = over
  BY DEF Screen!Settled
<1>2. Fits(s0(ends), Screen!ClosedStart(ends)) /\ Screen!ClosedMid(ends) \in BOOLEAN BY RowClears, ClosedIs
<1> HIDE DEF s0
<1>3. Fits(s1(ends), Screen!ClosedStart(ends)) BY <1>2, EraseIs DEF Fits
<1> HIDE DEF s1
<1> DEFINE f == Screen!Flushed(s1(ends), Screen!ClosedMid(ends), Screen!DoneOf(tool), Screen!LiveOf(tool, active))
<1>4. Fits(f, Screen!ClosedStart(ends)) BY <1>2, <1>3, FlushedIs DEF Fits
<1> HIDE DEF f
<1>5. Fits(Screen!NewRow(f), Screen!ClosedStart(ends)) BY <1>4, NewRowIs DEF Fits
<1>6. Closes(ends) BY <1>1, <1>5 DEF Closes, f
<1> QED BY <1>6, ClosingKeeps

LEMMA TickKeeps ==
  ASSUME Screen!HalfLines, Screen!Tick PROVE Screen!HalfLines' /\ Screen!KeepsOpenLine
<1>1. open' = open /\ over' = over /\ atStart' = atStart /\ midLine' = midLine BY DEF Screen!Tick
<1> DEFINE e == Screen!Erase(screen, midLine)
<1>2. /\ e \in Screen!Screens /\ e.row \subseteq screen.row /\ e.lost \subseteq screen.lost \cup screen.row
      /\ midLine => e = screen
  BY EraseIs DEF Screen!HalfLines
<1>3. CASE midLine
  <2>1. screen' = screen BY <1>3 DEF Screen!Tick
  <2>2. Screen!HalfLines' BY <1>1, <2>1 DEF Screen!HalfLines, Screen!NoBlock, Screen!Screens
  <2> QED BY <2>1, <2>2 DEF Screen!KeepsOpenLine, Screen!NoBlock
<1>4. CASE ~midLine
  <2>1. screen' = [Screen!NewRow(e) EXCEPT !.frames = TRUE] BY <1>4 DEF Screen!Tick
  <2>2. Screen!NewRow(e) \in Screen!Screens /\ Screen!NewRow(e).row = {} /\ Screen!NewRow(e).lost = e.lost
    BY <1>2, NewRowIs
  <2> HIDE DEF e
  <2>3. screen' \in Screen!Screens /\ screen'.row = {} /\ screen'.lost = e.lost BY <2>1, <2>2 DEF Screen!Screens
  <2>4. (screen \in Screen!Screens)' BY <2>3 DEF Screen!Screens
  <2>5. Screen!HalfLines' BY <1>1, <2>3, <2>4 DEF Screen!HalfLines, Screen!NoBlock
  <2>6. Screen!KeepsOpenLine BY <1>2, <1>4, <2>3 DEF Screen!HalfLines, Screen!KeepsOpenLine, Screen!NoBlock
  <2> QED BY <2>5, <2>6
<1> QED BY <1>3, <1>4

LEMMA ScreenKeeps ==
  ASSUME EdgeAssumption, Screen!HalfLines, Screen!RenderNext PROVE Screen!HalfLines' /\ Screen!KeepsOpenLine
<1>1. ASSUME NEW t \in Tools, Screen!ToolStart(t) PROVE Screen!HalfLines' /\ Screen!KeepsOpenLine
  BY <1>1, DrawsKeeps DEF Screen!ToolStart
<1>2. ASSUME NEW t \in Tools, Screen!ToolUpdate(t) PROVE Screen!HalfLines' /\ Screen!KeepsOpenLine
  BY <1>2, DrawsKeeps DEF Screen!ToolUpdate
<1>3. ASSUME NEW t \in Tools, Screen!ToolEnd(t) PROVE Screen!HalfLines' /\ Screen!KeepsOpenLine
  BY <1>3, DrawsKeeps DEF Screen!ToolEnd
<1> QED BY <1>1, <1>2, <1>3, TextDeltaKeeps, TextEndKeeps, NoticeKeeps, SettledKeeps, TickKeeps DEF Screen!RenderNext

\* A step draws the line of each tool that ends, once.
LEMMA DrawsLines ==
  ASSUME EdgeAssumption, Screen!HalfLines, Screen!LinesAreDrawn, NEW newTool \in [Tools -> {"none", "live", "done"}],
         Screen!DoneOf(tool) \subseteq Screen!DoneOf(newTool),
         NEW newActive, NEW closes \in BOOLEAN, NEW ends \in BOOLEAN, Screen!Draws(newTool, newActive, closes, ends)
  PROVE  Screen!LinesAreDrawn'
<1> DEFINE s0 == Screen!Cleared(screen, midLine)
           s1 == IF closes THEN Screen!Closed(s0, ends) ELSE s0
           mid == IF closes THEN Screen!ClosedMid(ends) ELSE midLine
           live == Screen!LiveOf(newTool, newActive)
           done == Screen!DoneOf(newTool)
<1>1. screen' = Screen!Flushed(s1, mid, done, live) /\ tool' = newTool /\ drawn' = drawn \union done
  BY DEF Screen!Draws
<1>2. s0 \in Screen!Screens /\ Fits(s0, atStart) /\ s0.lines = screen.lines
  BY RowClears, ClearedIs DEF Screen!HalfLines
<1> HIDE DEF s0, live
<1>3. s1.lines = screen.lines BY <1>2, ClosedIs DEF Fits, Screen!HalfLines
<1>7. s1 \in Screen!Screens BY <1>2, ClosedIs DEF Fits, Screen!HalfLines
<1> HIDE DEF s1, mid, done
<1>4. screen'.lines = [t \in Tools |-> IF t \in done \ drawn THEN screen.lines[t] + 1 ELSE screen.lines[t]]
  <2> DEFINE f == Screen!Flushed(s1, mid, done, live)
  <2>1. f.lines = WithLines(s1.lines, done \ drawn) BY <1>7, FlushedLines
  <2>2. screen'.lines = f.lines BY <1>1
  <2> HIDE DEF f
  <2> QED BY <1>3, <2>1, <2>2 DEF WithLines
<1>5. drawn' = done /\ Screen!DoneOf(tool)' = done BY <1>1 DEF Screen!LinesAreDrawn, done, Screen!DoneOf
<1>6. screen'.lines = [t \in Tools |-> IF t \in done THEN 1 ELSE 0]
  BY <1>1, <1>4, <1>5 DEF Screen!LinesAreDrawn
<1> QED BY <1>1, <1>5, <1>6 DEF Screen!LinesAreDrawn

\* Nothing that ends a tool.
SameLines == tool' = tool /\ drawn' = drawn /\ screen'.lines = screen.lines
LEMMA SameLinesKeep == Screen!LinesAreDrawn /\ SameLines => Screen!LinesAreDrawn'
BY DEF Screen!LinesAreDrawn, SameLines, Screen!DoneOf

LEMMA ScreenDraws ==
  ASSUME EdgeAssumption, Screen!HalfLines, Screen!LinesAreDrawn, Screen!RenderNext
  PROVE  Screen!LinesAreDrawn'
<1>0. /\ screen \in Screen!Screens /\ midLine \in BOOLEAN
      /\ Screen!Cleared(screen, midLine).lines = screen.lines
      /\ \A ends \in BOOLEAN :
           /\ Screen!Closed(Screen!Cleared(screen, midLine), ends).lines = screen.lines
           /\ Screen!Closed(Screen!Cleared(screen, midLine), ends) \in Screen!Screens
           /\ Fits(Screen!Closed(Screen!Cleared(screen, midLine), ends), Screen!ClosedStart(ends))
           /\ Screen!ClosedMid(ends) \in BOOLEAN
  <2>1. screen \in Screen!Screens /\ midLine \in BOOLEAN BY DEF Screen!HalfLines
  <2>2. Screen!Cleared(screen, midLine).lines = screen.lines BY <2>1, RowClears, ClearedIs
  <2> QED BY <2>1, <2>2, RowClears, ClosedIs DEF Fits
<1>1. ASSUME NEW t \in Tools, Screen!ToolStart(t) PROVE Screen!LinesAreDrawn'
  <2> DEFINE lit == [tool EXCEPT ![t] = "live"]
  <2>1. PICK ends \in BOOLEAN : Screen!Draws(lit, t, TRUE, ends) BY <1>1 DEF Screen!ToolStart
  <2>2. tool[t] = "none" BY <1>1 DEF Screen!ToolStart
  <2>3. lit \in [Tools -> {"none", "live", "done"}] BY DEF Screen!LinesAreDrawn
  <2>4. Screen!DoneOf(tool) \subseteq Screen!DoneOf(lit) BY <2>2 DEF Screen!DoneOf, Screen!LinesAreDrawn
  <2> HIDE DEF lit
  <2>5. TRUE \in BOOLEAN OBVIOUS
  <2> QED BY <2>1, <2>3, <2>4, <2>5, DrawsLines
<1>2. ASSUME NEW t \in Tools, Screen!ToolUpdate(t) PROVE Screen!LinesAreDrawn'
  <2>1. tool \in [Tools -> {"none", "live", "done"}] BY DEF Screen!LinesAreDrawn
  <2>2. Screen!Draws(tool, t, FALSE, FALSE) \/ Screen!Draws(tool, active, FALSE, FALSE) BY <1>2 DEF Screen!ToolUpdate
  <2> QED BY <2>1, <2>2, DrawsLines
<1>3. ASSUME NEW t \in Tools, Screen!ToolEnd(t) PROVE Screen!LinesAreDrawn'
  <2>1. tool \in [Tools -> {"none", "live", "done"}] BY DEF Screen!LinesAreDrawn
  <2>2. CASE tool[t] = "none"
    <3>1. PICK ends \in BOOLEAN : Screen!Draws(tool, active, TRUE, ends) BY <1>3, <2>2 DEF Screen!ToolEnd
    <3> QED BY <2>1, <3>1, DrawsLines
  <2>3. CASE tool[t] # "none"
    <3> DEFINE newTool == [tool EXCEPT ![t] = "done"]
               left == IF active = t THEN Screen!NoTool ELSE active
    <3>1. PICK ends \in BOOLEAN : Screen!Draws(newTool, left, TRUE, ends) BY <1>3, <2>3 DEF Screen!ToolEnd
    <3>2. newTool \in [Tools -> {"none", "live", "done"}] BY <2>1
    <3>3. Screen!DoneOf(tool) \subseteq Screen!DoneOf(newTool) BY <2>1 DEF Screen!DoneOf
    <3> HIDE DEF newTool, left
    <3> QED BY <3>1, <3>2, <3>3, DrawsLines
  <2> QED BY <2>2, <2>3
<1>4. ASSUME NEW b \in Blocks, Screen!TextDelta(b) PROVE SameLines
  <2>1. PICK ends, flushEnds, gives \in BOOLEAN :
        LET other == open \notin {b, Screen!NoBlock}
            ahead == IF other THEN Screen!Closed(Screen!Cleared(screen, midLine), flushEnds)
                     ELSE Screen!Cleared(screen, midLine) IN
        screen' = IF gives THEN Screen!Text(ahead, b, ends) ELSE ahead
    BY <1>4 DEF Screen!TextDelta
  <2> DEFINE other == open \notin {b, Screen!NoBlock}
             ahead == IF other THEN Screen!Closed(Screen!Cleared(screen, midLine), flushEnds)
                      ELSE Screen!Cleared(screen, midLine)
  <2>2. ahead \in Screen!Screens /\ ahead.lines = screen.lines BY <1>0, RowClears
  <2>3. screen' = IF gives THEN Screen!Text(ahead, b, ends) ELSE ahead BY <2>1
  <2> HIDE DEF ahead
  <2>4. screen'.lines = screen.lines BY <2>2, <2>3, NewRowIs, WriteIs DEF Screen!Text
  <2> QED BY <1>4, <2>4 DEF SameLines, Screen!TextDelta
<1>5. ASSUME NEW b \in Blocks, Screen!TextEnd(b) PROVE SameLines
  BY <1>0, <1>5 DEF SameLines, Screen!TextEnd
<1>6. ASSUME Screen!Notice PROVE SameLines
  BY <1>0, <1>6, NewRowIs DEF SameLines, Screen!Notice
<1>7. ASSUME Screen!Tick PROVE SameLines
  <2> DEFINE e == Screen!Erase(screen, midLine)
  <2>1. e \in Screen!Screens /\ e.lines = screen.lines BY <1>0, EraseIs
  <2>2. Screen!NewRow(e) \in Screen!Screens /\ Screen!NewRow(e).lines = e.lines BY <2>1, NewRowIs
  <2>3. screen' = screen \/ screen' = [Screen!NewRow(e) EXCEPT !.frames = TRUE] BY <1>7 DEF Screen!Tick
  <2> HIDE DEF e
  <2>4. screen'.lines = screen.lines BY <2>1, <2>2, <2>3 DEF Screen!Screens
  <2> QED BY <1>7, <2>4 DEF SameLines, Screen!Tick
<1>8. ASSUME Screen!Settled PROVE SameLines
  <2> DEFINE s0(ends) == Screen!Closed(Screen!Cleared(screen, midLine), ends)
             s1(ends) == IF frame /\ ~rowBusy THEN Screen!Erase(s0(ends), Screen!ClosedMid(ends)) ELSE s0(ends)
  <2>1. PICK ends \in BOOLEAN :
          screen' = Screen!NewRow(Screen!Flushed(s1(ends), Screen!ClosedMid(ends), Screen!DoneOf(tool),
                                                  Screen!LiveOf(tool, active)))
    BY <1>8 DEF Screen!Settled
  <2>2. /\ Fits(s0(ends), Screen!ClosedStart(ends)) /\ Screen!ClosedMid(ends) \in BOOLEAN
        /\ s0(ends) \in Screen!Screens /\ s0(ends).lines = screen.lines
    BY <1>0
  <2> HIDE DEF s0
  <2>3. Fits(s1(ends), Screen!ClosedStart(ends)) /\ s1(ends) \in Screen!Screens /\ s1(ends).lines = screen.lines
    BY <2>2, EraseIs DEF Fits
  <2>10. s1(ends) \in Screen!Screens BY <2>3
  <2> HIDE DEF s1
  <2> DEFINE f == Screen!Flushed(s1(ends), Screen!ClosedMid(ends), Screen!DoneOf(tool), Screen!LiveOf(tool, active))
  <2>4. Fits(f, Screen!ClosedStart(ends))
    BY <2>2, <2>3, FlushedIs
  <2>9. f.lines = WithLines(s1(ends).lines, Screen!DoneOf(tool) \ drawn) BY <2>10, FlushedLines
  <2> HIDE DEF f
  <2>5. screen' = Screen!NewRow(f) BY <2>1 DEF f
  <2>6. screen'.lines = f.lines BY <2>4, <2>5, NewRowIs DEF Fits
  <2>7. f.lines = screen.lines BY <2>3, <2>9 DEF Screen!LinesAreDrawn, WithLines
  <2>8. drawn' = drawn /\ tool' = tool BY <1>8 DEF Screen!Settled, Screen!LinesAreDrawn
  <2> QED BY <2>6, <2>7, <2>8 DEF SameLines
<1> QED BY <1>1, <1>2, <1>3, <1>4, <1>5, <1>6, <1>7, <1>8, SameLinesKeep DEF Screen!RenderNext

LEMMA LinesOnce == Screen!LinesAreDrawn => Screen!ToolLinesOnce
BY DEF Screen!LinesAreDrawn, Screen!ToolLinesOnce, Screen!DoneOf

-----------------------------------------------------------------------------
(* The status file.                                                        *)

LEMMA StatusBegins == Status!StatusInit => Status!QueuesAreInOrder
<1> SUFFICES ASSUME Status!StatusInit PROVE Status!QueuesAreInOrder OBVIOUS
<1>1. Status!StatusTyped BY DEF Status!StatusInit, Status!StatusTyped
<1>2. \A p \in Status!Publishers : DOMAIN writes[p] = {} BY DEF Status!StatusInit
<1>3. 1 .. published = {} BY DEF Status!StatusInit
<1> QED BY <1>1, <1>2, <1>3
     DEF Status!StatusInit, Status!QueuesAreInOrder, Status!InOrder, Status!CameAfter, Status!RenamesWhole

LEMMA WiderSeq ==
  ASSUME NEW S, NEW T, S \subseteq T, NEW s \in Seq(S)
  PROVE  s \in Seq(T)
<1>1. s \in [1 .. Len(s) -> S] /\ Len(s) \in Nat OBVIOUS
<1>2. s \in [1 .. Len(s) -> T] BY <1>1
<1> QED BY <1>1, <1>2

LEMMA InSeq ==
  ASSUME NEW S, NEW s \in Seq(S)
  PROVE  \A i \in DOMAIN s : s[i] \in S /\ i \in 1 .. Len(s)
OBVIOUS

\* The first of a queue, and what is behind it.
LEMMA FirstOf ==
  ASSUME Status!StatusTyped, NEW p \in Status!Publishers, Status!InOrder(p), writes[p] # <<>>
  PROVE  /\ 1 \in DOMAIN writes[p] /\ writes[p][1] \in 1 .. published /\ writes[p][1] \in Nat
         /\ maker[writes[p][1]] = p /\ writes[p][1] \notin settled
         /\ Tail(writes[p]) \in Seq(1 .. published)
         /\ \A i \in DOMAIN Tail(writes[p]) :
              i \in Nat /\ 1 < i + 1 /\ i + 1 \in DOMAIN writes[p] /\ Tail(writes[p])[i] = writes[p][i + 1]
<1>1. writes[p] \in Seq(1 .. published) /\ published \in Nat BY DEF Status!StatusTyped
<1>2. 1 \in DOMAIN writes[p] BY <1>1
<1>3. \A i \in DOMAIN Tail(writes[p]) :
        i \in Nat /\ 1 < i + 1 /\ i + 1 \in DOMAIN writes[p] /\ Tail(writes[p])[i] = writes[p][i + 1]
  BY <1>1
<1>4. Tail(writes[p]) \in Seq(1 .. published) BY <1>1, HeadTailProperties
<1>5. writes[p][1] \in 1 .. published /\ writes[p][1] \in Nat BY <1>1, <1>2
<1>6. maker[writes[p][1]] = p /\ writes[p][1] \notin settled BY <1>2 DEF Status!InOrder
<1> QED BY <1>2, <1>3, <1>4, <1>5, <1>6

LEMMA PublishKeeps ==
  ASSUME Status!QueuesAreInOrder, NEW p \in Status!Publishers, Status!Publish(p)
  PROVE  Status!QueuesAreInOrder' /\ Status!NeverBack
<1> DEFINE n == published + 1
           priors == settled \union {c \in 1 .. published : maker[c] = p}
<1>1. /\ published' = n /\ writes' = [writes EXCEPT ![p] = Append(@, n)] /\ maker' = Append(maker, p)
      /\ earlier' = Append(earlier, priors)
      /\ UNCHANGED <<statusFile, intact, stage, statusTemp, settled, shown, deaths>>
  BY DEF Status!Publish
<1>0. Status!StatusTyped BY DEF Status!QueuesAreInOrder
<1>2. published \in Nat /\ n \in Nat /\ 1 .. n = 1 .. published \cup {n} /\ n \notin 1 .. published
      /\ \A c \in 1 .. published : c \in Nat /\ c < n
  BY <1>0 DEF Status!StatusTyped
<1>3. priors \subseteq 1 .. published BY <1>0 DEF Status!StatusTyped
<1>4. /\ maker' \in Seq(Status!Publishers) /\ Len(maker') = n /\ maker'[n] = p
      /\ \A c \in 1 .. published : maker'[c] = maker[c]
  BY <1>0, <1>1, <1>2 DEF Status!StatusTyped
<1>5. /\ earlier' \in Seq(SUBSET (1 .. n)) /\ Len(earlier') = n /\ earlier'[n] = priors
      /\ \A c \in 1 .. published : earlier'[c] = earlier[c]
  <2> HIDE DEF priors, n
  <2>1. earlier \in Seq(SUBSET (1 .. n)) /\ Len(earlier) = published /\ priors \in SUBSET (1 .. n)
    <3>1. earlier \in Seq(SUBSET (1 .. published)) /\ Len(earlier) = published BY <1>0 DEF Status!StatusTyped
    <3>2. 1 .. published \subseteq 1 .. n BY <1>2
    <3>3. SUBSET (1 .. published) \subseteq SUBSET (1 .. n) BY <3>2
    <3> QED BY <1>3, <3>1, <3>2, <3>3, WiderSeq
  <2> QED BY <1>1, <1>2, <2>1 DEF n
<1> HIDE DEF n
<1>6. ASSUME NEW q \in Status!Publishers
      PROVE  /\ writes'[q] \in Seq(1 .. n)
             /\ \A i \in DOMAIN writes'[q] :
                  (i \in DOMAIN writes[q] /\ writes'[q][i] = writes[q][i]) \/ (q = p /\ i = Len(writes[p]) + 1 /\ writes'[q][i] = n)
             /\ \A i \in DOMAIN writes[q] : writes[q][i] \in 1 .. published /\ i \in 1 .. Len(writes[q])
  <2>1. writes[q] \in Seq(1 .. published) /\ writes[q] \in Seq(1 .. n) /\ n \in 1 .. n
    <3>1. writes[q] \in Seq(1 .. published) BY <1>0 DEF Status!StatusTyped
    <3>2. 1 .. published \subseteq 1 .. n /\ n \in 1 .. n BY <1>2
    <3> QED BY <3>1, <3>2, WiderSeq
  <2>2. writes'[q] = IF q = p THEN Append(writes[q], n) ELSE writes[q] BY <1>0, <1>1 DEF Status!StatusTyped
  <2>5. \A i \in DOMAIN writes[q] : writes[q][i] \in 1 .. published /\ i \in 1 .. Len(writes[q])
    <3>1. writes[q] \in Seq(1 .. published) BY <1>0 DEF Status!StatusTyped
    <3> QED BY <3>1, InSeq
  <2>3. CASE q # p
    <3>1. writes'[q] = writes[q] BY <2>2, <2>3
    <3> QED BY <2>1, <2>5, <3>1
  <2>4. CASE q = p
    <3>1. writes'[q] = Append(writes[q], n) BY <2>2, <2>4
    <3>2. Append(writes[q], n) \in Seq(1 .. n) /\ Len(Append(writes[q], n)) = Len(writes[q]) + 1
          /\ Append(writes[q], n)[Len(writes[q]) + 1] = n /\ Len(writes[q]) \in Nat
          /\ \A i \in 1 .. Len(writes[q]) : Append(writes[q], n)[i] = writes[q][i]
      BY <2>1, AppendProperties
    <3>3. DOMAIN writes'[q] = 1 .. Len(writes[q]) + 1 /\ DOMAIN writes[q] = 1 .. Len(writes[q]) BY <2>1, <3>1, <3>2
    <3>4. \A i \in 1 .. Len(writes[q]) + 1 : i \in 1 .. Len(writes[q]) \/ i = Len(writes[q]) + 1 BY <3>2
    <3>5. \A i \in DOMAIN writes'[q] :
            (i \in DOMAIN writes[q] /\ writes'[q][i] = writes[q][i])
            \/ (i = Len(writes[q]) + 1 /\ writes'[q][i] = n)
      BY <3>1, <3>2, <3>3, <3>4
    <3>6. writes'[q] \in Seq(1 .. n) BY <3>1, <3>2
    <3> QED BY <2>4, <2>5, <3>5, <3>6
  <2> QED BY <2>3, <2>4
<1>7. Status!StatusTyped'
  <2>1. writes' = [q \in Status!Publishers |-> writes'[q]] BY <1>0, <1>1 DEF Status!StatusTyped
  <2>2. writes' \in [Status!Publishers -> Seq(1 .. n)] BY <1>6, <2>1
  <2> QED BY <1>0, <1>1, <1>2, <1>4, <1>5, <2>2 DEF Status!StatusTyped, Status!Publishers
<1>8. ASSUME NEW q \in Status!Publishers PROVE Status!InOrder(q)'
  <2>1. Status!InOrder(q) BY DEF Status!QueuesAreInOrder
  <2> SUFFICES ASSUME NEW i \in DOMAIN writes'[q]
               PROVE  /\ maker'[writes'[q][i]] = q /\ writes'[q][i] \notin settled'
                      /\ \A j \in DOMAIN writes'[q] : i < j => writes'[q][i] < writes'[q][j]
                      /\ \A c \in shown' : maker'[c] = q => c <= writes'[q][i]
    BY DEF Status!InOrder
  <2>2. settled' = settled /\ shown' = shown /\ settled \subseteq 1 .. published /\ shown \subseteq 1 .. published
    BY <1>0, <1>1 DEF Status!StatusTyped
  <2>3. CASE i \in DOMAIN writes[q] /\ writes'[q][i] = writes[q][i]
    <3>1. writes[q][i] \in 1 .. published BY <1>6, <2>3
    <3>2. maker[writes[q][i]] = q /\ writes[q][i] \notin settled BY <2>1, <2>3 DEF Status!InOrder
    <3>3. \A j \in DOMAIN writes'[q] : i < j => writes'[q][i] < writes'[q][j]
      BY <1>2, <1>6, <2>1, <2>3, <3>1 DEF Status!InOrder
    <3>4. \A c \in shown : maker'[c] = q => c <= writes[q][i] BY <1>4, <2>1, <2>2, <2>3 DEF Status!InOrder
    <3> QED BY <1>4, <2>2, <2>3, <3>1, <3>2, <3>3, <3>4
  <2>4. CASE q = p /\ i = Len(writes[p]) + 1 /\ writes'[q][i] = n
    <3>1. \A j \in DOMAIN writes'[q] : ~(i < j)
      <4>1. writes[p] \in Seq(1 .. published) BY <1>0 DEF Status!StatusTyped
      <4> QED BY <1>6, <2>4, <4>1
    <3>2. n \notin settled /\ \A c \in shown : c <= n BY <1>2, <2>2
    <3> QED BY <1>4, <2>2, <2>4, <3>1, <3>2
  <2> QED BY <1>6, <2>3, <2>4
<1>9. Status!CameAfter'
  <2> SUFFICES ASSUME NEW c \in 1 .. n, NEW e \in earlier'[c]
               PROVE  e \in settled' \/ (e < c /\ maker'[e] = maker'[c])
    BY <1>1 DEF Status!CameAfter
  <2>1. settled' = settled BY <1>1
  <2>2. CASE c = n BY <1>2, <1>4, <1>5, <2>1, <2>2
  <2>3. CASE c \in 1 .. published
    <3>1. earlier'[c] = earlier[c] /\ earlier[c] \subseteq 1 .. published BY <1>0, <1>5, <2>3 DEF Status!StatusTyped
    <3>2. e \in settled \/ (e < c /\ maker[e] = maker[c])
      BY <2>3, <3>1 DEF Status!QueuesAreInOrder, Status!CameAfter
    <3> QED BY <1>4, <2>1, <2>3, <3>1, <3>2
  <2> QED BY <1>2, <2>2, <2>3
<1>10. Status!RenamesWhole' BY <1>1 DEF Status!QueuesAreInOrder, Status!RenamesWhole, Status!Publishers
<1>11. Status!NeverBack BY <1>1 DEF Status!NeverBack
<1> QED BY <1>7, <1>8, <1>9, <1>10, <1>11 DEF Status!QueuesAreInOrder, Status!Publishers

\* What a step that makes no call leaves to show: the queue of its process is what it was
\* or lost its first or all, calls were answered only if they leave it, and shown only
\* from its front.
LEMMA WriterKeeps ==
  ASSUME Status!QueuesAreInOrder, NEW p \in Status!Publishers,
         UNCHANGED <<published, maker, earlier>>,
         (Status!StatusTyped)', (Status!RenamesWhole)',
         \A q \in Status!Publishers \ {p} : writes'[q] = writes[q],
         \/ writes'[p] = writes[p] /\ settled' = settled
         \/ writes'[p] = <<>> /\ settled' = settled
         \/ writes[p] # <<>> /\ writes'[p] = Tail(writes[p]) /\ settled' = settled \union {writes[p][1]},
         shown' = shown \/ (writes'[p] = writes[p] /\ writes[p] # <<>> /\ shown' = shown \union {writes[p][1]})
  PROVE  Status!QueuesAreInOrder'
<1>0. Status!StatusTyped /\ \A q \in Status!Publishers : Status!InOrder(q) BY DEF Status!QueuesAreInOrder
<1>1. writes[p] # <<>> => /\ 1 \in DOMAIN writes[p] /\ writes[p][1] \in Nat /\ maker[writes[p][1]] = p
                          /\ \A i \in DOMAIN writes[p] : i = 1 \/ 1 < i
  <2>1. writes[p] \in Seq(1 .. published) BY <1>0 DEF Status!StatusTyped
  <2> QED BY <1>0, <2>1, FirstOf
<1>2. settled \subseteq settled' /\ maker' = maker /\ earlier' = earlier /\ published' = published OBVIOUS
<1>3. Status!CameAfter'
  <2> SUFFICES ASSUME NEW c \in 1 .. published, NEW e \in earlier[c]
               PROVE  e \in settled' \/ (e < c /\ maker[e] = maker[c])
    BY <1>2 DEF Status!CameAfter
  <2> QED BY <1>2 DEF Status!QueuesAreInOrder, Status!CameAfter
<1>4. ASSUME NEW q \in Status!Publishers, q # p PROVE Status!InOrder(q)'
  <2> SUFFICES ASSUME NEW i \in DOMAIN writes[q]
               PROVE  /\ maker[writes[q][i]] = q /\ writes[q][i] \notin settled'
                      /\ \A j \in DOMAIN writes[q] : i < j => writes[q][i] < writes[q][j]
                      /\ \A c \in shown' : maker[c] = q => c <= writes[q][i]
    BY <1>2, <1>4 DEF Status!InOrder
  <2>1. /\ maker[writes[q][i]] = q /\ writes[q][i] \notin settled
        /\ \A j \in DOMAIN writes[q] : i < j => writes[q][i] < writes[q][j]
        /\ \A c \in shown : maker[c] = q => c <= writes[q][i]
    BY <1>0 DEF Status!InOrder
  <2>2. writes[q][i] \notin settled' BY <1>1, <1>4, <2>1
  <2>3. \A c \in shown' : maker[c] = q => c \in shown BY <1>1, <1>4
  <2> QED BY <2>1, <2>2, <2>3
<1>5. Status!InOrder(p)'
  <2> SUFFICES ASSUME NEW i \in DOMAIN writes'[p]
               PROVE  /\ maker[writes'[p][i]] = p /\ writes'[p][i] \notin settled'
                      /\ \A j \in DOMAIN writes'[p] : i < j => writes'[p][i] < writes'[p][j]
                      /\ \A c \in shown' : maker[c] = p => c <= writes'[p][i]
    BY <1>2 DEF Status!InOrder
  <2>1. \A k \in DOMAIN writes[p] :
          /\ maker[writes[p][k]] = p /\ writes[p][k] \notin settled
          /\ \A j \in DOMAIN writes[p] : k < j => writes[p][k] < writes[p][j]
          /\ \A c \in shown : maker[c] = p => c <= writes[p][k]
    BY <1>0 DEF Status!InOrder
  <2>2. CASE writes'[p] = writes[p] /\ settled' = settled
    <3>1. \A k \in DOMAIN writes[p] : writes[p][k] \in Nat
      <4>1. writes[p] \in Seq(1 .. published) BY <1>0 DEF Status!StatusTyped
      <4>2. \A k \in DOMAIN writes[p] : writes[p][k] \in 1 .. published BY <4>1, InSeq
      <4> QED BY <4>2
    <3>2. ASSUME writes[p] # <<>> PROVE writes[p][1] <= writes[p][i] BY <1>1, <2>1, <2>2, <3>1, <3>2
    <3> QED BY <2>1, <2>2, <3>2
  <2>3. CASE writes'[p] = <<>> BY <2>3
  <2>4. CASE writes[p] # <<>> /\ writes'[p] = Tail(writes[p]) /\ settled' = settled \union {writes[p][1]}
             /\ writes'[p] # writes[p]
    <3>1. \A k \in DOMAIN writes'[p] :
            k \in Nat /\ 1 < k + 1 /\ k + 1 \in DOMAIN writes[p] /\ writes'[p][k] = writes[p][k + 1]
      BY <1>0, <2>4, FirstOf
    <3>2. writes[p][1] < writes[p][i + 1] BY <1>1, <2>1, <2>4, <3>1
    <3>3. writes[p][i + 1] \notin settled' BY <1>1, <2>1, <2>4, <3>1, <3>2
    <3>4. shown' = shown BY <2>4
    <3>5. \A j \in DOMAIN writes'[p] : i < j => i + 1 < j + 1 BY <3>1
    <3> QED BY <2>1, <3>1, <3>3, <3>4, <3>5
  <2>5. writes[p] # <<>> => Tail(writes[p]) # writes[p]
    <3>1. writes[p] \in Seq(1 .. published) BY <1>0 DEF Status!StatusTyped
    <3>2. ASSUME writes[p] # <<>> PROVE Len(Tail(writes[p])) # Len(writes[p])
      <4>1. Len(Tail(writes[p])) = Len(writes[p]) - 1 /\ Len(writes[p]) \in Nat BY <3>1, <3>2, HeadTailProperties
      <4> QED BY <4>1
    <3> QED BY <3>2
  <2> QED BY <2>2, <2>3, <2>4, <2>5
<1> QED BY <1>3, <1>4, <1>5 DEF Status!QueuesAreInOrder, Status!Publishers

LEMMA WriteKeeps ==
  ASSUME Status!QueuesAreInOrder, NEW p \in Status!Publishers, Status!WriteStatus(p) \/ Status!Die(p)
  PROVE  Status!QueuesAreInOrder' /\ Status!NeverBack
<1>0. Status!StatusTyped /\ Status!InOrder(p) /\ Status!RenamesWhole BY DEF Status!QueuesAreInOrder
<1>1. writes[p] # <<>> => /\ writes[p][1] \in 1 .. published /\ writes[p][1] \in Nat
                          /\ maker[writes[p][1]] = p /\ writes[p][1] \notin settled
                          /\ Tail(writes[p]) \in Seq(1 .. published)
  BY <1>0, FirstOf
<1> DEFINE Same == UNCHANGED <<published, maker, earlier>>
           Typed == Status!StatusTyped'
           Whole == Status!RenamesWhole'
           Others == \A q \in Status!Publishers \ {p} : writes'[q] = writes[q]
           Queue == \/ writes'[p] = writes[p] /\ settled' = settled
                    \/ writes'[p] = <<>> /\ settled' = settled
                    \/ writes[p] # <<>> /\ writes'[p] = Tail(writes[p]) /\ settled' = settled \union {writes[p][1]}
           Looks == shown' = shown
                      \/ (writes'[p] = writes[p] /\ writes[p] # <<>> /\ shown' = shown \union {writes[p][1]})
           All == Same /\ Typed /\ Whole /\ Others /\ Queue /\ Looks
<1>2. ASSUME Status!Settle(p), writes[p] # <<>>
      PROVE  Others /\ Queue /\ writes' \in [Status!Publishers -> Seq(1 .. published)]
             /\ settled' \subseteq 1 .. published
             /\ stage' = [stage EXCEPT ![p] = "mkdir"]
  <2>1. settled' = settled \union {writes[p][1]} /\ writes' = [writes EXCEPT ![p] = Tail(@)]
        /\ stage' = [stage EXCEPT ![p] = "mkdir"]
    BY <1>2 DEF Status!Settle, Status!Go
  <2> QED BY <1>0, <1>1, <1>2, <2>1 DEF Status!StatusTyped
<1>3. CASE Status!MakeDirectory(p)
  <2>1. Same /\ UNCHANGED <<statusFile, intact, statusTemp, shown>> /\ writes[p] # <<>>
    BY <1>3 DEF Status!MakeDirectory, Status!Kept, Status!At
  <2>2. CASE Status!Settle(p)
    <3>1. Typed BY <1>0, <1>2, <2>1, <2>2 DEF Status!StatusTyped
    <3>2. Whole BY <1>0, <1>2, <2>1, <2>2 DEF Status!RenamesWhole, Status!StatusTyped
    <3> QED BY <1>2, <2>1, <2>2, <3>1, <3>2, WriterKeeps DEF Status!NeverBack
  <2>3. CASE Status!Go(p, "write") /\ UNCHANGED <<writes, settled>>
    <3>1. Typed BY <1>0, <2>1, <2>3 DEF Status!StatusTyped, Status!Go
    <3>2. Whole BY <1>0, <2>1, <2>3 DEF Status!RenamesWhole, Status!StatusTyped, Status!Go
    <3> QED BY <2>1, <2>3, <3>1, <3>2, WriterKeeps DEF Status!NeverBack
  <2> QED BY <1>3, <2>2, <2>3 DEF Status!MakeDirectory
<1>4. CASE Status!MakeTemp(p)
  <2>1. Same /\ UNCHANGED <<statusFile, intact, writes, settled, shown>>
    BY <1>4 DEF Status!MakeTemp, Status!Kept
  <2>2. Typed BY <1>0, <1>4, <2>1 DEF Status!StatusTyped, Status!MakeTemp, Status!Go
  <2>3. Whole BY <1>0, <1>4, <2>1 DEF Status!RenamesWhole, Status!StatusTyped, Status!MakeTemp, Status!Go, Status!At
  <2> QED BY <2>1, <2>2, <2>3, WriterKeeps DEF Status!NeverBack
<1>5. CASE Status!FillTemp(p)
  <2>1. Same /\ UNCHANGED <<statusFile, intact, writes, settled, shown>>
    BY <1>5 DEF Status!FillTemp, Status!Kept
  <2>2. Typed BY <1>0, <1>5, <2>1 DEF Status!StatusTyped, Status!FillTemp, Status!Go
  <2>3. Whole
    <3>1. CASE statusTemp' = [statusTemp EXCEPT ![p] = "whole"] /\ stage' = [stage EXCEPT ![p] = "rename"]
      BY <1>0, <2>1, <3>1 DEF Status!RenamesWhole, Status!StatusTyped
    <3>2. CASE stage' = [stage EXCEPT ![p] = "unlink"] /\ statusTemp' = statusTemp
      BY <1>0, <2>1, <3>2 DEF Status!RenamesWhole, Status!StatusTyped
    <3> QED BY <1>5, <3>1, <3>2 DEF Status!FillTemp, Status!Go
  <2> QED BY <2>1, <2>2, <2>3, WriterKeeps DEF Status!NeverBack
<1>6. CASE Status!Rename(p)
  <2>1. Same /\ UNCHANGED <<writes, settled>> /\ writes[p] # <<>> /\ stage[p] = "rename" /\ Status!Go(p, "unlink")
    BY <1>6 DEF Status!Rename, Status!Kept, Status!At
  <2>2. CASE UNCHANGED <<statusFile, intact, shown, statusTemp>>
    <3>1. Typed BY <1>0, <2>1, <2>2 DEF Status!StatusTyped, Status!Go
    <3>2. Whole BY <1>0, <2>1, <2>2 DEF Status!RenamesWhole, Status!StatusTyped, Status!Go
    <3> QED BY <2>1, <2>2, <3>1, <3>2, WriterKeeps DEF Status!NeverBack
  <2>3. CASE /\ statusFile' = writes[p][1] /\ intact' = (statusTemp[p] = "whole")
             /\ shown' = shown \union {writes[p][1]}
             /\ statusTemp' = [statusTemp EXCEPT ![p] = "none"]
    <3>1. Typed BY <1>0, <1>1, <2>1, <2>3 DEF Status!StatusTyped, Status!Go
    <3>2. Whole BY <1>0, <2>1, <2>3 DEF Status!RenamesWhole, Status!StatusTyped, Status!Go
    <3>3. Status!QueuesAreInOrder' BY <2>1, <2>3, <3>1, <3>2, WriterKeeps
    <3>4. Status!NeverBack
      <4> SUFFICES ASSUME NEW c \in shown, writes[p][1] \in earlier[c] PROVE FALSE
        BY <2>3 DEF Status!NeverBack
      <4>1. c \in 1 .. published /\ c \in Nat BY <1>0 DEF Status!StatusTyped
      <4>2. writes[p][1] < c /\ maker[c] = p
        BY <1>1, <2>1, <4>1 DEF Status!QueuesAreInOrder, Status!CameAfter
      <4>3. 1 \in DOMAIN writes[p] BY <1>0, <2>1, FirstOf
      <4>4. c <= writes[p][1] BY <1>0, <4>2, <4>3 DEF Status!InOrder
      <4> QED BY <1>1, <2>1, <4>1, <4>2, <4>4
    <3> QED BY <3>3, <3>4
  <2> QED BY <1>6, <2>2, <2>3 DEF Status!Rename
<1>7. CASE Status!Unlink(p)
  <2>1. Same /\ UNCHANGED <<statusFile, intact, shown>> /\ writes[p] # <<>> /\ Status!Settle(p)
        /\ statusTemp' = [statusTemp EXCEPT ![p] = "none"]
    BY <1>7 DEF Status!Unlink, Status!Kept, Status!At
  <2>2. Typed BY <1>0, <1>2, <2>1 DEF Status!StatusTyped
  <2>3. Whole BY <1>0, <1>2, <2>1 DEF Status!RenamesWhole, Status!StatusTyped
  <2> QED BY <1>2, <2>1, <2>2, <2>3, WriterKeeps DEF Status!NeverBack
<1>8. CASE Status!Die(p)
  <2>1. /\ Same /\ UNCHANGED <<statusFile, intact, settled, shown>> /\ Status!Go(p, "mkdir")
        /\ writes' = [writes EXCEPT ![p] = <<>>] /\ statusTemp' = [statusTemp EXCEPT ![p] = "none"]
    BY <1>8 DEF Status!Die
  <2>2. Typed BY <1>0, <2>1 DEF Status!StatusTyped, Status!Go
  <2>3. Whole BY <1>0, <2>1 DEF Status!RenamesWhole, Status!StatusTyped, Status!Go
  <2>4. writes'[p] = <<>> /\ Others BY <1>0, <2>1 DEF Status!StatusTyped
  <2> QED BY <2>1, <2>2, <2>3, <2>4, WriterKeeps DEF Status!NeverBack
<1> QED BY <1>3, <1>4, <1>5, <1>6, <1>7, <1>8 DEF Status!WriteStatus

LEMMA StatusKeeps ==
  ASSUME Status!QueuesAreInOrder, Status!StatusNext PROVE Status!QueuesAreInOrder' /\ Status!NeverBack
BY PublishKeeps, WriteKeeps DEF Status!StatusNext

LEMMA StatusIsWhole == Status!QueuesAreInOrder => Status!NeverHalf
BY DEF Status!QueuesAreInOrder, Status!RenamesWhole, Status!NeverHalf

-----------------------------------------------------------------------------
(* The socket.                                                             *)

LEMMA LinkBegins == EdgeAssumption /\ Link!ConnInit => Link!LinkInductive
<1> SUFFICES ASSUME EdgeAssumption, Link!ConnInit PROVE Link!LinkInductive OBVIOUS
<1>1. Link!LinkTyped BY DEF EdgeAssumption, Link!ConnInit, Link!LinkTyped, Link!Ids
<1>2. Link!RequestsAreNew /\ Link!AnswersAreTrue /\ Link!SleepsAreShort /\ Link!OnlyServersAreLinked
  BY DEF Link!ConnInit, Link!RequestsAreNew, Link!AnswersAreTrue, Link!SleepsAreShort, Link!OnlyServersAreLinked
<1>3. Link!AnswersMatch /\ Link!LookingIsBounded
  BY DEF EdgeAssumption, Link!ConnInit, Link!AnswersMatch, Link!LookingIsBounded, Link!Ids
<1> QED BY <1>1, <1>2, <1>3 DEF Link!LinkInductive

\* What a step leaves of the calls, the operations and the messages.
CallsStand == Link!Ids' = Link!Ids /\ UNCHANGED <<running, served>>
LineToServer == UNCHANGED toServer \/ toServer' = <<>> \/ (toServer # <<>> /\ toServer' = Tail(toServer))
LineToPeer == UNCHANGED toPeer \/ toPeer' = <<>> \/ (toPeer # <<>> /\ toPeer' = Tail(toPeer))

LEMMA TailIs ==
  ASSUME NEW S, NEW s \in Seq(S), s # <<>>
  PROVE  /\ Tail(s) \in Seq(S) /\ Head(s) = s[1] /\ 1 \in DOMAIN s /\ Head(s) \in S
         /\ \A i \in DOMAIN Tail(s) : i \in Nat /\ i + 1 \in DOMAIN s /\ i + 1 # 1 /\ Tail(s)[i] = s[i + 1]
<1>1. Tail(s) \in Seq(S) /\ Head(s) = s[1] BY HeadTailProperties
<1>2. 1 \in DOMAIN s OBVIOUS
<1>3. \A i \in DOMAIN Tail(s) : i \in Nat /\ i + 1 \in DOMAIN s /\ i + 1 # 1 /\ Tail(s)[i] = s[i + 1] OBVIOUS
<1>4. s[1] \in S OBVIOUS
<1> QED BY <1>1, <1>2, <1>3, <1>4

LEMMA AppendIs ==
  ASSUME NEW S, NEW s \in Seq(S), NEW e \in S
  PROVE  /\ Append(s, e) \in Seq(S) /\ Len(Append(s, e)) = Len(s) + 1 /\ Len(s) \in Nat
         /\ \A i \in DOMAIN Append(s, e) :
              (i \in DOMAIN s /\ Append(s, e)[i] = s[i]) \/ (i = Len(s) + 1 /\ Append(s, e)[i] = e)
         /\ \A i \in DOMAIN s : i # Len(s) + 1 /\ i \in DOMAIN Append(s, e) /\ Append(s, e)[i] = s[i]
         /\ DOMAIN Append(s, e) = DOMAIN s \cup {Len(s) + 1} /\ Append(s, e)[Len(s) + 1] = e
<1> DEFINE a == Append(s, e)
<1>1. a \in Seq(S) /\ Len(a) = Len(s) + 1 /\ Len(s) \in Nat /\ a[Len(s) + 1] = e
      /\ \A i \in 1 .. Len(s) : a[i] = s[i]
  BY AppendProperties
<1>2. DOMAIN a = 1 .. Len(s) + 1 /\ DOMAIN s = 1 .. Len(s) BY <1>1
<1> HIDE DEF a
<1>3. \A i \in 1 .. Len(s) + 1 : i \in 1 .. Len(s) \/ i = Len(s) + 1 BY <1>1
<1>4. \A i \in 1 .. Len(s) : i # Len(s) + 1 /\ i \in 1 .. Len(s) + 1 BY <1>1
<1>5. 1 .. Len(s) + 1 = (1 .. Len(s)) \cup {Len(s) + 1} BY <1>1
<1> QED BY <1>1, <1>2, <1>3, <1>4, <1>5 DEF a

\* Messages that are read or lost leave the rest true.
LEMMA LinesShrink ==
  ASSUME Link!LinkTyped, Link!RequestsAreNew, Link!AnswersAreTrue, CallsStand
  PROVE  /\ LineToServer => toServer' \in Seq(Link!ToServer) /\ Link!RequestsAreNew'
         /\ LineToPeer => toPeer' \in Seq(Link!ToPeer) /\ Link!AnswersAreTrue'
<1>1. ASSUME LineToServer PROVE toServer' \in Seq(Link!ToServer) /\ Link!RequestsAreNew'
  <2>0. toServer \in Seq(Link!ToServer) /\ Link!Ids' = Link!Ids /\ served' = served BY DEF Link!LinkTyped, CallsStand
  <2>1. CASE toServer' = toServer BY <2>0, <2>1 DEF Link!RequestsAreNew
  <2>2. CASE toServer' = <<>> BY <2>2 DEF Link!RequestsAreNew
  <2>3. CASE toServer # <<>> /\ toServer' = Tail(toServer)
    <3>1. /\ Tail(toServer) \in Seq(Link!ToServer)
          /\ \A i \in DOMAIN toServer' : i \in Nat /\ i + 1 \in DOMAIN toServer /\ toServer'[i] = toServer[i + 1]
      BY <2>0, <2>3, TailIs
    <3>2. \A i, j \in DOMAIN toServer' : i # j => i + 1 # j + 1 BY <3>1
    <3> QED BY <2>0, <2>3, <3>1, <3>2 DEF Link!RequestsAreNew
  <2> QED BY <1>1, <2>1, <2>2, <2>3 DEF LineToServer
<1>2. ASSUME LineToPeer PROVE toPeer' \in Seq(Link!ToPeer) /\ Link!AnswersAreTrue'
  <2>0. toPeer \in Seq(Link!ToPeer) /\ running' = running /\ served' = served BY DEF Link!LinkTyped, CallsStand
  <2>1. CASE toPeer' = toPeer BY <2>0, <2>1 DEF Link!AnswersAreTrue
  <2>2. CASE toPeer' = <<>> BY <2>2 DEF Link!AnswersAreTrue
  <2>3. CASE toPeer # <<>> /\ toPeer' = Tail(toPeer)
    <3>1. /\ Tail(toPeer) \in Seq(Link!ToPeer)
          /\ \A i \in DOMAIN toPeer' : i + 1 \in DOMAIN toPeer /\ toPeer'[i] = toPeer[i + 1]
      BY <2>0, <2>3, TailIs
    <3> QED BY <2>0, <2>3, <3>1 DEF Link!AnswersAreTrue
  <2> QED BY <1>2, <2>1, <2>2, <2>3 DEF LineToPeer
<1> QED BY <1>1, <1>2

\* The clock, the sleeps and who may have a connection.
LEMMA TimeKeeps ==
  ASSUME EdgeAssumption, Link!LinkInductive, Link!ConnNext
  PROVE  /\ clock' \in Nat /\ due' \in Nat /\ wait' \in 0 .. MaxRetry
         /\ Link!SleepsAreShort' /\ Link!OnlyServersAreLinked' /\ Link!LookingIsBounded'
         /\ Link!GivesUp => daemon # "serving" /\ clock >= Budget
<1> USE DEF EdgeAssumption, Link!LinkInductive, Link!LinkTyped, Link!SleepsAreShort, Link!OnlyServersAreLinked,
            Link!LookingIsBounded, Link!GivesUp
<1>1. CASE Link!OpenFirst
  <2>1. client = "new" /\ clock = 0 /\ clock' = clock BY <1>1 DEF Link!OpenFirst
  <2>2. CASE daemon = "serving"
    <3>1. client' = "hello" /\ wait' = 0 /\ daemon' = daemon /\ due' = due BY <1>1, <2>2 DEF Link!OpenFirst, Link!Link
    <3> QED BY <2>1, <2>2, <3>1
  <2>3. CASE daemon # "serving"
    <3>1. client' = "polling" /\ wait' = 1 /\ due' = clock + 1 /\ linked' = linked
          /\ daemon' = (IF daemon = "absent" THEN "starting" ELSE daemon)
      BY <1>1, <2>3 DEF Link!OpenFirst
    <3> QED BY <2>1, <2>3, <3>1
  <2> QED BY <2>2, <2>3
<1>2. CASE Link!OpenAgain
  <2>1. client = "polling" /\ clock' = clock /\ clock = due /\ daemon' = daemon BY <1>2 DEF Link!OpenAgain
  <2>2. CASE daemon = "serving"
    <3>1. client' = "hello" /\ wait' = 0 /\ due' = due BY <1>2, <2>2 DEF Link!OpenAgain, Link!Link
    <3> QED BY <2>1, <2>2, <3>1
  <2>3. CASE daemon # "serving" /\ clock < Budget
    <3>1. client' = "polling" /\ wait' = Link!Least(wait * 2, MaxRetry) /\ due' = clock + wait' /\ linked' = linked
      BY <1>2, <2>1, <2>3 DEF Link!OpenAgain, Link!Again
    <3>2. wait' \in 1 .. MaxRetry BY <2>1, <3>1 DEF Link!Least
    <3> QED BY <2>1, <2>3, <3>1, <3>2
  <2>4. CASE daemon # "serving" /\ ~(clock < Budget)
    <3>1. client' = "failed" /\ wait' = 0 /\ due' = due /\ linked' = linked
      BY <1>2, <2>4 DEF Link!OpenAgain, Link!Again
    <3> QED BY <2>1, <2>4, <3>1
  <2> QED BY <2>2, <2>3, <2>4
<1>3. CASE Link!Tick BY <1>3 DEF Link!Tick
<1>4. CASE Link!DaemonUp BY <1>4 DEF Link!DaemonUp
<1>5. CASE Link!HelloTimeout BY <1>5 DEF Link!HelloTimeout
<1>6. CASE Link!Call BY <1>6 DEF Link!Call
<1>7. CASE Link!ClientReads BY <1>7 DEF Link!ClientReads
<1>8. CASE Link!ClientSeesClose BY <1>8 DEF Link!ClientSeesClose
<1>9. CASE Link!ClientCloses BY <1>9 DEF Link!ClientCloses
<1>10. CASE Link!ServerReads BY <1>10 DEF Link!ServerReads
<1>11. CASE Link!OperationEnds BY <1>11 DEF Link!OperationEnds
<1>12. CASE Link!ServerCloses BY <1>12 DEF Link!ServerCloses
<1>13. CASE Link!ServerClosed BY <1>13 DEF Link!ServerClosed, Link!Drained
<1> QED BY <1>1, <1>2, <1>3, <1>4, <1>5, <1>6, <1>7, <1>8, <1>9, <1>10, <1>11, <1>12, <1>13 DEF Link!ConnNext

\* The calls and the messages.
Talk ==
  /\ calls \in Seq({"pending", "ok", "refused"}) /\ toServer \in Seq(Link!ToServer) /\ toPeer \in Seq(Link!ToPeer)
  /\ served \subseteq Link!Ids /\ running \subseteq served
  /\ Link!RequestsAreNew /\ Link!AnswersAreTrue /\ Link!AnswersMatch

\* A step that makes no call, runs no operation and ends none.
LEMMA QuietTalk ==
  ASSUME Link!LinkTyped, Talk, CallsStand, LineToServer, LineToPeer,
         calls' \in Seq({"pending", "ok", "refused"}), \A id \in Link!Ids : calls'[id] = "ok" => id \in served \ running
  PROVE  Talk'
<1>1. toServer' \in Seq(Link!ToServer) /\ Link!RequestsAreNew' /\ toPeer' \in Seq(Link!ToPeer) /\ Link!AnswersAreTrue'
  BY LinesShrink DEF Talk
<1>2. served' \subseteq Link!Ids' /\ running' \subseteq served' BY DEF Talk, CallsStand
<1>3. Link!AnswersMatch' BY DEF Link!AnswersMatch, CallsStand
<1> QED BY <1>1, <1>2, <1>3 DEF Talk, Link!ToServer, Link!ToPeer

LEMMA TalkStands ==
  ASSUME Link!LinkTyped, Talk, UNCHANGED <<calls, running, served>>, LineToServer, LineToPeer
  PROVE  Talk'
BY QuietTalk DEF Talk, CallsStand, Link!Ids, Link!AnswersMatch

\* A link begins with a hello and no answer.
LEMMA LinkTalk ==
  ASSUME Link!LinkTyped, Talk, Link!Link, UNCHANGED <<calls, running, served>>
  PROVE  Talk'
<1>1. toServer' = <<[t |-> "hello", v |-> TRUE]>> /\ toPeer' = <<>> BY DEF Link!Link, Link!Hello
<1>2. toServer' \in Seq(Link!ToServer) /\ toPeer' \in Seq(Link!ToPeer) BY <1>1 DEF Link!ToServer
<1>3. DOMAIN toServer' = {1} /\ toServer'[1].t = "hello" /\ DOMAIN toPeer' = {} BY <1>1
<1>4. Link!RequestsAreNew' /\ Link!AnswersAreTrue' BY <1>3 DEF Link!RequestsAreNew, Link!AnswersAreTrue
<1> QED BY <1>2, <1>4 DEF Talk, Link!Ids, Link!AnswersMatch, Link!ToServer, Link!ToPeer

LEMMA RejectTalk ==
  ASSUME Link!LinkTyped, Talk, calls' = Link!RejectAll, UNCHANGED <<running, served>>, LineToServer, LineToPeer
  PROVE  Talk'
<1>1. DOMAIN calls = 1 .. Len(calls) /\ Len(calls) \in Nat /\ calls \in [1 .. Len(calls) -> {"pending", "ok", "refused"}]
  BY DEF Talk
<1>2. /\ calls' \in [1 .. Len(calls) -> {"pending", "ok", "refused"}]
      /\ \A id \in 1 .. Len(calls) : calls'[id] = "ok" => calls[id] = "ok"
  BY <1>1 DEF Link!RejectAll, Link!Ids
<1>3. calls' \in Seq({"pending", "ok", "refused"}) BY <1>1, <1>2
<1>4. CallsStand BY <1>1, <1>2 DEF CallsStand, Link!Ids
<1> QED BY <1>1, <1>2, <1>3, <1>4, QuietTalk DEF Talk, Link!AnswersMatch, Link!Ids

\* An answer that is read settles its own call, and what it says is true.
LEMMA SettleTalk ==
  ASSUME Link!LinkTyped, Talk, toPeer # <<>>, toPeer' = Tail(toPeer), Head(toPeer).t # "hello",
         Link!Settle(Head(toPeer)), UNCHANGED <<running, served, toServer>>
  PROVE  Talk'
<1> DEFINE m == Head(toPeer)
<1>1. m = toPeer[1] /\ 1 \in DOMAIN toPeer /\ m \in Link!ToPeer BY TailIs DEF Talk
<1>2. m.t = "res" /\ m.ok \in BOOLEAN BY <1>1 DEF Link!ToPeer
<1>3. m.ok => m.id \in served \ running BY <1>1, <1>2 DEF Talk, Link!AnswersAreTrue
<1> HIDE DEF m
<1>4. calls' = [i \in DOMAIN calls |-> IF i = m.id /\ calls[i] = "pending"
                                       THEN (IF m.ok THEN "ok" ELSE "refused") ELSE calls[i]]
  BY DEF Link!Settle, Link!Ids, m
<1>5. DOMAIN calls = 1 .. Len(calls) /\ Len(calls) \in Nat /\ calls \in [1 .. Len(calls) -> {"pending", "ok", "refused"}]
  BY DEF Talk
<1>6. calls' \in [1 .. Len(calls) -> {"pending", "ok", "refused"}] BY <1>2, <1>4, <1>5
<1>7. calls' \in Seq({"pending", "ok", "refused"}) BY <1>5, <1>6
<1>8. \A id \in DOMAIN calls : calls'[id] = "ok" => id \in served \ running
  BY <1>3, <1>4 DEF Talk, Link!AnswersMatch, Link!Ids
<1>9. CallsStand BY <1>5, <1>6 DEF CallsStand, Link!Ids
<1> QED BY <1>7, <1>8, <1>9, QuietTalk DEF Link!Ids, LineToServer, LineToPeer

LEMMA CallTalk ==
  ASSUME Link!LinkTyped, Talk, Link!Call PROVE Talk'
<1> DEFINE id == Len(calls) + 1
           Words == {"pending", "ok", "refused"}
<1>1. PICK word \in {"pending", "refused"} : calls' = Append(calls, word) BY DEF Link!Call
<1>2. /\ calls' \in Seq(Words) /\ DOMAIN calls' = DOMAIN calls \cup {id} /\ id \notin DOMAIN calls /\ id \in Nat
      /\ calls'[id] = word /\ \A i \in DOMAIN calls : calls'[i] = calls[i]
  <2>1. calls \in Seq(Words) /\ word \in Words BY DEF Talk
  <2> HIDE DEF Words
  <2> QED BY <1>1, <2>1, AppendIs
<1> HIDE DEF id
<1>3. UNCHANGED <<running, served, toPeer>> BY DEF Link!Call
<1>4. served' \subseteq Link!Ids' /\ running' \subseteq served' BY <1>2, <1>3 DEF Talk, Link!Ids
<1>5. Link!AnswersMatch' BY <1>1, <1>2, <1>3 DEF Talk, Link!AnswersMatch, Link!Ids
<1>6. Link!AnswersAreTrue' BY <1>3 DEF Talk, Link!AnswersAreTrue
<1>7. toServer' \in Seq(Link!ToServer) /\ Link!RequestsAreNew'
  <2>1. toServer' = toServer \/ toServer' = Append(toServer, Link!Req(id)) BY DEF Link!Call, id
  <2>2. CASE toServer' = toServer BY <1>2, <1>3, <2>2 DEF Talk, Link!RequestsAreNew, Link!Ids
  <2>3. CASE toServer' = Append(toServer, Link!Req(id))
    <3> DEFINE r == Link!Req(id)
    <3>1. r \in Link!ToServer /\ r.id = id BY <1>2 DEF Link!Req, Link!ToServer
    <3> HIDE DEF r
    <3>2. /\ toServer' \in Seq(Link!ToServer)
          /\ \A i \in DOMAIN toServer' : (i \in DOMAIN toServer /\ toServer'[i] = toServer[i])
                                         \/ (i = Len(toServer) + 1 /\ toServer'[i] = r)
      BY <2>3, <3>1, AppendIs DEF Talk, r
    <3>3. id \notin served BY <1>2 DEF Talk, Link!Ids
    <3>4. Link!RequestsAreNew'
      <4> SUFFICES ASSUME NEW i \in DOMAIN toServer', toServer'[i].t = "req"
                   PROVE  /\ toServer'[i].id \in Link!Ids' \ served'
                          /\ \A j \in DOMAIN toServer' : i # j /\ toServer'[j].t = "req" => toServer'[i].id # toServer'[j].id
        BY DEF Link!RequestsAreNew
      <4>1. \A j \in DOMAIN toServer : toServer[j].t = "req" => toServer[j].id \in DOMAIN calls \ served /\ toServer[j].id # id
        BY <1>2 DEF Talk, Link!RequestsAreNew, Link!Ids
      <4>2. CASE i \in DOMAIN toServer /\ toServer'[i] = toServer[i]
        BY <1>2, <1>3, <3>1, <3>2, <4>1, <4>2, ZenonT(60) DEF Talk, Link!RequestsAreNew, Link!Ids
      <4>3. CASE i = Len(toServer) + 1 /\ toServer'[i] = r
        BY <1>2, <1>3, <3>1, <3>2, <3>3, <4>1, <4>3 DEF Link!Ids
      <4> QED BY <3>2, <4>2, <4>3
    <3> QED BY <3>2, <3>4
  <2> QED BY <2>1, <2>2, <2>3
<1> QED BY <1>2, <1>3, <1>4, <1>5, <1>6, <1>7 DEF Talk, Link!ToServer, Link!ToPeer

\* An answer that is written; one that says well is of an operation that ended.
LEMMA ReplyIs ==
  ASSUME toPeer \in Seq(Link!ToPeer), NEW m \in Link!ToPeer, Link!Reply(m)
  PROVE  /\ toPeer' \in Seq(Link!ToPeer)
         /\ \A i \in DOMAIN toPeer' : (i \in DOMAIN toPeer /\ toPeer'[i] = toPeer[i]) \/ toPeer'[i] = m
<1>1. CASE toPeer' = toPeer BY <1>1
<1>2. CASE toPeer' = Append(toPeer, m) BY <1>2, AppendIs
<1> QED BY <1>1, <1>2 DEF Link!Reply

LEMMA OperationTalk ==
  ASSUME Link!LinkTyped, Talk, Link!OperationEnds PROVE Talk'
<1>1. PICK id \in running, ok \in BOOLEAN : running' = running \ {id} /\ Link!Reply(Link!Answer(id, ok))
  BY DEF Link!OperationEnds
<1>2. UNCHANGED <<calls, toServer, served>> BY DEF Link!OperationEnds
<1> DEFINE m == Link!Answer(id, ok)
<1>3. m \in Link!ToPeer /\ m.id = id
  <2>1. id \in Nat BY DEF Talk, Link!Ids
  <2> QED BY <2>1 DEF Link!Answer, Link!ToPeer
<1> HIDE DEF m
<1>4. /\ toPeer' \in Seq(Link!ToPeer)
      /\ \A i \in DOMAIN toPeer' : (i \in DOMAIN toPeer /\ toPeer'[i] = toPeer[i]) \/ toPeer'[i] = m
  BY <1>1, <1>3, ReplyIs DEF Talk, m
<1>5. id \in served' \ running' BY <1>1, <1>2 DEF Talk
<1>6. Link!AnswersAreTrue' BY <1>1, <1>2, <1>3, <1>4, <1>5 DEF Talk, Link!AnswersAreTrue
<1>7. Link!AnswersMatch' BY <1>1, <1>2 DEF Talk, Link!AnswersMatch, Link!Ids
<1> QED BY <1>1, <1>2, <1>4, <1>6, <1>7 DEF Talk, Link!RequestsAreNew, Link!Ids, Link!ToServer, Link!ToPeer

LEMMA ServerReadsTalk ==
  ASSUME Link!LinkTyped, Talk, Link!ServerReads PROVE Talk'
<1> DEFINE m == Head(toServer)
<1>1. toServer # <<>> /\ toServer' = Tail(toServer) /\ calls' = calls BY DEF Link!ServerReads
<1>2. /\ m = toServer[1] /\ 1 \in DOMAIN toServer /\ m \in Link!ToServer /\ toServer' \in Seq(Link!ToServer)
      /\ \A i \in DOMAIN toServer' : i \in Nat /\ i + 1 \in DOMAIN toServer /\ i + 1 # 1 /\ toServer'[i] = toServer[i + 1]
  BY <1>1, TailIs DEF Talk
<1> HIDE DEF m
<1>3. CASE UNCHANGED <<running, served>>
  <2>1. PICK r \in Link!ToPeer : (Link!Reply(r) \/ UNCHANGED toPeer) /\ (r.t = "res" => ~r.ok)
    <3>1. m.t = "hello" \/ (m.t = "req" /\ m.id \in Nat) BY <1>2 DEF Link!ToServer
    <3>2. Link!Hello(TRUE) \in Link!ToPeer /\ Link!Hello(TRUE).t = "hello" BY DEF Link!Hello, Link!ToPeer
    <3>3. \A id \in Nat : Link!Answer(id, FALSE) \in Link!ToPeer /\ ~Link!Answer(id, FALSE).ok
      BY DEF Link!Answer, Link!ToPeer
    <3>4. IF m.t = "hello" THEN Link!RouterHello(m) ELSE Link!RouterRequest(m) BY DEF Link!ServerReads, m
    <3> QED BY <3>1, <3>2, <3>3, <3>4 DEF Link!RouterHello, Link!RouterRequest
  <2>2. /\ toPeer' \in Seq(Link!ToPeer)
        /\ \A i \in DOMAIN toPeer' : (i \in DOMAIN toPeer /\ toPeer'[i] = toPeer[i]) \/ toPeer'[i] = r
    BY <2>1, ReplyIs DEF Talk
  <2>3. Link!AnswersAreTrue' BY <1>3, <2>1, <2>2 DEF Talk, Link!AnswersAreTrue
  <2>4. \A i, j \in DOMAIN toServer' : i # j => i + 1 # j + 1 BY <1>2
  <2>5. Link!RequestsAreNew' BY <1>1, <1>2, <1>3, <2>4 DEF Talk, Link!RequestsAreNew, Link!Ids
  <2> QED BY <1>1, <1>2, <1>3, <2>2, <2>3, <2>5 DEF Talk, Link!AnswersMatch, Link!Ids, Link!ToServer, Link!ToPeer
<1>4. CASE ~UNCHANGED <<running, served>>
  <2>1. /\ m.t # "hello" /\ running' = running \cup {m.id} /\ served' = served \cup {m.id} /\ toPeer' = toPeer
    BY <1>4 DEF Link!ServerReads, Link!RouterHello, Link!RouterRequest, m
  <2>2. m.t = "req" BY <1>2, <2>1 DEF Link!ToServer
  <2>3. m.id \in Link!Ids \ served
        /\ \A j \in DOMAIN toServer : 1 # j /\ toServer[j].t = "req" => m.id # toServer[j].id
    BY <1>2, <2>2 DEF Talk, Link!RequestsAreNew
  <2>4. \A i, j \in DOMAIN toServer' : i # j => i + 1 # j + 1 BY <1>2
  <2>5. Link!RequestsAreNew' BY <1>1, <1>2, <2>1, <2>3, <2>4 DEF Talk, Link!RequestsAreNew, Link!Ids
  <2>6. Link!AnswersAreTrue' BY <2>1, <2>3 DEF Talk, Link!AnswersAreTrue
  <2>7. Link!AnswersMatch' BY <1>1, <2>1, <2>3 DEF Talk, Link!AnswersMatch, Link!Ids
  <2> QED BY <1>1, <1>2, <2>1, <2>3, <2>5, <2>6, <2>7 DEF Talk, Link!Ids, Link!ToServer, Link!ToPeer
<1> QED BY <1>3, <1>4

LEMMA TalkKeeps ==
  ASSUME Link!LinkTyped, Talk, Link!ConnNext PROVE Talk'
<1> USE DEF LineToServer, LineToPeer
<1>1. CASE Link!OpenFirst
  <2>1. Link!Link \/ UNCHANGED <<toServer, toPeer>> BY <1>1 DEF Link!OpenFirst
  <2>2. UNCHANGED <<calls, running, served>> BY <1>1 DEF Link!OpenFirst
  <2> QED BY <2>1, <2>2, LinkTalk, TalkStands
<1>2. CASE Link!OpenAgain
  <2>1. Link!Link \/ UNCHANGED <<toServer, toPeer>> BY <1>2 DEF Link!OpenAgain
  <2>2. UNCHANGED <<calls, running, served>> BY <1>2 DEF Link!OpenAgain
  <2> QED BY <2>1, <2>2, LinkTalk, TalkStands
<1>3. CASE Link!Tick BY <1>3, TalkStands DEF Link!Tick
<1>4. CASE Link!DaemonUp BY <1>4, TalkStands DEF Link!DaemonUp
<1>5. CASE Link!HelloTimeout BY <1>5, TalkStands DEF Link!HelloTimeout
<1>6. CASE Link!Call BY <1>6, CallTalk
<1>7. CASE Link!ClientReads
  <2>1. toPeer # <<>> /\ toPeer' = Tail(toPeer) /\ UNCHANGED <<running, served, toServer>> BY <1>7 DEF Link!ClientReads
  <2>2. calls' = calls \/ (Head(toPeer).t # "hello" /\ Link!Settle(Head(toPeer))) BY <1>7 DEF Link!ClientReads
  <2> QED BY <2>1, <2>2, SettleTalk, TalkStands
<1>8. CASE Link!ClientSeesClose BY <1>8, RejectTalk DEF Link!ClientSeesClose
<1>9. CASE Link!ClientCloses BY <1>9, RejectTalk DEF Link!ClientCloses
<1>10. CASE Link!ServerReads BY <1>10, ServerReadsTalk
<1>11. CASE Link!OperationEnds BY <1>11, OperationTalk
<1>12. CASE Link!ServerCloses BY <1>12, TalkStands DEF Link!ServerCloses
<1>13. CASE Link!ServerClosed BY <1>13, TalkStands DEF Link!ServerClosed
<1> QED BY <1>1, <1>2, <1>3, <1>4, <1>5, <1>6, <1>7, <1>8, <1>9, <1>10, <1>11, <1>12, <1>13 DEF Link!ConnNext

LEMMA LinkKeeps ==
  ASSUME EdgeAssumption, Link!LinkInductive, Link!ConnNext
  PROVE  Link!LinkInductive' /\ (Link!GivesUp => daemon # "serving" /\ clock >= Budget)
<1>1. Link!LinkTyped /\ Talk BY DEF Link!LinkInductive, Link!LinkTyped, Talk
<1>2. Talk' BY <1>1, TalkKeeps
<1>3. Link!LinkTyped' BY <1>2, TimeKeeps DEF Talk, Link!LinkTyped, Link!ToServer, Link!ToPeer
<1> QED BY <1>2, <1>3, TimeKeeps DEF Talk, Link!LinkInductive

LEMMA LinkPromises == Link!LinkInductive => Link!AnswersMatch /\ Link!LookingIsBounded /\ Link!ClosedServerIsAlone
BY DEF Link!LinkInductive, Link!OnlyServersAreLinked, Link!ClosedServerIsAlone

-----------------------------------------------------------------------------
\* The scripts, name by name.
LEMMA ScriptsAre ==
  /\ Fake!Scripts = {Fake!Scenarios.hello, Fake!Scenarios.tools, Fake!Dialog, Fake!Scenarios.error,
                     Fake!Scenarios.retry, Fake!Scenarios.buffer, Fake!Proposal}
  /\ \A s \in DOMAIN Fake!Scenarios : Fake!Scenarios[s] \in Fake!Scripts
BY DEF Fake!Scripts, Fake!Scenarios, Fake!Dialog

\* The words of the script.
LEMMA Words ==
  /\ \A ty \in Fake!Kinds : Fake!E(ty) \in Fake!Events /\ Fake!E(ty).type = ty
  /\ \A b \in Nat : Fake!Text(b) \in Fake!Events /\ Fake!Text(b).type = "text_delta" /\ Fake!Text(b).block = b
  /\ \A b \in Nat : Fake!End(b) \in Fake!Events /\ Fake!End(b).type = "text_end" /\ Fake!End(b).block = b
  /\ \A n \in Nat : Fake!Used(n) \in Fake!Events /\ Fake!Used(n).type = "usage" /\ Fake!Used(n).total = n
  /\ \A is \in Fake!Kinds, id \in Fake!Ids : Fake!Tool(is, id) \in Fake!Events /\ Fake!Tool(is, id).type = is /\ Fake!Tool(is, id).id = id
  /\ \A why \in Fake!Reasons : Fake!Done(why) \in Fake!Events /\ Fake!Done(why).type = "settled" /\ Fake!Done(why).reason = why
<1>1. \A ty \in Fake!Kinds : Fake!E(ty) \in Fake!Events /\ Fake!E(ty).type = ty BY DEF Fake!E, Fake!Events
<1>2. \A b \in Nat : Fake!Text(b) \in Fake!Events /\ Fake!Text(b).type = "text_delta" /\ Fake!Text(b).block = b
  BY DEF Fake!Text, Fake!Events, Fake!Kinds
<1>3. \A b \in Nat : Fake!End(b) \in Fake!Events /\ Fake!End(b).type = "text_end" /\ Fake!End(b).block = b
  BY DEF Fake!End, Fake!Events, Fake!Kinds
<1>4. \A n \in Nat : Fake!Used(n) \in Fake!Events /\ Fake!Used(n).type = "usage" /\ Fake!Used(n).total = n
  BY DEF Fake!Used, Fake!Events, Fake!Kinds
<1>5. \A is \in Fake!Kinds, id \in Fake!Ids : Fake!Tool(is, id) \in Fake!Events /\ Fake!Tool(is, id).type = is /\ Fake!Tool(is, id).id = id
  BY DEF Fake!Tool, Fake!Events
<1>6. \A why \in Fake!Reasons : Fake!Done(why) \in Fake!Events /\ Fake!Done(why).type = "settled" /\ Fake!Done(why).reason = why
  BY DEF Fake!Done, Fake!Events, Fake!Kinds
<1> QED BY <1>1, <1>2, <1>3, <1>4, <1>5, <1>6

\* A beginning of a telling that keeps the contract keeps it, also with the end of the
\* turn behind it.
LEMMA BeginningKeeps ==
  ASSUME NEW t, NEW u, NEW n \in Nat, Fake!KeepsContract(t), Len(t) \in Nat, n <= Len(t),
         Len(u) = n \/ (Len(u) = n + 1 /\ u[n + 1].type = "settled"),
         \A i \in 1 .. n : u[i] = t[i] /\ u[i].type # "settled"
  PROVE  Fake!KeepsContract(u)
<1>1. ASSUME NEW T, "settled" \notin T
      PROVE  \A i \in Fake!Of(u, T) : i \in Fake!Of(t, T) /\ u[i] = t[i] /\ i \in 1 .. n
  BY <1>1 DEF Fake!Of
<1>2. ASSUME NEW T, "settled" \notin T, NEW i \in Fake!Of(u, T), NEW j \in Fake!Of(t, T), j < i
      PROVE  j \in Fake!Of(u, T) /\ u[j] = t[j]
  BY <1>2 DEF Fake!Of
<1>3. Fake!SettlesOnce(u) BY DEF Fake!SettlesOnce, Fake!Of
<1>4. Fake!StartsOnce(u)
  <2>1. \A i \in Fake!Of(u, {"turn_start"}) : i \in Fake!Of(t, {"turn_start"}) /\ i \in 1 .. n BY <1>1
  <2>2. \A i \in 1 .. n : \A j \in 1 .. i - 1 : u[j] = t[j] OBVIOUS
  <2> QED BY <2>1, <2>2 DEF Fake!StartsOnce, Fake!KeepsContract
<1>5. Fake!BlocksEnd(u) BY <1>1 DEF Fake!BlocksEnd, Fake!KeepsContract
<1>6. Fake!ToolsPair(u)
  <2> DEFINE St == {"tool_start"} 
             Al == {"tool_start", "tool_update", "tool_end"}
             En == {"tool_end"}
  <2>1. /\ \A i \in Fake!Of(u, St) : i \in Fake!Of(t, St) /\ u[i] = t[i]
        /\ \A i \in Fake!Of(u, Al) : i \in Fake!Of(t, Al) /\ u[i] = t[i]
        /\ \A i \in Fake!Of(u, En) : i \in Fake!Of(t, En) /\ u[i] = t[i]
    BY <1>1
  <2>2. \A i \in Fake!Of(u, Al), j \in Fake!Of(t, St) : j < i => j \in Fake!Of(u, St) /\ u[j] = t[j]
    BY <1>1, <2>1 DEF Fake!Of
  <2> QED BY <2>1, <2>2 DEF Fake!ToolsPair, Fake!KeepsContract
<1>7. Fake!UsageGrows(u) BY <1>1 DEF Fake!UsageGrows, Fake!KeepsContract
<1>8. Fake!DialogsDiffer(u) BY <1>1 DEF Fake!DialogsDiffer, Fake!KeepsContract
<1> QED BY <1>3, <1>4, <1>5, <1>6, <1>7, <1>8 DEF Fake!KeepsContract

\* What a telling is to keep, place by place.
LEMMA ContractIs ==
  ASSUME NEW t, NEW n \in Nat, Len(t) = n,
         \A i \in 1 .. n : t[i].type = "settled" => i = n,
         \A i \in 1 .. n : t[i].type = "turn_start" => i = 1,
         \A i, j \in 1 .. n : t[i].type = "text_end" /\ t[j].type \in {"text_end", "text_delta"} /\ i # j
                             /\ t[i].block = t[j].block => j < i,
         \A i \in 1 .. n : t[i].type \in {"tool_update", "tool_end"} =>
            /\ \E j \in 1 .. n : t[j].type = "tool_start" /\ j < i /\ t[j].id = t[i].id
            /\ \A j \in 1 .. n : t[j].type = "tool_end" /\ t[j].id = t[i].id => i <= j,
         \A i, j \in 1 .. n : t[i].type = "tool_start" /\ t[j].type = "tool_start" /\ t[i].id = t[j].id => i = j,
         \A i, j \in 1 .. n : t[i].type = "usage" /\ t[j].type = "usage" => i = j,
         \A i, j \in 1 .. n : t[i].type = "ui_request" /\ t[j].type = "ui_request" => i = j
  PROVE  Fake!KeepsContract(t)
<1>1. Fake!SettlesOnce(t) BY DEF Fake!SettlesOnce, Fake!Of
<1>2. Fake!StartsOnce(t) BY DEF Fake!StartsOnce, Fake!Of
<1>3. Fake!BlocksEnd(t) BY DEF Fake!BlocksEnd, Fake!Of
<1>4. Fake!ToolsPair(t) BY DEF Fake!ToolsPair, Fake!Of
<1>5. Fake!UsageGrows(t) BY DEF Fake!UsageGrows, Fake!Of
<1>6. Fake!DialogsDiffer(t) BY DEF Fake!DialogsDiffer, Fake!Of
<1> QED BY <1>1, <1>2, <1>3, <1>4, <1>5, <1>6 DEF Fake!KeepsContract

LEMMA NoteTellingKeeps ==
  ASSUME NEW w \in Fake!Reasons, NEW k, k.type \in {"notice", "set_buffer", "ui_request"}
  PROVE  Fake!KeepsContract(<<Fake!E("turn_start"), Fake!Text(0), Fake!End(0), k, Fake!Used(2), Fake!Done(w)>>)
<1> DEFINE t == <<Fake!E("turn_start"), Fake!Text(0), Fake!End(0), k, Fake!Used(2), Fake!Done(w)>>
<1>1. /\ Len(t) = 6 /\ t[1] = Fake!E("turn_start") /\ t[2] = Fake!Text(0) /\ t[3] = Fake!End(0)
      /\ t[4] = k /\ t[5] = Fake!Used(2) /\ t[6] = Fake!Done(w)
  OBVIOUS
<1> HIDE DEF t
<1>2. /\ t[1].type = "turn_start" /\ t[2].type = "text_delta" /\ t[3].type = "text_end" /\ t[4].type \in {"notice", "set_buffer", "ui_request"}
      /\ t[5].type = "usage" /\ t[6].type = "settled"
  BY <1>1, Words DEF Fake!Kinds
<1>3. \A i \in 1 .. 6 : i = 1 \/ i = 2 \/ i = 3 \/ i = 4 \/ i = 5 \/ i = 6 OBVIOUS
<1>4. /\ \A i \in 1 .. 6 : t[i].type = "settled" => i = 6
      /\ \A i \in 1 .. 6 : t[i].type = "turn_start" => i = 1
      /\ \A i \in 1 .. 6 : t[i].type = "text_end" => i = 3
      /\ \A i \in 1 .. 6 : t[i].type = "text_delta" => i = 2
      /\ \A i \in 1 .. 6 : t[i].type = "usage" => i = 5
      /\ \A i \in 1 .. 6 : t[i].type = "ui_request" => i = 4
      /\ \A i \in 1 .. 6 : t[i].type \notin {"tool_start", "tool_update", "tool_end"}
  BY <1>2, <1>3
<1>5. \A i, j \in 1 .. 6 : t[i].type = "text_end" /\ t[j].type \in {"text_end", "text_delta"} /\ i # j
                             /\ t[i].block = t[j].block => j < i
  BY <1>2, <1>4
<1>6. Fake!KeepsContract(t) BY <1>1, <1>4, <1>5, ContractIs, ZenonT(60)
<1> QED BY <1>6 DEF t

LEMMA HelloKeeps ==
  Fake!KeepsContract(Fake!Scenarios.hello)
<1> DEFINE t == <<Fake!E("turn_start"), Fake!Text(0), Fake!Text(0), Fake!End(0), Fake!Used(2), Fake!Done("stop")>>
<1>1. /\ Len(t) = 6 /\ t[1] = Fake!E("turn_start") /\ t[2] = Fake!Text(0) /\ t[3] = Fake!Text(0)
      /\ t[4] = Fake!End(0) /\ t[5] = Fake!Used(2) /\ t[6] = Fake!Done("stop")
  OBVIOUS
<1> HIDE DEF t
<1>2. /\ t[1].type = "turn_start" /\ t[2].type = "text_delta" /\ t[3].type = "text_delta" /\ t[4].type = "text_end"
      /\ t[5].type = "usage" /\ t[6].type = "settled"
  BY <1>1, Words DEF Fake!Kinds, Fake!Reasons
<1>3. \A i \in 1 .. 6 : i = 1 \/ i = 2 \/ i = 3 \/ i = 4 \/ i = 5 \/ i = 6 OBVIOUS
<1>4. /\ \A i \in 1 .. 6 : t[i].type = "settled" => i = 6
      /\ \A i \in 1 .. 6 : t[i].type = "turn_start" => i = 1
      /\ \A i \in 1 .. 6 : t[i].type = "text_end" => i = 4
      /\ \A i \in 1 .. 6 : t[i].type = "text_delta" => i \in {2, 3}
      /\ \A i \in 1 .. 6 : t[i].type = "usage" => i = 5
      /\ \A i \in 1 .. 6 : t[i].type # "ui_request"
      /\ \A i \in 1 .. 6 : t[i].type \notin {"tool_start", "tool_update", "tool_end"}
  BY <1>2, <1>3
<1>5. \A i, j \in 1 .. 6 : t[i].type = "text_end" /\ t[j].type \in {"text_end", "text_delta"} /\ i # j
                             /\ t[i].block = t[j].block => j < i
  BY <1>2, <1>4
<1>6. Fake!KeepsContract(t) BY <1>1, <1>4, <1>5, ContractIs
<1> QED BY <1>6 DEF t, Fake!Scenarios

LEMMA RetryKeeps ==
  Fake!KeepsContract(Fake!Scenarios.retry)
<1> DEFINE t == <<Fake!E("turn_start"), Fake!E("retry"), Fake!E("retry"), Fake!Text(0), Fake!End(0), Fake!Used(2), Fake!Done("stop")>>
<1>1. /\ Len(t) = 7 /\ t[1] = Fake!E("turn_start") /\ t[2] = Fake!E("retry") /\ t[3] = Fake!E("retry")
      /\ t[4] = Fake!Text(0) /\ t[5] = Fake!End(0) /\ t[6] = Fake!Used(2) /\ t[7] = Fake!Done("stop")
  OBVIOUS
<1> HIDE DEF t
<1>2. /\ t[1].type = "turn_start" /\ t[2].type = "retry" /\ t[3].type = "retry" /\ t[4].type = "text_delta"
      /\ t[5].type = "text_end" /\ t[6].type = "usage" /\ t[7].type = "settled"
  BY <1>1, Words DEF Fake!Kinds, Fake!Reasons
<1>3. \A i \in 1 .. 7 : i = 1 \/ i = 2 \/ i = 3 \/ i = 4 \/ i = 5 \/ i = 6 \/ i = 7 OBVIOUS
<1>4. /\ \A i \in 1 .. 7 : t[i].type = "settled" => i = 7
      /\ \A i \in 1 .. 7 : t[i].type = "turn_start" => i = 1
      /\ \A i \in 1 .. 7 : t[i].type = "text_end" => i = 5
      /\ \A i \in 1 .. 7 : t[i].type = "text_delta" => i = 4
      /\ \A i \in 1 .. 7 : t[i].type = "usage" => i = 6
      /\ \A i \in 1 .. 7 : t[i].type # "ui_request"
      /\ \A i \in 1 .. 7 : t[i].type \notin {"tool_start", "tool_update", "tool_end"}
  BY <1>2, <1>3
<1>5. \A i, j \in 1 .. 7 : t[i].type = "text_end" /\ t[j].type \in {"text_end", "text_delta"} /\ i # j
                             /\ t[i].block = t[j].block => j < i
  BY <1>2, <1>4
<1>6. Fake!KeepsContract(t) BY <1>1, <1>4, <1>5, ContractIs
<1> QED BY <1>6 DEF t, Fake!Scenarios

LEMMA ProposedKeeps ==
  Fake!KeepsContract(Fake!Proposed)
<1> DEFINE t == <<Fake!E("turn_start"), Fake!Text(0), Fake!End(0), Fake!E("set_buffer"), Fake!Used(1)>>
<1>1. /\ Len(t) = 5 /\ t[1] = Fake!E("turn_start") /\ t[2] = Fake!Text(0) /\ t[3] = Fake!End(0)
      /\ t[4] = Fake!E("set_buffer") /\ t[5] = Fake!Used(1)
  OBVIOUS
<1> HIDE DEF t
<1>2. /\ t[1].type = "turn_start" /\ t[2].type = "text_delta" /\ t[3].type = "text_end" /\ t[4].type = "set_buffer"
      /\ t[5].type = "usage"
  BY <1>1, Words DEF Fake!Kinds
<1>3. \A i \in 1 .. 5 : i = 1 \/ i = 2 \/ i = 3 \/ i = 4 \/ i = 5 OBVIOUS
<1>4. /\ \A i \in 1 .. 5 : t[i].type = "settled" => i = 5
      /\ \A i \in 1 .. 5 : t[i].type = "turn_start" => i = 1
      /\ \A i \in 1 .. 5 : t[i].type = "text_end" => i = 3
      /\ \A i \in 1 .. 5 : t[i].type = "text_delta" => i = 2
      /\ \A i \in 1 .. 5 : t[i].type = "usage" => i = 5
      /\ \A i \in 1 .. 5 : t[i].type # "ui_request"
      /\ \A i \in 1 .. 5 : t[i].type \notin {"tool_start", "tool_update", "tool_end"}
  BY <1>2, <1>3
<1>5. \A i, j \in 1 .. 5 : t[i].type = "text_end" /\ t[j].type \in {"text_end", "text_delta"} /\ i # j
                             /\ t[i].block = t[j].block => j < i
  BY <1>2, <1>4
<1>6. Fake!KeepsContract(t) BY <1>1, <1>4, <1>5, ContractIs
<1> QED BY <1>6 DEF t, Fake!Proposed

LEMMA AnsweredKeeps ==
  Fake!KeepsContract(Fake!Answered)
<1> DEFINE t == <<Fake!E("turn_start"), Fake!Text(0), Fake!End(0), Fake!Tool("ui_request", "d1"), Fake!Text(1), Fake!End(1), Fake!Used(2), Fake!Done("stop")>>
<1>1. /\ Len(t) = 8 /\ t[1] = Fake!E("turn_start") /\ t[2] = Fake!Text(0) /\ t[3] = Fake!End(0)
      /\ t[4] = Fake!Tool("ui_request", "d1") /\ t[5] = Fake!Text(1) /\ t[6] = Fake!End(1) /\ t[7] = Fake!Used(2)
      /\ t[8] = Fake!Done("stop")
  OBVIOUS
<1> HIDE DEF t
<1>2. /\ t[1].type = "turn_start" /\ t[2].type = "text_delta" /\ t[3].type = "text_end" /\ t[4].type = "ui_request"
      /\ t[5].type = "text_delta" /\ t[6].type = "text_end" /\ t[7].type = "usage" /\ t[8].type = "settled"
      /\ t[2].block = 0 /\ t[3].block = 0 /\ t[5].block = 1 /\ t[6].block = 1
  BY <1>1, Words DEF Fake!Kinds, Fake!Ids, Fake!Reasons
<1>3. \A i \in 1 .. 8 : i = 1 \/ i = 2 \/ i = 3 \/ i = 4 \/ i = 5 \/ i = 6 \/ i = 7 \/ i = 8 OBVIOUS
<1>4. /\ \A i \in 1 .. 8 : t[i].type = "settled" => i = 8
      /\ \A i \in 1 .. 8 : t[i].type = "turn_start" => i = 1
      /\ \A i \in 1 .. 8 : t[i].type = "text_end" => i \in {3, 6}
      /\ \A i \in 1 .. 8 : t[i].type = "text_delta" => i \in {2, 5}
      /\ \A i \in 1 .. 8 : t[i].type = "usage" => i = 7
      /\ \A i \in 1 .. 8 : t[i].type = "ui_request" => i = 4
      /\ \A i \in 1 .. 8 : t[i].type \notin {"tool_start", "tool_update", "tool_end"}
  BY <1>2, <1>3
<1>5. \A i, j \in 1 .. 8 : t[i].type = "text_end" /\ t[j].type \in {"text_end", "text_delta"} /\ i # j
                             /\ t[i].block = t[j].block => j < i
  BY <1>2, <1>4
<1>6. Fake!KeepsContract(t) BY <1>1, <1>4, <1>5, ContractIs, ZenonT(60)
<1> QED BY <1>6 DEF t, Fake!Answered

LEMMA ToolsKeep ==
  Fake!KeepsContract(Fake!Scenarios.tools)
<1> DEFINE t == <<Fake!E("turn_start"), Fake!Tool("tool_start", "t1"), Fake!Tool("tool_update", "t1"), Fake!Tool("tool_end", "t1"), Fake!Tool("tool_start", "t2"), Fake!Tool("tool_end", "t2"), Fake!Text(0), Fake!End(0), Fake!Used(2), Fake!Done("stop")>>
<1>1. /\ Len(t) = 10 /\ t[1] = Fake!E("turn_start") /\ t[2] = Fake!Tool("tool_start", "t1") /\ t[3] = Fake!Tool("tool_update", "t1")
      /\ t[4] = Fake!Tool("tool_end", "t1") /\ t[5] = Fake!Tool("tool_start", "t2") /\ t[6] = Fake!Tool("tool_end", "t2") /\ t[7] = Fake!Text(0)
      /\ t[8] = Fake!End(0) /\ t[9] = Fake!Used(2) /\ t[10] = Fake!Done("stop")
  OBVIOUS
<1> HIDE DEF t
<1>2. /\ t[1].type = "turn_start" /\ t[2].type = "tool_start" /\ t[3].type = "tool_update" /\ t[4].type = "tool_end"
      /\ t[5].type = "tool_start" /\ t[6].type = "tool_end" /\ t[7].type = "text_delta" /\ t[8].type = "text_end"
      /\ t[9].type = "usage" /\ t[10].type = "settled"
      /\ t[2].id = "t1" /\ t[3].id = "t1" /\ t[4].id = "t1" /\ t[5].id = "t2"
      /\ t[6].id = "t2"
  BY <1>1, Words DEF Fake!Kinds, Fake!Ids, Fake!Reasons
<1>3. \A i \in 1 .. 10 : i = 1 \/ i = 2 \/ i = 3 \/ i = 4 \/ i = 5 \/ i = 6 \/ i = 7 \/ i = 8 \/ i = 9 \/ i = 10 OBVIOUS
<1>4. /\ \A i \in 1 .. 10 : t[i].type = "settled" => i = 10
      /\ \A i \in 1 .. 10 : t[i].type = "turn_start" => i = 1
      /\ \A i \in 1 .. 10 : t[i].type = "text_end" => i = 8
      /\ \A i \in 1 .. 10 : t[i].type = "text_delta" => i = 7
      /\ \A i \in 1 .. 10 : t[i].type = "usage" => i = 9
      /\ \A i \in 1 .. 10 : t[i].type # "ui_request"
      /\ \A i \in 1 .. 10 : t[i].type = "tool_start" => i \in {2, 5}
      /\ \A i \in 1 .. 10 : t[i].type = "tool_update" => i \in {3}
      /\ \A i \in 1 .. 10 : t[i].type = "tool_end" => i \in {4, 6}
  BY <1>2, <1>3
<1>5. \A i, j \in 1 .. 10 : t[i].type = "text_end" /\ t[j].type \in {"text_end", "text_delta"} /\ i # j
                             /\ t[i].block = t[j].block => j < i
  BY <1>2, <1>4
<1>6. \A i \in 1 .. 10 : t[i].type \in {"tool_update", "tool_end"} =>
         /\ \E j \in 1 .. 10 : t[j].type = "tool_start" /\ j < i /\ t[j].id = t[i].id
         /\ \A j \in 1 .. 10 : t[j].type = "tool_end" /\ t[j].id = t[i].id => i <= j
  BY <1>2, <1>4
<1>7. \A i, j \in 1 .. 10 : t[i].type = "tool_start" /\ t[j].type = "tool_start" /\ t[i].id = t[j].id => i = j
  BY <1>2, <1>4
<1>8. /\ \A i, j \in 1 .. 10 : t[i].type = "usage" /\ t[j].type = "usage" => i = j
      /\ \A i, j \in 1 .. 10 : t[i].type = "ui_request" /\ t[j].type = "ui_request" => i = j
      /\ \A i \in 1 .. 10 : t[i].type = "settled" => i = 10
      /\ \A i \in 1 .. 10 : t[i].type = "turn_start" => i = 1
  BY <1>4
<1>9. Fake!KeepsContract(t) BY <1>1, <1>5, <1>6, <1>7, <1>8, ContractIs
<1> QED BY <1>9 DEF t, Fake!Scenarios

\* Every telling keeps the port's contract.
LEMMA TellingsKeep ==
  ASSUME NEW t \in Fake!Tellings PROVE Fake!KeepsContract(t)
<1>1. Fake!KeepsContract(Fake!Scenarios.error) /\ Fake!KeepsContract(Fake!Scenarios.buffer)
      /\ Fake!KeepsContract(Fake!Unanswered)
  BY NoteTellingKeeps, Words DEF Fake!Scenarios, Fake!Unanswered, Fake!Kinds, Fake!Ids, Fake!Reasons
<1> QED BY <1>1, HelloKeeps, RetryKeeps, ProposedKeeps, AnsweredKeeps, ToolsKeep, ScriptsAre DEF Fake!Tellings

\* A script is a sequence of words; the last one ends it, and nothing is awaited.
Script(s) ==
    /\ s \in Seq(Fake!Events) /\ Len(s) \in Nat
    /\ \A i \in DOMAIN s : s[i].type = "settled" => s[i].reason \in Fake!Reasons
Ends(s) == s[Len(s)].type = "settled"
AwaitsNothing(s) == \A i \in DOMAIN s : s[i].type # "await_ui"

LEMMA ScriptIs ==
  ASSUME NEW t \in Seq(Fake!Events), NEW n \in Nat, Len(t) = n, DOMAIN t = 1 .. n,
         \A i \in 1 .. n : t[i].type = "settled" => i = n,
         t[n].type = "settled" => t[n].reason \in Fake!Reasons
  PROVE  /\ Script(t) /\ (t[n].type = "settled" => Ends(t))
         /\ (\A i \in 1 .. n : t[i].type # "await_ui") => AwaitsNothing(t)
BY DEF Script, Ends, AwaitsNothing

LEMMA HelloIs == Script(Fake!Scenarios.hello) /\ Ends(Fake!Scenarios.hello) /\ AwaitsNothing(Fake!Scenarios.hello)
<1> DEFINE t == <<Fake!E("turn_start"), Fake!Text(0), Fake!Text(0), Fake!End(0), Fake!Used(2), Fake!Done("stop")>>
<1>1. /\ Len(t) = 6 /\ DOMAIN t = 1 .. 6 /\ t[1] = Fake!E("turn_start") /\ t[2] = Fake!Text(0)
      /\ t[3] = Fake!Text(0) /\ t[4] = Fake!End(0) /\ t[5] = Fake!Used(2) /\ t[6] = Fake!Done("stop")
  OBVIOUS
<1>2. /\ Fake!E("turn_start") \in Fake!Events /\ Fake!Text(0) \in Fake!Events /\ Fake!End(0) \in Fake!Events /\ Fake!Used(2) \in Fake!Events
      /\ Fake!Done("stop") \in Fake!Events
  BY Words DEF Fake!Kinds, Fake!Ids, Fake!Reasons
<1>3. t \in Seq(Fake!Events) BY <1>2
<1> HIDE DEF t
<1>4. /\ t[1].type = "turn_start" /\ t[2].type = "text_delta" /\ t[3].type = "text_delta" /\ t[4].type = "text_end"
      /\ t[5].type = "usage" /\ t[6].type = "settled"
  BY <1>1, Words DEF Fake!Kinds, Fake!Ids, Fake!Reasons
<1>5. t[6].reason \in Fake!Reasons BY <1>1, Words DEF Fake!Reasons
<1>6. \A i \in 1 .. 6 : i = 1 \/ i = 2 \/ i = 3 \/ i = 4 \/ i = 5 \/ i = 6 OBVIOUS
<1>7. \A i \in 1 .. 6 : (t[i].type = "settled" => i = 6) /\ (t[i].type # "await_ui") BY <1>4, <1>6
<1>8. t = Fake!Scenarios.hello BY DEF t, Fake!Scenarios
<1>9. Script(t) /\ Ends(t) /\ AwaitsNothing(t) BY <1>1, <1>3, <1>4, <1>5, <1>7, ScriptIs
<1> QED BY <1>1, <1>7, <1>8, <1>9

LEMMA ToolsAre == Script(Fake!Scenarios.tools) /\ Ends(Fake!Scenarios.tools) /\ AwaitsNothing(Fake!Scenarios.tools)
<1> DEFINE t == <<Fake!E("turn_start"), Fake!Tool("tool_start", "t1"), Fake!Tool("tool_update", "t1"), Fake!Tool("tool_end", "t1"), Fake!Tool("tool_start", "t2"), Fake!Tool("tool_end", "t2"), Fake!Text(0), Fake!End(0), Fake!Used(2), Fake!Done("stop")>>
<1>1. /\ Len(t) = 10 /\ DOMAIN t = 1 .. 10 /\ t[1] = Fake!E("turn_start") /\ t[2] = Fake!Tool("tool_start", "t1")
      /\ t[3] = Fake!Tool("tool_update", "t1") /\ t[4] = Fake!Tool("tool_end", "t1") /\ t[5] = Fake!Tool("tool_start", "t2") /\ t[6] = Fake!Tool("tool_end", "t2")
      /\ t[7] = Fake!Text(0) /\ t[8] = Fake!End(0) /\ t[9] = Fake!Used(2) /\ t[10] = Fake!Done("stop")
  OBVIOUS
<1>2. /\ Fake!E("turn_start") \in Fake!Events /\ Fake!Tool("tool_start", "t1") \in Fake!Events /\ Fake!Tool("tool_update", "t1") \in Fake!Events /\ Fake!Tool("tool_end", "t1") \in Fake!Events
      /\ Fake!Tool("tool_start", "t2") \in Fake!Events /\ Fake!Tool("tool_end", "t2") \in Fake!Events /\ Fake!Text(0) \in Fake!Events /\ Fake!End(0) \in Fake!Events
      /\ Fake!Used(2) \in Fake!Events /\ Fake!Done("stop") \in Fake!Events
  BY Words DEF Fake!Kinds, Fake!Ids, Fake!Reasons
<1>3. t \in Seq(Fake!Events) BY <1>2
<1> HIDE DEF t
<1>4. /\ t[1].type = "turn_start" /\ t[2].type = "tool_start" /\ t[3].type = "tool_update" /\ t[4].type = "tool_end"
      /\ t[5].type = "tool_start" /\ t[6].type = "tool_end" /\ t[7].type = "text_delta" /\ t[8].type = "text_end"
      /\ t[9].type = "usage" /\ t[10].type = "settled"
  BY <1>1, Words DEF Fake!Kinds, Fake!Ids, Fake!Reasons
<1>5. t[10].reason \in Fake!Reasons BY <1>1, Words DEF Fake!Reasons
<1>6. \A i \in 1 .. 10 : i = 1 \/ i = 2 \/ i = 3 \/ i = 4 \/ i = 5 \/ i = 6 \/ i = 7 \/ i = 8 \/ i = 9 \/ i = 10 OBVIOUS
<1>7. \A i \in 1 .. 10 : (t[i].type = "settled" => i = 10) /\ (t[i].type # "await_ui") BY <1>4, <1>6
<1>8. t = Fake!Scenarios.tools BY DEF t, Fake!Scenarios
<1>9. Script(t) /\ Ends(t) /\ AwaitsNothing(t) BY <1>1, <1>3, <1>4, <1>5, <1>7, ScriptIs
<1> QED BY <1>1, <1>7, <1>8, <1>9

LEMMA ErrorIs == Script(Fake!Scenarios.error) /\ Ends(Fake!Scenarios.error) /\ AwaitsNothing(Fake!Scenarios.error)
<1> DEFINE t == <<Fake!E("turn_start"), Fake!Text(0), Fake!End(0), Fake!E("notice"), Fake!Used(2), Fake!Done("error")>>
<1>1. /\ Len(t) = 6 /\ DOMAIN t = 1 .. 6 /\ t[1] = Fake!E("turn_start") /\ t[2] = Fake!Text(0)
      /\ t[3] = Fake!End(0) /\ t[4] = Fake!E("notice") /\ t[5] = Fake!Used(2) /\ t[6] = Fake!Done("error")
  OBVIOUS
<1>2. /\ Fake!E("turn_start") \in Fake!Events /\ Fake!Text(0) \in Fake!Events /\ Fake!End(0) \in Fake!Events /\ Fake!E("notice") \in Fake!Events
      /\ Fake!Used(2) \in Fake!Events /\ Fake!Done("error") \in Fake!Events
  BY Words DEF Fake!Kinds, Fake!Ids, Fake!Reasons
<1>3. t \in Seq(Fake!Events) BY <1>2
<1> HIDE DEF t
<1>4. /\ t[1].type = "turn_start" /\ t[2].type = "text_delta" /\ t[3].type = "text_end" /\ t[4].type = "notice"
      /\ t[5].type = "usage" /\ t[6].type = "settled"
  BY <1>1, Words DEF Fake!Kinds, Fake!Ids, Fake!Reasons
<1>5. t[6].reason \in Fake!Reasons BY <1>1, Words DEF Fake!Reasons
<1>6. \A i \in 1 .. 6 : i = 1 \/ i = 2 \/ i = 3 \/ i = 4 \/ i = 5 \/ i = 6 OBVIOUS
<1>7. \A i \in 1 .. 6 : (t[i].type = "settled" => i = 6) /\ (t[i].type # "await_ui") BY <1>4, <1>6
<1>8. t = Fake!Scenarios.error BY DEF t, Fake!Scenarios
<1>9. Script(t) /\ Ends(t) /\ AwaitsNothing(t) BY <1>1, <1>3, <1>4, <1>5, <1>7, ScriptIs
<1> QED BY <1>1, <1>7, <1>8, <1>9

LEMMA RetryIs == Script(Fake!Scenarios.retry) /\ Ends(Fake!Scenarios.retry) /\ AwaitsNothing(Fake!Scenarios.retry)
<1> DEFINE t == <<Fake!E("turn_start"), Fake!E("retry"), Fake!E("retry"), Fake!Text(0), Fake!End(0), Fake!Used(2), Fake!Done("stop")>>
<1>1. /\ Len(t) = 7 /\ DOMAIN t = 1 .. 7 /\ t[1] = Fake!E("turn_start") /\ t[2] = Fake!E("retry")
      /\ t[3] = Fake!E("retry") /\ t[4] = Fake!Text(0) /\ t[5] = Fake!End(0) /\ t[6] = Fake!Used(2)
      /\ t[7] = Fake!Done("stop")
  OBVIOUS
<1>2. /\ Fake!E("turn_start") \in Fake!Events /\ Fake!E("retry") \in Fake!Events /\ Fake!Text(0) \in Fake!Events /\ Fake!End(0) \in Fake!Events
      /\ Fake!Used(2) \in Fake!Events /\ Fake!Done("stop") \in Fake!Events
  BY Words DEF Fake!Kinds, Fake!Ids, Fake!Reasons
<1>3. t \in Seq(Fake!Events) BY <1>2
<1> HIDE DEF t
<1>4. /\ t[1].type = "turn_start" /\ t[2].type = "retry" /\ t[3].type = "retry" /\ t[4].type = "text_delta"
      /\ t[5].type = "text_end" /\ t[6].type = "usage" /\ t[7].type = "settled"
  BY <1>1, Words DEF Fake!Kinds, Fake!Ids, Fake!Reasons
<1>5. t[7].reason \in Fake!Reasons BY <1>1, Words DEF Fake!Reasons
<1>6. \A i \in 1 .. 7 : i = 1 \/ i = 2 \/ i = 3 \/ i = 4 \/ i = 5 \/ i = 6 \/ i = 7 OBVIOUS
<1>7. \A i \in 1 .. 7 : (t[i].type = "settled" => i = 7) /\ (t[i].type # "await_ui") BY <1>4, <1>6
<1>8. t = Fake!Scenarios.retry BY DEF t, Fake!Scenarios
<1>9. Script(t) /\ Ends(t) /\ AwaitsNothing(t) BY <1>1, <1>3, <1>4, <1>5, <1>7, ScriptIs
<1> QED BY <1>1, <1>7, <1>8, <1>9

LEMMA BufferIs == Script(Fake!Scenarios.buffer) /\ Ends(Fake!Scenarios.buffer) /\ AwaitsNothing(Fake!Scenarios.buffer)
<1> DEFINE t == <<Fake!E("turn_start"), Fake!Text(0), Fake!End(0), Fake!E("set_buffer"), Fake!Used(2), Fake!Done("stop")>>
<1>1. /\ Len(t) = 6 /\ DOMAIN t = 1 .. 6 /\ t[1] = Fake!E("turn_start") /\ t[2] = Fake!Text(0)
      /\ t[3] = Fake!End(0) /\ t[4] = Fake!E("set_buffer") /\ t[5] = Fake!Used(2) /\ t[6] = Fake!Done("stop")
  OBVIOUS
<1>2. /\ Fake!E("turn_start") \in Fake!Events /\ Fake!Text(0) \in Fake!Events /\ Fake!End(0) \in Fake!Events /\ Fake!E("set_buffer") \in Fake!Events
      /\ Fake!Used(2) \in Fake!Events /\ Fake!Done("stop") \in Fake!Events
  BY Words DEF Fake!Kinds, Fake!Ids, Fake!Reasons
<1>3. t \in Seq(Fake!Events) BY <1>2
<1> HIDE DEF t
<1>4. /\ t[1].type = "turn_start" /\ t[2].type = "text_delta" /\ t[3].type = "text_end" /\ t[4].type = "set_buffer"
      /\ t[5].type = "usage" /\ t[6].type = "settled"
  BY <1>1, Words DEF Fake!Kinds, Fake!Ids, Fake!Reasons
<1>5. t[6].reason \in Fake!Reasons BY <1>1, Words DEF Fake!Reasons
<1>6. \A i \in 1 .. 6 : i = 1 \/ i = 2 \/ i = 3 \/ i = 4 \/ i = 5 \/ i = 6 OBVIOUS
<1>7. \A i \in 1 .. 6 : (t[i].type = "settled" => i = 6) /\ (t[i].type # "await_ui") BY <1>4, <1>6
<1>8. t = Fake!Scenarios.buffer BY DEF t, Fake!Scenarios
<1>9. Script(t) /\ Ends(t) /\ AwaitsNothing(t) BY <1>1, <1>3, <1>4, <1>5, <1>7, ScriptIs
<1> QED BY <1>1, <1>7, <1>8, <1>9

LEMMA ProposalIs == Script(Fake!Proposal) /\ AwaitsNothing(Fake!Proposal)
<1> DEFINE t == <<Fake!E("turn_start"), Fake!Text(0), Fake!End(0), Fake!E("set_buffer")>>
<1>1. /\ Len(t) = 4 /\ DOMAIN t = 1 .. 4 /\ t[1] = Fake!E("turn_start") /\ t[2] = Fake!Text(0)
      /\ t[3] = Fake!End(0) /\ t[4] = Fake!E("set_buffer")
  OBVIOUS
<1>2. /\ Fake!E("turn_start") \in Fake!Events /\ Fake!Text(0) \in Fake!Events /\ Fake!End(0) \in Fake!Events /\ Fake!E("set_buffer") \in Fake!Events
  BY Words DEF Fake!Kinds, Fake!Ids, Fake!Reasons
<1>3. t \in Seq(Fake!Events) BY <1>2
<1> HIDE DEF t
<1>4. /\ t[1].type = "turn_start" /\ t[2].type = "text_delta" /\ t[3].type = "text_end" /\ t[4].type = "set_buffer"
  BY <1>1, Words DEF Fake!Kinds, Fake!Ids, Fake!Reasons
<1>6. \A i \in 1 .. 4 : i = 1 \/ i = 2 \/ i = 3 \/ i = 4 OBVIOUS
<1>7. \A i \in 1 .. 4 : (t[i].type = "settled" => FALSE) /\ (t[i].type # "await_ui") BY <1>4, <1>6
<1>8. t = Fake!Proposal BY DEF t, Fake!Proposal
<1>9. Script(t) /\ AwaitsNothing(t) BY <1>1, <1>3, <1>4, <1>7, ScriptIs
<1> QED BY <1>1, <1>7, <1>8, <1>9

LEMMA DialogIs == Script(Fake!Dialog) /\ Ends(Fake!Dialog) /\ Fake!Dialog[5].type = "await_ui" /\ Len(Fake!Dialog) = 7 /\ \A i \in DOMAIN Fake!Dialog : Fake!Dialog[i].type = "await_ui" => i = 5
<1> DEFINE t == <<Fake!E("turn_start"), Fake!Text(0), Fake!End(0), Fake!Tool("ui_request", "d1"), Fake!E("await_ui"), Fake!Used(2), Fake!Done("stop")>>
<1>1. /\ Len(t) = 7 /\ DOMAIN t = 1 .. 7 /\ t[1] = Fake!E("turn_start") /\ t[2] = Fake!Text(0)
      /\ t[3] = Fake!End(0) /\ t[4] = Fake!Tool("ui_request", "d1") /\ t[5] = Fake!E("await_ui") /\ t[6] = Fake!Used(2)
      /\ t[7] = Fake!Done("stop")
  OBVIOUS
<1>2. /\ Fake!E("turn_start") \in Fake!Events /\ Fake!Text(0) \in Fake!Events /\ Fake!End(0) \in Fake!Events /\ Fake!Tool("ui_request", "d1") \in Fake!Events
      /\ Fake!E("await_ui") \in Fake!Events /\ Fake!Used(2) \in Fake!Events /\ Fake!Done("stop") \in Fake!Events
  BY Words DEF Fake!Kinds, Fake!Ids, Fake!Reasons
<1>3. t \in Seq(Fake!Events) BY <1>2
<1> HIDE DEF t
<1>4. /\ t[1].type = "turn_start" /\ t[2].type = "text_delta" /\ t[3].type = "text_end" /\ t[4].type = "ui_request"
      /\ t[5].type = "await_ui" /\ t[6].type = "usage" /\ t[7].type = "settled"
  BY <1>1, Words DEF Fake!Kinds, Fake!Ids, Fake!Reasons
<1>5. t[7].reason \in Fake!Reasons BY <1>1, Words DEF Fake!Reasons
<1>6. \A i \in 1 .. 7 : i = 1 \/ i = 2 \/ i = 3 \/ i = 4 \/ i = 5 \/ i = 6 \/ i = 7 OBVIOUS
<1>7. \A i \in 1 .. 7 : (t[i].type = "settled" => i = 7) /\ (t[i].type = "await_ui" => i = 5) BY <1>4, <1>6
<1>8. t = Fake!Dialog BY DEF t, Fake!Dialog, Fake!Scenarios
<1>9. Script(t) /\ Ends(t) BY <1>1, <1>3, <1>4, <1>5, <1>7, ScriptIs
<1> QED BY <1>1, <1>4, <1>7, <1>8, <1>9

LEMMA ScriptsPlay ==
  ASSUME NEW s \in Fake!Scripts
  PROVE  Script(s) /\ (s # Fake!Proposal => Ends(s)) /\ (s # Fake!Dialog => AwaitsNothing(s))
BY ScriptsAre, HelloIs, ToolsAre, ErrorIs, RetryIs, BufferIs, ProposalIs, DialogIs

\* The tellings beside the scripts they tell.
LEMMA TellingsFollow ==
  /\ Len(Fake!Proposal) = 4 /\ Len(Fake!Proposed) = 5 /\ Fake!Proposed[5] = Fake!Used(1)
  /\ \A i \in 1 .. 4 : Fake!Proposed[i] = Fake!Proposal[i]
  /\ Len(Fake!Unanswered) = 6 /\ Len(Fake!Answered) = 8
  /\ \A i \in 1 .. 4 : Fake!Unanswered[i] = Fake!Dialog[i] /\ Fake!Answered[i] = Fake!Unanswered[i]
  /\ \A i \in 6 .. 7 : Fake!Unanswered[i - 1] = Fake!Dialog[i] /\ Fake!Answered[i + 1] = Fake!Dialog[i]
  /\ Fake!Answered[5] = Fake!Text(1) /\ Fake!Answered[6] = Fake!End(1)
  /\ Fake!Unanswered[6].type = "settled" /\ Fake!Answered[8].type = "settled"
<1>1. \A i \in 1 .. 4 : i = 1 \/ i = 2 \/ i = 3 \/ i = 4 OBVIOUS
<1>2. \A i \in 6 .. 7 : i = 6 \/ i = 7 OBVIOUS
<1>3. /\ Len(Fake!Proposal) = 4 /\ Len(Fake!Proposed) = 5 /\ Fake!Proposed[5] = Fake!Used(1)
      /\ \A i \in 1 .. 4 : Fake!Proposed[i] = Fake!Proposal[i]
  BY <1>1 DEF Fake!Proposal, Fake!Proposed
<1>4. Fake!Dialog = <<Fake!E("turn_start"), Fake!Text(0), Fake!End(0), Fake!Tool("ui_request", "d1"),
                      Fake!E("await_ui"), Fake!Used(2), Fake!Done("stop")>>
  BY DEF Fake!Dialog, Fake!Scenarios
<1>5. Fake!Done("stop").type = "settled" BY Words DEF Fake!Reasons
<1>6. /\ Len(Fake!Unanswered) = 6 /\ Fake!Unanswered[6].type = "settled"
      /\ Fake!Unanswered[5] = Fake!Dialog[6] /\ Fake!Unanswered[6] = Fake!Dialog[7]
  BY <1>4, <1>5 DEF Fake!Unanswered
<1>7. /\ Len(Fake!Answered) = 8 /\ Fake!Answered[8].type = "settled"
      /\ Fake!Answered[7] = Fake!Dialog[6] /\ Fake!Answered[8] = Fake!Dialog[7]
      /\ Fake!Answered[5] = Fake!Text(1) /\ Fake!Answered[6] = Fake!End(1)
  BY <1>4, <1>5 DEF Fake!Answered
<1>8. \A i \in 1 .. 4 : Fake!Unanswered[i] = Fake!Dialog[i] BY <1>1, <1>4 DEF Fake!Unanswered
<1>9. \A i \in 1 .. 4 : Fake!Answered[i] = Fake!Dialog[i] BY <1>1, <1>4 DEF Fake!Answered
<1> QED BY <1>2, <1>3, <1>6, <1>7, <1>8, <1>9

LEMMA Appended ==
  ASSUME NEW S, NEW s \in Seq(S), NEW e \in S
  PROVE  /\ Append(s, e) \in Seq(S) /\ Len(Append(s, e)) = Len(s) + 1 /\ Len(s) \in Nat
         /\ \A i \in DOMAIN s : i \in 1 .. Len(s) /\ Append(s, e)[i] = s[i]
         /\ DOMAIN Append(s, e) = 1 .. Len(s) + 1 /\ Append(s, e)[Len(s) + 1] = e
         /\ \A i \in DOMAIN Append(s, e) : i \in DOMAIN s \/ i = Len(s) + 1
<1> DEFINE a == Append(s, e)
<1>1. a \in Seq(S) /\ Len(a) = Len(s) + 1 /\ Len(s) \in Nat /\ a[Len(s) + 1] = e
      /\ \A i \in 1 .. Len(s) : a[i] = s[i]
  BY AppendProperties
<1>2. DOMAIN a = 1 .. Len(s) + 1 /\ DOMAIN s = 1 .. Len(s) BY <1>1
<1> HIDE DEF a
<1>3. \A i \in 1 .. Len(s) + 1 : i \in 1 .. Len(s) \/ i = Len(s) + 1 BY <1>1
<1> QED BY <1>1, <1>2, <1>3 DEF a

\* What has been told is the beginning of a telling.
Begins(o, t) == Len(o) <= Len(t) /\ \A i \in DOMAIN o : o[i] = t[i] /\ o[i].type # "settled"

LEMMA TellingsAreLong == \A t \in Fake!Tellings : Len(t) \in Nat
BY ScriptsPlay, TellingsFollow DEF Fake!Tellings, Script

LEMMA BeginningTold ==
  ASSUME NEW o \in Seq(Fake!Events), NEW t \in Fake!Tellings, Begins(o, t)
  PROVE  /\ Fake!KeepsContract(o)
         /\ \A why \in Fake!Reasons : Fake!KeepsContract(Append(o, Fake!Done(why)))
<1> DEFINE n == Len(o)
<1>1. n \in Nat /\ DOMAIN o = 1 .. n /\ Len(t) \in Nat /\ n <= Len(t) /\ Fake!KeepsContract(t)
  BY TellingsAreLong, TellingsKeep DEF Begins
<1>2. \A i \in 1 .. n : o[i] = t[i] /\ o[i].type # "settled" BY <1>1 DEF Begins
<1>3. Fake!KeepsContract(o) BY <1>1, <1>2, BeginningKeeps
<1>4. ASSUME NEW why \in Fake!Reasons PROVE Fake!KeepsContract(Append(o, Fake!Done(why)))
  <2> DEFINE u == Append(o, Fake!Done(why))
  <2>1. Fake!Done(why) \in Fake!Events /\ Fake!Done(why).type = "settled" BY Words
  <2>2. Len(u) = n + 1 /\ u[n + 1].type = "settled" /\ \A i \in 1 .. n : u[i] = o[i] BY <1>1, <2>1, Appended
  <2> HIDE DEF u, n
  <2>3. \A i \in 1 .. n : u[i] = t[i] /\ u[i].type # "settled" BY <1>2, <2>2
  <2>4. Fake!KeepsContract(u) BY <1>1, <2>2, <2>3, BeginningKeeps
  <2> QED BY <2>4 DEF u
<1> QED BY <1>3, <1>4

LEMMA OneMore ==
  ASSUME NEW o \in Seq(Fake!Events), NEW e \in Fake!Events, NEW t, Begins(o, t), Len(t) \in Nat, Len(o) < Len(t),
         t[Len(o) + 1] = e, e.type # "settled"
  PROVE  Append(o, e) \in Seq(Fake!Events) /\ Begins(Append(o, e), t)
<1>1. /\ Append(o, e) \in Seq(Fake!Events) /\ Len(Append(o, e)) = Len(o) + 1 /\ Len(o) \in Nat
      /\ \A i \in DOMAIN o : Append(o, e)[i] = o[i]
      /\ Append(o, e)[Len(o) + 1] = e
      /\ \A i \in DOMAIN Append(o, e) : i \in DOMAIN o \/ i = Len(o) + 1
  BY Appended
<1> QED BY <1>1 DEF Begins

LEMMA PlayTells ==
  ASSUME out \in Seq(Fake!Events), Fake!ToldSoFar, Fake!PlayEvent
  PROVE  Fake!ToldSoFar' /\ Fake!Contract' /\ out' \in Seq(Fake!Events)
<1> DEFINE e == steps[fakePc]
<1>1. /\ steps' = steps /\ fakePc' = fakePc + 1 /\ answer' = answer /\ ~answer /\ phase' = "tick"
      /\ out' = Append(out, e) /\ fakePc <= Len(steps) /\ e.type \notin {"await_ui", "settled"}
  BY DEF Fake!PlayEvent, Fake!Recorded
<1>2. /\ steps \in Fake!Scripts /\ Script(steps) /\ fakePc \in Nat \ {0} /\ fakePc \in DOMAIN steps
      /\ e \in Fake!Events /\ \A i \in DOMAIN out : out[i].type # "settled"
  BY <1>1, ScriptsPlay DEF Fake!ToldSoFar, Script
<1> HIDE DEF e
<1>3. CASE steps # Fake!Dialog
  <2> DEFINE t == IF steps = Fake!Proposal THEN Fake!Proposed ELSE steps
  <2>1. Fake!BeginningOf(t) /\ Len(out) = fakePc - 1 BY <1>1, <1>2, <1>3, TellingsFollow DEF Fake!ToldSoFar
  <2>2. t \in Fake!Tellings /\ Len(t) \in Nat BY <1>2, <1>3, TellingsAreLong DEF Fake!Tellings
  <2>3. fakePc <= Len(t) /\ t[fakePc] = e
    <3>1. CASE steps = Fake!Proposal
      <4>1. fakePc \in 1 .. 4 /\ t = Fake!Proposed /\ Len(t) = 5 BY <1>1, <1>2, <3>1, TellingsFollow
      <4>2. Fake!Proposed[fakePc] = Fake!Proposal[fakePc] BY <4>1, TellingsFollow
      <4>3. e = Fake!Proposal[fakePc] BY <3>1 DEF e
      <4>4. t[fakePc] = Fake!Proposed[fakePc] BY <3>1
      <4> QED BY <4>1, <4>2, <4>3, <4>4
    <3>2. CASE steps # Fake!Proposal BY <1>1, <3>2 DEF e
    <3> QED BY <3>1, <3>2
  <2> HIDE DEF t
  <2>4. Begins(out, t) BY <1>2, <2>1 DEF Begins, Fake!BeginningOf
  <2>5. out' \in Seq(Fake!Events) /\ Begins(out', t)
    <3>1. Len(out) < Len(t) /\ t[Len(out) + 1] = e /\ e.type # "settled" BY <1>1, <1>2, <2>1, <2>2, <2>3
    <3> QED BY <1>1, <1>2, <2>2, <2>4, <3>1, OneMore
  <2>6. Fake!Contract' BY <2>2, <2>5, BeginningTold DEF Fake!Contract
  <2>7. Len(out') = fakePc' - 1 BY <1>1, <1>2, <2>1, Appended
  <2>8. Fake!BeginningOf(t)' BY <1>1, <2>5 DEF Begins, Fake!BeginningOf, t
  <2>9. Fake!ToldSoFar'
    <3>1. \A i \in DOMAIN out' : out'[i].type # "settled" BY <2>5 DEF Begins
    <3>2. fakePc' \in Nat \ {0} /\ fakePc' <= Len(steps') + 1 BY <1>1, <1>2 DEF Script
    <3> QED BY <1>1, <1>2, <1>3, <2>7, <2>8, <3>1, <3>2 DEF Fake!ToldSoFar, t
  <2> QED BY <2>5, <2>6, <2>9
<1>4. CASE steps = Fake!Dialog
  <2>1. Fake!Dialogs BY <1>4 DEF Fake!ToldSoFar
  <2>2. Len(steps) = 7 /\ fakePc # 5 /\ fakePc # 7
    <3>1. Len(steps) = 7 /\ steps[5].type = "await_ui" /\ steps[7].type = "settled" BY <1>4, DialogIs DEF Ends
    <3> QED BY <1>1, <3>1 DEF e
  <2>3. fakePc \in 1 .. 4 \/ fakePc = 6 BY <1>1, <1>2, <2>2
  <2>4. ASSUME NEW t \in {Fake!Unanswered, Fake!Answered}, Fake!BeginningOf(t), Len(out) < Len(t), t[Len(out) + 1] = e
        PROVE  out' \in Seq(Fake!Events) /\ Begins(out', t) /\ Len(out') = Len(out) + 1 /\ Len(out) \in Nat /\ Fake!Contract'
    <3>1. t \in Fake!Tellings /\ Len(t) \in Nat BY TellingsAreLong DEF Fake!Tellings
    <3>2. Begins(out, t) BY <1>2, <2>4 DEF Begins, Fake!BeginningOf
    <3>3. out' \in Seq(Fake!Events) /\ Begins(out', t) BY <1>1, <1>2, <2>4, <3>1, <3>2, OneMore
    <3>4. Fake!Contract' BY <3>1, <3>3, BeginningTold DEF Fake!Contract
    <3> QED BY <1>1, <1>2, <3>3, <3>4, Appended
  <2>5. CASE fakePc \in 1 .. 4
    <3>1. Len(out) = fakePc - 1 /\ Fake!BeginningOf(Fake!Unanswered) BY <2>1, <2>5 DEF Fake!Dialogs
    <3>2. Len(out) < Len(Fake!Unanswered) /\ Fake!Unanswered[Len(out) + 1] = e
      <4>1. Fake!Unanswered[fakePc] = e BY <1>4, <2>5, TellingsFollow DEF e
      <4> QED BY <2>5, <3>1, <4>1, TellingsFollow
    <3>3. /\ out' \in Seq(Fake!Events) /\ Begins(out', Fake!Unanswered) /\ Len(out') = fakePc /\ Fake!Contract'
      BY <2>4, <2>5, <3>1, <3>2
    <3>4. fakePc' <= 5 /\ Len(out') = fakePc' - 1 BY <1>1, <2>5, <3>3
    <3>5. Fake!Dialogs' BY <1>1, <3>3, <3>4 DEF Fake!Dialogs, Fake!BeginningOf, Begins
    <3>6. fakePc' \in Nat \ {0} /\ fakePc' <= Len(steps') + 1 BY <1>1, <1>2 DEF Script
    <3> QED BY <1>1, <1>2, <1>4, <3>3, <3>5, <3>6 DEF Fake!ToldSoFar, Begins
  <2>6. CASE fakePc = 6
    <3>1. \/ Len(out) = 4 /\ Fake!BeginningOf(Fake!Unanswered)
          \/ Len(out) = 6 /\ Fake!BeginningOf(Fake!Answered)
      BY <2>1, <2>6 DEF Fake!Dialogs
    <3>2. PICK t : Fake!BeginningOf(t) /\ ((Len(out) = 4 /\ t = Fake!Unanswered) \/ (Len(out) = 6 /\ t = Fake!Answered))
      BY <3>1
    <3>3. Fake!Unanswered[5] = e /\ Fake!Answered[7] = e
      <4>1. 6 \in 6 .. 7 /\ 6 - 1 = 5 /\ 6 + 1 = 7 OBVIOUS
      <4>2. Fake!Unanswered[5] = Fake!Dialog[6] /\ Fake!Answered[7] = Fake!Dialog[6] BY <4>1, TellingsFollow
      <4> QED BY <1>4, <2>6, <4>2 DEF e
    <3>4. /\ t \in {Fake!Unanswered, Fake!Answered} /\ Len(out) < Len(t) /\ t[Len(out) + 1] = e
      <4>1. Len(Fake!Unanswered) = 6 /\ Len(Fake!Answered) = 8 BY TellingsFollow
      <4>2. CASE Len(out) = 4 /\ t = Fake!Unanswered
        <5>1. t[Len(out) + 1] = Fake!Unanswered[5] BY <4>2
        <5>2. Len(t) = 6 BY <4>1, <4>2
        <5> QED BY <3>3, <4>2, <5>1, <5>2
      <4>3. CASE Len(out) = 6 /\ t = Fake!Answered
        <5>1. t[Len(out) + 1] = Fake!Answered[7] BY <4>3
        <5>2. Len(t) = 8 BY <4>1, <4>3
        <5> QED BY <3>3, <4>3, <5>1, <5>2
      <4> QED BY <3>2, <4>2, <4>3
    <3>5. /\ out' \in Seq(Fake!Events) /\ Begins(out', t) /\ Len(out') = Len(out) + 1 /\ Fake!Contract'
      BY <2>4, <3>2, <3>4
    <3>6. fakePc' = 7 /\ ((Len(out') = 5 /\ t = Fake!Unanswered) \/ (Len(out') = 7 /\ t = Fake!Answered))
      <4>1. fakePc' = 7 BY <1>1, <2>6
      <4>0. Len(out') = Len(out) + 1 BY <3>5
      <4>2. ASSUME Len(out) = 4 PROVE Len(out') = 5 BY <4>0, <4>2
      <4>3. ASSUME Len(out) = 6 PROVE Len(out') = 7 BY <4>0, <4>3
      <4> QED BY <3>2, <4>1, <4>2, <4>3
    <3>7. Fake!Dialogs' BY <1>1, <3>5, <3>6 DEF Fake!Dialogs, Fake!BeginningOf, Begins
    <3> QED BY <1>1, <1>2, <1>4, <2>2, <3>5, <3>6, <3>7 DEF Fake!ToldSoFar, Begins
  <2> QED BY <2>3, <2>5, <2>6
<1> QED BY <1>3, <1>4

\* The end of a turn.
LEMMA SettleKeeps ==
  ASSUME Fake!FakeInductive, Fake!Running, NEW why \in Fake!Reasons, Fake!Settle(why)
  PROVE  Fake!FakeInductive'
<1>1. /\ Fake!ToldSoFar /\ turn \in Nat \ {0} /\ out \in Seq(Fake!Events)
      /\ \A i \in DOMAIN transcript : transcript[i] # turn
  BY DEF Fake!FakeInductive
<1>2. /\ out' = Append(out, Fake!Done(why)) /\ steps' = <<>> /\ ended' = [ended EXCEPT ![turn] = why]
      /\ turn' = turn /\ scenario' = scenario /\ (transcript' = transcript \/ (why = "stop" /\ transcript' = Append(transcript, turn)))
  BY DEF Fake!Settle, Fake!Joins
<1>3. \E t \in Fake!Tellings : Begins(out, t)
  <2>1. CASE steps # Fake!Dialog
    <3> DEFINE t == IF steps = Fake!Proposal THEN Fake!Proposed ELSE steps
    <3>1. t \in Fake!Tellings BY <1>1, <2>1 DEF Fake!Tellings, Fake!ToldSoFar
    <3>2. Begins(out, t) BY <1>1, <2>1 DEF Fake!ToldSoFar, Fake!BeginningOf, Begins
    <3> QED BY <3>1, <3>2
  <2>2. CASE steps = Fake!Dialog
    <3>1. Fake!BeginningOf(Fake!Unanswered) \/ Fake!BeginningOf(Fake!Answered)
      BY <1>1, <2>2 DEF Fake!ToldSoFar, Fake!Dialogs
    <3>2. Begins(out, Fake!Unanswered) \/ Begins(out, Fake!Answered)
      BY <1>1, <3>1 DEF Fake!ToldSoFar, Fake!BeginningOf, Begins
    <3> QED BY <3>2 DEF Fake!Tellings
  <2> QED BY <2>1, <2>2
<1>4. Fake!Contract' /\ out' \in Seq(Fake!Events)
  <2>1. Fake!KeepsContract(Append(out, Fake!Done(why))) BY <1>1, <1>3, BeginningTold
  <2>2. Fake!Done(why) \in Fake!Events BY Words
  <2> QED BY <1>1, <1>2, <2>1, <2>2, Appended DEF Fake!Contract
<1>5. /\ ended' \in Seq({"no"} \cup Fake!Reasons) /\ Len(ended') = turn' /\ ended'[turn] = why
      /\ \A n \in 1 .. turn : n # turn => ended'[n] = ended[n]
  BY <1>1, <1>2 DEF Fake!FakeInductive
<1>6. transcript' \in Seq(1 .. turn') /\ Fake!OnlyCompletedTurnsJoin'
  <2>0. /\ transcript \in Seq(1 .. turn) /\ Fake!OnlyCompletedTurnsJoin BY DEF Fake!FakeInductive
  <2>1. \A i \in 1 .. Len(transcript) : transcript[i] \in 1 .. turn /\ transcript[i] < turn /\ ended'[transcript[i]] = "stop"
    <3>1. \A i \in 1 .. Len(transcript) : transcript[i] \in 1 .. turn /\ transcript[i] # turn /\ ended[transcript[i]] = "stop"
      BY <1>1, <2>0 DEF Fake!OnlyCompletedTurnsJoin
    <3> QED BY <1>1, <1>5, <3>1
  <2>2. CASE transcript' = transcript BY <1>2, <2>0, <2>1, <2>2 DEF Fake!OnlyCompletedTurnsJoin
  <2>3. CASE why = "stop" /\ transcript' = Append(transcript, turn)
    <3>1. turn \in 1 .. turn BY <1>1
    <3>2. /\ transcript' \in Seq(1 .. turn) /\ Len(transcript') = Len(transcript) + 1 /\ Len(transcript) \in Nat
          /\ \A i \in 1 .. Len(transcript) : transcript'[i] = transcript[i]
          /\ transcript'[Len(transcript) + 1] = turn
      BY <2>0, <2>3, <3>1, Appended
    <3>3. \A i \in 1 .. Len(transcript') : i \in 1 .. Len(transcript) \/ i = Len(transcript) + 1 BY <3>2
    <3>4. \A i \in 1 .. Len(transcript') : ended'[transcript'[i]] = "stop" BY <1>5, <2>1, <2>3, <3>2, <3>3
    <3>5. \A i, j \in 1 .. Len(transcript') : i < j => transcript'[i] < transcript'[j]
      <4> SUFFICES ASSUME NEW i \in 1 .. Len(transcript'), NEW j \in 1 .. Len(transcript'), i < j
                   PROVE  transcript'[i] < transcript'[j]
        OBVIOUS
      <4>1. i \in 1 .. Len(transcript) BY <3>2, <3>3
      <4>2. CASE j \in 1 .. Len(transcript) BY <2>0, <3>2, <4>1, <4>2 DEF Fake!OnlyCompletedTurnsJoin
      <4>3. CASE j = Len(transcript) + 1 BY <2>1, <3>2, <4>1, <4>3
      <4> QED BY <3>3, <4>2, <4>3
    <3> QED BY <1>2, <3>2, <3>4, <3>5 DEF Fake!OnlyCompletedTurnsJoin
  <2> QED BY <1>2, <2>2, <2>3
<1> QED BY <1>1, <1>2, <1>4, <1>5, <1>6 DEF Fake!FakeInductive, Fake!Running

LEMMA FakeGoesOn ==
  ASSUME Fake!FakeInductive, UNCHANGED <<turn, ended, transcript, scenario, steps>>,
         \/ Fake!Running /\ Fake!ToldSoFar' /\ Fake!Contract' /\ out' \in Seq(Fake!Events)
         \/ out' = out /\ (Fake!Running => Fake!ToldSoFar')
  PROVE  Fake!FakeInductive'
<1>1. Fake!Running' = Fake!Running BY DEF Fake!Running
<1>2. Fake!Contract' /\ out' \in Seq(Fake!Events) BY DEF Fake!FakeInductive, Fake!Contract
<1>3. Fake!OnlyCompletedTurnsJoin' BY DEF Fake!FakeInductive, Fake!OnlyCompletedTurnsJoin
<1> QED BY <1>1, <1>2, <1>3 DEF Fake!FakeInductive

\* What is told and played stands when nothing of it changes and nobody waits anew.
LEMMA ToldStands ==
  ASSUME Fake!ToldSoFar, UNCHANGED <<steps, fakePc, out>>, answer' \/ phase' = "waiting" => answer \/ phase = "waiting"
  PROVE  Fake!ToldSoFar'
BY DEF Fake!ToldSoFar, Fake!Dialogs, Fake!BeginningOf

LEMMA AwaitTells ==
  ASSUME out \in Seq(Fake!Events), Fake!ToldSoFar, Fake!AwaitUi
  PROVE  Fake!ToldSoFar' /\ out' = out
<1>1. /\ steps' = steps /\ fakePc' = fakePc + 1 /\ out' = out /\ fakePc <= Len(steps) /\ steps[fakePc].type = "await_ui"
  BY DEF Fake!AwaitUi
<1>2. steps \in Fake!Scripts /\ Script(steps) /\ fakePc \in DOMAIN steps /\ fakePc \in Nat \ {0}
  BY <1>1, ScriptsPlay DEF Fake!ToldSoFar, Script
<1>3. steps = Fake!Dialog BY <1>1, <1>2, ScriptsPlay DEF AwaitsNothing
<1>4. fakePc = 5 /\ Len(steps) = 7 BY <1>1, <1>2, <1>3, DialogIs
<1>5. Fake!Dialogs BY <1>3 DEF Fake!ToldSoFar
<1>6. Len(out) = 4 /\ Fake!BeginningOf(Fake!Unanswered) BY <1>4, <1>5 DEF Fake!Dialogs
<1>7. fakePc' = 6 BY <1>1, <1>4
<1>8. Fake!BeginningOf(Fake!Unanswered)' BY <1>1, <1>6 DEF Fake!BeginningOf
<1>9. Fake!Dialogs' BY <1>1, <1>6, <1>7, <1>8 DEF Fake!Dialogs
<1> QED BY <1>1, <1>2, <1>3, <1>4, <1>7, <1>9 DEF Fake!ToldSoFar

LEMMA AnswerTells ==
  ASSUME out \in Seq(Fake!Events), Fake!ToldSoFar, answer, phase = "step", answer' = FALSE,
         UNCHANGED <<steps, fakePc, phase>>, out' = out \o <<Fake!Text(1), Fake!End(1)>>
  PROVE  Fake!ToldSoFar' /\ Fake!Contract' /\ out' \in Seq(Fake!Events)
<1>1. steps = Fake!Dialog /\ Fake!Dialogs BY DEF Fake!ToldSoFar
<1>2. fakePc \in Nat /\ fakePc = 6 /\ Len(out) = 4 /\ Fake!BeginningOf(Fake!Unanswered)
  <2>1. fakePc = 6 /\ Len(out) = fakePc - 2 /\ Fake!BeginningOf(Fake!Unanswered) BY <1>1, Zenon DEF Fake!Dialogs
  <2> QED BY <2>1
<1>3. /\ Fake!Text(1) \in Fake!Events /\ Fake!End(1) \in Fake!Events
      /\ Fake!Text(1).type # "settled" /\ Fake!End(1).type # "settled"
  BY Words
<1>4. out' = Append(Append(out, Fake!Text(1)), Fake!End(1)) BY <1>3
<1>5. Begins(out, Fake!Answered)
  <2>1. \A i \in DOMAIN out : i \in 1 .. 4 BY <1>2
  <2>2. \A i \in 1 .. 4 : Fake!Answered[i] = Fake!Unanswered[i] BY TellingsFollow
  <2>3. Len(out) <= Len(Fake!Answered) BY <1>2, TellingsFollow
  <2> QED BY <1>2, <2>1, <2>2, <2>3 DEF Begins, Fake!BeginningOf, Fake!ToldSoFar
<1>6. Len(Fake!Answered) = 8 /\ Fake!Answered[5] = Fake!Text(1) /\ Fake!Answered[6] = Fake!End(1) BY TellingsFollow
<1> DEFINE o == Append(out, Fake!Text(1))
<1>7. o \in Seq(Fake!Events) /\ Begins(o, Fake!Answered) /\ Len(o) = 5
  <2>1. Len(out) < Len(Fake!Answered) /\ Fake!Answered[Len(out) + 1] = Fake!Text(1) BY <1>2, <1>6
  <2>2. o \in Seq(Fake!Events) /\ Begins(o, Fake!Answered)
    <3>1. Len(Fake!Answered) \in Nat BY <1>6
    <3> QED BY <1>3, <1>5, <2>1, <3>1, OneMore
  <2>3. Len(o) = Len(out) + 1 BY <1>3, Appended
  <2> QED BY <1>2, <2>2, <2>3
<1>8. out' \in Seq(Fake!Events) /\ Begins(out', Fake!Answered) /\ Len(out') = 6
  <2> HIDE DEF o
  <2>1. out' = Append(o, Fake!End(1)) BY <1>4 DEF o
  <2>2. Len(o) < Len(Fake!Answered) /\ Fake!Answered[Len(o) + 1] = Fake!End(1) BY <1>6, <1>7
  <2>3. out' \in Seq(Fake!Events) /\ Begins(out', Fake!Answered)
    <3>1. Len(Fake!Answered) \in Nat BY <1>6
    <3> QED BY <1>3, <1>7, <2>1, <2>2, <3>1, OneMore
  <2>4. Len(out') = Len(o) + 1 BY <1>3, <1>7, <2>1, Appended
  <2> QED BY <1>7, <2>3, <2>4
<1>9. Fake!Contract' BY <1>8, BeginningTold DEF Fake!Contract, Fake!Tellings
<1>10. Fake!Dialogs' BY <1>2, <1>8 DEF Fake!Dialogs, Fake!BeginningOf, Begins
<1>11. \A i \in DOMAIN out' : out'[i].type # "settled" BY <1>8 DEF Begins
<1> QED BY <1>1, <1>8, <1>9, <1>10, <1>11 DEF Fake!ToldSoFar

\* Behind the last step only a script without an end goes on, and only to its figure.
LEMMA FigureTells ==
  ASSUME out \in Seq(Fake!Events), Fake!ToldSoFar, steps # <<>>, fakePc > Len(steps), Fake!Of(out, {"usage"}) = {},
         UNCHANGED <<steps, fakePc, phase, answer>>, out' = Append(out, Fake!Used(1))
  PROVE  Fake!ToldSoFar' /\ Fake!Contract' /\ out' \in Seq(Fake!Events)
<1>1. /\ steps \in Fake!Scripts /\ Script(steps) /\ fakePc = Len(steps) + 1 /\ Len(steps) \in Nat
  <2>1. steps \in Fake!Scripts /\ fakePc \in Nat /\ fakePc <= Len(steps) + 1 BY DEF Fake!ToldSoFar
  <2>2. Script(steps) /\ Len(steps) \in Nat BY <2>1, ScriptsPlay DEF Script
  <2> QED BY <2>1, <2>2
<1>2. Fake!Used(1) \in Fake!Events /\ Fake!Used(1).type = "usage" BY Words
<1>3. steps # Fake!Dialog
  <2> SUFFICES ASSUME steps = Fake!Dialog PROVE FALSE OBVIOUS
  <2>1. fakePc = 8 /\ Fake!Dialogs BY <1>1, DialogIs DEF Fake!ToldSoFar
  <2>2. \/ Len(out) = 6 /\ Fake!BeginningOf(Fake!Unanswered)
        \/ Len(out) = 8 /\ Fake!BeginningOf(Fake!Answered)
    BY <2>1 DEF Fake!Dialogs
  <2>3. out[Len(out)].type = "settled" /\ Len(out) \in DOMAIN out BY <2>2, TellingsFollow, SMTT(40) DEF Fake!BeginningOf
  <2> QED BY <2>3 DEF Fake!ToldSoFar
<1>4. steps = Fake!Proposal
  <2> SUFFICES ASSUME steps # Fake!Proposal PROVE FALSE OBVIOUS
  <2>1. Ends(steps) /\ steps # <<>> BY <1>1, ScriptsPlay
  <2>2. Len(out) = Len(steps) /\ Fake!BeginningOf(steps) BY <1>1, <1>3 DEF Fake!ToldSoFar
  <2>3. out[Len(out)].type = "settled" /\ Len(out) \in DOMAIN out BY <1>1, <2>1, <2>2 DEF Ends, Script, Fake!BeginningOf
  <2> QED BY <2>3 DEF Fake!ToldSoFar
<1>5. fakePc = 5 /\ Len(steps) = 4 /\ Fake!BeginningOf(Fake!Proposed) /\ Len(out) \in {4, 5}
  BY <1>1, <1>3, <1>4, TellingsFollow DEF Fake!ToldSoFar
<1>6. Len(out) = 4
  <2> SUFFICES ASSUME Len(out) = 5 PROVE FALSE BY <1>5
  <2>1. 5 \in 1 .. Len(out) /\ out[5] = Fake!Used(1) BY <1>5, TellingsFollow DEF Fake!BeginningOf
  <2> QED BY <1>2, <2>1 DEF Fake!Of
<1>7. Begins(out, Fake!Proposed) BY <1>5 DEF Begins, Fake!BeginningOf, Fake!ToldSoFar
<1>8. out' \in Seq(Fake!Events) /\ Begins(out', Fake!Proposed) /\ Len(out') = 5
  <2>1. Len(Fake!Proposed) = 5 /\ Fake!Proposed[Len(out) + 1] = Fake!Used(1) BY <1>6, TellingsFollow
  <2>2. Len(out) < Len(Fake!Proposed) BY <1>6, <2>1
  <2>3. Len(out') = Len(out) + 1 BY <1>2, Appended
  <2> QED BY <1>2, <1>6, <1>7, <2>1, <2>2, <2>3, OneMore
<1>9. Fake!Contract' BY <1>8, BeginningTold DEF Fake!Contract, Fake!Tellings
<1>10. \A i \in DOMAIN out' : out'[i].type # "settled" BY <1>8 DEF Begins
<1> QED BY <1>1, <1>3, <1>4, <1>5, <1>8, <1>9, <1>10 DEF Fake!ToldSoFar, Fake!BeginningOf, Begins

LEMMA PromptKeeps ==
  ASSUME Fake!FakeInductive, NEW edit, NEW alreadyAborted, Fake!Prompt(edit, alreadyAborted)
  PROVE  Fake!FakeInductive'
<1>1. /\ turn' = turn + 1 /\ fakePc' = 1 /\ phase' = "step" /\ answer' = FALSE /\ out' = <<>>
      /\ ended' = Append(ended, "no") /\ transcript' = transcript /\ scenario' = scenario
      /\ steps' = Fake!Proposal \/ steps' = Fake!Scenarios[scenario]
  BY DEF Fake!Prompt
<1>2. /\ turn \in Nat /\ ended \in Seq({"no"} \cup Fake!Reasons) /\ Len(ended) = turn
      /\ transcript \in Seq(1 .. turn) /\ scenario \in DOMAIN Fake!Scenarios /\ Fake!OnlyCompletedTurnsJoin
  BY DEF Fake!FakeInductive
<1>3. steps' \in Fake!Scripts /\ Script(steps') BY <1>1, <1>2, ScriptsAre, ScriptsPlay
<1>4. out' \in Seq(Fake!Events) /\ Len(out') = 0 /\ DOMAIN out' = {} BY <1>1
<1>5. Fake!Contract'
  <2>1. Fake!Unanswered \in Fake!Tellings BY DEF Fake!Tellings
  <2>2. Begins(out', Fake!Unanswered) BY <1>4, TellingsFollow DEF Begins
  <2> QED BY <1>4, <2>1, <2>2, BeginningTold DEF Fake!Contract
<1>6. Fake!ToldSoFar'
  <2>1. fakePc' \in Nat \ {0} /\ fakePc' <= Len(steps') + 1 BY <1>1, <1>3 DEF Script
  <2>2. Len(out') = fakePc' - 1 BY <1>1, <1>4
  <2>3. Len(Fake!Unanswered) \in Nat /\ Len(Fake!Proposed) \in Nat /\ Len(steps') \in Nat
    BY <1>3, TellingsFollow DEF Script
  <2>4. /\ Fake!BeginningOf(Fake!Unanswered)'
        /\ Fake!BeginningOf(IF steps = Fake!Proposal THEN Fake!Proposed ELSE steps)'
    BY <1>4, <2>3 DEF Fake!BeginningOf
  <2>5. Fake!Dialogs' BY <1>1, <2>2, <2>4 DEF Fake!Dialogs
  <2> QED BY <1>1, <1>3, <1>4, <2>1, <2>2, <2>4, <2>5 DEF Fake!ToldSoFar
<1>7. /\ turn' \in Nat \ {0} /\ ended' \in Seq({"no"} \cup Fake!Reasons) /\ Len(ended') = turn'
      /\ \A n \in 1 .. turn : ended'[n] = ended[n]
  <2>1. "no" \in {"no"} \cup Fake!Reasons OBVIOUS
  <2> QED BY <1>1, <1>2, <2>1, Appended
<1>8. transcript' \in Seq(1 .. turn') /\ \A i \in DOMAIN transcript' : transcript'[i] \in 1 .. turn /\ transcript'[i] # turn'
  <2>1. DOMAIN transcript = 1 .. Len(transcript) /\ Len(transcript) \in Nat
        /\ \A i \in 1 .. Len(transcript) : transcript[i] \in 1 .. turn
    BY <1>2
  <2>2. \A n \in 1 .. turn : n \in 1 .. turn' /\ n # turn' BY <1>1, <1>2
  <2>3. 1 .. turn \subseteq 1 .. turn' BY <2>2
  <2>4. \A i \in 1 .. Len(transcript) : transcript[i] \in 1 .. turn' BY <2>1, <2>2
  <2> QED BY <1>1, <1>2, <2>1, <2>2, <2>4
<1>9. Fake!OnlyCompletedTurnsJoin' BY <1>1, <1>2, <1>7, <1>8 DEF Fake!OnlyCompletedTurnsJoin
<1> QED BY <1>1, <1>2, <1>4, <1>5, <1>6, <1>7, <1>8, <1>9 DEF Fake!FakeInductive

LEMMA FakeBegins == Fake!Init => Fake!FakeInductive
<1> SUFFICES ASSUME Fake!Init PROVE Fake!FakeInductive OBVIOUS
<1>1. /\ turn = 0 /\ steps = <<>> /\ transcript = <<>> /\ out = <<>> /\ ended = <<>>
      /\ scenario \in DOMAIN Fake!Scenarios
  BY DEF Fake!Init
<1>2. Fake!Contract
  <2>1. Fake!Unanswered \in Fake!Tellings BY DEF Fake!Tellings
  <2>2. Begins(out, Fake!Unanswered) /\ out \in Seq(Fake!Events) BY <1>1, TellingsFollow DEF Begins
  <2> QED BY <2>1, <2>2, BeginningTold DEF Fake!Contract
<1>3. Fake!OnlyCompletedTurnsJoin BY <1>1 DEF Fake!OnlyCompletedTurnsJoin
<1> QED BY <1>1, <1>2, <1>3 DEF Fake!FakeInductive, Fake!Running

LEMMA FakeKeeps ==
  ASSUME Fake!FakeInductive, Fake!Next PROVE Fake!FakeInductive'
<1>0. Fake!Running => Fake!ToldSoFar /\ out \in Seq(Fake!Events) BY DEF Fake!FakeInductive
<1>00. \A why \in {"stop", "aborted"} : why \in Fake!Reasons BY DEF Fake!Reasons
<1>1. CASE Fake!AfterYield
  <2>1. CASE Fake!Settle("aborted") BY <1>1, <1>00, <2>1, SettleKeeps DEF Fake!AfterYield
  <2>2. CASE ~Fake!Settle("aborted")
    <3>1. phase' = "step" /\ UNCHANGED <<turn, ended, transcript, scenario, steps, fakePc, out, answer>> /\ Fake!Running
      BY <1>1, <2>2 DEF Fake!AfterYield
    <3> QED BY <1>0, <3>1, ToldStands, FakeGoesOn
  <2> QED BY <2>1, <2>2
<1>2. CASE Fake!BeginAborted BY <1>2, <1>00, SettleKeeps DEF Fake!BeginAborted
<1>3. CASE Fake!PlayEvent
  <2>1. Fake!Running /\ UNCHANGED <<turn, ended, transcript, scenario, steps>> BY <1>3 DEF Fake!PlayEvent
  <2> QED BY <1>0, <1>3, <2>1, PlayTells, FakeGoesOn
<1>4. CASE Fake!AwaitUi
  <2>1. Fake!Running /\ UNCHANGED <<turn, ended, transcript, scenario, steps>> BY <1>4 DEF Fake!AwaitUi
  <2> QED BY <1>0, <1>4, <2>1, AwaitTells, FakeGoesOn
<1>5. CASE Fake!ShowAnswer
  <2>1. Fake!Running /\ phase = "step" /\ answer BY <1>5 DEF Fake!ShowAnswer
  <2>2. CASE Fake!Settle("aborted") BY <1>00, <2>1, <2>2, SettleKeeps
  <2>3. CASE ~Fake!Settle("aborted")
    <3>1. /\ answer' = FALSE /\ out' = out \o <<Fake!Text(1), Fake!End(1)>>
          /\ UNCHANGED <<turn, ended, transcript, scenario, steps, fakePc, phase>>
      BY <1>5, <2>3 DEF Fake!ShowAnswer
    <3> QED BY <1>0, <2>1, <3>1, AnswerTells, FakeGoesOn
  <2> QED BY <2>2, <2>3
<1>6. CASE Fake!WakeAborted BY <1>6, <1>00, SettleKeeps DEF Fake!WakeAborted
<1>7. CASE Fake!ScriptedEnd
  <2>1. /\ Fake!Running /\ fakePc <= Len(steps) /\ steps[fakePc].type = "settled" /\ Fake!Settle(steps[fakePc].reason)
    BY <1>7 DEF Fake!ScriptedEnd
  <2>2. steps[fakePc].reason \in Fake!Reasons BY <1>0, <2>1, ScriptsPlay DEF Fake!ToldSoFar, Script
  <2> QED BY <2>1, <2>2, SettleKeeps
<1>8. CASE Fake!ImpliedEnd
  <2>1. Fake!Running /\ fakePc > Len(steps) BY <1>8 DEF Fake!ImpliedEnd
  <2>2. CASE Fake!Of(out, {"usage"}) = {}
    <3>1. /\ out' = Append(out, Fake!Used(1))
          /\ UNCHANGED <<turn, ended, transcript, scenario, steps, fakePc, phase, answer>>
      BY <1>8, <2>2 DEF Fake!ImpliedEnd, Fake!Recorded
    <3> QED BY <1>0, <2>1, <2>2, <3>1, FigureTells, FakeGoesOn DEF Fake!Running
  <2>3. CASE Fake!Of(out, {"usage"}) # {} BY <1>8, <1>00, <2>1, <2>3, SettleKeeps DEF Fake!ImpliedEnd
  <2> QED BY <2>2, <2>3
<1>9. CASE Fake!Abort
  <2>1. UNCHANGED <<turn, ended, transcript, scenario, steps, fakePc, phase, answer, out>> BY <1>9 DEF Fake!Abort
  <2> QED BY <1>0, <2>1, ToldStands, FakeGoesOn
<1>10. CASE Fake!Compact
  <2>1. UNCHANGED <<turn, ended, transcript, scenario, steps, fakePc, phase, answer, out>> BY <1>10 DEF Fake!Compact
  <2> QED BY <1>0, <2>1, ToldStands, FakeGoesOn
<1>11. CASE Fake!Close
  <2>1. UNCHANGED <<turn, ended, transcript, scenario, steps, fakePc, phase, answer, out>> BY <1>11 DEF Fake!Close
  <2> QED BY <1>0, <2>1, ToldStands, FakeGoesOn
<1>12. CASE Fake!Open
  <2>1. UNCHANGED <<turn, ended, transcript, scenario, steps, fakePc, phase, answer, out>> BY <1>12 DEF Fake!Open
  <2> QED BY <1>0, <2>1, ToldStands, FakeGoesOn
<1>13. CASE \E edit, alreadyAborted \in BOOLEAN : Fake!Prompt(edit, alreadyAborted) BY <1>13, PromptKeeps
<1>14. CASE Fake!RespondUi("d1")
  <2>1. /\ UNCHANGED <<turn, ended, transcript, scenario, steps, fakePc, out>>
        /\ answer' \/ phase' = "waiting" => answer \/ phase = "waiting"
    BY <1>14, Zenon DEF Fake!RespondUi
  <2> QED BY <1>0, <2>1, ToldStands, FakeGoesOn
<1> QED BY <1>1, <1>2, <1>3, <1>4, <1>5, <1>6, <1>7, <1>8, <1>9, <1>10, <1>11, <1>12, <1>13, <1>14
        DEF Fake!Next, Fake!Play

-----------------------------------------------------------------------------
(* The edge: what holds in each scene.                                     *)

EdgeSafe ==
    /\ scene = "screen" => Screen!HalfLines /\ Screen!LinesAreDrawn
    /\ scene = "status" => Status!QueuesAreInOrder
    /\ scene = "connection" => Link!LinkInductive
    /\ scene = "fake" => Fake!FakeInductive

LEMMA EdgeBegins == EdgeInit => EdgeSafe
BY EdgeAssumption, ScreenInit, StatusBegins, LinkBegins, FakeBegins DEF EdgeInit, EdgeSafe

LEMMA ScreenStands ==
  ASSUME Screen!HalfLines, Screen!LinesAreDrawn, UNCHANGED renderVars
  PROVE  Screen!HalfLines' /\ Screen!LinesAreDrawn' /\ Screen!KeepsOpenLine
<1>1. UNCHANGED <<screen, atStart, midLine, open, over, tool, drawn>> BY DEF renderVars
<1>2. Screen!HalfLines' BY <1>1 DEF Screen!HalfLines, Screen!Screens
<1>3. Screen!LinesAreDrawn' BY <1>1 DEF Screen!LinesAreDrawn, Screen!DoneOf
<1>4. Screen!KeepsOpenLine BY <1>1 DEF Screen!KeepsOpenLine
<1> QED BY <1>2, <1>3, <1>4

LEMMA StatusStands ==
  ASSUME Status!QueuesAreInOrder, UNCHANGED statusVars PROVE Status!QueuesAreInOrder' /\ Status!NeverBack
<1>1. UNCHANGED <<statusFile, intact, writes, stage, statusTemp, published, maker, earlier, settled, shown>> BY DEF statusVars
<1>2. Status!StatusTyped' BY <1>1 DEF Status!QueuesAreInOrder, Status!StatusTyped, Status!Publishers
<1>3. \A p \in Status!Publishers : Status!InOrder(p)' BY <1>1 DEF Status!QueuesAreInOrder, Status!InOrder
<1>4. Status!CameAfter' BY <1>1 DEF Status!QueuesAreInOrder, Status!CameAfter
<1>5. Status!RenamesWhole' BY <1>1 DEF Status!QueuesAreInOrder, Status!RenamesWhole
<1> QED BY <1>1, <1>2, <1>3, <1>4, <1>5 DEF Status!QueuesAreInOrder, Status!NeverBack

LEMMA LinkStands ==
  ASSUME Link!LinkInductive, UNCHANGED connVars
  PROVE  Link!LinkInductive' /\ ~Link!GivesUp
<1>1. UNCHANGED <<daemon, version, clock, wait, due, client, closing, linked, greeted, calls, running, toServer, toPeer, served>>
  BY DEF connVars
<1>2. Link!Ids' = Link!Ids BY <1>1 DEF Link!Ids
<1>3. Link!LinkTyped' BY <1>1, <1>2 DEF Link!LinkInductive, Link!LinkTyped, Link!ToServer, Link!ToPeer
<1>4. Link!RequestsAreNew' /\ Link!AnswersAreTrue' BY <1>1, <1>2 DEF Link!LinkInductive, Link!RequestsAreNew, Link!AnswersAreTrue
<1>5. Link!SleepsAreShort' /\ Link!OnlyServersAreLinked' /\ Link!LookingIsBounded'
  BY <1>1 DEF Link!LinkInductive, Link!SleepsAreShort, Link!OnlyServersAreLinked, Link!LookingIsBounded
<1>6. Link!AnswersMatch' BY <1>1, <1>2 DEF Link!LinkInductive, Link!AnswersMatch
<1>7. ~Link!GivesUp BY <1>1 DEF Link!GivesUp
<1> QED BY <1>3, <1>4, <1>5, <1>6, <1>7 DEF Link!LinkInductive

LEMMA FakeStands ==
  ASSUME Fake!FakeInductive, UNCHANGED fakeVars PROVE Fake!FakeInductive'
<1>1. UNCHANGED <<turn, ended, transcript, scenario, steps, fakePc, phase, answer, out>> BY DEF fakeVars
<1>2. Fake!Running => Fake!ToldSoFar' BY <1>1, ToldStands DEF Fake!FakeInductive
<1> QED BY <1>1, <1>2, FakeGoesOn

LEMMA EdgeStands ==
  ASSUME EdgeSafe, UNCHANGED edgeVars PROVE EdgeSafe' /\ StaysInBounds
<1>1. UNCHANGED scene /\ UNCHANGED statusVars /\ UNCHANGED connVars /\ UNCHANGED fakeVars /\ UNCHANGED renderVars
  BY DEF edgeVars
<1> QED BY <1>1, ScreenStands, StatusStands, LinkStands, FakeStands DEF EdgeSafe, StaysInBounds

LEMMA EdgeKeeps == EdgeSafe /\ EdgeNext => EdgeSafe' /\ StaysInBounds
<1> SUFFICES ASSUME EdgeSafe, EdgeNext PROVE EdgeSafe' /\ StaysInBounds OBVIOUS
<1>1. CASE LinkOnly /\ Link!ConnNext
  <2>1. scene = "connection" /\ scene' = scene BY <1>1 DEF LinkOnly
  <2> QED BY <1>1, <2>1, EdgeAssumption, LinkKeeps DEF EdgeSafe, StaysInBounds
<1>2. CASE FakeOnly /\ Fake!Next
  <2>1. scene = "fake" /\ scene' = scene BY <1>2 DEF FakeOnly
  <2> QED BY <1>2, <2>1, FakeKeeps DEF EdgeSafe, StaysInBounds
<1>3. CASE ScreenOnly /\ Screen!RenderNext
  <2>1. scene = "screen" /\ scene' = scene BY <1>3 DEF ScreenOnly
  <2> QED BY <1>3, <2>1, EdgeAssumption, ScreenKeeps, ScreenDraws DEF EdgeSafe, StaysInBounds
<1>4. CASE StatusOnly /\ Status!StatusNext
  <2>1. scene = "status" /\ scene' = scene BY <1>4 DEF StatusOnly
  <2> QED BY <1>4, <2>1, StatusKeeps DEF EdgeSafe, StaysInBounds
<1>5. CASE scene \in {"terminal", "choice", "draft", "setup"} /\ scene' = scene
  BY <1>5 DEF EdgeSafe, StaysInBounds
<1> QED BY <1>1, <1>2, <1>3, <1>4, <1>5 DEF EdgeNext, TtyOnly, ChoiceOnly, DraftOnly, RcOnly

\* What each scene keeps, in every state.
THEOREM EdgeInvariance == EdgeSpec => []EdgeSafe
<1>1. EdgeSafe /\ [EdgeNext]_edgeVars => EdgeSafe' BY EdgeStands, EdgeKeeps
<1> QED BY <1>1, EdgeBegins, PTL DEF EdgeSpec

\* An answer reaches its own call and the search for a daemon keeps its budget, whatever
\* the socket loses; a scripted turn keeps the port's contract to its end, and only a
\* completed one joins the conversation (Connection, SocketServer, FakeSession).
THEOREM PeersAreTrue == EdgeSpec => []PeersKeepTheirWord
<1>1. Fake!FakeInductive => Fake!Contract /\ Fake!OnlyCompletedTurnsJoin BY DEF Fake!FakeInductive
<1>2. EdgeSafe => PeersKeepTheirWord BY <1>1, LinkPromises DEF EdgeSafe, PeersKeepTheirWord
<1> QED BY <1>2, EdgeInvariance, PTL

\* No redraw erases the open half line of the answer, the client gives up its search only
\* in vain, and no status goes back behind one that was published before it (renderer.ts,
\* #poll of connection.ts, status-file.ts).
THEOREM StepsStayInBounds == EdgeSpec => NoStepOversteps
<1>1. EdgeSafe /\ [EdgeNext]_edgeVars => [StaysInBounds]_edgeVars BY EdgeStands, EdgeKeeps
<1>2. EdgeSpec => [][EdgeNext]_edgeVars BY PTL DEF EdgeSpec
<1>3. EdgeSpec => [][StaysInBounds]_edgeVars BY <1>1, <1>2, EdgeInvariance, PTL
<1> QED BY <1>3 DEF NoStepOversteps
==============================================================================
