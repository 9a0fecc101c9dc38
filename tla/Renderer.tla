------------------------------ MODULE Renderer ------------------------------
(***************************************************************************)
(* client/render: the events of one turn drawn on a terminal whose last    *)
(* row is shared by the streamed answer, the tool that is running and the  *)
(* spinner.  The screen is what is left of each of them; styling is left   *)
(* out.  Sources: renderer.ts, chrome.ts, styler.ts.                       *)
(***************************************************************************)
EXTENDS Naturals, FiniteSets

CONSTANTS Blocks, Tools, MaxEvents

VARIABLES
  inPlace,    \* Capabilities.spinner and .inPlace: a terminal, not a pipe
  open,       \* #openBlock, or NoBlock
  atStart,    \* per block MarkdownStream.atLineStart
  held,       \* per block: text the styler holds back
  over,       \* the blocks that ended; the agent numbers its blocks upwards
  midLine,    \* #midLine
  rowBusy,    \* #rowBusy
  tool,       \* per tool "none", "live" or "done"
  drawn,      \* the tools whose finished line was written
  active,     \* ToolLineManager.#active, or NoTool
  timer,      \* the spinner's interval runs
  frame,      \* Spinner.#drawn
  finished,   \* #finished
  screen,     \* [row: what the last row holds, lost, rows: what scrolled past]
  events

renderVars == <<inPlace, open, atStart, held, over, midLine, rowBusy, tool, drawn,
                active, timer, frame, finished, screen, events>>

NoBlock == "none"
NoTool  == "none"

\* How often a tool's finished line stands on the screen, the frames that were
\* left behind, and the blocks of which part was erased.
Blank == [row |-> {}, lost |-> {}, lines |-> [t \in Tools |-> 0], frames |-> FALSE]

RenderInit ==
  /\ inPlace \in BOOLEAN
  /\ open = NoBlock /\ midLine = FALSE /\ rowBusy = FALSE
  /\ atStart = [b \in Blocks |-> TRUE] /\ held = [b \in Blocks |-> FALSE]
  /\ over = {}
  /\ tool = [t \in Tools |-> "none"] /\ drawn = {} /\ active = NoTool
  /\ timer = inPlace /\ frame = FALSE /\ finished = FALSE
  /\ screen = Blank /\ events = 0

-----------------------------------------------------------------------------
(* Writing. *)

NewRow(s) == [s EXCEPT !.row = {}]
Write(s, what) == [s EXCEPT !.row = @ \union {what}]

\* #eraseRow: not in a pipe, and not a row that holds part of a line.
Erase(s, mid) ==
  IF ~inPlace \/ mid THEN s
  ELSE [s EXCEPT !.row = {}, !.lost = @ \union (s.row \intersect Blocks)]

\* What a push or a flush writes: nothing, part of a line, or up to its end.
Text(s, b, ends) == IF ends THEN NewRow(s) ELSE Write(s, b)

\* #closeOpenBlock flushes; a flush may end in the middle of a line or at its end.
Closed(s, ends) ==
  IF open # NoBlock /\ held[open] THEN Text(s, open, ends) ELSE s
ClosedStart(ends) ==
  IF open = NoBlock THEN atStart
  ELSE [atStart EXCEPT ![open] = IF held[open] THEN ends ELSE @]
ClosedHeld == IF open = NoBlock THEN held ELSE [held EXCEPT ![open] = FALSE]
\* renderer.ts:237 assigns atLineStart itself, not its negation.
ClosedMid(ends) == IF open = NoBlock THEN midLine ELSE ClosedStart(ends)[open]

\* #clearRow: a busy row stops the spinner for good and erases its frame.
Cleared(s, mid) == IF rowBusy /\ frame THEN Erase(s, mid) ELSE s
ClearRow == /\ timer' = (timer /\ ~rowBusy)
            /\ frame' = (frame /\ ~rowBusy)

\* #flushTool: finished lines that were not written yet, each once and on a row of
\* its own, then the tool that is running, on a row that stays open.
Undrawn(done) == done \ drawn

Flushed(s, mid, done, live) ==
  LET new == Undrawn(done)
      cleared == IF new = {} THEN s ELSE NewRow(Erase(s, mid))
      told == [cleared EXCEPT !.lines =
                [t \in Tools |-> IF t \in new THEN @[t] + 1 ELSE @[t]]]
  IN IF live # NoTool /\ inPlace THEN Write(Erase(told, mid), "tool") ELSE told

DoneOf(f) == {t \in Tools : f[t] = "done"}
LiveOf(f, a) == IF a # NoTool /\ f[a] = "live" THEN a ELSE NoTool

-----------------------------------------------------------------------------
(* The events. *)

Counted == events < MaxEvents /\ ~finished /\ events' = events + 1

\* Mutant of MidAfter: the stream is not asked.
MidAfterNever(start) == FALSE

MidAfter(start) == ~start

\* text_delta: another block's rest first, then what the styler lets through.
TextDelta(b) == \E ends, flushEnds, holds, writes \in BOOLEAN :
  /\ Counted /\ b \notin over
  /\ ClearRow
  /\ LET other == open \notin {b, NoBlock}
         before == IF other THEN Closed(Cleared(screen, midLine), flushEnds)
                   ELSE Cleared(screen, midLine)
         start0 == IF other THEN ClosedStart(flushEnds) ELSE atStart
         start1 == IF writes THEN [start0 EXCEPT ![b] = ends] ELSE start0 IN
     /\ holds \/ writes
     /\ screen' = IF writes THEN Text(before, b, ends) ELSE before
     /\ atStart' = start1
     /\ held' = [IF other THEN ClosedHeld ELSE held EXCEPT ![b] = holds]
     /\ midLine' = MidAfter(start1[b])
  /\ open' = b
  /\ UNCHANGED <<inPlace, over, rowBusy, tool, drawn, active, finished>>

\* text_end: whatever block is open is closed and the block's stream forgotten.
TextEnd(b) == \E ends \in BOOLEAN :
  /\ Counted /\ ClearRow
  /\ screen' = Closed(Cleared(screen, midLine), ends)
  /\ midLine' = ClosedMid(ends)
  /\ atStart' = [ClosedStart(ends) EXCEPT ![b] = TRUE]
  /\ held' = [ClosedHeld EXCEPT ![b] = FALSE]
  /\ open' = NoBlock /\ over' = over \union {b}
  /\ UNCHANGED <<inPlace, rowBusy, tool, drawn, active, finished>>

\* tool_start and tool_end close the open block; tool_update leaves it.
Draws(newTool, newActive, closes, ends) ==
  LET s0  == Cleared(screen, midLine)
      s1  == IF closes THEN Closed(s0, ends) ELSE s0
      mid == IF closes THEN ClosedMid(ends) ELSE midLine
      live == LiveOf(newTool, newActive)
      done == DoneOf(newTool) IN
  /\ screen' = Flushed(s1, mid, done, live)
  /\ midLine' = mid
  /\ atStart' = IF closes THEN ClosedStart(ends) ELSE atStart
  /\ held' = IF closes THEN ClosedHeld ELSE held
  /\ open' = IF closes THEN NoBlock ELSE open
  /\ tool' = newTool /\ active' = newActive
  /\ drawn' = drawn \union done
  /\ rowBusy' = (rowBusy \/ done \ drawn # {} \/ (live # NoTool /\ inPlace))
  /\ ClearRow /\ UNCHANGED <<inPlace, over, finished>>

ToolStart(t) == \E ends \in BOOLEAN :
  /\ Counted /\ tool[t] = "none"
  /\ Draws([tool EXCEPT ![t] = "live"], t, TRUE, ends)
ToolUpdate(t) ==
  /\ Counted
  /\ IF tool[t] = "live" THEN Draws(tool, t, FALSE, FALSE)
                         ELSE Draws(tool, active, FALSE, FALSE)
ToolEnd(t) == \E ends \in BOOLEAN :
  /\ Counted
  /\ IF tool[t] = "none" THEN Draws(tool, active, TRUE, ends)
     ELSE Draws([tool EXCEPT ![t] = "done"], IF active = t THEN NoTool ELSE active, TRUE, ends)

\* notice and retry: a line of their own.
Notice == \E ends \in BOOLEAN :
  /\ Counted /\ ClearRow
  /\ screen' = NewRow(Closed(Cleared(screen, midLine), ends))
  /\ midLine' = ClosedMid(ends)
  /\ atStart' = ClosedStart(ends) /\ held' = ClosedHeld /\ open' = NoBlock
  /\ UNCHANGED <<inPlace, over, rowBusy, tool, drawn, active, finished>>

\* settled: #finish stops the spinner, writes what is left and the footer.
Settled == \E ends \in BOOLEAN :
  /\ ~finished /\ finished' = TRUE
  /\ LET s0 == Closed(Cleared(screen, midLine), ends)
         s1 == IF frame /\ ~rowBusy THEN Erase(s0, ClosedMid(ends)) ELSE s0 IN
     screen' = NewRow(Flushed(s1, ClosedMid(ends), DoneOf(tool), LiveOf(tool, active)))
  /\ midLine' = ClosedMid(ends)
  /\ atStart' = ClosedStart(ends) /\ held' = ClosedHeld /\ open' = NoBlock
  /\ drawn' = drawn \union DoneOf(tool)
  /\ timer' = FALSE /\ frame' = FALSE /\ rowBusy' = FALSE
  /\ UNCHANGED <<inPlace, over, tool, active, events>>

\* A tick of the spinner.  The frame is written with a line end.
Tick ==
  /\ timer
  /\ IF midLine
       THEN frame' = FALSE /\ UNCHANGED screen
       ELSE /\ frame' = TRUE
            /\ screen' = [NewRow(Erase(screen, midLine)) EXCEPT !.frames = TRUE]
  /\ UNCHANGED <<inPlace, open, atStart, held, over, midLine, rowBusy, tool,
                 drawn, active, timer, finished, events>>

RenderNext ==
  \/ \E b \in Blocks : TextDelta(b) \/ TextEnd(b)
  \/ \E t \in Tools : ToolStart(t) \/ ToolUpdate(t) \/ ToolEnd(t)
  \/ Notice \/ Settled \/ Tick

RenderSpec == RenderInit /\ [][RenderNext]_renderVars

-----------------------------------------------------------------------------
\* The line of a tool that ended is written, and written once, however many tools
\* run side by side and however often a running one is redrawn.
ToolLinesOnce ==
  \A t \in Tools : screen.lines[t] = IF tool[t] = "done" THEN 1 ELSE 0

\* While a block is open the half line on the screen is neither erased by a frame
\* of the spinner nor by the redrawn tool.
KeepsOpenLine == open # NoBlock /\ open' = open => open \notin screen'.lost \ screen.lost
OpenLineIsKept == [][KeepsOpenLine]_renderVars

\* Why the open line is kept: #midLine is what the stream of the open block says, and
\* the half lines on the last row are of blocks whose stream stands inside a line.
Screens == [row : SUBSET (Blocks \cup {"tool"}), lost : SUBSET Blocks, lines : [Tools -> Nat], frames : BOOLEAN]
HalfLines ==
  /\ screen \in Screens
  /\ atStart \in [Blocks -> BOOLEAN] /\ midLine \in BOOLEAN
  /\ open # NoBlock => open \in Blocks \ over /\ midLine = ~atStart[open]
  /\ \A b \in Blocks \ over : b \in screen.row => ~atStart[b]

\* Why a line is drawn once: the lines that were drawn are those of the tools that
\* ended.
LinesAreDrawn ==
  /\ tool \in [Tools -> {"none", "live", "done"}] /\ drawn = DoneOf(tool)
  /\ screen.lines = [t \in Tools |-> IF t \in drawn THEN 1 ELSE 0]

\* No part of the answer is ever erased, and no frame of the spinner stays.
AnswerIsKept == screen.lost = {}
FramesAreErased == ~screen.frames
=============================================================================
