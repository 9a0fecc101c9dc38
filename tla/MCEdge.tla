-------------------------------- MODULE MCEdge --------------------------------
(* Components that share no state, one instance of each, explored in one run:  *)
(* the two ends of the socket, the scripted backend, the terminal and what is  *)
(* drawn on it, the status file, and the files and commits of the user.  The   *)
(* scene says which one it is; the variables of the others stay 0.             *)
EXTENDS Integers, Sequences, FiniteSets

CONSTANTS Budget, MaxRetry, MaxCalls, MaxTurns, MaxKeys, Blocks, Tools, MaxEvents, MaxEntries,
          MaxQuery, MaxRows, MaxRuns, MaxMessage, MaxEdits, MaxPublished, MaxDeaths

\* A block and a tool are not what stands for none of them, nor for a tool's line; a
\* sleep is a unit at least.
ASSUME EdgeAssumption ==
    /\ {"none", "tool"} \cap Blocks = {} /\ "none" \notin Tools
    /\ Budget \in Nat /\ MaxRetry \in Nat \ {0}

VARIABLES
    scene,
    daemon, version, clock, wait, due, client, closing, linked, greeted, calls, running, toServer, toPeer,
    served,
    scenario, session, turn, steps, fakePc, phase, aborted, answer, blocks, lastBlock, pendingUi, early,
    transcript, usage, out, ended,
    typed, cancels, unread, pending, timer, keys, torn, raw, tty, guards, exited,
    inPlace, open, atStart, held, over, midLine, rowBusy, tool, drawn, active, spinner, frame, finished,
    screen, events,
    list, entries, keeps, preview, rows, query, selected, mark, result,
    draftPc, tree, hash, shell, message, command, run, committed, edits,
    rc, own, whole, rcPc, uninstall, before, after, backup, litter, runs, rcEdits, said,
    statusFile, intact, writes, stage, statusTemp, published, maker, earlier, settled, shown, deaths

Link == INSTANCE Connection
Fake == INSTANCE FakeAgent WITH pc <- fakePc
Tty == INSTANCE Terminal
Screen == INSTANCE Renderer WITH timer <- spinner
Choice == INSTANCE Choices
Draft == INSTANCE CommitDraft WITH pc <- draftPc
Rc == INSTANCE Setup WITH pc <- rcPc, edits <- rcEdits
Status == INSTANCE StatusFile WITH temp <- statusTemp

connVars == <<daemon, version, clock, wait, due, client, closing, linked, greeted, calls, running,
    toServer, toPeer, served>>
fakeVars == <<scenario, session, turn, steps, fakePc, phase, aborted, answer, blocks, lastBlock, pendingUi,
    early, transcript, usage, out, ended>>
ttyVars == <<typed, cancels, unread, pending, timer, keys, torn, raw, tty, guards, exited>>
renderVars == <<inPlace, open, atStart, held, over, midLine, rowBusy, tool, drawn, active, spinner, frame,
    finished, screen, events>>
choiceVars == <<list, entries, keeps, preview, rows, query, selected, mark, result>>
commitVars == <<draftPc, tree, hash, shell, message, command, run, committed, edits>>
setupVars == <<rc, own, whole, rcPc, uninstall, before, after, backup, litter, runs, rcEdits, said>>
statusVars == <<statusFile, intact, writes, stage, statusTemp, published, maker, earlier, settled, shown, deaths>>
edgeVars == <<scene, statusVars, connVars, fakeVars, ttyVars, renderVars, choiceVars, commitVars, setupVars>>

LinkIsOff == daemon = 0 /\ version = 0 /\ clock = 0 /\ wait = 0 /\ due = 0 /\ client = 0 /\ closing = 0 /\
    linked = 0 /\ greeted = 0 /\ calls = 0 /\ running = 0 /\ toServer = 0 /\ toPeer = 0 /\ served = 0
FakeIsOff == scenario = 0 /\ session = 0 /\ turn = 0 /\ steps = 0 /\ fakePc = 0 /\ phase = 0 /\ aborted = 0 /\
    answer = 0 /\ blocks = 0 /\ lastBlock = 0 /\ pendingUi = 0 /\ early = 0 /\ transcript = 0 /\ usage = 0
    /\ out = 0 /\ ended = 0
TtyIsOff == typed = 0 /\ cancels = 0 /\ unread = 0 /\ pending = 0 /\ timer = 0 /\ keys = 0 /\ torn = 0 /\
    raw = 0 /\ tty = 0 /\ guards = 0 /\ exited = 0
ScreenIsOff == inPlace = 0 /\ open = 0 /\ atStart = 0 /\ held = 0 /\ over = 0 /\ midLine = 0 /\ rowBusy =
    0 /\ tool = 0 /\ drawn = 0 /\ active = 0 /\ spinner = 0 /\ frame = 0 /\ finished = 0 /\ screen = 0 /\
    events = 0
ChoiceIsOff == list = 0 /\ entries = 0 /\ keeps = 0 /\ preview = 0 /\ rows = 0 /\ query = 0 /\ selected =
    0 /\ mark = 0 /\ result = 0
DraftIsOff == draftPc = 0 /\ tree = 0 /\ hash = 0 /\ shell = 0 /\ message = 0 /\ command = 0 /\ run = 0 /\
    committed = 0 /\ edits = 0
RcIsOff == rc = 0 /\ own = 0 /\ whole = 0 /\ rcPc = 0 /\ uninstall = 0 /\ before = 0 /\ after = 0 /\
    backup = 0 /\ litter = 0 /\ runs = 0 /\ rcEdits = 0 /\ said = 0

StatusIsOff == statusFile = 0 /\ intact = 0 /\ writes = 0 /\ stage = 0 /\ statusTemp = 0 /\ published = 0 /\
    maker = 0 /\ earlier = 0 /\ settled = 0 /\ shown = 0 /\ deaths = 0

EdgeInit ==
    \/ scene = "connection" /\ Link!ConnInit /\ FakeIsOff /\ TtyIsOff /\ ScreenIsOff
       /\ ChoiceIsOff /\ DraftIsOff /\ RcIsOff /\ StatusIsOff
    \/ scene = "fake" /\ Fake!Init /\ LinkIsOff /\ TtyIsOff /\ ScreenIsOff
       /\ ChoiceIsOff /\ DraftIsOff /\ RcIsOff /\ StatusIsOff
    \/ scene = "terminal" /\ Tty!TermInit /\ LinkIsOff /\ FakeIsOff /\ ScreenIsOff
       /\ ChoiceIsOff /\ DraftIsOff /\ RcIsOff /\ StatusIsOff
    \/ scene = "screen" /\ Screen!RenderInit /\ LinkIsOff /\ FakeIsOff /\ TtyIsOff
       /\ ChoiceIsOff /\ DraftIsOff /\ RcIsOff /\ StatusIsOff
    \/ scene = "choice" /\ Choice!ChoiceInit /\ LinkIsOff /\ FakeIsOff /\ TtyIsOff
       /\ ScreenIsOff /\ DraftIsOff /\ RcIsOff /\ StatusIsOff
    \/ scene = "draft" /\ Draft!CommitInit /\ LinkIsOff /\ FakeIsOff /\ TtyIsOff
       /\ ScreenIsOff /\ ChoiceIsOff /\ RcIsOff /\ StatusIsOff
    \/ scene = "setup" /\ Rc!SetupInit /\ LinkIsOff /\ FakeIsOff /\ TtyIsOff
       /\ ScreenIsOff /\ ChoiceIsOff /\ DraftIsOff /\ StatusIsOff
    \/ scene = "status" /\ Status!StatusInit /\ LinkIsOff /\ FakeIsOff /\ TtyIsOff
       /\ ScreenIsOff /\ ChoiceIsOff /\ DraftIsOff /\ RcIsOff

\* A step of one scene leaves the others alone.
LinkOnly == scene = "connection" /\ UNCHANGED <<scene, fakeVars, ttyVars, renderVars, choiceVars,
    commitVars, setupVars, statusVars>>
FakeOnly == scene = "fake" /\ UNCHANGED <<scene, connVars, ttyVars, renderVars, choiceVars,
    commitVars, setupVars, statusVars>>
TtyOnly == scene = "terminal" /\ UNCHANGED <<scene, connVars, fakeVars, renderVars, choiceVars,
    commitVars, setupVars, statusVars>>
ScreenOnly == scene = "screen" /\ UNCHANGED <<scene, connVars, fakeVars, ttyVars, choiceVars,
    commitVars, setupVars, statusVars>>
ChoiceOnly == scene = "choice" /\ UNCHANGED <<scene, connVars, fakeVars, ttyVars, renderVars,
    commitVars, setupVars, statusVars>>
DraftOnly == scene = "draft" /\ UNCHANGED <<scene, connVars, fakeVars, ttyVars, renderVars,
    choiceVars, setupVars, statusVars>>
RcOnly == scene = "setup" /\ UNCHANGED <<scene, connVars, fakeVars, ttyVars, renderVars,
    choiceVars, commitVars, statusVars>>
StatusOnly == scene = "status" /\ UNCHANGED <<scene, connVars, fakeVars, ttyVars, renderVars,
    choiceVars, commitVars, setupVars>>

EdgeNext ==
    \/ LinkOnly /\ Link!ConnNext
    \/ FakeOnly /\ Fake!Next
    \/ TtyOnly /\ Tty!TermNext
    \/ ScreenOnly /\ Screen!RenderNext
    \/ ChoiceOnly /\ Choice!ChoiceNext
    \/ DraftOnly /\ Draft!CommitNext
    \/ RcOnly /\ Rc!SetupNext
    \/ StatusOnly /\ Status!StatusNext

\* The fairness of Connection, FakeAgent, Terminal and StatusFile.
EdgeSpec ==
    /\ EdgeInit /\ [][EdgeNext]_edgeVars
    /\ WF_edgeVars(LinkOnly /\ Link!OpenFirst) /\ WF_edgeVars(LinkOnly /\ Link!OpenAgain) /\ WF_edgeVars(LinkOnly /\ Link!Tick)
    /\ WF_edgeVars(LinkOnly /\ Link!ClientReads) /\ WF_edgeVars(LinkOnly /\ Link!ClientSeesClose)
    /\ WF_edgeVars(LinkOnly /\ Link!HelloTimeout) /\ WF_edgeVars(LinkOnly /\ client = "failed" /\ Link!ClientCloses)
    /\ WF_edgeVars(LinkOnly /\ Link!ServerReads) /\ WF_edgeVars(LinkOnly /\ Link!OperationEnds)
    /\ WF_edgeVars(LinkOnly /\ Link!ServerClosed)
    /\ WF_edgeVars(FakeOnly /\ Fake!Play)
    /\ \A p \in Status!Publishers : WF_edgeVars(StatusOnly /\ Status!WriteStatus(p))
    /\ WF_edgeVars(TtyOnly /\ Tty!EscTimer) /\ WF_edgeVars(TtyOnly /\ Tty!Read)
\* With what a user may do at a bad moment as well: staging beside a commit, and an
\* editor that saves the rc file while setup asks.
LooseNext == EdgeNext \/ (DraftOnly /\ Draft!LooseCommitNext) \/ (RcOnly /\ Rc!EditsLate)
LooseSpec == EdgeInit /\ [][LooseNext]_edgeVars
-----------------------------------------------------------------------------
\* Every call of a client is settled, its search for a daemon and the daemon's
\* shutdown end, a scripted turn hears its abort, a lone Esc is reported, and a
\* status that cannot be written holds up none behind it (connection.ts,
\* server.ts:254, fake/adapter.ts, tty.ts, status-file.ts:13).
NobodyWaitsForEver ==
    /\ \A id \in 1..MaxCalls : (scene = "connection" /\ Link!Asked(id)) ~> (scene = "connection" => ~Link!Asked(id))
    /\ (scene = "connection" /\ Link!Looking) ~> (scene = "connection" => ~Link!Looking)
    /\ (scene = "connection" /\ daemon = "stopping") ~> (scene = "connection" => daemon = "stopped")
    /\ (scene = "fake" /\ Fake!Hearing) ~> (scene = "fake" => ~Fake!Hearing)
    /\ (scene = "status" /\ Status!Waiting) ~> (scene = "status" => ~Status!Waiting)
    /\ (scene = "terminal" /\ Tty!EscIsHeld) ~> (scene = "terminal" => ~Tty!EscIsHeld)

\* An answer reaches its own call, the search for a daemon keeps its budget, a
\* stopped server has no connection left, and a scripted turn keeps the port's
\* contract and joins the conversation only when it completed.
PeersKeepTheirWord ==
    /\ scene = "connection" => Link!AnswersMatch /\ Link!LookingIsBounded /\ Link!ClosedServerIsAlone
    /\ scene = "fake" => Fake!Contract /\ Fake!OnlyCompletedTurnsJoin

\* No byte is lost, an arrow is no cancel, the terminal leaves raw mode; a tool's
\* line is drawn once; the entry the screen marks is the one Enter takes; the prompt
\* never reads half a status (tty.ts, renderer.ts, picker.ts, dialogs.ts, status.ts:3).
TerminalTellsTheTruth ==
    /\ scene = "terminal" => Tty!NothingTypedIsLost /\ Tty!ArrowIsNoCancel /\ Tty!TerminalIsRestored
    /\ scene = "screen" => Screen!ToolLinesOnce
    /\ scene = "choice" => Choice!ChosenIsMarked
    /\ scene = "status" => Status!NeverHalf

\* A commit holds the changes and the message that were drafted, and the rc file is
\* what the user wrote (commit-proposal.ts, staged-diff.ts, cli/setup.ts).
FilesAndCommitsAreTheUsers ==
    /\ scene = "draft" => Draft!OfferedIsOneWord /\ Draft!CommittedIsDrafted
    /\ scene = "setup" => Rc!RcIsTheUsers

\* A redraw leaves the open half line of the answer, the client gives up its search
\* only in vain, and a status never goes back to one that was published before it
\* (renderer.ts, #poll of connection.ts, status-file.ts).
StaysInBounds ==
    /\ scene = "screen" => Screen!KeepsOpenLine
    /\ scene = "status" => Status!NeverBack
    /\ scene = "connection" => (Link!GivesUp => daemon # "serving" /\ clock >= Budget)
NoStepOversteps == [][StaysInBounds]_edgeVars

\* Statements of comments and documents that the code does not meet (EdgeGaps.cfg).
CommittedIsDrafted == scene = "draft" => Draft!CommittedIsDrafted
RcIsTheUsers == scene = "setup" => Rc!RcIsTheUsers
AnswerIsKept == scene = "screen" => Screen!AnswerIsKept
FramesAreErased == scene = "screen" => Screen!FramesAreErased
===============================================================================
