------------------------------ MODULE MCServices ------------------------------
(* Components that share no state, one instance of each, explored in one run:  *)
(* the events of a turn, from the agent to a client, the operations on          *)
(* conversations, a line in the shell, the configuration and what the model is *)
(* told of the shell.  The scene says which one it is; the variables of the    *)
(* others stay 0.                                                              *)
EXTENDS Integers, Sequences, FiniteSets

CONSTANTS Ids, Nested, Throttle, MaxTime, MaxRecords, MaxValues, MaxReads, Shells, Roots,
          MaxConversations, MaxOperations, MaxCrashes, Conversations, MaxRuns, RingSizes, MaxPushed, Limits,
          MaxCommands

VARIABLES
    scene,
    edit, announced, settled, reason, previous, response, total, emitted, usageAt, running, dialogs,
    blocks, blockCount, now, out, piMessage, piEnded, piTools, piCount, piUsage,
    accepted, buffered, waiting, state, answer, signal, left,
    policy, index, warm, holder, op, plan, chosen, finished, spent, made, begun, crashes,
    shell, config, loaded, linePc, continued, buffer, sequence, file, conversation, earlier, used, ran,
    swallowed,
    document, field, stray, inFile, inEnv, persona, resolved,
    limitBytes, log, entries, pinned, over, reader, cursor, batch, summary, got, told, wanted, closed,
    limit, exitCodes, redacts, pluginLimit, recent, command, executed, heard

Mapper == INSTANCE TurnMapper
Queue == INSTANCE AsyncQueue
Ring == INSTANCE EventRing
Conv == INSTANCE Conversations WITH running <- holder
Line == INSTANCE ShellPlugin WITH pc <- linePc, previous <- earlier
Config == INSTANCE Configuration
Context == INSTANCE PromptContext WITH told <- heard

mapperVars == <<edit, announced, settled, reason, previous, response, total, emitted, usageAt, running,
    dialogs, blocks, blockCount, now, out, piMessage, piEnded, piTools, piCount, piUsage>>
queueVars == <<accepted, buffered, waiting, state, answer, signal, left>>
convVars == <<policy, index, warm, holder, op, plan, chosen, finished, spent, made, begun, crashes>>
shellVars == <<shell, config, loaded, linePc, continued, buffer, sequence, file, conversation, earlier,
    used, ran, swallowed>>
configVars == <<document, field, stray, inFile, inEnv, persona, resolved>>
ringAll == <<limitBytes, log, entries, pinned, over, reader, cursor, batch, summary, got, told, wanted, closed>>
contextVars == <<limit, exitCodes, redacts, pluginLimit, recent, command, executed, heard>>
vars == <<scene, contextVars, mapperVars, queueVars, ringAll, convVars, shellVars, configVars>>

ContextIsOff == limit = 0 /\ exitCodes = 0 /\ redacts = 0 /\ pluginLimit = 0 /\ recent = 0 /\ command = 0 /\
    executed = 0 /\ heard = 0
MapperIsOff == edit = 0 /\ announced = 0 /\ settled = 0 /\ reason = 0 /\ previous = 0 /\ response = 0 /\
    total = 0 /\ emitted = 0 /\ usageAt = 0 /\ running = 0 /\ dialogs = 0 /\ blocks = 0 /\ blockCount = 0
    /\ now = 0 /\ out = 0 /\ piMessage = 0 /\ piEnded = 0 /\ piTools = 0 /\ piCount = 0 /\ piUsage = 0
QueueIsOff == accepted = 0 /\ buffered = 0 /\ waiting = 0 /\ state = 0 /\ answer = 0 /\ signal = 0 /\ left
    = 0
RingIsOff == limitBytes = 0 /\ log = 0 /\ entries = 0 /\ pinned = 0 /\ over = 0 /\ reader = 0 /\ cursor = 0 /\ batch = 0 /\
    summary = 0 /\ got = 0 /\ told = 0 /\ wanted = 0 /\ closed = 0
ConvIsOff == policy = 0 /\ index = 0 /\ warm = 0 /\ holder = 0 /\ op = 0 /\ plan = 0 /\ chosen = 0 /\
    finished = 0 /\ spent = 0 /\ made = 0 /\ begun = 0 /\ crashes = 0
LineIsOff == shell = 0 /\ config = 0 /\ loaded = 0 /\ linePc = 0 /\ continued = 0 /\ buffer = 0 /\
    sequence = 0 /\ file = 0 /\ conversation = 0 /\ earlier = 0 /\ used = 0 /\ ran = 0 /\ swallowed = 0
ConfigIsOff == document = 0 /\ field = 0 /\ stray = 0 /\ inFile = 0 /\ inEnv = 0 /\ persona = 0 /\
    resolved = 0

Init ==
    \/ scene = "mapper" /\ Mapper!Init /\ QueueIsOff /\ RingIsOff /\ ConvIsOff
       /\ LineIsOff /\ ConfigIsOff /\ ContextIsOff
    \/ scene = "queue" /\ Queue!QueueInit /\ MapperIsOff /\ RingIsOff /\ ConvIsOff
       /\ LineIsOff /\ ConfigIsOff /\ ContextIsOff
    \/ scene = "ring" /\ Ring!RingInit /\ MapperIsOff /\ QueueIsOff /\ ConvIsOff
       /\ LineIsOff /\ ConfigIsOff /\ ContextIsOff
    \/ scene = "conversation" /\ Conv!ConvInit /\ MapperIsOff /\ QueueIsOff /\ RingIsOff
       /\ LineIsOff /\ ConfigIsOff /\ ContextIsOff
    \/ scene = "line" /\ Line!ShellInit /\ MapperIsOff /\ QueueIsOff /\ RingIsOff
       /\ ConvIsOff /\ ConfigIsOff /\ ContextIsOff
    \/ scene = "config" /\ Config!ConfigInit /\ MapperIsOff /\ QueueIsOff /\ RingIsOff
       /\ ConvIsOff /\ LineIsOff /\ ContextIsOff
    \/ scene = "context" /\ Context!ContextInit /\ MapperIsOff /\ QueueIsOff /\ RingIsOff
       /\ ConvIsOff /\ LineIsOff /\ ConfigIsOff

\* A step of one scene leaves the others alone.
MapperOnly == scene = "mapper" /\ UNCHANGED <<scene, queueVars, ringAll, convVars, shellVars, configVars, contextVars>>
QueueOnly == scene = "queue" /\ UNCHANGED <<scene, mapperVars, ringAll, convVars, shellVars, configVars, contextVars>>
RingOnly == scene = "ring" /\ UNCHANGED <<scene, mapperVars, queueVars, convVars, shellVars, configVars, contextVars>>
ConvOnly == scene = "conversation" /\ UNCHANGED <<scene, mapperVars, queueVars, ringAll, shellVars, configVars, contextVars>>
LineOnly == scene = "line" /\ UNCHANGED <<scene, mapperVars, queueVars, ringAll, convVars, configVars, contextVars>>
ConfigOnly == scene = "config" /\ UNCHANGED <<scene, mapperVars, queueVars, ringAll, convVars, shellVars, contextVars>>
ContextOnly == scene = "context" /\ UNCHANGED <<scene, mapperVars, queueVars, ringAll, convVars, shellVars, configVars>>

Next ==
    \/ MapperOnly /\ Mapper!Next
    \/ QueueOnly /\ Queue!QueueNext
    \/ RingOnly /\ Ring!RingNext
    \/ ConvOnly /\ Conv!ConvNext
    \/ LineOnly /\ Line!ShellNext
    \/ ConfigOnly /\ Config!ConfigNext
    \/ ContextOnly /\ Context!ContextNext

Spec == Init /\ [][Next]_vars
\* With what the users may do at a bad moment as well: a call of another shell while a
\* removal or a model call waits, a configuration edited under a loaded plugin, and a
\* limit of 0 under a plugin that was generated with another.
LooseNext ==
    \/ Next
    \/ ConvOnly /\ Conv!LooseConvNext
    \/ LineOnly /\ Line!ShellNextLoose
    \/ ContextOnly /\ Context!LooseContextNext
LooseSpec == Init /\ [][LooseNext]_vars

\* What the proofs rest on.
ASSUME ServicesAssumption ==
    /\ MaxConversations \in Nat \ {0} /\ Roots # {} /\ Conv!NoShell \notin Shells
    /\ Limits \subseteq Nat /\ RingSizes \subseteq Nat /\ MaxPushed \in Nat /\ Throttle \in Nat

\* The words of at most three letters out of three: a name is suggested for a word
\* exactly when one mistake of the keyboard lies between them (grammar.ts).
Words == UNION {[1..n -> 1..3] : n \in 1..3}
ASSUME SuggestionsAreClose == \A a, b \in Words : Line!OneMistakeIsSuggested(a, b)
-----------------------------------------------------------------------------
\* The events of a turn keep the port's contract, its usage is the sum over pi's
\* responses, only the tool of an edit fills the buffer, updates keep their distance
\* (mapping.ts), a reader gets every event once, in order and before the end
\* (async-queue.ts), and who attaches late misses only what the ring had to drop,
\* never how the turn ended (turns.ts:28, operations.ts:478).
EventsTellTheTurn ==
    /\ scene = "mapper" => Mapper!Contract /\ Mapper!UsageIsTheSum
                         /\ Mapper!OnlyTheEditFillsTheBuffer /\ Mapper!UpdatesAreThrottled
    /\ scene = "queue" => Queue!EachReadGetsItsItem
    /\ scene = "ring" => /\ Ring!RingHoldsTheTail /\ Ring!ReaderMissesOnlyTheDropped
                         /\ Ring!FollowerSeesTheSettle

\* A turn runs in the workspace its policy asks for, a conversation keeps the model
\* its user chose, a removed one has no child left, and the turns a client saw
\* complete are in the record (operations.ts).
ConversationsStayTrue ==
    scene = "conversation" => /\ Conv!RunsWhereAsked /\ Conv!ModelIsTheChosen
                              /\ Conv!RemovedIsGone /\ Conv!SeenIsStored

\* What stands in the shell's buffer is of this run, a line keeps all its words, one
\* that is passed is run, and `:c -` goes back to the last other conversation (the
\* plugins, grammar.ts, directives.ts).
LinesAreKept ==
    scene = "line" => /\ Line!ProposalsAreFresh /\ Line!PreviousIsTheLastOther
                      /\ Line!PassedLinesRun /\ Line!GrammarHolds

\* A configuration that loads is what was given, an allowlist filters, a persona of
\* the file replaces the shipped one (core/config, context/env.ts), and the model is
\* told the newest commands, as many as configured (context/shell-context.ts).
SettingsAreWhatWasGiven ==
    /\ scene = "config" => /\ Config!WhatIsGivenIsUsed /\ Config!AllowlistIsKept
                           /\ Config!PersonasAreReplaced /\ Config!SettingsAreReportedOnce
    /\ scene = "context" => Context!ToldIsTheNewest /\ Context!LimitIsKept

\* A completed plan is executed at most once, where it was made, and the shell
\* parses only its own lines (operations.ts:655, the prefix tests of the plugins).
OnlyItsOwnIsRun ==
    [][/\ scene = "conversation" => Conv!ExecutesItsPlan
       /\ scene = "line" => Line!TakesItsOwn]_vars

\* What the documents say, and the code does not do (ServicesGaps.cfg): a stream has no
\* hole, a removed conversation no child, a conversation the model its user chose and the
\* cost of its turns, a passed line runs, the shell and the grammar agree on a line, and
\* no more commands are told than configured.
StreamHasNoHole == scene = "ring" => Ring!StreamHasNoHole
RemovedIsGone == scene = "conversation" => Conv!RemovedIsGone
ModelIsTheChosen == scene = "conversation" => Conv!ModelIsTheChosen
CostIsSpent == scene = "conversation" => Conv!CostIsSpent
PassedLinesRun == scene = "line" => Line!PassedLinesRun
ShellAndGrammarAgree == [][scene = "line" => Line!TakesItsOwn]_vars
LimitIsKept == scene = "context" => Context!LimitIsKept
===============================================================================
