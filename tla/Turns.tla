------------------------------- MODULE Turns -------------------------------
(***************************************************************************)
(* The turn lifecycle of the prefaix daemon: TurnManager (turns.ts), the   *)
(* turn operations of Operations (operations.ts), and the part of Daemon   *)
(* (daemon.ts) that publishes background status and shuts down.            *)
(*                                                                         *)
(* One step is one synchronous section of the event loop: a handler runs   *)
(* from one await to the next without interruption, and everything else    *)
(* may happen between two sections.  The agent, the disk and the child     *)
(* pool appear as the outcome of the awaits they resolve.                  *)
(***************************************************************************)
EXTENDS Integers, FiniteSets

CONSTANTS
    Conn,       \* client connections; a connection never reopens
    Conv,       \* conversation ids
    Shell,      \* shell ids, one status file each
    ShellOf,    \* the shell a connection's client runs in
    Edits,      \* values of "is an edit turn" the clients ask for
    Keeps,      \* values of onDisconnect = "continue" the clients ask for
    Slow,       \* connections whose client may stop reading
    Outcomes,   \* stopReasons the agent settles with
    Dialog,     \* dialog ids an agent may use within one turn
    MaxTurns,   \* bound: turns started
    MaxSeq,     \* bound: agent events published per turn
    MaxUses,    \* bound: turn.start and turn.attach requests of a connection
    MaxStops,   \* bound: daemon.stop requests, 0 or 1
    Retained,   \* retainedTurns, conversations whose last turn is kept
    NoConn

Turn == 1..MaxTurns         \* in the order of startedAt
NoTurn == 0

ASSUME TurnsAssumption ==
    /\ MaxTurns \in Nat /\ MaxSeq \in Nat /\ MaxUses \in [Conn -> Nat] /\ MaxStops \in Nat
    /\ Retained \in Nat
    /\ ShellOf \in [Conn -> Shell]
    /\ Slow \subseteq Conn /\ Outcomes \subseteq {"stop", "aborted", "error"}
    /\ Edits \subseteq BOOLEAN /\ Keeps \subseteq BOOLEAN
    /\ IsFiniteSet(Dialog) /\ NoConn \notin Conn

VARIABLES
    open,           \* ~connection.closed
    blocked,        \* socket.writableNeedDrain
    uses,           \* bookkeeping of MaxUses
    req,            \* turn.start requests still resolving their conversation
    phase,          \* where #startTurn and #pump are
    info,           \* the fixed part of a TurnHandle
    outcome,        \* summary.status so far
    seq,            \* last sequence number on the turn's ring
    detached,       \* turns with owner = "detached"
    aborted,        \* turns with controller.signal.aborted
    dialogs,        \* TurnHandle.dialogs
    answered,       \* TurnHandle.answered
    inTurns,        \* keys of #turns
    byConv,         \* #byConversation
    last,           \* #lastByConversation
    owned,          \* #owned
    replaying,      \* #replaying, with the connection that replays
    cursor,         \* next sequence the replay sends
    waiter,         \* connection whose waitWritable the pump awaits
    statusShells,   \* TurnHandle.statusShells
    detachQueued,   \* onDetach calls chained on detachStatus, not yet begun
    detachRunning,  \* turns whose onDetach has begun and not returned
    detachTodo,     \* shells the running onDetach has still to write
    endTodo,        \* shells #onTurnEnd has still to write
    background,     \* #backgroundTurns
    status,         \* content of the shell's status file
    daemon,         \* progress of Daemon.stop
    got,            \* history: c has been sent events 1..got[c][t] of t
    end             \* history: the turn.end c is due for t

connVars == <<open, blocked, uses, req>>
handleVars == <<phase, info, outcome>>
ctlVars == <<detached, aborted, dialogs, answered>>
mapVars == <<inTurns, byConv, last>>
statusVars == <<statusShells, detachQueued, detachRunning, detachTodo, endTodo, background, status>>
sentVars == <<got, end>>
vars == <<connVars, handleVars, seq, ctlVars, mapVars, owned, replaying, cursor,
          waiter, statusVars, daemon, sentVars>>

Request == [conv : Conv, client : Conn, keep : BOOLEAN, edit : BOOLEAN]
NoRequest == [conv |-> NoConn]

Live == {"startup", "streaming", "waiting", "recording", "finishing", "ending"}
Phases == Live \cup {"unused", "finished", "failed"}

Unfinished(t) == phase[t] \in Live
Ended(t) == phase[t] \in {"finished", "failed"}
Finishing(t) == phase[t] \in {"finishing", "ending", "finished"}
Begun == {t \in Turn : phase[t] # "unused"}

ConnTypes ==
    /\ open \in [Conn -> BOOLEAN] /\ blocked \in [Conn -> BOOLEAN]
    /\ uses \in [Conn -> Nat] /\ req \subseteq Request
    /\ daemon \in {"up", "closing", "draining", "closed", "stuck", "released"}

HandleTypes ==
    /\ phase \in [Turn -> Phases]
    /\ info \in [Turn -> Request \cup {NoRequest}]
    /\ \A t \in Begun : info[t] \in Request
    /\ outcome \in [Turn -> {"none", "stop", "aborted", "error"}]
    /\ seq \in [Turn -> Nat]
    /\ detached \subseteq Turn /\ aborted \subseteq Turn
    /\ dialogs \in [Turn -> SUBSET Dialog] /\ answered \in [Turn -> SUBSET Dialog]

MapTypes ==
    /\ inTurns \subseteq Turn
    /\ byConv \in [Conv -> Turn \cup {NoTurn}] /\ last \in [Conv -> Turn \cup {NoTurn}]
    /\ owned \in [Turn -> Conn \cup {NoConn}]
    /\ replaying \in [Turn -> Conn \cup {NoConn}]
    /\ cursor \in [Turn -> Nat] /\ waiter \in [Turn -> Conn \cup {NoConn}]

StatusTypes ==
    /\ statusShells \in [Turn -> SUBSET Shell]
    /\ detachQueued \in [Turn -> Nat] /\ detachRunning \subseteq Turn
    /\ detachTodo \in [Turn -> SUBSET Shell] /\ endTodo \in [Turn -> SUBSET Shell]
    /\ background \in [Shell -> Turn \cup {NoTurn}]
    /\ status \in [Shell -> {"", "running", "done", "error"}]

SentTypes ==
    /\ got \in [Conn -> [Turn -> Nat]]
    /\ end \in [Conn -> [Turn -> {"none", "due", "sent", "twice"}]]

TypeOK == ConnTypes /\ HandleTypes /\ MapTypes /\ StatusTypes /\ SentTypes

Init ==
    /\ open = [c \in Conn |-> TRUE] /\ blocked = [c \in Conn |-> FALSE]
    /\ uses = [c \in Conn |-> 0] /\ req = {}
    /\ phase = [t \in Turn |-> "unused"]
    /\ info = [t \in Turn |-> NoRequest]
    /\ outcome = [t \in Turn |-> "none"]
    /\ seq = [t \in Turn |-> 0]
    /\ detached = {} /\ aborted = {}
    /\ dialogs = [t \in Turn |-> {}] /\ answered = [t \in Turn |-> {}]
    /\ inTurns = {}
    /\ byConv = [k \in Conv |-> NoTurn] /\ last = [k \in Conv |-> NoTurn]
    /\ owned = [t \in Turn |-> NoConn] /\ replaying = [t \in Turn |-> NoConn]
    /\ cursor = [t \in Turn |-> 0] /\ waiter = [t \in Turn |-> NoConn]
    /\ statusShells = [t \in Turn |-> {}] /\ detachQueued = [t \in Turn |-> 0]
    /\ detachRunning = {}
    /\ detachTodo = [t \in Turn |-> {}] /\ endTodo = [t \in Turn |-> {}]
    /\ background = [s \in Shell |-> NoTurn] /\ status = [s \in Shell |-> ""]
    /\ daemon = "up"
    /\ got = [c \in Conn |-> [t \in Turn |-> 0]]
    /\ end = [c \in Conn |-> [t \in Turn |-> "none"]]

-----------------------------------------------------------------------------
(* Sending to clients.                                                     *)

\* Mutants of LiveReader: the pump forwards during a replay, or only to the
\* client that started the turn.
LiveReaderDuringReplay(t) ==
    IF owned[t] \in Conn THEN {c \in {owned[t]} : open[c]} ELSE {}

\* The connection that receives what the pump sends for t now: the owner,
\* unless it is gone or a replay is catching up on its behalf.
LiveReader(t) ==
    IF owned[t] \in Conn /\ replaying[t] = NoConn
    THEN {c \in {owned[t]} : open[c]} ELSE {}

\* What `readers' have been sent of t once events up to n are published.  A
\* reader that is behind stays where the hole in its stream begins.
GotUpTo(t, readers, n) ==
    [c \in Conn |-> IF c \in readers /\ got[c][t] = seq[t]
                    THEN [got[c] EXCEPT ![t] = n] ELSE got[c]]

\* n more events on t's ring, forwarded to the live reader.
Publish(t, n) ==
    /\ seq' = [seq EXCEPT ![t] = @ + n]
    /\ got' = GotUpTo(t, LiveReader(t), seq[t] + n)

EndSent(e) == IF e = "due" THEN "sent" ELSE "twice"
SendEnd(t, readers) ==
    [c \in Conn |-> IF c \in readers THEN [end[c] EXCEPT ![t] = EndSent(@)] ELSE end[c]]

-----------------------------------------------------------------------------
(* Connections.                                                            *)

Block(c) ==
    /\ open[c] /\ ~blocked[c]
    /\ blocked' = [blocked EXCEPT ![c] = TRUE]
    /\ UNCHANGED <<open, uses, req, handleVars, seq, ctlVars, mapVars, owned,
                   replaying, cursor, waiter, statusVars, daemon, sentVars>>

\* The client reads again; of a connection the daemon has closed, or it ends.
Drain(c) ==
    /\ blocked[c]
    /\ blocked' = [blocked EXCEPT ![c] = FALSE]
    /\ UNCHANGED <<open, uses, req, handleVars, seq, ctlVars, mapVars, owned,
                   replaying, cursor, waiter, statusVars, daemon, sentVars>>

\* #cancelDialog for every open dialog of the turns T: answered with a
\* cancellation, closed, and a notice published.
CancelNothing(T) == UNCHANGED <<answered, dialogs, seq>>    \* mutant
CancelDialogs(T) ==
    /\ answered' = [t \in Turn |-> IF t \in T THEN answered[t] \cup dialogs[t] ELSE answered[t]]
    /\ dialogs' = [t \in Turn |-> IF t \in T THEN {} ELSE dialogs[t]]
    /\ seq' = [t \in Turn |-> IF t \in T THEN seq[t] + Cardinality(dialogs[t]) ELSE seq[t]]

\* Their shells will be told, unless finalization has begun.
QueueDetachStatus(T) ==
    detachQueued' = [t \in Turn |-> IF t \in T /\ ~Finishing(t)
                                    THEN detachQueued[t] + 1 ELSE detachQueued[t]]

\* The turns T have become unowned and detached.  Those in `ended' are aborted:
\* the policy says so, or the backend could not take a cancellation.
Unattended(T, ended) ==
    aborted' = aborted \cup ended /\ CancelDialogs(T) /\ QueueDetachStatus(T)

\* releaseConnection: TurnManager.release(turn, "close") for each turn of c
\* still in #turns, with the connection's history forgotten.
Release(c) ==
    LET mine == {t \in Turn : owned[t] = c}
        kept == {t \in mine \cap inTurns : info[t].keep}
        stopped == (mine \cap inTurns) \ kept
    IN /\ owned' = [t \in Turn |-> IF t \in mine THEN NoConn ELSE owned[t]]
       /\ detached' = detached \cup kept
       /\ inTurns' = inTurns \ stopped
       /\ \E stuck \in SUBSET {t \in kept : dialogs[t] # {}} : Unattended(kept, stuck \cup stopped)

\* SocketServer's finish handler: the peer closed, or the socket failed.
Close(c) ==
    /\ open[c]
    /\ open' = [open EXCEPT ![c] = FALSE]
    /\ blocked' = [blocked EXCEPT ![c] = FALSE]
    /\ got' = [got EXCEPT ![c] = [t \in Turn |-> 0]]
    /\ end' = [end EXCEPT ![c] = [t \in Turn |-> "none"]]
    /\ Release(c)
    /\ UNCHANGED <<uses, req, handleVars, byConv, last, replaying, cursor, waiter,
                   statusShells, detachRunning, detachTodo, endTodo, background, status, daemon>>

-----------------------------------------------------------------------------
(* Starting a turn.                                                        *)

\* turn.start, turn.suggest or turn.commit arrives; the conversation is
\* resolved before anything is claimed.
StartRequest(c, r) ==
    /\ open[c] /\ daemon = "up" /\ uses[c] < MaxUses[c]
    /\ r.client = c
    /\ \A q \in req : q.client # c
    /\ req' = req \cup {r}
    /\ uses' = [uses EXCEPT ![c] = @ + 1]
    /\ UNCHANGED <<open, blocked, handleVars, seq, ctlVars, mapVars, owned,
                   replaying, cursor, waiter, statusVars, daemon, sentVars>>

BusyOnceStreaming(k) ==                                     \* mutant
    byConv[k] # NoTurn /\ phase[byConv[k]] \in Live \ {"startup"}
Busy(k) == byConv[k] # NoTurn /\ phase[byConv[k]] \in Live

\* The request fails: the conversation cannot be resolved, is busy, or the
\* daemon has begun to stop.
Refuse(r) ==
    /\ r \in req
    /\ req' = req \ {r}
    /\ UNCHANGED <<open, blocked, uses, handleVars, seq, ctlVars, mapVars, owned,
                   replaying, cursor, waiter, statusVars, daemon, sentVars>>

\* TurnManager.start and the claim of #owned, in one section.
Claim(r, t) ==
    /\ r \in req /\ daemon = "up" /\ ~Busy(r.conv)
    /\ phase[t] = "unused" /\ \A u \in Turn : u < t => phase[u] # "unused"
    /\ req' = req \ {r}
    /\ phase' = [phase EXCEPT ![t] = "startup"]
    /\ info' = [info EXCEPT ![t] = r]
    /\ inTurns' = inTurns \cup {t}
    /\ byConv' = [byConv EXCEPT ![r.conv] = t]
    /\ owned' = [owned EXCEPT ![t] = r.client]
    /\ statusShells' = [statusShells EXCEPT ![t] = {ShellOf[r.client]}]
    /\ end' = IF open[r.client] THEN [end EXCEPT ![r.client][t] = "due"] ELSE end
    /\ UNCHANGED <<open, blocked, uses, outcome, seq, ctlVars, last, replaying, cursor,
                   waiter, detachQueued, detachRunning, detachTodo, endTodo, background, status, daemon,
                   got>>

\* The record is re-read, the plan consumed, a child acquired and its native
\* handle saved; the pump starts in the section that ends the last await.
StartupDone(t) ==
    /\ phase[t] = "startup" /\ daemon = "up"
    /\ phase' = [phase EXCEPT ![t] = "streaming"]
    /\ UNCHANGED <<connVars, info, outcome, seq, ctlVars, mapVars, owned, replaying,
                   cursor, waiter, statusVars, daemon, sentVars>>

\* TurnManager.gcLast: the newest Retained entries stay.
Newest(l) ==
    [k \in Conv |-> IF Cardinality({j \in Conv : l[j] > l[k]}) >= Retained THEN NoTurn ELSE l[k]]

\* TurnManager.finish, for a turn that has not finished.
FinishMaps(t) ==
    LET k == info[t].conv
    IN /\ inTurns' = inTurns \ {t}
       /\ byConv' = IF byConv[k] = t THEN [byConv EXCEPT ![k] = NoTurn] ELSE byConv
       /\ last' = Newest([last EXCEPT ![k] = t])

\* The catch block of #startTurn.  The requester gets an error response, so it
\* waits for no turn.end; nobody else is told.
StartupFailed(t) ==
    /\ phase[t] = "startup"
    /\ phase' = [phase EXCEPT ![t] = "failed"]
    /\ outcome' = [outcome EXCEPT ![t] = "error"]
    /\ FinishMaps(t)
    /\ owned' = [owned EXCEPT ![t] = NoConn]
    /\ end' = IF replaying[t] = info[t].client THEN end
              ELSE [end EXCEPT ![info[t].client][t] = "none"]
    /\ UNCHANGED <<connVars, info, seq, ctlVars, replaying, cursor, waiter,
                   statusVars, daemon, got>>

-----------------------------------------------------------------------------
(* #pump: streaming.                                                       *)

\* After an event the pump awaits the owner's waitWritable, which resolves at
\* once unless the socket is full, open, and the turn not aborted.
PumpNext(t, next) ==
    LET full == owned[t] \in Conn /\ open[owned[t]] /\ blocked[owned[t]] /\ t \notin aborted
    IN /\ phase' = [phase EXCEPT ![t] = IF full THEN "waiting" ELSE next]
       /\ waiter' = [waiter EXCEPT ![t] = IF full THEN owned[t] ELSE NoConn]

AgentEvent(t) ==
    /\ phase[t] = "streaming" /\ seq[t] < MaxSeq
    /\ Publish(t, 1)
    /\ PumpNext(t, "streaming")
    /\ UNCHANGED <<connVars, info, outcome, ctlVars, mapVars, owned, replaying,
                   cursor, statusVars, daemon, end>>

\* ui_request while a client is attached.
AgentAsks(t, d) ==
    /\ phase[t] = "streaming" /\ seq[t] < MaxSeq /\ t \notin detached
    /\ d \notin dialogs[t] \cup answered[t]
    /\ dialogs' = [dialogs EXCEPT ![t] = @ \cup {d}]
    /\ Publish(t, 1)
    /\ PumpNext(t, "streaming")
    /\ UNCHANGED <<connVars, info, outcome, detached, aborted, answered, mapVars, owned,
                   replaying, cursor, statusVars, daemon, end>>

\* ui_request while detached: cancelled at once, and a notice published.
AgentAsksNobody(t, d, stuck) ==
    /\ phase[t] = "streaming" /\ seq[t] < MaxSeq /\ t \in detached
    /\ d \notin dialogs[t] \cup answered[t]
    /\ answered' = [answered EXCEPT ![t] = @ \cup {d}]
    /\ aborted' = IF stuck THEN aborted \cup {t} ELSE aborted
    /\ Publish(t, 1)
    /\ UNCHANGED <<connVars, handleVars, detached, dialogs, mapVars, owned, replaying,
                   cursor, waiter, statusVars, daemon, end>>

\* The stream ends with its settled event.  An edit turn's is withheld until
\* the outcome is final.
Settle(t, s) ==
    /\ phase[t] = "streaming"
    /\ outcome' = [outcome EXCEPT ![t] = s]
    /\ IF info[t].edit THEN UNCHANGED <<seq, got>> ELSE Publish(t, 1)
    /\ PumpNext(t, "recording")
    /\ UNCHANGED <<connVars, info, ctlVars, mapVars, owned, replaying, cursor,
                   statusVars, daemon, end>>

\* The stream throws: a notice, and the settled event in its place.
StreamThrows(t) ==
    /\ phase[t] = "streaming"
    /\ outcome' = [outcome EXCEPT ![t] = IF t \in aborted THEN "aborted" ELSE "error"]
    /\ Publish(t, IF info[t].edit THEN 1 ELSE 2)
    /\ phase' = [phase EXCEPT ![t] = "recording"]
    /\ UNCHANGED <<connVars, info, ctlVars, mapVars, owned, replaying, cursor,
                   waiter, statusVars, daemon, end>>

WaitOverUnlessAborted(t) == ~blocked[waiter[t]] \/ ~open[waiter[t]]    \* mutant
WaitOver(t) == ~blocked[waiter[t]] \/ ~open[waiter[t]] \/ t \in aborted

\* waitWritable resolves: the socket drained or closed, or the turn was aborted.
Writable(t) ==
    /\ phase[t] = "waiting" /\ WaitOver(t)
    /\ phase' = [phase EXCEPT ![t] = IF outcome[t] = "none" THEN "streaming" ELSE "recording"]
    /\ waiter' = [waiter EXCEPT ![t] = NoConn]
    /\ UNCHANGED <<connVars, info, outcome, seq, ctlVars, mapVars, owned, replaying,
                   cursor, statusVars, daemon, sentVars>>

-----------------------------------------------------------------------------
(* #pump: finalization.                                                    *)

\* #recordOutcome resolves; finishing is set in the same section.
Recorded(t) ==
    /\ phase[t] = "recording"
    /\ phase' = [phase EXCEPT ![t] = "finishing"]
    /\ UNCHANGED <<connVars, info, outcome, seq, ctlVars, mapVars, owned, replaying,
                   cursor, waiter, statusVars, daemon, sentVars>>

RecordFailed(t) ==
    /\ phase[t] = "recording"
    /\ phase' = [phase EXCEPT ![t] = "finishing"]
    /\ outcome' = [outcome EXCEPT ![t] = "error"]
    /\ Publish(t, 1)
    /\ UNCHANGED <<connVars, info, ctlVars, mapVars, owned, replaying, cursor,
                   waiter, statusVars, daemon, end>>

NextDetach(t) == detachQueued[t] > 0 /\ t \notin detachRunning

\* The next onDetach on the detachStatus chain begins.
OnDetachBegin(t) ==
    /\ NextDetach(t)
    /\ detachRunning' = detachRunning \cup {t}
    /\ detachQueued' = [detachQueued EXCEPT ![t] = @ - 1]
    /\ detachTodo' = [detachTodo EXCEPT ![t] = statusShells[t]]
    /\ UNCHANGED <<connVars, handleVars, seq, ctlVars, mapVars, owned, replaying, cursor,
                   waiter, statusShells, endTodo, background, status, daemon, sentVars>>

\* onDetach for one shell, up to and including its queued status write.
OnDetachWrite(t, s) ==
    /\ s \in detachTodo[t]
    /\ detachTodo' = [detachTodo EXCEPT ![t] = @ \ {s}]
    /\ background' = [background EXCEPT ![s] = t]
    /\ status' = [status EXCEPT ![s] = "running"]
    /\ UNCHANGED <<connVars, handleVars, seq, ctlVars, mapVars, owned, replaying, cursor,
                   waiter, statusShells, detachQueued, detachRunning, endTodo, daemon,
                   sentVars>>

\* onDetach returns.
OnDetachEnd(t) ==
    /\ t \in detachRunning /\ detachTodo[t] = {}
    /\ detachRunning' = detachRunning \ {t}
    /\ UNCHANGED <<connVars, handleVars, seq, ctlVars, mapVars, owned, replaying, cursor,
                   waiter, statusShells, detachQueued, detachTodo, endTodo, background,
                   status, daemon, sentVars>>

DetachStatusSettled(t) == detachQueued[t] = 0 /\ t \notin detachRunning

\* detachStatus has resolved and #onTurnEnd begins.
OnEndBegin(t) ==
    /\ phase[t] = "finishing" /\ DetachStatusSettled(t)
    /\ phase' = [phase EXCEPT ![t] = "ending"]
    /\ endTodo' = [endTodo EXCEPT ![t] = statusShells[t]]
    /\ UNCHANGED <<connVars, info, outcome, seq, ctlVars, mapVars, owned, replaying, cursor,
                   waiter, statusShells, detachQueued, detachRunning, detachTodo,
                   background, status, daemon, sentVars>>

StatusIsAnyones(t, s) == TRUE                               \* mutant
StatusIsOurs(t, s) == background[s] \in {NoTurn, t}

\* #onTurnEnd for one shell: a newer detached turn's status is left alone.
OnEndWrite(t, s) ==
    /\ s \in endTodo[t]
    /\ endTodo' = [endTodo EXCEPT ![t] = @ \ {s}]
    /\ status' = IF StatusIsOurs(t, s)
                 THEN [status EXCEPT ![s] = IF outcome[t] = "error" THEN "error" ELSE "done"]
                 ELSE status
    /\ UNCHANGED <<connVars, handleVars, seq, ctlVars, mapVars, owned, replaying, cursor,
                   waiter, statusShells, detachQueued, detachRunning, detachTodo, background,
                   daemon, sentVars>>

\* The last section of #pump: an edit turn's proposal and settled event, the
\* maps, and turn.end for the owner unless a replay will send it.
Finish(t) ==
    LET final == IF info[t].edit /\ t \in aborted THEN "aborted" ELSE outcome[t]
        extra == IF ~info[t].edit THEN 0 ELSE IF final = "stop" THEN 2 ELSE 1
    IN /\ phase[t] = "ending" /\ endTodo[t] = {}
       /\ phase' = [phase EXCEPT ![t] = "finished"]
       /\ outcome' = [outcome EXCEPT ![t] = final]
       /\ Publish(t, extra)
       /\ FinishMaps(t)
       /\ owned' = [owned EXCEPT ![t] = NoConn]
       /\ end' = SendEnd(t, LiveReader(t))
       /\ UNCHANGED <<connVars, info, ctlVars, replaying, cursor, waiter, statusVars, daemon>>

-----------------------------------------------------------------------------
(* Controls: attach, detach, abort, answer.                                *)

LastFor(k) == IF byConv[k] # NoTurn THEN byConv[k] ELSE last[k]

\* An unfinished turn may be followed if its owner is gone or asks again.
MayFollowAnyway(c, t) == TRUE                               \* mutant
MayFollow(c, t) ==
    ~info[t].edit /\ (owned[t] \in Conn => ~open[owned[t]] \/ owned[t] = c)

\* turn.attach with follow, up to the replay's first event.
Follow(c, t) ==
    /\ open[c] /\ daemon = "up" /\ uses[c] < MaxUses[c]
    /\ \E k \in Conv : t = LastFor(k)
    /\ replaying[t] = NoConn
    /\ Unfinished(t) => MayFollow(c, t)
    /\ uses' = [uses EXCEPT ![c] = @ + 1]
    /\ owned' = IF Unfinished(t) THEN [owned EXCEPT ![t] = c] ELSE owned
    /\ detached' = IF Unfinished(t) THEN detached \ {t} ELSE detached
    /\ replaying' = [replaying EXCEPT ![t] = c]
    /\ cursor' = [cursor EXCEPT ![t] = 1]
    \* a running iteration over statusShells also visits a shell added to it
    /\ statusShells' = [statusShells EXCEPT ![t] = @ \cup {ShellOf[c]}]
    /\ LET added == {ShellOf[c]} \ statusShells[t]
       IN /\ detachTodo' = IF t \in detachRunning
                           THEN [detachTodo EXCEPT ![t] = @ \cup added] ELSE detachTodo
          /\ endTodo' = IF phase[t] = "ending"
                        THEN [endTodo EXCEPT ![t] = @ \cup added] ELSE endTodo
    /\ got' = [got EXCEPT ![c][t] = 0]
    /\ end' = [end EXCEPT ![c][t] = "due"]
    /\ UNCHANGED <<open, blocked, req, handleVars, seq, aborted, dialogs, answered, mapVars,
                   waiter, detachQueued, detachRunning, background, status, daemon>>

\* The replay goes on when its socket has drained after the event before.
ReplayReady(t) == cursor[t] = 1 \/ ~blocked[replaying[t]]

\* Nothing is left on the ring.
OneLeft(t) == cursor[t] >= seq[t]                           \* mutant
CaughtUp(t) == cursor[t] > seq[t]

ReplaySend(t) ==
    LET c == replaying[t]
    IN /\ c \in Conn /\ open[c] /\ ReplayReady(t)
       /\ cursor[t] <= seq[t]
       /\ cursor' = [cursor EXCEPT ![t] = @ + 1]
       /\ got' = [got EXCEPT ![c][t] = IF @ = cursor[t] - 1 THEN cursor[t] ELSE @]
       /\ UNCHANGED <<connVars, handleVars, seq, ctlVars, mapVars, owned, replaying,
                      waiter, statusVars, daemon, end>>

\* Caught up: turn.end if the turn has a summary, else the
\* owner is handed over to live forwarding.
ReplayEnd(t) ==
    LET c == replaying[t]
    IN /\ c \in Conn /\ open[c] /\ ReplayReady(t)
       /\ CaughtUp(t)
       /\ replaying' = [replaying EXCEPT ![t] = NoConn]
       /\ cursor' = [cursor EXCEPT ![t] = 0]
       /\ end' = IF ~Unfinished(t) THEN SendEnd(t, {c})
                 ELSE IF owned[t] # c THEN [end EXCEPT ![c][t] = "none"] ELSE end
       /\ UNCHANGED <<connVars, handleVars, seq, ctlVars, mapVars, owned, waiter,
                      statusVars, daemon, got>>

\* The replaying client went away: the replay stops and releases it again.
ReplayClosed(t) ==
    LET c == replaying[t]
    IN /\ c \in Conn /\ ~open[c]
       /\ replaying' = [replaying EXCEPT ![t] = NoConn]
       /\ cursor' = [cursor EXCEPT ![t] = 0]
       /\ Release(c)
       /\ UNCHANGED <<connVars, handleVars, byConv, last, waiter, statusShells,
                      detachRunning, detachTodo, endTodo, background, status, daemon, sentVars>>

\* turn.detach, granted to the owner of a turn that is not finalizing.
Detach(c, t) ==
    /\ open[c] /\ daemon = "up"
    /\ t \in inTurns /\ ~Finishing(t) /\ owned[t] = c /\ ~info[t].edit
    /\ owned' = [owned EXCEPT ![t] = NoConn]
    /\ detached' = detached \cup {t}
    /\ \E stuck \in SUBSET (IF dialogs[t] = {} THEN {} ELSE {t}) : Unattended({t}, stuck)
    /\ end' = IF replaying[t] = c THEN end ELSE [end EXCEPT ![c][t] = "none"]
    /\ UNCHANGED <<connVars, handleVars, mapVars, replaying, cursor, waiter, statusShells,
                   detachRunning, detachTodo, endTodo, background, status, daemon, got>>

\* turn.abort by turn id, from anyone; by conversation, for a detached turn or
\* one's own.
Abort(c, t) ==
    /\ open[c] /\ daemon = "up" /\ t \notin aborted
    /\ \/ t \in inTurns
       \/ \E k \in Conv : t = byConv[k] /\ t # NoTurn /\ (t \in detached \/ owned[t] = c)
    /\ aborted' = aborted \cup {t}
    /\ UNCHANGED <<connVars, handleVars, seq, detached, dialogs, answered, mapVars, owned,
                   replaying, cursor, waiter, statusVars, daemon, sentVars>>

\* ui.respond: marked answered, and closed if the child is there to hear it.
UiRespond(t, d, warm) ==
    /\ daemon = "up" /\ \E c \in Conn : open[c]
    /\ t \in inTurns /\ d \in dialogs[t]
    /\ answered' = [answered EXCEPT ![t] = @ \cup {d}]
    /\ dialogs' = IF warm THEN [dialogs EXCEPT ![t] = @ \ {d}] ELSE dialogs
    /\ UNCHANGED <<connVars, handleVars, seq, detached, aborted, mapVars, owned, replaying,
                   cursor, waiter, statusVars, daemon, sentVars>>

-----------------------------------------------------------------------------
(* Daemon.stop.                                                            *)

\* TurnManager.abortAll.
AttachedTurns == {t \in Turn : owned[t] \in Conn}           \* mutant
RunningTurns == {t \in Turn : \E k \in Conv : byConv[k] = t}

Stop ==
    /\ daemon = "up" /\ MaxStops > 0
    /\ daemon' = "closing"
    /\ aborted' = aborted \cup RunningTurns
    /\ UNCHANGED <<connVars, handleVars, seq, detached, dialogs, answered, mapVars, owned,
                   replaying, cursor, waiter, statusVars, sentVars>>

\* pool.close resolves or, with a child that will not die, rejects; nothing in
\* the daemon calls stop again.
PoolClosed(ok) ==
    /\ daemon = "closing"
    /\ daemon' = IF ok THEN "draining" ELSE "stuck"
    /\ UNCHANGED <<connVars, handleVars, seq, ctlVars, mapVars, owned, replaying, cursor,
                   waiter, statusVars, sentVars>>

PumpsDone == \A t \in Turn : ~Unfinished(t) \/ phase[t] = "startup"      \* mutant
PendingDone == req = {} /\ \A t \in Turn : ~Unfinished(t)

\* Operations.drain is over: #pending holds no start and no pump.  The server
\* closes every socket without telling Operations.
Drained ==
    /\ daemon = "draining"
    /\ PendingDone
    /\ daemon' = "closed"
    /\ open' = [c \in Conn |-> FALSE]
    /\ got' = [c \in Conn |-> [t \in Turn |-> 0]]
    /\ end' = [c \in Conn |-> [t \in Turn |-> "none"]]
    /\ UNCHANGED <<blocked, uses, req, handleVars, seq, ctlVars, mapVars, owned, replaying,
                   cursor, waiter, statusVars>>

\* server.close resolves when every socket has ended, which takes a client that
\* reads what is left; then the lock goes.
LockReleased ==
    /\ daemon = "closed" /\ \A c \in Conn : ~blocked[c]
    /\ daemon' = "released"
    /\ UNCHANGED <<connVars, handleVars, seq, ctlVars, mapVars, owned, replaying, cursor,
                   waiter, statusVars, sentVars>>

-----------------------------------------------------------------------------

\* What clients do, when they please.
ClientNext ==
    \/ \E c \in Slow : Block(c) \/ Drain(c)
    \/ \E c \in Conn : Close(c)
    \/ \E r \in Request : /\ r.keep \in Keeps /\ r.edit \in Edits
                          /\ StartRequest(r.client, r)
    \/ \E c \in Conn, t \in Turn : Follow(c, t) \/ Detach(c, t) \/ Abort(c, t)
    \/ \E t \in Turn, d \in Dialog, warm \in BOOLEAN : UiRespond(t, d, warm)

\* What the agent does, when it pleases.
AgentNext ==
    \E t \in Turn :
        \/ AgentEvent(t)
        \/ \E d \in Dialog : AgentAsks(t, d)
        \/ \E d \in Dialog, stuck \in BOOLEAN : AgentAsksNobody(t, d, stuck)

Resolve(r) == Refuse(r) \/ \E t \in Turn : Claim(r, t)
Startup(t) == StartupDone(t) \/ StartupFailed(t)
StreamEnds(t) == StreamThrows(t) \/ \E s \in Outcomes : Settle(t, s)
Record(t) == Recorded(t) \/ RecordFailed(t)
OnDetachStep(t) == OnDetachBegin(t) \/ OnDetachEnd(t) \/ \E s \in Shell : OnDetachWrite(t, s)
Finalize(t) == OnEndBegin(t) \/ Finish(t) \/ \E s \in Shell : OnEndWrite(t, s)
Replay(t) == ReplaySend(t) \/ ReplayEnd(t) \/ ReplayClosed(t)
StopStep == Drained \/ LockReleased \/ \E ok \in BOOLEAN : PoolClosed(ok)

Next ==
    \/ ClientNext \/ AgentNext
    \/ \E r \in req : Resolve(r)
    \/ \E t \in Turn : \/ Startup(t) \/ StreamEnds(t) \/ Writable(t) \/ Record(t)
                       \/ OnDetachStep(t) \/ Finalize(t) \/ Replay(t)
    \/ Stop \/ StopStep

Spec == Init /\ [][Next]_vars

\* Awaits of the disk, of the child pool and of an aborted stream resolve: each
\* has a timeout or a kill behind it.  Nothing is assumed of clients, of the
\* agent while it is not aborted, or of a full socket.
Fairness ==
    /\ \A c \in Conn, k \in Conv, keep \in BOOLEAN, edit \in BOOLEAN :
           LET r == [conv |-> k, client |-> c, keep |-> keep, edit |-> edit]
           IN WF_vars(Resolve(r))
    /\ \A t \in Turn :
           /\ WF_vars(Startup(t)) /\ WF_vars(t \in aborted /\ StreamEnds(t))
           /\ WF_vars(Writable(t)) /\ WF_vars(Record(t)) /\ WF_vars(OnDetachStep(t))
           /\ WF_vars(Finalize(t)) /\ WF_vars(Replay(t))
    /\ WF_vars(StopStep)

FairSpec == Spec /\ Fairness

-----------------------------------------------------------------------------
(* Properties.                                                             *)

\* #byConversation is exactly the set of unfinished turns: no conversation
\* has two, from the claim through startup and finalization to finish.  This
\* is what isBusy tells the pool and what convRemove and modelSet rely on.
BusyIsExact ==
    \A t \in Turn, k \in Conv :
        byConv[k] = t <=> Unfinished(t) /\ info[t].conv = k

\* A foreground turn whose client was released does not go on unwatched: an
\* unfinished turn nobody owns is detached, or on its way to an abort.
UnownedIsDetachedOrAborted ==
    \A t \in Turn : Unfinished(t) /\ owned[t] = NoConn => t \in detached \cup aborted

\* A detached turn never waits for an answer nobody can give: detaching
\* cancels every open dialog, and a later one is cancelled when it is asked.
DetachedTurnAsksNobody ==
    \A t \in detached : Unfinished(t) => dialogs[t] = {}

\* A turn nobody watches is cared for: detached or stopped, and never waiting for
\* an answer (disconnect, detach and abort of TurnManager).
UnattendedTurnIsCaredFor == UnownedIsDetachedOrAborted /\ DetachedTurnAsksNobody

\* The live reader of a turn has been sent every event on the ring, in order
\* and without a hole: the hand-over from replay to live forwarding loses and
\* repeats nothing.
FollowerIsUpToDate ==
    \A t \in Turn : Unfinished(t) => \A c \in LiveReader(t) : got[c][t] = seq[t]

\* turn.end is the last thing a client hears of a turn, comes once for each
\* start or follow, and only after every event.
EndComesLastAndOnce ==
    \A c \in Conn, t \in Turn :
        /\ end[c][t] # "twice"
        /\ end[c][t] = "sent" => got[c][t] = seq[t]

\* A connected client that started or follows a turn is told that it ended,
\* whichever of the pump and the replay is the one to say so.
EndIsNotLost ==
    \A c \in Conn, t \in Turn :
        phase[t] = "finished" /\ end[c][t] = "due" => ~open[c] \/ replaying[t] = c

\* A client that waits for the end of a turn is told it once, last, and in any
\* case (finish, the pump's turn.end and the replay's).
TurnEndIsTold == EndComesLastAndOnce /\ EndIsNotLost

\* A turn that was run to its end never leaves its shells at "running": the
\* detach that raced with finalization was published before the outcome.
FinishedTurnIsNotRunning ==
    \A t \in Turn, s \in Shell :
        phase[t] = "finished" /\ background[s] = t => status[s] # "running"

\* The status of a shell whose most recently detached turn still runs is
\* "running": the completion of an older turn does not overwrite it.
NewestBackgroundTurnShows ==
    \A t \in Turn, s \in Shell :
        background[s] = t /\ Unfinished(t) /\ (phase[t] = "ending" => s \in endTodo[t])
            => status[s] = "running"

\* What the prompt of a shell shows is true of its newest background turn, while
\* it runs and when it is over (publishDetach, the end of the pump).
StatusIsTrue == FinishedTurnIsNotRunning /\ NewestBackgroundTurnShows

\* The daemon lock is given up only when no turn has an outcome to write, and
\* no start can still create one.
DrainedBeforeUnlock ==
    daemon \in {"closed", "released"} => req = {} /\ \A t \in Turn : ~Unfinished(t)

\* A step never takes an unfinished turn from one connected client and gives
\* it to another.
NoTheft ==
    [][\A t \in Turn : Unfinished(t) /\ owned[t] \in Conn /\ owned'[t] # owned[t]
                       /\ owned'[t] \in Conn => ~open[owned[t]]]_vars

\* An aborted turn ends, whatever its client's socket does meanwhile.
AbortEndsTurn ==
    \A t \in Turn : (t \in aborted /\ Unfinished(t)) ~> ~Unfinished(t)

\* Shutdown completes, however many turns, starts and replays are in flight,
\* unless a child cannot be closed.  A client that does not read delays the
\* last step, the lock, and no other.
StopCompletes ==
    daemon = "closing" ~> \/ daemon \in {"released", "stuck"}
                          \/ daemon = "closed" /\ \E c \in Conn : blocked[c]

(* Why they hold: an inductive invariant, by turn and connection.           *)

\* Who looks after t: it can be found by its id or is being aborted; unowned it
\* is detached or being aborted; detached it has no dialog open.
AttendedTurn(t) ==
    /\ phase[t] \in Live => t \in inTurns \/ t \in aborted
    /\ phase[t] \in Live /\ owned[t] = NoConn => t \in detached \/ t \in aborted
    /\ phase[t] \in Live /\ t \in detached => dialogs[t] = {}
    /\ phase[t] = "unused" => owned[t] = NoConn /\ t \notin detached /\ dialogs[t] = {}
Attended == \A t \in Turn : AttendedTurn(t)

\* What c has been sent, and is owed, of t.  A replay works for the owner unless
\* that has left; it has sent exactly what is before its cursor and owes a
\* turn.end; without one the owner is up to date and is owed a turn.end; and
\* those two are the only connected clients owed one.
Served(t, c) ==
    /\ phase[t] = "unused" => /\ seq[t] = 0 /\ replaying[t] = NoConn /\ owned[t] = NoConn
                              /\ got[c][t] = 0 /\ end[c][t] = "none"
    /\ phase[t] \in {"finished", "failed"} => owned[t] = NoConn
    /\ replaying[t] \in Conn => owned[t] \in {replaying[t], NoConn}
    /\ replaying[t] = c /\ open[c] =>
           got[c][t] + 1 = cursor[t] /\ cursor[t] <= seq[t] + 1 /\ end[c][t] = "due"
    /\ phase[t] \in Live /\ owned[t] = c /\ replaying[t] = NoConn /\ open[c] =>
           end[c][t] = "due" /\ got[c][t] = seq[t]
    /\ phase[t] \in Live /\ end[c][t] = "due" => ~open[c] \/ owned[t] = c \/ replaying[t] = c
    /\ phase[t] \in Live => end[c][t] \in {"none", "due"}
    /\ end[c][t] # "twice" /\ (end[c][t] = "sent" => got[c][t] = seq[t])
    /\ phase[t] = "finished" /\ end[c][t] = "due" => ~open[c] \/ replaying[t] = c

AllServed == \A t \in Turn, c \in Conn : Served(t, c)
LastEnded == \A k \in Conv : last[k] # NoTurn => phase[last[k]] \in {"finished", "failed"}

\* The three together: inductive with TypeOK and BusyIsExact.
Inductive == Attended /\ AllServed /\ LastEnded

\* The status writes of t: its detaches are over when #onTurnEnd begins, which
\* is what the wait for detachStatus is for, and each writes only to shells it knows.
Published(t) ==
    /\ phase[t] \in {"unused", "ending", "finished"} => DetachStatusSettled(t)
    /\ t \notin detachRunning => detachTodo[t] = {}
    /\ phase[t] # "ending" => endTodo[t] = {}
    /\ detachTodo[t] \subseteq statusShells[t] /\ endTodo[t] \subseteq statusShells[t]

\* What shell s shows of t, when t is the turn it was last told of.
Shows(t, s) ==
    background[s] = t =>
        /\ phase[t] # "unused" /\ s \in statusShells[t]
        /\ phase[t] \in Live \ {"ending"} \/ s \in endTodo[t] => status[s] = "running"
        /\ phase[t] \in {"ending", "finished"} /\ s \notin endTodo[t] => status[s] # "running"

\* Inductive with TypeOK, BusyIsExact and Inductive.
AllShown == \A t \in Turn : Published(t) /\ \A s \in Shell : Shows(t, s)

-----------------------------------------------------------------------------
(* What the documentation says and the code does not do.                   *)

\* operations.ts:163: "A client socket went away. The turn's own disconnect
\* policy decides between aborting and leaving it running".  Applied even when
\* the client went away while its turn.start was resolving?
GoneOwnerIsReleased ==
    \A t \in Turn : Unfinished(t) /\ owned[t] \in Conn => open[owned[t]]

\* DESIGN 4.3.3: "The final metadata write and status publication finish
\* before ownership is released and turn.end is sent".  Told to the follower
\* of a turn that fails in startup as well?
FollowerHearsEveryEnd ==
    \A c \in Conn, t \in Turn :
        Ended(t) /\ end[c][t] = "due"
            => ~open[c] \/ replaying[t] = c

\* DESIGN 4.3.3: "daemon writes running / done / error for the originating and
\* following shell IDs".  A turn that fails in startup after being detached?
EndedTurnIsNotRunning ==
    \A t \in Turn, s \in Shell :
        phase[t] = "failed" /\ background[s] = t /\ detachQueued[t] = 0 => status[s] # "running"
=============================================================================
