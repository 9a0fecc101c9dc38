------------------------------ MODULE EventRing ------------------------------
(* The bounded event log of one turn (EventRing of daemon/turns.ts) and the    *)
(* paced replay of turn.attach that reads it while the turn goes on            *)
(* (operations.ts).  Turns has the hand-over between the replay and the pump;  *)
(* here the ring drops what no longer fits.                                    *)
EXTENDS Integers, FiniteSetsExt, SequencesExt

CONSTANTS
    RingSizes,    \* limits of the ring
    MaxPushed     \* bound on the events of the turn

VARIABLES
    limitBytes,
    log,          \* history: the kind of every event pushed; #next is one more than its length
    entries,      \* #entries, by sequence number
    pinned,       \* #pinned, 0 before the settle
    over,         \* turn.summary is there
    reader,       \* who attached: "none", "tap" (a snapshot) or "follow"
    cursor,       \* next sequence the replay asks for, 0 when no replay runs
    batch,        \* what `since` returned and the replay has not sent
    summary,      \* snapshotSummary is there
    got,          \* history: sequence numbers the reader was sent
    told,         \* history: fromSeq of the answer, the oldest entry when it attached
    wanted,       \* history: fromSeq of the request, at least 1
    closed        \* history: the reader was sent turn.end

ringVars == <<limitBytes, log, entries, pinned, over>>
readerVars == <<reader, cursor, batch, summary, got, told, wanted, closed>>
ringAll == <<ringVars, readerVars>>

\* Lengths of the events as JSON; one can be longer than the whole ring.
Kinds == {"text", "huge", "settled", "notice"}
Length(kind) == IF kind = "huge" THEN limitBytes + 1 ELSE 1

RingInit ==
    /\ limitBytes \in RingSizes
    /\ log = <<>> /\ entries = <<>> /\ pinned = 0 /\ over = FALSE
    /\ reader = "none" /\ cursor = 0 /\ batch = <<>> /\ summary = FALSE
    /\ got = <<>> /\ told = 0 /\ wanted = 0 /\ closed = FALSE

Bytes(all, seqs) == FoldSeq(LAMBDA seq, sum : Length(all[seq]) + sum, 0, seqs)
\* The oldest entry that is not the settle goes first.
Drop(seqs, keep) == IF seqs[1] = keep THEN <<keep>> \o Tail(Tail(seqs)) ELSE Tail(seqs)
\* The loop of push: what is left after as few drops as make the rest fit.
Trimmed(all, seqs, keep) ==
    LET after[k \in 0 .. Len(seqs) - 1] == IF k = 0 THEN seqs ELSE Drop(after[k - 1], keep)
        enough == {k \in 0 .. Len(seqs) - 1 : Bytes(all, after[k]) <= limitBytes}
    IN  after[IF enough = {} THEN Len(seqs) - 1 ELSE Min(enough)]

OldestSeq == IF entries = <<>> THEN Len(log) + 1 ELSE entries[1]
\* The filter of `since`: the entries in their order, without those before `from`.
Since(from) ==
    LET kept[n \in 0 .. Len(entries)] ==
            IF n = 0 THEN <<>>
            ELSE IF entries[n] >= from THEN Append(kept[n - 1], entries[n]) ELSE kept[n - 1]
    IN  kept[Len(entries)]

\* An event of the turn: into the ring, and to the owner unless a replay serves it.
Push(kind) ==
    /\ Len(log) < MaxPushed /\ ~over
    /\ pinned # 0 => kind = "notice" /\ Last(log) # "notice"
    /\ LET seq == Len(log) + 1
           keep == IF kind = "settled" THEN seq ELSE pinned
           all == Append(log, kind)
       IN  /\ log' = all
           /\ pinned' = keep
           /\ entries' = Trimmed(all, Append(entries, seq), keep)
           /\ got' = IF reader = "follow" /\ cursor = 0 THEN Append(got, seq) ELSE got
    /\ UNCHANGED <<limitBytes, over, reader, cursor, batch, summary, told, wanted, closed>>

\* The turn has ended; an owner that no replay serves is told so.
Finish ==
    /\ pinned # 0 /\ ~over
    /\ over' = TRUE
    /\ closed' = (closed \/ (reader = "follow" /\ cursor = 0))
    /\ UNCHANGED <<limitBytes, log, entries, pinned, reader, cursor, batch, summary, got, told, wanted>>

\* The replay goes on with `next`: it sends one event, after which it may wait for the
\* socket, or it is done.  Then turn.end goes out when there is a summary, and the pump
\* serves the follower from there.
Serve(next, ended) ==
    \/ /\ next # <<>>
       /\ got' = Append(got, next[1]) /\ cursor' = next[1] + 1 /\ batch' = Tail(next)
       /\ UNCHANGED closed
    \/ /\ next = <<>>
       /\ cursor' = 0 /\ closed' = ended
       /\ UNCHANGED <<got, batch>>

\* turn.attach.
Attach(who, from) ==
    /\ reader = "none"
    /\ reader' = who /\ wanted' = Max({1, from}) /\ told' = OldestSeq /\ summary' = over
    /\ Serve(Since(Max({1, from})), over)
    /\ UNCHANGED ringVars

\* A follower also asks for what came meanwhile; a snapshot keeps the end it found.
ReplayGoesOn ==
    /\ cursor # 0
    /\ Serve(IF batch = <<>> /\ reader = "follow" THEN Since(cursor) ELSE batch,
          IF reader = "follow" THEN over ELSE summary)
    /\ UNCHANGED <<ringVars, reader, summary, told, wanted>>

RingNext ==
    \/ \E kind \in Kinds : Push(kind)
    \/ Finish
    \/ \E who \in {"tap", "follow"}, from \in 0 .. MaxPushed + 1 : Attach(who, from)
    \/ ReplayGoesOn
RingSpec == RingInit /\ [][RingNext]_ringAll
-----------------------------------------------------------------------------
Sent == ToSet(got)
Newest == IF got = <<>> THEN 0 ELSE Last(got)
\* The events from `first` on, and the settle; what they weigh.
TailOf(first) == (first .. Len(log) \union {pinned}) \ {0}
Fits(first) == MapThenSumSet(LAMBDA seq : Length(log[seq]), TailOf(first)) <= limitBytes
\* The start of the longest tail that fits; of one entry when none does.
Start == Min({first \in 1 .. Len(log) + 1 : Fits(first) \/ Cardinality(TailOf(first)) = 1})

\* Whatever was dropped in whatever order, the ring holds the settle and the longest
\* tail of the turn that fits beside it (push of EventRing).
RingHoldsTheTail ==
    log # <<>> => /\ ToSet(entries) = TailOf(Start)
                  /\ \A i \in 1 .. Len(entries) - 1 : entries[i] < entries[i + 1]

\* A reader is sent each event once, in order, and misses only what the ring had
\* dropped before the replay came to it.
ReaderMissesOnlyTheDropped ==
    /\ \A i \in 1 .. Len(got) - 1 : got[i] < got[i + 1]
    /\ \A i \in DOMAIN entries : entries[i] \in wanted .. Newest => entries[i] \in Sent
    /\ reader = "follow" /\ closed => \A i \in DOMAIN entries : entries[i] >= wanted => entries[i] \in Sent

\* Whoever follows a turn to its end has seen how it finished, however little of it
\* was left ("The settle is what a replay ends on, so it is never evicted", turns.ts:33).
FollowerSeesTheSettle == reader = "follow" /\ closed => pinned < wanted \/ pinned \in Sent

\* "told where to start instead of being given a stream with a hole in it" (turns.ts:25).
StreamHasNoHole ==
    got # <<>> => \A s \in Max({told, wanted}) .. Newest : s \in Sent
-----------------------------------------------------------------------------
(* Why it holds: the entries are those from a to b, and a longer tail does not *)
(* fit; b is the newest event, or the settle when the notice behind it has     *)
(* gone.  A replay has sent of them what comes before its cursor.              *)

Run(first, last) == [i \in 1 .. last - first + 1 |-> first + i - 1]
Light(all, first) ==
    Len(all) - first + 1 <= limitBytes /\ \A s \in first .. Len(all) : all[s] # "huge"

RingHolds(a, b) ==
    /\ entries = Run(a, b) /\ (a <= b \/ log = <<>>)
    /\ b = Len(log) \/ (b = Len(log) - 1 /\ a = b /\ pinned = b)
    /\ pinned # 0 => /\ pinned \in a .. b
                     /\ \/ pinned = Len(log) /\ Last(log) # "notice"
                        \/ pinned = Len(log) - 1 /\ Last(log) = "notice"
    /\ \A first \in 1 .. a - 1 + (Len(log) - b) : ~Light(log, first)
    /\ b = Len(log) => Light(log, a) \/ a = b

ReaderHas(a, b) ==
    /\ \A i \in 1 .. Len(got) - 1 : got[i] < got[i + 1]
    /\ reader = "none" => got = <<>> /\ wanted = 0 /\ cursor = 0 /\ ~closed
    /\ cursor # 0 => /\ got # <<>> /\ cursor = Last(got) + 1 /\ ~closed
                     /\ \E y \in cursor - 1 .. Len(log) : batch = Run(cursor, y)
    /\ \A s \in a .. b : s \in wanted .. Newest => s \in Sent
    /\ reader = "follow" /\ cursor = 0 => \A s \in a .. b : s >= wanted => s \in Sent

RingInductive ==
    /\ limitBytes \in RingSizes /\ log \in Seq(Kinds) /\ pinned \in 0 .. Len(log)
    /\ got \in Seq(1 .. Len(log)) /\ wanted \in Nat /\ cursor \in Nat
    /\ reader \in {"none", "tap", "follow"} /\ over \in BOOLEAN /\ closed \in BOOLEAN /\ summary \in BOOLEAN
    /\ (over => pinned # 0) /\ (summary => over) /\ (closed => over)
    /\ \E a \in 1 .. Len(log) + 1, b \in 0 .. Len(log) : RingHolds(a, b) /\ ReaderHas(a, b)
===============================================================================
