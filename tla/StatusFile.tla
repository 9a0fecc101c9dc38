----------------------------- MODULE StatusFile ------------------------------
(* The file a shell reads before each prompt (core/status-file.ts,             *)
(* daemon/status.ts): the daemon and a client of the shell publish to it, each *)
(* through a queue of its own, and any file operation may fail.  A call is     *)
(* represented by its number, and its text by the call.                        *)
EXTENDS Naturals, Sequences, SequencesExt

CONSTANTS
    MaxPublished,   \* bound on the calls
    MaxDeaths       \* bound on the processes that are killed

Publishers == {"daemon", "client"}

VARIABLES
    statusFile,     \* the call whose text stands in the file, 0 for none
    intact,          \* all of its text is there
    writes,         \* the calls of the map `writes`, for each process, the running one first
    stage,          \* what writeStatus does next for it
    temp,           \* its temporary file: "none", "half" or "whole"
    published,      \* calls made
    maker,          \* history: who made each
    earlier,        \* history: the calls each one came after
    settled,        \* history: the calls that were answered
    shown,          \* history: calls whose text was in the file
    deaths

statusVars == <<statusFile, intact, writes, stage, temp, published, maker, earlier, settled, shown, deaths>>

StatusInit ==
    /\ statusFile = 0 /\ intact = TRUE
    /\ writes = [p \in Publishers |-> <<>>]
    /\ stage = [p \in Publishers |-> "mkdir"] /\ temp = [p \in Publishers |-> "none"]
    /\ published = 0 /\ maker = <<>> /\ earlier = <<>>
    /\ settled = {} /\ shown = {} /\ deaths = 0

\* writeShellStatus: behind the calls of this process that are not settled.
Publish(p) ==
    /\ published < MaxPublished
    /\ published' = published + 1
    /\ writes' = [writes EXCEPT ![p] = Append(@, published')]
    /\ maker' = Append(maker, p)
    /\ earlier' = Append(earlier, settled \union {c \in 1 .. published : maker[c] = p})
    /\ UNCHANGED <<statusFile, intact, stage, temp, settled, shown, deaths>>

\* The next file operation of the call that runs.
At(p, here) == writes[p] # <<>> /\ stage[p] = here
Go(p, there) == stage' = [stage EXCEPT ![p] = there]
Kept == UNCHANGED <<published, maker, earlier, deaths>>

\* The call is answered, well or not, and the next one starts.
Settle(p) ==
    /\ settled' = settled \union {writes[p][1]}
    /\ writes' = [writes EXCEPT ![p] = Tail(@)]
    /\ Go(p, "mkdir")

MakeDirectory(p) ==
    /\ At(p, "mkdir")
    /\ \/ Go(p, "write") /\ UNCHANGED <<writes, settled>>
       \/ Settle(p)
    /\ UNCHANGED <<statusFile, intact, temp, shown>> /\ Kept

\* writeFile with "wx": it has made the file before it has written all of it.
MakeTemp(p) ==
    /\ At(p, "write") /\ temp[p] = "none"
    /\ \/ temp' = [temp EXCEPT ![p] = "half"] /\ UNCHANGED stage
       \/ Go(p, "unlink") /\ UNCHANGED temp
    /\ UNCHANGED <<statusFile, intact, writes, settled, shown>> /\ Kept
FillTemp(p) ==
    /\ At(p, "write") /\ temp[p] = "half"
    /\ \/ temp' = [temp EXCEPT ![p] = "whole"] /\ Go(p, "rename")
       \/ Go(p, "unlink") /\ UNCHANGED temp
    /\ UNCHANGED <<statusFile, intact, writes, settled, shown>> /\ Kept

Rename(p) ==
    /\ At(p, "rename") /\ Go(p, "unlink")
    /\ \/ /\ statusFile' = writes[p][1] /\ intact' = (temp[p] = "whole")
          /\ shown' = shown \union {writes[p][1]}
          /\ temp' = [temp EXCEPT ![p] = "none"]
       \/ UNCHANGED <<statusFile, intact, shown, temp>>
    /\ UNCHANGED <<writes, settled>> /\ Kept

\* The finally clause: what unlink says is ignored.  A file it leaves has a name that
\* no later call uses.
Unlink(p) ==
    /\ At(p, "unlink") /\ Settle(p)
    /\ temp' = [temp EXCEPT ![p] = "none"]
    /\ UNCHANGED <<statusFile, intact, shown>> /\ Kept

WriteStatus(p) == MakeDirectory(p) \/ MakeTemp(p) \/ FillTemp(p) \/ Rename(p) \/ Unlink(p)

\* The process is killed; another one, with another process id, takes its place.
Die(p) ==
    /\ deaths < MaxDeaths /\ deaths' = deaths + 1
    /\ writes' = [writes EXCEPT ![p] = <<>>] /\ Go(p, "mkdir")
    /\ temp' = [temp EXCEPT ![p] = "none"]
    /\ UNCHANGED <<statusFile, intact, published, maker, earlier, settled, shown>>

StatusNext == \E p \in Publishers : Publish(p) \/ WriteStatus(p) \/ Die(p)
StatusSpec == StatusInit /\ [][StatusNext]_statusVars
                         /\ \A p \in Publishers : WF_statusVars(WriteStatus(p))
-----------------------------------------------------------------------------
\* The shell reads the old text or the new one, never half of either (status.ts:3).
NeverHalf == intact

\* The file never goes back: a text is replaced only by one whose call was not
\* already answered, or waiting before it in the same process, when the call that
\* is shown was made.
NeverBack == statusFile' # statusFile => \A c \in shown : statusFile' \notin earlier[c]
FileNeverGoesBack == [][NeverBack]_statusVars

\* Why: a queue holds calls of its own process that were not answered, in the order
\* they were made, and none of the process that is older was shown after them; what a
\* call came after was answered or made before it in its process; and what is renamed
\* was written whole.
StatusTyped ==
    /\ published \in Nat
    /\ maker \in Seq(Publishers) /\ Len(maker) = published
    /\ earlier \in Seq(SUBSET (1 .. published)) /\ Len(earlier) = published
    /\ writes \in [Publishers -> Seq(1 .. published)]
    /\ stage \in [Publishers -> {"mkdir", "write", "rename", "unlink"}]
    /\ temp \in [Publishers -> {"none", "half", "whole"}]
    /\ settled \subseteq 1 .. published /\ shown \subseteq 1 .. published
InOrder(p) ==
    \A i \in DOMAIN writes[p] :
      /\ maker[writes[p][i]] = p /\ writes[p][i] \notin settled
      /\ \A j \in DOMAIN writes[p] : i < j => writes[p][i] < writes[p][j]
      /\ \A c \in shown : maker[c] = p => c <= writes[p][i]
CameAfter ==
    \A c \in 1 .. published : \A e \in earlier[c] : e \in settled \/ (e < c /\ maker[e] = maker[c])
RenamesWhole == intact /\ \A p \in Publishers : stage[p] = "rename" => temp[p] = "whole"
QueuesAreInOrder == StatusTyped /\ (\A p \in Publishers : InOrder(p)) /\ CameAfter /\ RenamesWhole

\* A call that fails holds up none behind it: the queues empty, as the calls are bounded.
Waiting == \E p \in Publishers : writes[p] # <<>>
EveryWaitEnds == Waiting ~> ~Waiting
===============================================================================
