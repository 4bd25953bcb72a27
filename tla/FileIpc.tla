------------------------------ MODULE FileIpc ------------------------------
(***************************************************************************)
(* The files between the game and its sidecar, over sessions of the game:  *)
(* main.lua, which empties the inbox, kills the last sidecar and launches  *)
(* its own; ipc.lua, which appends to outbox.jsonl and reads inbox.jsonl;  *)
(* and sidecar/index.js, which watches the one and appends to the other.   *)
(* The two processes interleave between any two operations on a file.      *)
(*                                                                         *)
(* Sizes and offsets are counted in lines: a line is one write, below the  *)
(* buffer of either runtime.  What a line says is Sidecar's and ChatRoom's *)
(* subject.  Nothing of the program shortens outbox.jsonl, so the branch   *)
(* of readNewOutboxLines for a shorter file is never taken.  Before its    *)
(* first line the file may be missing, and to both catches of a failed     *)
(* stat (resetOutboxOffset, readNewOutboxLines) it then has no lines.  A   *)
(* file that is there is taken to answer stat, open and read.              *)
(***************************************************************************)
EXTENDS Integers, Sequences

CONSTANTS
  MaxSession,  \* bound on sessions of the game
  MaxLines,    \* bound on lines Lua writes
  MaxTold      \* bound on lines the sidecars write

ASSUME IpcConstants ==
  MaxSession \in Nat \ {0} /\ MaxLines \in Nat /\ MaxTold \in Nat

Session == 1..MaxSession

VARIABLES
  game,     \* "off", main.lua's steps "emptied", "primed", "swept", or "running"
  session,  \* the session of the game
  outbox,   \* lines of outbox.jsonl, as the sessions they were written in
  inbox,    \* lines of inbox.jsonl, as [n: order of writing, in: session]
  inboxOffset, heard,  \* Lua: what it has read, and the lines it heard this session
  told,     \* lines that sidecars have written so far
  refused,  \* history: a truncation of this session failed
  proc      \* the sidecar that each session has launched

ipcVars == <<game, session, outbox, inbox, inboxOffset, heard, told, refused, proc>>
lua == <<inboxOffset, heard, refused>>

\* base is the size the watcher last saw, seen what readNewOutboxLines saw, got
\* the history of handled lines, as positions in the file.
Absent == [at |-> "none", offset |-> 0, base |-> 0, seen |-> 0, got |-> <<>>]

\* "launching" until the process runs; "started" until the watcher has its
\* first stat; then at rest ("watching"), told of a change, or about to read.
Alive(s) == proc[s].at \in {"started", "watching", "changed", "reading"}

\* Its event loop is free: readNewOutboxLines runs to its end.
AtRest(s) == Alive(s) /\ proc[s].at # "reading"

\* The process is over; what it has handled stays.
Over(p) == [p EXCEPT !.at = "gone", !.base = 0, !.seen = 0]

Init ==
  /\ game = "off" /\ session = 0
  /\ outbox = <<>> /\ inbox = <<>> /\ told = 0
  /\ inboxOffset = 0 /\ heard = <<>> /\ refused = FALSE
  /\ proc = [s \in Session |-> Absent]

----------------------------------------------------------------------------
(* The game *)

MutTruncateInbox_KeepsOffset(ok) ==
  inbox' = (IF ok THEN <<>> ELSE inbox) /\ UNCHANGED inboxOffset

MutTruncateInbox_OffsetOnly(ok) ==
  UNCHANGED inbox /\ inboxOffset' = 0

\* The file may refuse to open; the offset is reset all the same.
TruncateInbox(ok) ==
  /\ inbox' = IF ok THEN <<>> ELSE inbox
  /\ inboxOffset' = 0

BootEmpties(ok) ==
  /\ game = "off" /\ session < MaxSession
  /\ game' = "emptied" /\ session' = session + 1
  /\ TruncateInbox(ok)
  /\ heard' = <<>> /\ refused' = ~ok
  /\ UNCHANGED <<outbox, told, proc>>

\* The heartbeat is written before there is anyone to read it (Heartbeat).
BootPrimes ==
  /\ game = "emptied" /\ game' = "primed"
  /\ UNCHANGED <<session, outbox, inbox, told, lua, proc>>

MutBootSweeps_Nobody ==
  /\ game = "primed" /\ game' = "swept"
  /\ UNCHANGED <<session, outbox, inbox, told, lua, proc>>

\* taskkill ends every sidecar there is.  (A launch takes less than it takes
\* the game to end and to start again.)
BootSweeps ==
  /\ game = "primed" /\ game' = "swept"
  /\ \A s \in Session : proc[s].at # "launching"
  /\ proc' = [s \in Session |-> IF Alive(s) THEN Over(proc[s]) ELSE proc[s]]
  /\ UNCHANGED <<session, outbox, inbox, told, lua>>

\* start returns at once; the executable may not be found.
BootLaunches(found) ==
  /\ game = "swept" /\ game' = "running"
  /\ proc' = [proc EXCEPT ![session] = [@ EXCEPT !.at = IF found THEN "launching" ELSE "gone"]]
  /\ UNCHANGED <<session, outbox, inbox, told, lua>>

\* With the process go its offset and what it heard.
GameEnds ==
  /\ game # "off" /\ game' = "off"
  /\ inboxOffset' = 0 /\ heard' = <<>>
  /\ UNCHANGED <<session, outbox, inbox, told, refused, proc>>

\* All of M.write...: room changes, chat, the profile, update checks.
LuaWrites ==
  /\ game = "running" /\ Len(outbox) < MaxLines
  /\ outbox' = Append(outbox, session)
  /\ UNCHANGED <<game, session, inbox, told, lua, proc>>

ReadInbox ==
  /\ game = "running" /\ Len(inbox) > inboxOffset
  /\ heard' = heard \o SubSeq(inbox, inboxOffset + 1, Len(inbox))
  /\ inboxOffset' = Len(inbox)
  /\ UNCHANGED <<game, session, outbox, inbox, told, refused, proc>>

MapLoaded(ok) ==
  /\ game = "running"
  /\ TruncateInbox(ok)
  /\ refused' = (refused \/ ~ok)
  /\ UNCHANGED <<game, session, outbox, told, heard, proc>>

----------------------------------------------------------------------------
(* The sidecar *)

files == <<outbox, inbox, told>>
gameSide == <<game, session, lua>>

Becomes(s, p) == proc' = [proc EXCEPT ![s] = p] /\ UNCHANGED <<gameSide, files>>

\* resetOutboxOffset: what is in the file is old.
ProcessStarts(s) ==
  /\ proc[s].at = "launching"
  /\ Becomes(s, [proc[s] EXCEPT !.at = "started", !.offset = Len(outbox)])

\* fs.watchFile compares with a first stat of its own, which it takes later.
WatchBegins(s) ==
  /\ proc[s].at = "started"
  /\ Becomes(s, [proc[s] EXCEPT !.at = "watching", !.base = Len(outbox)])

MutOutboxChanged_WhileBusy(s) ==
  /\ proc[s].at \in {"watching", "reading"} /\ proc[s].base # Len(outbox)
  /\ Becomes(s, [proc[s] EXCEPT !.at = IF @ = "watching" THEN "changed" ELSE @,
                                !.base = Len(outbox)])

OutboxChanged(s) ==
  /\ proc[s].at = "watching" /\ proc[s].base # Len(outbox)
  /\ Becomes(s, [proc[s] EXCEPT !.at = "changed", !.base = Len(outbox)])

\* readNewOutboxLines, its statSync: nothing new if an earlier read took it.
StatOutbox(s) ==
  /\ proc[s].at = "changed"
  /\ LET news == Len(outbox) # proc[s].offset
     IN  Becomes(s, [proc[s] EXCEPT !.at = IF news THEN "reading" ELSE "watching",
                                    !.seen = Len(outbox)])

Positions(from, to) == [i \in 1..to - from |-> from + i]

MutReadOutbox_OffsetOfNow(s) ==
  /\ proc[s].at = "reading"
  /\ Becomes(s, [proc[s] EXCEPT !.at = "watching", !.offset = Len(outbox),
                                !.got = @ \o Positions(proc[s].offset, proc[s].seen)])

\* The rest: as many lines as the stat saw, whatever was appended since.
ReadOutbox(s) ==
  /\ proc[s].at = "reading"
  /\ Becomes(s, [proc[s] EXCEPT !.at = "watching", !.offset = proc[s].seen,
                                !.got = @ \o Positions(proc[s].offset, proc[s].seen)])

AppendToInbox(s) ==
  /\ AtRest(s) /\ told < MaxTold
  /\ inbox' = Append(inbox, [n |-> told + 1, in |-> session])
  /\ told' = told + 1
  /\ UNCHANGED <<gameSide, outbox, proc>>

\* By its watchdog, or killed.
SidecarEnds(s) ==
  Alive(s) /\ Becomes(s, Over(proc[s]))

Next ==
  \/ \E ok \in BOOLEAN : BootEmpties(ok) \/ BootLaunches(ok) \/ MapLoaded(ok)
  \/ BootPrimes \/ BootSweeps \/ GameEnds \/ LuaWrites \/ ReadInbox
  \/ \E s \in Session :
       \/ ProcessStarts(s) \/ WatchBegins(s) \/ OutboxChanged(s) \/ StatOutbox(s)
       \/ ReadOutbox(s) \/ AppendToInbox(s) \/ SidecarEnds(s)

Spec == Init /\ [][Next]_ipcVars

----------------------------------------------------------------------------
(* Properties *)

Place == {"none", "launching", "started", "watching", "changed", "reading", "gone"}

\* The type invariant of the files and of both processes' views of them, the
\* offsets within what they are offsets into.
IpcTypeOK ==
  /\ game \in {"off", "emptied", "primed", "swept", "running"}
  /\ session \in 0..MaxSession /\ (game # "off" => session \in Session)
  /\ outbox \in Seq(Session) /\ told \in Nat /\ refused \in BOOLEAN
  /\ inbox \in Seq([n : Nat, in : Nat]) /\ heard \in Seq([n : Nat, in : Nat])
  /\ inboxOffset \in 0..Len(inbox)
  /\ proc \in [Session -> [at : Place, offset : 0..Len(outbox), base : 0..Len(outbox),
                           seen : 0..Len(outbox), got : Seq(Nat)]]

\* Each sidecar handles lines of the session that launched it and of no other:
\* not what an earlier session left in the file, and not what a later one
\* writes while the old process still runs.
OwnLinesOnly ==
  \A s \in Session : \A i \in 1..Len(proc[s].got) : outbox[proc[s].got[i]] = s

\* What Lua hears in a session was written in it, after its truncation, and is
\* heard once and in order, unless a truncation was refused.  (The sidecar of
\* the last session may still be writing while main.lua boots.)
HeardInOrder ==
  ~refused =>
    /\ \A i \in 1..Len(heard) : heard[i].in = session
    /\ \A i, j \in 1..Len(heard) : i < j => heard[i].n < heard[j].n

\* outbox.jsonl and its offset are a queue for each sidecar.
Waiting(s) == Positions(proc[s].offset, Len(outbox))

Q(s) == INSTANCE LineQueue WITH
  Line <- 1..MaxLines, queue <- Waiting(s), got <- proc[s].got, reading <- Alive(s)

\* Whatever Lua appends between the stat and the read, and however changes are
\* noticed: every line is taken once and in order, and none is skipped but those
\* in the file when the sidecar starts.  This is \A s : Q(s)!Spec in the form
\* that TLC takes.
OutboxIsQueue ==
  /\ \A s \in Session : Q(s)!Init
  /\ [][\A s \in Session : [Q(s)!Next]_(Q(s)!queueVars)]_ipcVars
=============================================================================
