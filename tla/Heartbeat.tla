----------------------------- MODULE Heartbeat -----------------------------
(***************************************************************************)
(* The life of the sidecar beside the game, over FileIpc: Lua touches      *)
(* heartbeat.txt every 150 ticks, and the sidecar looks at its age every   *)
(* five seconds and exits when it is too old.  The game cannot be asked:   *)
(* closed, crashed, frozen and suspended look alike.                       *)
(*                                                                         *)
(* Time is counted in units of both intervals: in each, a running Lua loop *)
(* writes once and a running sidecar looks once, in any order.  A file     *)
(* written n units ago is between n - 1 and n + 1 units old, so either     *)
(* side of a limit is possible at it.  Booting takes less than a unit.     *)
(***************************************************************************)
EXTENDS FileIpc

CONSTANTS
  Timeout,    \* HEARTBEAT_TIMEOUT_MS, in units
  Grace,      \* HEARTBEAT_GRACE_MS, in units
  Missing,    \* there is no heartbeat.txt yet
  MaxTrouble  \* bound on failures, stalls, suspensions and kills

ASSUME HeartbeatConstants ==
  /\ Timeout \in Nat /\ Timeout > 1   \* more than one interval
  /\ Grace \in Nat /\ Missing \notin Nat /\ MaxTrouble \in Nat

VARIABLES
  beat,     \* units since heartbeat.txt was written
  up,       \* units the sidecar has been up, counted while the file is missing
  done,     \* the loops that had their turn in this unit
  stalled,  \* Lua's loop does not run
  alone,    \* history: units the sidecar has outlived the game
  hurt,     \* history: something went wrong in this session
  trouble

timeVars == <<beat, up, done, stalled, alone, hurt, trouble>>
vars == <<game, session, outbox, inbox, inboxOffset, heard, told, refused, proc, timeVars>>

\* Age and uptime are told apart up to one unit past their limits.
OneMore(n, limit) == IF n <= limit THEN n + 1 ELSE n

HInit ==
  /\ Init
  /\ beat = Missing /\ up = 0 /\ done = {} /\ stalled = FALSE
  /\ alone = 0 /\ hurt = FALSE /\ trouble = 0

Trouble == trouble < MaxTrouble /\ trouble' = trouble + 1 /\ hurt' = TRUE
NoTrouble == UNCHANGED <<trouble, hurt>>

\* A step that goes right, or that does not.
Either(right) == IF right THEN NoTrouble ELSE Trouble

----------------------------------------------------------------------------
(* Lua *)

Emptied(ok) ==
  /\ BootEmpties(ok)
  /\ IF ok THEN hurt' = FALSE /\ UNCHANGED trouble ELSE Trouble
  /\ alone' = 0
  /\ UNCHANGED <<beat, up, done, stalled>>

\* writeHeartbeat; if the file does not open it stays as it is.
WriteHeartbeat(ok) ==
  /\ beat' = IF ok THEN 0 ELSE beat
  /\ Either(ok)

MutPrimed_Not ==
  BootPrimes /\ NoTrouble /\ UNCHANGED <<beat, up, done, stalled, alone>>

Primed ==
  \E ok \in BOOLEAN : BootPrimes /\ WriteHeartbeat(ok) /\ UNCHANGED <<up, done, stalled, alone>>

Swept == BootSweeps /\ NoTrouble /\ UNCHANGED <<beat, up, done, stalled, alone>>

Launched ==
  \E ok \in BOOLEAN :
    BootLaunches(ok) /\ Either(ok) /\ done' = done \cup {"lua"} /\ UNCHANGED <<beat, up, stalled, alone>>

Ended == GameEnds /\ stalled' = FALSE /\ NoTrouble /\ UNCHANGED <<beat, up, done, alone>>

\* M.poll, every HEARTBEAT_INTERVAL ticks.
LuaBeats ==
  /\ game = "running" /\ ~stalled /\ "lua" \notin done
  /\ done' = done \cup {"lua"}
  /\ \E ok \in BOOLEAN : WriteHeartbeat(ok)
  /\ UNCHANGED <<ipcVars, up, stalled, alone>>

Mapped(ok) == MapLoaded(ok) /\ Either(ok) /\ UNCHANGED <<beat, up, done, stalled, alone>>

Untimed == NoTrouble /\ UNCHANGED <<beat, up, done, stalled, alone>>

LuaStep == ~stalled /\ (LuaWrites \/ ReadInbox) /\ Untimed

----------------------------------------------------------------------------
(* The sidecar *)

Started(s) ==
  /\ ProcessStarts(s)
  /\ up' = 0 /\ done' = done \cup {"sidecar"}
  /\ NoTrouble /\ UNCHANGED <<beat, stalled, alone>>

WatchStep(s) ==
  (WatchBegins(s) \/ OutboxChanged(s) \/ StatOutbox(s) \/ ReadOutbox(s)) /\ Untimed

TellStep(s) == AppendToInbox(s) /\ Untimed

\* What checkHeartbeat may find: at the limit, either.
MayExit == IF beat = Missing THEN up >= Grace ELSE beat >= Timeout

MutMayStay_NoFile == IF beat = Missing THEN TRUE ELSE beat <= Timeout
MutMayStay_OneLate == IF beat = Missing THEN up <= Grace ELSE beat <= Timeout + 1

MayStay == IF beat = Missing THEN up <= Grace ELSE beat <= Timeout

CheckHeartbeat(s) ==
  /\ AtRest(s) /\ "sidecar" \notin done
  /\ \/ MayStay /\ done' = done \cup {"sidecar"} /\ UNCHANGED <<ipcVars, alone>>
     \/ MayExit /\ SidecarEnds(s) /\ alone' = 0 /\ UNCHANGED done
  /\ NoTrouble /\ UNCHANGED <<beat, up, stalled>>

Killed(s) == SidecarEnds(s) /\ Trouble /\ alone' = 0 /\ UNCHANGED <<beat, up, done, stalled>>

----------------------------------------------------------------------------
(* Time *)

SidecarUp == \E s \in Session : Alive(s)

Tick ==
  /\ game \in {"off", "running"}
  /\ game = "running" /\ ~stalled => "lua" \in done
  /\ SidecarUp => "sidecar" \in done
  /\ done' = {}
  /\ beat' = IF beat = Missing THEN Missing ELSE OneMore(beat, Timeout)
  /\ up' = IF beat = Missing /\ SidecarUp THEN OneMore(up, Grace) ELSE up
  /\ alone' = IF game = "off" /\ SidecarUp THEN OneMore(alone, Timeout + Grace) ELSE 0
  /\ NoTrouble /\ UNCHANGED <<ipcVars, stalled>>

\* A frozen game, a long load, a breakpoint.
Stalls ==
  /\ game = "running" /\ ~stalled /\ stalled' = TRUE /\ Trouble
  /\ UNCHANGED <<ipcVars, beat, up, done, alone>>

Resumes ==
  /\ stalled /\ stalled' = FALSE
  /\ NoTrouble /\ UNCHANGED <<ipcVars, beat, up, done, alone>>

\* The machine is suspended: nobody runs while the clock goes on.
Suspended ==
  /\ game \in {"off", "running"} /\ Trouble
  /\ beat # Missing /\ beat' = Timeout + 1
  /\ UNCHANGED <<ipcVars, up, done, stalled, alone>>

HNext ==
  \/ \E ok \in BOOLEAN : Emptied(ok) \/ Mapped(ok)
  \/ Primed \/ Swept \/ Launched \/ Ended \/ LuaBeats \/ LuaStep
  \/ \E s \in Session :
       Started(s) \/ WatchStep(s) \/ TellStep(s) \/ CheckHeartbeat(s) \/ Killed(s)
  \/ Tick \/ Stalls \/ Resumes \/ Suspended

HSpec == HInit /\ [][HNext]_vars

\* Time passes, Lua's loop runs unless it stalls, and the sidecar's event loop
\* goes on.  Nobody has to start, end or resume the game, or to write a line.
Fairness ==
  /\ WF_vars(Tick) /\ WF_vars(LuaBeats) /\ WF_vars(~stalled /\ ReadInbox /\ Untimed)
  /\ WF_vars(\E s \in Session : Started(s) \/ WatchStep(s))
  /\ WF_vars(\E s \in Session : CheckHeartbeat(s))

FairSpec == HSpec /\ Fairness

----------------------------------------------------------------------------
(* Properties *)

\* A sidecar whose game is gone exits within the time-out, or within the grace
\* period if no heartbeat was ever written, give or take the unit of its check:
\* whichever of them was stalled, suspended or could not write before.
LingersBriefly ==
  alone <= IF beat = Missing THEN Grace + 1 ELSE Timeout + 1

\* In a session where nothing went wrong, the game has its sidecar for as long
\* as it runs: neither the file that the last session left behind nor a launch
\* faster or slower than the first beat makes the watchdog fire.
KeepsCompany == game = "running" /\ ~hurt => proc[session].at # "gone"

\* Liveness of the same: no game, no sidecar.
EndsWithGame == game = "off" ~> game # "off" \/ ~SidecarUp

\* Both directions go on: a line that comes after the watcher's first look is
\* handled unless the sidecar ends, and a line in the inbox is read unless it is
\* truncated or Lua stops.  (A line that comes between the start and the first
\* look waits for the next one; so would a line at which outbox.jsonl could not be
\* read, which FileIpc leaves out.)
Reading == game = "running" /\ ~stalled

Handled(p) == \E s \in Session : \E i \in 1..Len(proc[s].got) : proc[s].got[i] = p
Noticeable(p) ==
  \E s \in Session : Alive(s) /\ proc[s].at # "started" /\ proc[s].base < p /\ p <= Len(outbox)

InInbox(n) == \E i \in 1..Len(inbox) : inbox[i].n = n
Heard(n) == \E i \in 1..Len(heard) : heard[i].n = n

KeepsReading ==
  /\ \A p \in 1..MaxLines : Noticeable(p) ~> ~SidecarUp \/ Handled(p)
  /\ \A n \in 1..MaxTold : InInbox(n) /\ Reading ~> ~Reading \/ Heard(n) \/ ~InInbox(n)
=============================================================================
