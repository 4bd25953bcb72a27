---------------------------- MODULE ProfileSync ----------------------------
(***************************************************************************)
(* The way of a profile from the game to the relay's tables: the one       *)
(* profile_upsert line that profile.lua emits in a session, and what       *)
(* sidecar/profile.js makes of it: PUT, on 401 pair and PUT again, and a   *)
(* pending slot that a timer retries.  A client that has timed out starts  *)
(* over while the relay is still serving what it gave up on.               *)
(*                                                                         *)
(* Abstracted: payload fields and their validation, the intervals (30 s,   *)
(* 10 s, 30 min: each elapses at some time), and the start of a sidecar    *)
(* after the line it should have read.                                     *)
(***************************************************************************)
EXTENDS ProfileApi

CONSTANTS
  Install,     \* machines the mod is installed on
  TokenFile,   \* the token each of them starts out with
  Account,     \* the IDs that play on each of them
  NoPid,       \* Lua has emitted nothing yet
  NoFlow,      \* no client waits for the request of a slot
  MaxTrouble   \* bound on failures, restarts and recoveries

\* A call of sendUpsert: the first of its payload or the retry timer's, and
\* which of its three requests it waits for.
Flow == [by : Install, step : {"put", "pair", "again"}, retry : BOOLEAN]

ASSUME SyncConstants ==
  /\ TokenFile \in [Install -> Token]
  /\ Account \in [Install -> SUBSET Pid]
  /\ NoPid \notin Pid
  /\ NoFlow \notin Flow
  /\ MaxTrouble \in Nat

VARIABLES
  life,     \* each install's sidecar: token, pid, pending, and the fate of its upsert
  flow,     \* sendUpsert calls that wait for the request in a slot
  trouble

syncVars == <<tokens, profiles, bound, call, life, flow, trouble>>
tables == <<tokens, profiles, bound>>

\* fate is history: "open" until 200, or the status that ended it, or "aged".
Start(token) == [token |-> token, pid |-> NoPid, pending |-> FALSE, fate |-> "open"]

Init ==
  /\ ApiInit
  /\ life = [i \in Install |-> Start(TokenFile[i])]
  /\ flow = [c \in Slot |-> NoFlow]
  /\ trouble = 0

Trouble == trouble < MaxTrouble /\ trouble' = trouble + 1

----------------------------------------------------------------------------
(* sendUpsert *)

Idle(c) == call[c] = Free /\ flow[c] = NoFlow

\* From its beginning: a PUT.
SendUpsert(i, pid, retry) ==
  \E c \in Slot :
    /\ Idle(c)
    /\ Request(c, "put", life[i].token, pid)
    /\ flow' = [flow EXCEPT ![c] = [by |-> i, step |-> "put", retry |-> retry]]

\* profile.lua M.tick, once in a session; the outbox; handleProfileUpsert.
Emitted(i, pid) ==
  /\ pid \in Account[i] /\ life[i].pid = NoPid
  /\ life' = [life EXCEPT ![i].pid = pid]
  /\ SendUpsert(i, pid, FALSE)
  /\ UNCHANGED <<tables, trouble>>

\* The timer: tryFlushPending.  Nothing keeps two of its calls apart.
RetryFires(i) ==
  /\ life[i].pending
  /\ SendUpsert(i, life[i].pid, TRUE)
  /\ UNCHANGED <<life, tables, trouble>>

\* The timer finds the payload older than MAX_PENDING_AGE_MS.
PendingExpires(i) ==
  /\ life[i].pending
  /\ life' = [life EXCEPT ![i].pending = FALSE, ![i].fate = "aged"]
  /\ UNCHANGED <<apiVars, flow, trouble>>

\* setPending, unless the retry timer made this call: then it still is.
Queued(i, retry) ==
  life' = [life EXCEPT ![i].pending = @ \/ ~retry]

MutFailed_PairNotQueued(c) ==
  /\ IF flow[c].step = "pair" THEN UNCHANGED life ELSE Queued(flow[c].by, flow[c].retry)
  /\ flow' = [flow EXCEPT ![c] = NoFlow]

\* Not terminal: a transport error, or 5xx before the token is paired.
Failed(c) ==
  /\ Queued(flow[c].by, flow[c].retry)
  /\ flow' = [flow EXCEPT ![c] = NoFlow]

MutEnded_KeepsPending(c, fate) ==
  /\ life' = [life EXCEPT ![flow[c].by].fate = fate]
  /\ flow' = [flow EXCEPT ![c] = NoFlow]

\* Terminal; a retry clears the pending slot (clearPending).
Ended(c, fate) ==
  /\ life' = [life EXCEPT ![flow[c].by].fate = fate,
                          ![flow[c].by].pending = @ /\ ~flow[c].retry]
  /\ flow' = [flow EXCEPT ![c] = NoFlow]

GoesOn(c, kind, step) ==
  /\ Request(c, kind, call[c].token, call[c].pid)
  /\ flow' = [flow EXCEPT ![c].step = step]
  /\ UNCHANGED life

Answered(c, step, statuses) ==
  /\ flow[c] # NoFlow /\ flow[c].step = step
  /\ call[c] # Free /\ call[c].at = "done" /\ call[c].status \in statuses
  /\ UNCHANGED <<tables, trouble>>

PutStored(c) ==
  /\ \E step \in {"put", "again"} : Answered(c, step, {200})
  /\ Ended(c, "stored") /\ Vanish(c)

PutUnauthorised(c) == Answered(c, "put", {401}) /\ GoesOn(c, "pair", "pair")

PutForbidden(c) == Answered(c, "put", {403}) /\ Ended(c, "403") /\ Vanish(c)

PutFails(c) == Answered(c, "put", {500}) /\ Failed(c) /\ Vanish(c)

Paired(c) == Answered(c, "pair", {201}) /\ GoesOn(c, "put", "again")

PairConflicts(c) == Answered(c, "pair", {409}) /\ Ended(c, "409") /\ Vanish(c)

PairFails(c) == Answered(c, "pair", {500}) /\ Failed(c) /\ Vanish(c)

\* Whatever the second PUT returns but 200 is final, 5xx included.
PutAgainRefused(c) ==
  \E refusal \in {401, 403, 500} :
    /\ Answered(c, "again", {refusal})
    /\ Ended(c, CASE refusal = 401 -> "401" [] refusal = 403 -> "403" [] refusal = 500 -> "500")
    /\ Vanish(c)

\* The client gives the request up, or is told that it is gone; the relay may
\* go on serving it.
TransportError(c) ==
  /\ flow[c] # NoFlow
  /\ IF call[c] = Free THEN UNCHANGED trouble ELSE Trouble
  /\ Failed(c)
  /\ UNCHANGED apiVars

----------------------------------------------------------------------------
(* Sessions, and what goes wrong *)

\* ensureToken generates a token that nobody has.
Fresh(t) ==
  /\ \A i \in Install : life[i].token # t
  /\ \A c \in Slot : call[c] # Free => call[c].token # t
  /\ \A p \in Pid : <<p, t>> \notin bound

\* A new game session, with a new sidecar: nothing is remembered but the token
\* file, which the player may have deleted (the advice after a 403).
Relaunch(i) ==
  /\ Trouble
  /\ \E t \in Token :
       /\ t = life[i].token \/ Fresh(t)
       /\ life' = [life EXCEPT ![i] = Start(t)]
  /\ flow' = [c \in Slot |-> IF flow[c] # NoFlow /\ flow[c].by = i THEN NoFlow ELSE flow[c]]
  /\ UNCHANGED apiVars

\* A request of nobody any more is answered to nobody.
Orphaned(c) ==
  /\ flow[c] = NoFlow /\ call[c] # Free /\ call[c].at = "done"
  /\ Vanish(c)
  /\ UNCHANGED <<tables, life, flow, trouble>>

\* A request is lost on its way.
Lost(c) ==
  /\ Trouble
  /\ call[c] # Free /\ call[c].at = "sent"
  /\ Vanish(c)
  /\ UNCHANGED <<tables, life, flow>>

Serves(c) == Handlers(c) /\ UNCHANGED <<life, flow, trouble>>

GoesWrong(c) == Failures(c) /\ Trouble /\ UNCHANGED <<life, flow>>

Maintenance ==
  /\ Trouble
  /\ RelayRestarts \/ \E p \in Pid : MaintainerDeletes(p)
  /\ UNCHANGED <<life, flow>>

Reads(c) ==
  \/ PutStored(c) \/ PutUnauthorised(c) \/ PutForbidden(c) \/ PutFails(c)
  \/ Paired(c) \/ PairConflicts(c) \/ PairFails(c) \/ PutAgainRefused(c)
  \/ Orphaned(c)

Next ==
  \/ \E i \in Install, p \in Pid : Emitted(i, p)
  \/ \E i \in Install : RetryFires(i) \/ PendingExpires(i) \/ Relaunch(i)
  \/ \E c \in Slot : Reads(c) \/ TransportError(c) \/ Lost(c) \/ Serves(c) \/ GoesWrong(c)
  \/ Maintenance

Spec == Init /\ [][Next]_syncVars

\* Handlers and awaits of both processes go on, a dead connection is noticed,
\* and the retry timer is armed while a payload is pending.
Fairness ==
  /\ \A c \in Slot : WF_syncVars(Serves(c)) /\ WF_syncVars(Reads(c))
  /\ \A c \in Slot : WF_syncVars(call[c] = Free /\ TransportError(c))
  /\ \A i \in Install : WF_syncVars(RetryFires(i))

FairSpec == Spec /\ Fairness

----------------------------------------------------------------------------
(* Properties *)

FirstFlow(i) == {c \in Slot : flow[c] # NoFlow /\ flow[c].by = i /\ ~flow[c].retry}

InOnePlace(i) ==
  \/ FirstFlow(i) # {} /\ ~life[i].pending /\ life[i].fate = "open"
  \/ FirstFlow(i) = {} /\ life[i].pending /\ life[i].fate = "open"
  \/ FirstFlow(i) = {} /\ ~life[i].pending /\ life[i].fate # "open"

\* An emitted upsert is in exactly one place: with the first call of
\* sendUpsert, in the pending slot, or decided.  Lua never emits it again, so
\* one that were in none of them would be lost for the session, and one that
\* is decided and still pending would be sent for ever.
OneFate == \A i \in Install : life[i].pid # NoPid => InOnePlace(i)

\* Once failures end, every emitted upsert is stored, refused or aged out, and
\* the retry timer rests.
EventuallyDecided ==
  <>[](\A i \in Install : life[i].pid # NoPid => life[i].fate # "open" /\ ~life[i].pending)

\* profile.js:23: "On network / 5xx: cache the payload as "pending" and retry".
\* The code does not: a 5xx on the PUT after a pairing is final.
ServerErrorsRetried == \A i \in Install : life[i].fate # "500"

\* profile.js:242: 409 means that "The relay has a different token bound to
\* this Prometheus ID".  It may be this one, paired by a request that the
\* client had given up on.
ConflictMeansOtherToken ==
  \A c \in Slot :
    flow[c] # NoFlow /\ InFlight(c, "pair", "done") /\ call[c].status = 409
      => tokens[call[c].pid] # call[c].token
=============================================================================
