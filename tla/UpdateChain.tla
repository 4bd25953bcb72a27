----------------------------- MODULE UpdateChain -----------------------------
(***************************************************************************)
(* sidecar/update.js over the relay's projection, and the way of what it   *)
(* emits to Lua by an inbox that a map load truncates.  A check asks the   *)
(* relay unless one is under way or the last success is recent.            *)
(*                                                                         *)
(* Abstracted: reading the installed version, URLs, parse and schema       *)
(* errors (an answer that is not used), and times, as in UpdateProjection. *)
(***************************************************************************)
EXTENDS UpdateProjection

CONSTANTS
  Installed,   \* the version each client has
  MaxReleases, \* bound on changes at GitHub
  MaxTrouble   \* bound on failures, losses and restarts

ASSUME ChainConstants == Installed \in Nat /\ MaxReleases \in Nat /\ MaxTrouble \in Nat

VARIABLES
  client,      \* latest, etag, recent (the cooldown), told (history: what Lua got)
  req,         \* the HTTP request of each client's inFlight
  releases, trouble

vars == <<projectionVars, client, req, releases, trouble>>

\* release is the projection's when it answered, on the wire in a 200 only.
NoReq == [at |-> "none", status |-> 0, release |-> NoRelease]
Req == [at : {"none", "sent", "waiting", "answered"}, status : {0, 200, 304, 503},
        release : Release0]

Starting == [latest |-> NoRelease, etag |-> NoRelease, recent |-> FALSE, told |-> {}]

Init ==
  /\ ProjectionInit
  /\ client = [c \in Client |-> Starting]
  /\ req = [c \in Client |-> NoReq]
  /\ releases = 0 /\ trouble = 0

Trouble == trouble < MaxTrouble /\ trouble' = trouble + 1

----------------------------------------------------------------------------
(* The client *)

\* emitIfNewer for a client that has become k.  A map load may truncate the
\* inbox before Lua has read the line.
EmitIfNewer(c, k) ==
  \/ /\ client' = [client EXCEPT ![c] = [k EXCEPT !.told =
                      IF k.latest > Installed THEN @ \cup {k.latest} ELSE @]]
     /\ UNCHANGED trouble
  \/ /\ k.latest > Installed /\ Trouble
     /\ client' = [client EXCEPT ![c] = k]

\* check, with a recent success.
CheckCached(c) ==
  /\ req[c] = NoReq /\ client[c].latest # NoRelease /\ client[c].recent
  /\ EmitIfNewer(c, client[c])
  /\ UNCHANGED <<projectionVars, req, releases>>

\* check, without; while a request is in flight a check joins it.
CheckAsks(c) ==
  /\ req[c] = NoReq /\ ~(client[c].latest # NoRelease /\ client[c].recent)
  /\ req' = [req EXCEPT ![c] = [NoReq EXCEPT !.at = "sent"]]
  /\ UNCHANGED <<projectionVars, client, releases, trouble>>

MutRejected_KeepsEtag(c) ==
  [client[c] EXCEPT !.etag = IF req[c].release = NoRelease THEN @ ELSE req[c].release]

\* Not used: a status, JSON or schema error.  What was known stays.
Rejected(c) == client[c]

Accepted(c) ==
  IF req[c].status = 200
  THEN [client[c] EXCEPT !.latest = req[c].release, !.etag = req[c].release, !.recent = TRUE]
  ELSE [client[c] EXCEPT !.recent = TRUE]

\* fetchAndCompare after its await; useCachedAfterFailure emits as well.
Reads(c) ==
  /\ req[c].at = "answered"
  /\ EmitIfNewer(c, IF req[c].status = 503 THEN Rejected(c) ELSE Accepted(c))
  /\ req' = [req EXCEPT ![c] = NoReq]
  /\ UNCHANGED <<projectionVars, releases>>

\* A time-out, a broken connection or an unusable body, all treated like a 503.
\* (A request that arrives after its time-out is one that was awaited before it.)
RequestFails(c) ==
  /\ req[c] # NoReq /\ req[c].status # 503 /\ Trouble
  /\ req' = [req EXCEPT ![c] = [at |-> "answered", status |-> 503, release |-> @.release]]
  /\ waiting' = waiting \ {c}
  /\ UNCHANGED <<github, cached, fresh, backoff, flight, client, releases>>

CooldownEnds(c) ==
  /\ client[c].recent
  /\ client' = [client EXCEPT ![c] = [@ EXCEPT !.recent = FALSE]]
  /\ UNCHANGED <<projectionVars, req, releases, trouble>>

\* A new session of the game, with a new sidecar.
Relaunch(c) ==
  /\ Trouble
  /\ client' = [client EXCEPT ![c] = Starting]
  /\ req' = [req EXCEPT ![c] = NoReq]
  /\ waiting' = waiting \ {c}
  /\ UNCHANGED <<github, cached, fresh, backoff, flight, releases>>

----------------------------------------------------------------------------
(* The relay *)

MutAnswer_ColdServed(c, release) ==
  [at |-> "answered", release |-> release,
   status |-> IF client[c].etag = release THEN 304 ELSE 200]

\* handleHttp: 304 where the ETag the client sent is the copy's.
Answer(c, release) ==
  [at |-> "answered", release |-> release,
   status |-> IF release = NoRelease THEN 503
              ELSE IF client[c].etag = release THEN 304 ELSE 200]

RelayServes(c) ==
  /\ req[c].at = "sent"
  /\ \/ Serves /\ req' = [req EXCEPT ![c] = Answer(c, cached.release)]
     \/ Awaits(c) /\ req' = [req EXCEPT ![c].at = "waiting"]
  /\ UNCHANGED <<client, releases, trouble>>

RelayRefreshed ==
  /\ RefreshEnds
  /\ req' = [c \in Client |-> IF c \in waiting THEN Answer(c, cached'.release) ELSE req[c]]
  /\ UNCHANGED <<client, releases, trouble>>

GithubReplies ==
  /\ \/ GithubAnswers /\ UNCHANGED trouble
     \/ GithubFails /\ Trouble
  /\ UNCHANGED <<client, req, releases>>

CopyAges == Ages /\ UNCHANGED <<client, req, releases, trouble>>

\* A release, or the removal of one.
Publishes(r) ==
  /\ releases < MaxReleases /\ releases' = releases + 1
  /\ Published(r)
  /\ UNCHANGED <<client, req, trouble>>

RelayRestarts ==
  /\ Trouble /\ ProjectionRestarts
  /\ req' = [c \in Client |-> IF c \in waiting
                              THEN [at |-> "answered", status |-> 503, release |-> NoRelease]
                              ELSE req[c]]
  /\ UNCHANGED <<client, releases>>

----------------------------------------------------------------------------

Check(c) == CheckCached(c) \/ CheckAsks(c)

Next ==
  \/ \E c \in Client : Check(c) \/ Reads(c) \/ RequestFails(c) \/ CooldownEnds(c)
                      \/ Relaunch(c) \/ RelayServes(c)
  \/ RelayRefreshed \/ GithubReplies \/ CopyAges \/ RelayRestarts
  \/ \E r \in Release : Publishes(r)

\* Time passes, handlers end (by their time-outs at the latest), and the game is
\* played: matches are queued for and completed.
Fairness ==
  /\ \A c \in Client : /\ WF_vars(Check(c)) /\ WF_vars(Reads(c))
                       /\ WF_vars(CooldownEnds(c)) /\ WF_vars(RelayServes(c))
  /\ WF_vars(RelayRefreshed) /\ WF_vars(GithubReplies) /\ WF_vars(CopyAges)

Spec == Init /\ [][Next]_vars
FairSpec == Spec /\ Fairness

----------------------------------------------------------------------------
(* Properties *)

\* The relay's copy and what the clients know (update.js:258-261).
UpdateTypeOK ==
  /\ ProjectionTypeOK
  /\ client \in [Client -> [latest : Release0, etag : Release0, recent : BOOLEAN,
                           told : SUBSET Release]]
  /\ req \in [Client -> Req]
  /\ \A c \in Client :
       /\ c \in waiting <=> req[c].at = "waiting"
       /\ req[c].status \in {200, 304} => req[c].release # NoRelease

\* The second of two caches on the way: what a 304 of the relay confirms to a
\* client is the release the relay answers with, and thus what a player is told
\* on a 304 is what a 200 would have told.
ClientInStep ==
  \A c \in Client : req[c].at = "answered" /\ req[c].status = 304
                     => client[c].latest = req[c].release

\* Neither cooldown, coalescing, backoff nor a cached answer loses a release:
\* once failures have ended, every player who keeps playing is told of the
\* latest release if it is newer than his.
EventuallyTold ==
  \A c \in Client : <>[](github > Installed => github \in client[c].told)
=============================================================================
