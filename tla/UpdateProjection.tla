-------------------------- MODULE UpdateProjection --------------------------
(***************************************************************************)
(* server/updates/index.js: the relay's short-lived copy of the latest     *)
(* GitHub release.  Requests that meet an old copy share one refresh; what *)
(* was known is served while refreshing fails.                             *)
(*                                                                         *)
(* Abstracted: manifests (a release is its version, and both ETags of a    *)
(* release are the release), times (a copy is fresh until its TTL elapses; *)
(* backoff lasts until 60 s have), and the operator's override, under      *)
(* which nothing changes.                                                  *)
(***************************************************************************)
EXTENDS Integers

CONSTANTS
  Release,     \* versions
  NoRelease,   \* nothing known, no ETag
  Client       \* sidecars

ASSUME ProjectionConstants == Release \subseteq Nat /\ NoRelease = 0 /\ NoRelease \notin Release

VARIABLES
  github,      \* the latest release at GitHub
  cached,      \* manifest and upstream ETag, or NoRelease twice
  fresh,       \* younger than the TTL
  backoff,     \* before staleRetryAfter
  flight,      \* the GitHub request of refreshInFlight
  waiting      \* clients whose handlers await it

projectionVars == <<github, cached, fresh, backoff, flight, waiting>>

Release0 == Release \cup {NoRelease}
NoFlight == [at |-> "none", etag |-> NoRelease, status |-> 0, release |-> NoRelease]
Flight == [at : {"none", "asked", "answered"}, etag : Release0,
           status : {0, 200, 304, 500}, release : Release0]
Cold == [release |-> NoRelease, etag |-> NoRelease]

ProjectionInit ==
  /\ github \in Release
  /\ cached = Cold /\ fresh = FALSE /\ backoff = FALSE
  /\ flight = NoFlight /\ waiting = {}

Servable == cached # Cold /\ (fresh \/ backoff)

\* getLatest, where a copy is served at once; the handler ends.
Serves ==
  /\ Servable
  /\ UNCHANGED projectionVars

\* getLatest, where a refresh is started or joined.
Awaits(c) ==
  /\ ~Servable
  /\ waiting' = waiting \cup {c}
  /\ flight' = IF flight # NoFlight THEN flight
               ELSE [NoFlight EXCEPT !.at = "asked", !.etag = cached.etag]
  /\ UNCHANGED <<github, cached, fresh, backoff>>

\* GitHub answers 304 or 200; 500 stands for every answer that is not used: the
\* release has no asset yet, the status is another one, the body is not JSON.
GithubAnswers ==
  /\ flight.at = "asked"
  /\ flight' = [flight EXCEPT !.at = "answered", !.release = github,
                  !.status = IF flight.etag = github THEN 304 ELSE 200]
  /\ UNCHANGED <<github, cached, fresh, backoff, waiting>>

GithubFails ==
  /\ flight.at = "asked"
  /\ \E r \in {NoRelease, github} :
       flight' = [flight EXCEPT !.at = "answered", !.status = 500, !.release = r]
  /\ UNCHANGED <<github, cached, fresh, backoff, waiting>>

MutFailedRefresh_KeepsEtag ==
  /\ cached' = [cached EXCEPT !.etag = IF flight.release = NoRelease THEN @ ELSE flight.release]
  /\ backoff' = (cached # Cold)
  /\ UNCHANGED fresh

\* refresh, catch
FailedRefresh ==
  /\ backoff' = IF cached # Cold THEN TRUE ELSE backoff
  /\ UNCHANGED <<cached, fresh>>

MutRefreshEnds_NeverCleared ==
  /\ flight.at = "answered" /\ waiting # {}
  /\ IF flight.status = 500 THEN FailedRefresh
     ELSE /\ fresh' = TRUE /\ backoff' = FALSE
          /\ cached' = IF flight.status = 304 THEN cached
                       ELSE [release |-> flight.release, etag |-> flight.release]
  /\ waiting' = {}
  /\ UNCHANGED <<github, flight>>

\* refresh after its await, and the answers to all who wait.
RefreshEnds ==
  /\ flight.at = "answered"
  /\ IF flight.status = 500 THEN FailedRefresh
     ELSE /\ fresh' = TRUE /\ backoff' = FALSE
          /\ cached' = IF flight.status = 304 THEN cached
                       ELSE [release |-> flight.release, etag |-> flight.release]
  /\ flight' = NoFlight
  /\ waiting' = {}
  /\ UNCHANGED github

Ages ==
  /\ \/ fresh /\ fresh' = FALSE /\ UNCHANGED backoff
     \/ backoff /\ backoff' = FALSE /\ UNCHANGED fresh
  /\ UNCHANGED <<github, cached, flight, waiting>>

Published(r) ==
  /\ r # github /\ github' = r
  /\ UNCHANGED <<cached, fresh, backoff, flight, waiting>>

ProjectionRestarts ==
  /\ cached' = Cold /\ fresh' = FALSE /\ backoff' = FALSE
  /\ flight' = NoFlight /\ waiting' = {}
  /\ UNCHANGED github

----------------------------------------------------------------------------
ProjectionTypeOK ==
  /\ github \in Release
  /\ cached \in [release : Release0, etag : Release0]
  /\ fresh \in BOOLEAN /\ backoff \in BOOLEAN
  /\ flight \in Flight
  /\ waiting \subseteq Client

\* Whatever is revalidated was right: a 304 of GitHub never confirms a release
\* that is not the one GitHub had (refresh keeps the ETag of an answer only
\* with the manifest that came with it).
RevalidatesTheSame ==
  flight.at = "answered" /\ flight.status = 304 => cached.release = flight.release
=============================================================================
