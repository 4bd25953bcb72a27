----------------------------- MODULE ProfileApi -----------------------------
(***************************************************************************)
(* The profile routes of the relay, server/api: the tables auth_tokens and *)
(* profiles, POST /api/auth/pair, which binds a token to a Prometheus ID   *)
(* on first use, and PUT /api/profiles/{pid}, which only the bound token   *)
(* may do.  Both handlers await scrypt between their look-up and their     *)
(* write, so handlers of other requests, a maintainer with sqlite3, and a  *)
(* restart come in between.                                                *)
(*                                                                         *)
(* Abstracted: hashing (two tokens are equal or not), the columns of a     *)
(* profile (a row is the token it was last written with), created_at and   *)
(* last_seen_at, GET, which changes nothing else, and the answers 400, 404,*)
(* 405 and 413, which the client of this system does not provoke.          *)
(***************************************************************************)
EXTENDS Integers

CONSTANTS
  Pid,        \* Prometheus IDs
  Token,      \* bearer tokens; a client is known by its token only
  NoToken,    \* no row
  Slot,       \* requests that may be in flight at once
  Free        \* a slot without a request

ASSUME ApiConstants == NoToken \notin Token

VARIABLES
  tokens,     \* auth_tokens: Prometheus ID -> token, or NoToken
  profiles,   \* profiles: Prometheus ID -> the token the row was last written with
  bound,      \* history: the pairs <<pid, token>> there has been a row for
  call        \* the requests in flight

apiVars == <<tokens, profiles, bound, call>>

\* "sent": not yet taken up; "hashing": its handler awaits scrypt; "done":
\* answered with status.  matches: rows of the snapshot that a PUT hashes
\* and that are the token's.
Call == [kind : {"put", "pair"}, pid : Pid, token : Token,
         at : {"sent", "hashing", "done"}, matches : SUBSET Pid,
         status : {0, 200, 201, 401, 403, 409, 500}]

ApiInit ==
  /\ tokens = [p \in Pid |-> NoToken]
  /\ profiles = [p \in Pid |-> NoToken]
  /\ bound = {}
  /\ call = [c \in Slot |-> Free]

InFlight(c, kind, at) == call[c] # Free /\ call[c].kind = kind /\ call[c].at = at

Reply(c, status) == call' = [call EXCEPT ![c].at = "done", ![c].status = status]

MutRequest_StaleAnswer(c, kind, token, pid) ==
  /\ call[c] # Free => call[c].at = "done"
  /\ call' = [call EXCEPT ![c] =
                [kind |-> kind, pid |-> pid, token |-> token, at |-> "sent", matches |-> {},
                 status |-> IF call[c] = Free THEN 0 ELSE call[c].status]]

\* A client sends a request, in a slot of its own or in that of the answer it
\* has just read.
Request(c, kind, token, pid) ==
  /\ call[c] # Free => call[c].at = "done"
  /\ call' = [call EXCEPT ![c] = [kind |-> kind, pid |-> pid, token |-> token,
                                  at |-> "sent", matches |-> {}, status |-> 0]]

\* An answer is read, or arrives where nobody waits; a request never arrives.
Vanish(c) ==
  /\ call[c] # Free /\ call[c].at \in {"sent", "done"}
  /\ call' = [call EXCEPT ![c] = Free]

----------------------------------------------------------------------------
(* POST /api/auth/pair *)

\* handlePair up to its await: a bound ID is refused before any hashing.
PairLooksUp(c) ==
  /\ InFlight(c, "pair", "sent")
  /\ IF tokens[call[c].pid] # NoToken
     THEN Reply(c, 409)
     ELSE call' = [call EXCEPT ![c].at = "hashing"]
  /\ UNCHANGED <<tokens, profiles, bound>>

Bind(pid, token) ==
  /\ tokens' = [tokens EXCEPT ![pid] = token]
  /\ bound' = bound \cup {<<pid, token>>}

MutPairInserts_Replaces(c) ==
  /\ InFlight(c, "pair", "hashing")
  /\ Reply(c, 201)
  /\ Bind(call[c].pid, call[c].token)
  /\ UNCHANGED profiles

\* handlePair after it: the primary key refuses a second row.
PairInserts(c) ==
  /\ InFlight(c, "pair", "hashing")
  /\ IF tokens[call[c].pid] # NoToken
     THEN Reply(c, 409) /\ UNCHANGED <<tokens, bound>>
     ELSE Reply(c, 201) /\ Bind(call[c].pid, call[c].token)
  /\ UNCHANGED profiles

----------------------------------------------------------------------------
(* PUT /api/profiles/{pid} *)

\* authenticate: the rows are read once, then hashed one after the other.
PutReadsRows(c) ==
  /\ InFlight(c, "put", "sent")
  /\ call' = [call EXCEPT ![c].at = "hashing",
                          ![c].matches = {p \in Pid : tokens[p] = call[c].token}]
  /\ UNCHANGED <<tokens, profiles, bound>>

\* No row matches.  A scrypt that fails is a row that does not match.
PutUnknown(c) ==
  /\ InFlight(c, "put", "hashing")
  /\ Reply(c, 401)
  /\ UNCHANGED <<tokens, profiles, bound>>

Written(c) == profiles' = [profiles EXCEPT ![call[c].pid] = call[c].token]

MutPutMatches_AnyPid(c, status) ==
  /\ InFlight(c, "put", "hashing")
  /\ \E p \in call[c].matches : Written(c) /\ Reply(c, status)
  /\ UNCHANGED <<tokens, bound>>

\* The first match decides, and the order of rows is SQLite's: the request is
\* another ID's, or the row is written.  (500: the row cannot be read back.)
PutMatches(c, status) ==
  /\ InFlight(c, "put", "hashing")
  /\ \E p \in call[c].matches :
       IF p # call[c].pid
       THEN Reply(c, 403) /\ UNCHANGED profiles
       ELSE Written(c) /\ Reply(c, status)
  /\ UNCHANGED <<tokens, bound>>

----------------------------------------------------------------------------
(* Failures and maintenance *)

\* A database or scrypt error; nothing is written.
ServerError(c) ==
  /\ call[c] # Free /\ call[c].at # "done"
  /\ Reply(c, 500)
  /\ UNCHANGED <<tokens, profiles, bound>>

\* The maintainer's recovery: DELETE FROM auth_tokens WHERE prometheus_id = ...
MaintainerDeletes(p) ==
  /\ tokens[p] # NoToken
  /\ tokens' = [tokens EXCEPT ![p] = NoToken]
  /\ UNCHANGED <<profiles, bound, call>>

\* The process ends; the tables stay and no handler goes on.
RelayRestarts ==
  /\ call' = [c \in Slot |-> IF call[c] # Free /\ call[c].at = "hashing" THEN Free ELSE call[c]]
  /\ UNCHANGED <<tokens, profiles, bound>>

Handlers(c) ==
  \/ PairLooksUp(c) \/ PairInserts(c) \/ PutReadsRows(c)
  \/ PutUnknown(c) /\ call[c].matches = {}
  \/ PutMatches(c, 200)

Failures(c) == (PutUnknown(c) /\ call[c].matches # {}) \/ PutMatches(c, 500) \/ ServerError(c)

\* The API under any clients at all.
ApiNext ==
  \/ \E c \in Slot :
       \/ Handlers(c) \/ Failures(c)
       \/ Vanish(c) /\ UNCHANGED <<tokens, profiles, bound>>
       \/ \E kind \in {"put", "pair"}, t \in Token, p \in Pid :
            Request(c, kind, t, p) /\ UNCHANGED <<tokens, profiles, bound>>
  \/ \E p \in Pid : MaintainerDeletes(p)
  \/ RelayRestarts

ApiSpec == ApiInit /\ [][ApiNext]_apiVars

----------------------------------------------------------------------------
(* Properties *)

\* The types of the two tables and of the requests (schema.js, index.js), and
\* that a request is answered exactly when it has a status.
ApiTypeOK ==
  /\ tokens \in [Pid -> Token \cup {NoToken}]
  /\ profiles \in [Pid -> Token \cup {NoToken}]
  /\ bound \subseteq Pid \X Token
  /\ call \in [Slot -> Call \cup {Free}]
  /\ \A c \in Slot : call[c] # Free => (call[c].status # 0) = (call[c].at = "done")

\* Trust on first use: whoever pairs first keeps the ID.  However two pairs
\* overlap around their await, a binding is never replaced; only the
\* maintainer removes it (handlePair: SELECT, await scryptHash, INSERT).
TofuBinding ==
  [][\A p \in Pid : tokens[p] # NoToken => tokens'[p] \in {tokens[p], NoToken}]_apiVars

\* A profile is only ever written with a token that the ID was bound to, even
\* when rows are deleted and re-paired while the PUT is hashing
\* (authenticate works on a snapshot of auth_tokens; handlePut: 403).
WrittenByOwner ==
  \A p \in Pid : profiles[p] # NoToken => <<p, profiles[p]>> \in bound
=============================================================================
