---------------------------- MODULE HttpService ----------------------------
(***************************************************************************)
(* The relay's HTTP listener and its two dispatchers: server/index.js asks *)
(* updates/index.js and then api/index.js whether a request is theirs, and *)
(* answers /health and 404 itself.  Requests are served side by side: each *)
(* waits for its body, for scrypt or for GitHub while others come and      *)
(* clients go away.                                                        *)
(*                                                                         *)
(* Abstracted: what routes answer (ProfileApi, UpdateProjection), the      *)
(* sizes of bodies, which are counted in chunks up to the cap, and the     *)
(* shutdown (Relay).                                                       *)
(***************************************************************************)
EXTENDS Naturals

CONSTANTS
  Request,     \* requests at one time
  MaxBody      \* MAX_BODY_BYTES, in chunks

VARIABLES
  up,       \* whether the process runs
  req       \* where each request is

httpVars == <<up, req>>

\* at is the await that a handler rests on; "unowned" means that both dispatchers
\* have returned without owning the request.  answers counts calls of writeHead.
Unused == [at |-> "none", open |-> FALSE, body |-> 0, answers |-> 0]

Init == up = TRUE /\ req = [r \in Request |-> Unused]

\* A step of one request's handler.
Step(r, from) == up /\ req[r].at = from

----------------------------------------------------------------------------
(* One request *)

\* writeJson answers unless the headers are sent.
WriteJson(q) == [q EXCEPT !.at = "over", !.answers = IF @ = 0 THEN 1 ELSE @]

\* A handler runs up to its first await: getLatest, the body, authenticate; the
\* dispatcher's own refusals (404, 405, a bad ID) have none, and what neither
\* dispatcher owns is the listener's.
Arrives(r) ==
  /\ Step(r, "none") /\ UNCHANGED up
  /\ \E stop \in {"updating", "reading", "routed", "over", "unowned"} :
       req' = [req EXCEPT ![r] = [at |-> stop, open |-> TRUE, body |-> 0,
                                  answers |-> IF stop = "over" THEN 1 ELSE 0]]

\* updates.handleHttp: 200, 304, or 503 when getLatest fails.
Updated(r) ==
  /\ Step(r, "updating") /\ UNCHANGED up
  /\ req' = [req EXCEPT ![r] = WriteJson(@)]

BodyGrows(r) ==
  /\ Step(r, "reading") /\ req[r].open /\ req[r].body < MaxBody
  /\ req' = [req EXCEPT ![r].body = @ + 1]
  /\ UNCHANGED up

\* One chunk too many: readBody rejects and destroys the request, handleHttp
\* writes 413 and returns what writeJson returns, which is not true.
BodyTooLarge(r) ==
  /\ Step(r, "reading") /\ req[r].open /\ req[r].body = MaxBody
  /\ req' = [req EXCEPT ![r].at = "unowned", ![r].open = FALSE, ![r].body = @ + 1,
                        ![r].answers = 1]
  /\ UNCHANGED up

BodyEnds(r) ==
  /\ Step(r, "reading") /\ req[r].open
  /\ req' = [req EXCEPT ![r].at = "routed"]
  /\ UNCHANGED up

\* The route's own answer, or the 500 of the dispatcher's catch.
RouteAnswers(r) ==
  /\ Step(r, "routed") /\ UNCHANGED up
  /\ req' = [req EXCEPT ![r] = WriteJson(@)]

\* The listener's own routes.  They are outside its try: writeHead throws when
\* an answer has been written, and nobody handles the rejection.
FallsThrough(r) ==
  /\ Step(r, "unowned")
  /\ req' = [req EXCEPT ![r].at = "over", ![r].answers = @ + 1]
  /\ up' = (req[r].answers = 0)

\* The client goes away.  A body that is being read ends in an error event, so
\* readBody rejects and the dispatcher answers 500 to nobody; other handlers do
\* not notice.
ClientGone(r) ==
  /\ up /\ req[r].open /\ UNCHANGED up
  /\ req' = [req EXCEPT ![r] =
               [(IF req[r].at = "reading" THEN WriteJson(@) ELSE @) EXCEPT !.open = FALSE]]

\* The exchange is over: its connection is idle.
Closes(r) ==
  /\ Step(r, "over") /\ UNCHANGED up
  /\ req' = [req EXCEPT ![r] = Unused]

\* systemd starts the process again; its connections are gone.
Restarts == ~up /\ up' = TRUE /\ req' = [r \in Request |-> Unused]

Next ==
  \/ \E r \in Request :
       \/ Arrives(r) \/ Updated(r) \/ BodyGrows(r) \/ BodyTooLarge(r) \/ BodyEnds(r)
       \/ RouteAnswers(r) \/ FallsThrough(r) \/ ClientGone(r) \/ Closes(r)
  \/ Restarts

Spec == Init /\ [][Next]_httpVars

----------------------------------------------------------------------------
(* Properties *)

\* api/index.js:7 says of the dispatchers' result "true  = this dispatcher handled
\* the request (req has been responded to)", false that it is the caller's: a
\* request that the listener goes on with has no answer yet.  The code does not
\* keep this: after a 413 handleHttp returns undefined.
UnownedIsUnanswered == \A r \in Request : req[r].at = "unowned" => req[r].answers = 0

\* As long as no body is over the cap, each request is answered at most once,
\* whichever awaits it rests on when its client goes away, and the process runs.
OneAnswer ==
  (\A r \in Request : req[r].body <= MaxBody) =>
    up /\ \A r \in Request : req[r].answers <= 1
=============================================================================
