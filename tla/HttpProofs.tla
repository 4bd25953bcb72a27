----------------------------- MODULE HttpProofs -----------------------------
(***************************************************************************)
(* Of any number of requests and any cap on a body: as long as no body is  *)
(* over the cap, every request is answered at most once and the relay's    *)
(* process runs.                                                           *)
(***************************************************************************)
EXTENDS HttpService, TLAPS

Before == {"none", "updating", "reading", "routed", "unowned"}

Served == [at : Before \cup {"over"}, open : BOOLEAN, body : Nat, answers : Nat]

HttpTypeOK == up \in BOOLEAN /\ req \in [Request -> Served]

\* A request whose body is within the cap is not answered before it is over.
AnsweredWhenOver(q) ==
  q.body <= MaxBody => q.answers <= 1 /\ (q.at \in Before => q.answers = 0)

\* It takes a body over the cap to end the process.
HttpInv ==
  /\ HttpTypeOK
  /\ \A r \in Request : AnsweredWhenOver(req[r])
  /\ up \/ \E r \in Request : req[r].body > MaxBody

LEMMA HttpInit == ASSUME MaxBody \in Nat PROVE Init => HttpInv
<1>. SUFFICES ASSUME Init PROVE HttpInv
  OBVIOUS
<1>1. Unused \in Served /\ AnsweredWhenOver(Unused)
  BY DEF Unused, Served, Before, AnsweredWhenOver
<1>2. up = TRUE /\ req = [r \in Request |-> Unused]
  BY DEF Init
<1>3. req \in [Request -> Served] /\ \A r \in Request : AnsweredWhenOver(req[r])
  BY <1>1, <1>2
<1> QED
  BY <1>2, <1>3 DEF HttpInv, HttpTypeOK

LEMMA WriteJsonOnce ==
  ASSUME NEW q \in Served, AnsweredWhenOver(q)
  PROVE  WriteJson(q) \in Served /\ AnsweredWhenOver(WriteJson(q))
<1>. DEFINE n == IF q.answers = 0 THEN 1 ELSE q.answers
            w == [q EXCEPT !.at = "over", !.answers = n]
<1>1. n \in Nat /\ (q.body <= MaxBody => n <= 1)
  BY DEF AnsweredWhenOver, Served
<1>. HIDE DEF n
<1>2. w \in Served /\ w.at = "over" /\ w.answers = n /\ w.body = q.body
  BY <1>1 DEF Served
<1>3. WriteJson(q) = w
  BY DEF WriteJson, n
<1>. HIDE DEF w
<1>4. AnsweredWhenOver(w)
  BY <1>1, <1>2 DEF AnsweredWhenOver, Before
<1> QED
  BY <1>2, <1>3, <1>4

\* A step that leaves the process up and one request as it should be.
LEMMA OneRequest ==
  ASSUME HttpInv, up, up' = up, NEW r \in Request, NEW q \in Served, AnsweredWhenOver(q),
         req' = [req EXCEPT ![r] = q]
  PROVE  HttpInv'
<1>1. req' \in [Request -> Served] /\ \A s \in Request : AnsweredWhenOver(req'[s])
  BY DEF HttpInv, HttpTypeOK
<1> QED
  BY <1>1 DEF HttpInv, HttpTypeOK

LEMMA HttpStep == ASSUME MaxBody \in Nat PROVE HttpInv /\ [Next]_httpVars => HttpInv'
<1>. SUFFICES ASSUME HttpInv, [Next]_httpVars PROVE HttpInv'
  OBVIOUS
<1>1. \A r \in Request : req[r] \in Served /\ AnsweredWhenOver(req[r])
  BY DEF HttpInv, HttpTypeOK
<1>2. ASSUME NEW r \in Request, Arrives(r) PROVE HttpInv'
  <2>1. PICK stop \in {"updating", "reading", "routed", "over", "unowned"} :
          req' = [req EXCEPT ![r] = [at |-> stop, open |-> TRUE, body |-> 0,
                                     answers |-> IF stop = "over" THEN 1 ELSE 0]]
    BY <1>2 DEF Arrives
  <2>. DEFINE q == [at |-> stop, open |-> TRUE, body |-> 0,
                    answers |-> IF stop = "over" THEN 1 ELSE 0]
  <2>2. q \in Served /\ AnsweredWhenOver(q)
    BY DEF Served, Before, AnsweredWhenOver
  <2>. HIDE DEF q
  <2>3. up /\ up' = up
    BY <1>2 DEF Arrives, Step
  <2> QED
    BY <2>1, <2>2, <2>3, OneRequest DEF q
<1>3. ASSUME NEW r \in Request, Updated(r) \/ RouteAnswers(r) PROVE HttpInv'
  <2>1. up /\ up' = up /\ req' = [req EXCEPT ![r] = WriteJson(req[r])]
    BY <1>3 DEF Updated, RouteAnswers, Step
  <2> QED
    BY <1>1, <2>1, WriteJsonOnce, OneRequest
<1>4. ASSUME NEW r \in Request, BodyGrows(r) PROVE HttpInv'
  <2>. DEFINE q == [req[r] EXCEPT !.body = @ + 1]
  <2>1. up /\ up' = up /\ req' = [req EXCEPT ![r] = q] /\ req[r].at = "reading" /\ req[r].body < MaxBody
    BY <1>4 DEF BodyGrows, Step
  <2>2. q \in Served /\ AnsweredWhenOver(q)
    BY <1>1, <2>1 DEF Served, AnsweredWhenOver, Before
  <2>. HIDE DEF q
  <2> QED
    BY <2>1, <2>2, OneRequest
<1>5. ASSUME NEW r \in Request, BodyTooLarge(r) PROVE HttpInv'
  <2>. DEFINE q == [req[r] EXCEPT !.at = "unowned", !.open = FALSE, !.body = @ + 1, !.answers = 1]
  <2>1. up /\ up' = up /\ req' = [req EXCEPT ![r] = q] /\ req[r].body = MaxBody
    BY <1>5 DEF BodyTooLarge, Step
  <2>2. q \in Served /\ q.body = MaxBody + 1
    <3>1. MaxBody + 1 \in Nat /\ q = [req[r] EXCEPT !.at = "unowned", !.open = FALSE,
                                                  !.body = MaxBody + 1, !.answers = 1]
      BY <2>1
    <3> QED
      BY <1>1, <3>1 DEF Served, Before
  <2>. HIDE DEF q
  <2>3. AnsweredWhenOver(q)
    BY <2>2 DEF AnsweredWhenOver
  <2> QED
    BY <2>1, <2>2, <2>3, OneRequest
<1>6. ASSUME NEW r \in Request, BodyEnds(r) PROVE HttpInv'
  <2>. DEFINE q == [req[r] EXCEPT !.at = "routed"]
  <2>1. up /\ up' = up /\ req' = [req EXCEPT ![r] = q] /\ req[r].at = "reading"
    BY <1>6 DEF BodyEnds, Step
  <2>2. q \in Served /\ AnsweredWhenOver(q)
    BY <1>1, <2>1 DEF Served, AnsweredWhenOver, Before
  <2>. HIDE DEF q
  <2> QED
    BY <2>1, <2>2, OneRequest
<1>7. ASSUME NEW r \in Request, FallsThrough(r) PROVE HttpInv'
  <2>. DEFINE q == [req[r] EXCEPT !.at = "over", !.answers = @ + 1]
  <2>1. req' = [req EXCEPT ![r] = q] /\ req[r].at = "unowned" /\ up' = (req[r].answers = 0)
    BY <1>7 DEF FallsThrough, Step
  <2>2. q \in Served /\ AnsweredWhenOver(q) /\ q.body = req[r].body
    <3>1. req[r].answers + 1 \in Nat
      BY <1>1 DEF Served
    <3>2. q \in Served /\ q.at = "over" /\ q.answers = req[r].answers + 1 /\ q.body = req[r].body
      BY <1>1, <3>1 DEF Served
    <3> QED
      BY <1>1, <2>1, <3>2 DEF AnsweredWhenOver, Before
  <2>. HIDE DEF q
  <2>3. req' \in [Request -> Served] /\ (\A s \in Request : AnsweredWhenOver(req'[s])) /\ req'[r] = q
    BY <1>1, <2>1, <2>2 DEF HttpInv, HttpTypeOK
  <2>4. up' \in BOOLEAN
    BY <2>1
  <2>5. up' \/ req'[r].body > MaxBody
    <3>1. req[r].answers = 0 \/ req[r].body > MaxBody
      BY <1>1, <2>1 DEF AnsweredWhenOver, Served, Before
    <3> QED
      BY <2>1, <2>2, <2>3, <3>1
  <2> QED
    BY <2>3, <2>4, <2>5 DEF HttpInv, HttpTypeOK
<1>8. ASSUME NEW r \in Request, ClientGone(r) PROVE HttpInv'
  <2>. DEFINE w == IF req[r].at = "reading" THEN WriteJson(req[r]) ELSE req[r]
              q == [w EXCEPT !.open = FALSE]
  <2>1. up /\ up' = up /\ req' = [req EXCEPT ![r] = q]
    BY <1>8 DEF ClientGone
  <2>2. w \in Served /\ AnsweredWhenOver(w)
    BY <1>1, WriteJsonOnce
  <2>. HIDE DEF w
  <2>3. q \in Served /\ AnsweredWhenOver(q)
    BY <2>2 DEF Served, AnsweredWhenOver, Before
  <2>. HIDE DEF q
  <2> QED
    BY <2>1, <2>3, OneRequest
<1>9. ASSUME NEW r \in Request, Closes(r) PROVE HttpInv'
  <2>1. up /\ up' = up /\ req' = [req EXCEPT ![r] = Unused]
    BY <1>9 DEF Closes, Step
  <2>2. Unused \in Served /\ AnsweredWhenOver(Unused)
    BY DEF Unused, Served, Before, AnsweredWhenOver
  <2> QED
    BY <2>1, <2>2, OneRequest
<1>10. CASE Restarts
  <2>1. up' = TRUE /\ req' = [r \in Request |-> Unused]
    BY <1>10 DEF Restarts
  <2>2. Unused \in Served /\ AnsweredWhenOver(Unused)
    BY DEF Unused, Served, Before, AnsweredWhenOver
  <2>3. req' \in [Request -> Served] /\ \A r \in Request : AnsweredWhenOver(req'[r])
    BY <2>1, <2>2
  <2> QED
    BY <2>1, <2>3 DEF HttpInv, HttpTypeOK
<1>11. CASE UNCHANGED httpVars
  BY <1>11 DEF httpVars, HttpInv, HttpTypeOK
<1> QED
  BY <1>2, <1>3, <1>4, <1>5, <1>6, <1>7, <1>8, <1>9, <1>10, <1>11 DEF Next

\* Whatever clients send within the cap, and whenever they go away, no answer is
\* written twice and the listener stays up.
THEOREM AnswersOnce == ASSUME MaxBody \in Nat PROVE Spec => []OneAnswer
<1>1. HttpInv => OneAnswer
  BY DEF HttpInv, HttpTypeOK, AnsweredWhenOver, Served, OneAnswer
<1> QED
  BY <1>1, HttpInit, HttpStep, PTL DEF Spec
=============================================================================
