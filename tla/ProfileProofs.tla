--------------------------- MODULE ProfileProofs ---------------------------
(***************************************************************************)
(* Theorems about ProfileApi under any clients, about the client of        *)
(* ProfileSync, and that the latter drives the former by its actions only. *)
(***************************************************************************)
EXTENDS ProfileSync, TLAPS

----------------------------------------------------------------------------
(* Types of the API *)

CallsOK ==
  /\ call \in [Slot -> Call \cup {Free}]
  /\ \A c \in Slot : call[c] # Free => (call[c].status # 0) = (call[c].at = "done")

Status == {200, 201, 401, 403, 409, 500}

\* A request whose stage and status change is a request still.
LEMMA CallAnswered ==
  ASSUME NEW x \in Call, NEW status \in Status
  PROVE  LET z == [x EXCEPT !.at = "done", !.status = status]
         IN  z \in Call /\ z.at = "done" /\ z.status = status
<1>1. PICK y : y = [x EXCEPT !.at = "done"]
  OBVIOUS
<1>2. y \in Call /\ y.at = "done"
  BY <1>1 DEF Call
<1>3. [y EXCEPT !.status = status] \in Call /\ [y EXCEPT !.status = status].at = "done"
        /\ [y EXCEPT !.status = status].status = status
  BY <1>2 DEF Call, Status
<1>4. [x EXCEPT !.at = "done", !.status = status] = [y EXCEPT !.status = status]
  BY <1>1 DEF Call
<1>. QED
  BY <1>3, <1>4

\* So is one that gets its snapshot.
LEMMA CallHashing ==
  ASSUME NEW x \in Call, NEW matches \in SUBSET Pid
  PROVE  LET z == [x EXCEPT !.at = "hashing", !.matches = matches]
         IN  z \in Call /\ z.at = "hashing" /\ z.matches = matches
               /\ z.status = x.status /\ z.token = x.token
<1>1. PICK y : y = [x EXCEPT !.at = "hashing"]
  OBVIOUS
<1>2. y \in Call /\ y.at = "hashing" /\ y.status = x.status /\ y.token = x.token
  BY <1>1 DEF Call
<1>. DEFINE w == [y EXCEPT !.matches = matches]
<1>3. w \in Call /\ w.at = "hashing" /\ w.matches = matches
        /\ w.status = x.status /\ w.token = x.token
  BY <1>2 DEF Call
<1>4. [x EXCEPT !.at = "hashing", !.matches = matches] = w
  BY <1>1 DEF Call
<1>. QED
  BY <1>3, <1>4

\* An answer keeps the requests well-formed.
LEMMA ReplyTyped ==
  ASSUME CallsOK, NEW c \in Slot, call[c] # Free, NEW status \in Status, Reply(c, status)
  PROVE  CallsOK'
<1>. DEFINE z == [call[c] EXCEPT !.at = "done", !.status = status]
<1>1. call' = [call EXCEPT ![c] = z]
  BY DEF Reply
<1>2. z \in Call /\ z.at = "done" /\ z.status # 0
  <2>1. call[c] \in Call
    BY DEF CallsOK
  <2>2. z \in Call /\ z.at = "done" /\ z.status = status
    BY <2>1, CallAnswered
  <2>3. status # 0
    BY DEF Status
  <2>. HIDE DEF z
  <2>. QED BY <2>2, <2>3
<1>. HIDE DEF z
<1>. QED
  BY <1>1, <1>2 DEF CallsOK

\* A request keeps the requests well-formed.
LEMMA RequestTyped ==
  ASSUME CallsOK, NEW c \in Slot, NEW kind \in {"put", "pair"}, NEW t \in Token,
         NEW p \in Pid, Request(c, kind, t, p)
  PROVE  CallsOK'
  BY DEF CallsOK, Request, Call

\* So does a request that vanishes.
LEMMA VanishTyped ==
  ASSUME CallsOK, NEW c \in Slot, Vanish(c)
  PROVE  CallsOK'
  BY DEF CallsOK, Vanish

\* Each step of the API keeps its types.
LEMMA ApiTypesStep == ApiTypeOK /\ [ApiNext]_apiVars => ApiTypeOK'
<1>. SUFFICES ASSUME ApiTypeOK, [ApiNext]_apiVars PROVE ApiTypeOK'
  OBVIOUS
<1>. USE DEF ApiTypeOK
<1>0. CallsOK
  BY DEF CallsOK
<1>1. ASSUME NEW c \in Slot, PairLooksUp(c) PROVE ApiTypeOK'
  <2>1. CallsOK'
    <3>1. CASE tokens[call[c].pid] # NoToken
      BY <1>0, <1>1, <3>1, ReplyTyped DEF PairLooksUp, InFlight, Status
    <3>2. CASE tokens[call[c].pid] = NoToken
      BY <1>0, <1>1, <3>2 DEF PairLooksUp, InFlight, CallsOK, Call
    <3>. QED BY <3>1, <3>2
  <2>. QED BY <1>1, <2>1 DEF PairLooksUp, CallsOK
<1>2. ASSUME NEW c \in Slot, PairInserts(c) PROVE ApiTypeOK'
  <2>1. CallsOK'
    BY <1>0, <1>2, ReplyTyped DEF PairInserts, InFlight, Status
  <2>2. call[c].pid \in Pid /\ call[c].token \in Token
    BY <1>0, <1>2 DEF PairInserts, InFlight, CallsOK, Call
  <2>. QED BY <1>2, <2>1, <2>2 DEF PairInserts, Bind, CallsOK
<1>3. ASSUME NEW c \in Slot, PutReadsRows(c) PROVE ApiTypeOK'
  <2>. DEFINE rows == {p \in Pid : tokens[p] = call[c].token}
              z == [call[c] EXCEPT !.at = "hashing", !.matches = rows]
  <2>2. call[c] \in Call /\ call[c].status = 0
    BY <1>0, <1>3 DEF PutReadsRows, InFlight, CallsOK
  <2>3. z \in Call /\ z.status = 0 /\ z.at = "hashing"
    BY <2>2, CallHashing
  <2>4. call' = [call EXCEPT ![c] = z]
    BY <1>3 DEF PutReadsRows
  <2>. HIDE DEF z
  <2>1. CallsOK'
    BY <1>0, <2>2, <2>3, <2>4 DEF CallsOK
  <2>. QED BY <1>3, <2>1 DEF PutReadsRows, CallsOK
<1>4. ASSUME NEW c \in Slot, PutUnknown(c) PROVE ApiTypeOK'
  <2>1. CallsOK'
    BY <1>0, <1>4, ReplyTyped DEF PutUnknown, InFlight, Status
  <2>. QED BY <1>4, <2>1 DEF PutUnknown, CallsOK
<1>5. ASSUME NEW c \in Slot, NEW status \in {200, 500}, PutMatches(c, status) PROVE ApiTypeOK'
  <2>1. CallsOK'
    BY <1>0, <1>5, ReplyTyped DEF PutMatches, InFlight, Status
  <2>2. call[c].pid \in Pid /\ call[c].token \in Token
    BY <1>0, <1>5 DEF PutMatches, InFlight, CallsOK, Call
  <2>. QED BY <1>5, <2>1, <2>2 DEF PutMatches, Written, CallsOK
<1>6. ASSUME NEW c \in Slot, ServerError(c) PROVE ApiTypeOK'
  <2>1. CallsOK'
    BY <1>0, <1>6, ReplyTyped DEF ServerError, Status
  <2>. QED BY <1>6, <2>1 DEF ServerError, CallsOK
<1>7. ASSUME NEW c \in Slot, Vanish(c), UNCHANGED <<tokens, profiles, bound>> PROVE ApiTypeOK'
  BY <1>0, <1>7, VanishTyped DEF CallsOK
<1>8. ASSUME NEW c \in Slot, NEW kind \in {"put", "pair"}, NEW t \in Token, NEW p \in Pid,
             Request(c, kind, t, p), UNCHANGED <<tokens, profiles, bound>>
      PROVE ApiTypeOK'
  BY <1>0, <1>8, RequestTyped DEF CallsOK
<1>9. ASSUME NEW p \in Pid, MaintainerDeletes(p) PROVE ApiTypeOK'
  BY <1>9 DEF MaintainerDeletes
<1>10. CASE RelayRestarts
  BY <1>10 DEF RelayRestarts
<1>11. CASE UNCHANGED apiVars
  BY <1>11 DEF apiVars
<1>. QED
  BY <1>1, <1>2, <1>3, <1>4, <1>5, <1>6, <1>7, <1>8, <1>9, <1>10, <1>11
  DEF ApiNext, Handlers, Failures

\* The types of the tables and requests hold under any clients.
THEOREM ApiTypes == ApiSpec => []ApiTypeOK
<1>1. ApiInit => ApiTypeOK
  BY DEF ApiInit, ApiTypeOK
<1>. QED
  BY <1>1, ApiTypesStep, PTL DEF ApiSpec

----------------------------------------------------------------------------
(* Bindings *)

\* No step of the API replaces a binding.
LEMMA BindingStep ==
  ASSUME ApiTypeOK, ApiNext, NEW p \in Pid, tokens[p] # NoToken
  PROVE  tokens'[p] \in {tokens[p], NoToken}
<1>1. ASSUME NEW c \in Slot, PairInserts(c) PROVE tokens'[p] = tokens[p]
  BY <1>1 DEF PairInserts, Bind, ApiTypeOK
<1>2. ASSUME NEW q \in Pid, MaintainerDeletes(q) PROVE tokens'[p] \in {tokens[p], NoToken}
  BY <1>2 DEF MaintainerDeletes, ApiTypeOK
<1>3. CASE UNCHANGED tokens
  BY <1>3
<1>. QED
  BY <1>1, <1>2, <1>3 DEF ApiNext, Handlers, Failures, PairLooksUp, PutReadsRows, PutUnknown,
     PutMatches, ServerError, RelayRestarts

\* Trust on first use holds whatever clients do.
THEOREM ApiBinding == ApiSpec => TofuBinding
<1>1. ApiTypeOK /\ [ApiNext]_apiVars
        => [\A p \in Pid : tokens[p] # NoToken => tokens'[p] \in {tokens[p], NoToken}]_apiVars
  BY BindingStep
<1>. QED
  BY <1>1, ApiTypes, PTL DEF ApiSpec, TofuBinding

----------------------------------------------------------------------------
(* Owners *)

\* Every row there is, and every row a PUT has in its snapshot, is in bound.
RowsKnown == \A p \in Pid : tokens[p] # NoToken => <<p, tokens[p]>> \in bound
SnapshotsKnown ==
  \A c \in Slot : call[c] # Free => \A p \in call[c].matches : <<p, call[c].token>> \in bound

Owned == WrittenByOwner /\ RowsKnown /\ SnapshotsKnown

\* bound only grows, so a step that changes neither table, and in requests
\* neither token nor snapshot but to drop them, keeps Owned.
LEMMA OwnedKept ==
  ASSUME Owned, UNCHANGED <<tokens, profiles, bound>>,
         \A c \in Slot : call'[c] # Free =>
           \/ call'[c].matches = {}
           \/ call[c] # Free /\ call'[c].matches = call[c].matches /\ call'[c].token = call[c].token
  PROVE  Owned'
  BY DEF Owned, WrittenByOwner, RowsKnown, SnapshotsKnown

\* Replies keep snapshots and tokens of all requests.
LEMMA ReplyKeeps ==
  ASSUME ApiTypeOK, NEW c \in Slot, call[c] # Free, NEW status, Reply(c, status)
  PROVE  \A d \in Slot : call'[d] # Free =>
           call[d] # Free /\ call'[d].matches = call[d].matches /\ call'[d].token = call[d].token
<1>1. call[c] \in Call
  BY DEF ApiTypeOK
<1>. QED
  BY <1>1 DEF ApiTypeOK, Reply, Call

\* Each step keeps Owned.
LEMMA OwnedStep == ApiTypeOK /\ Owned /\ [ApiNext]_apiVars => Owned'
<1>. SUFFICES ASSUME ApiTypeOK, Owned, [ApiNext]_apiVars PROVE Owned'
  OBVIOUS
<1>1. ASSUME NEW c \in Slot, PairLooksUp(c) PROVE Owned'
  <2>1. CASE tokens[call[c].pid] # NoToken
    BY <1>1, <2>1, ReplyKeeps, OwnedKept DEF PairLooksUp, InFlight
  <2>2. CASE tokens[call[c].pid] = NoToken
    <3>1. call[c] \in Call
      BY <1>1 DEF PairLooksUp, InFlight, ApiTypeOK
    <3>2. \A d \in Slot : call'[d] # Free =>
            call[d] # Free /\ call'[d].matches = call[d].matches /\ call'[d].token = call[d].token
      BY <1>1, <2>2, <3>1 DEF PairLooksUp, InFlight, ApiTypeOK, Call
    <3>. QED BY <1>1, <3>2, OwnedKept DEF PairLooksUp
  <2>. QED BY <2>1, <2>2
<1>2. ASSUME NEW c \in Slot, PairInserts(c) PROVE Owned'
  <2>1. \A d \in Slot : call'[d] # Free =>
          call[d] # Free /\ call'[d].matches = call[d].matches /\ call'[d].token = call[d].token
    BY <1>2, ReplyKeeps DEF PairInserts, InFlight
  <2>2. CASE tokens[call[c].pid] # NoToken
    BY <1>2, <2>1, <2>2, OwnedKept DEF PairInserts
  <2>3. CASE tokens[call[c].pid] = NoToken
    <3>1. Bind(call[c].pid, call[c].token) /\ UNCHANGED profiles
      BY <1>2, <2>3 DEF PairInserts
    <3>2. call[c].pid \in Pid /\ bound \subseteq bound'
      BY <1>2, <3>1 DEF PairInserts, InFlight, ApiTypeOK, Call, Bind
    <3>3. RowsKnown'
      BY <3>1, <3>2 DEF Owned, RowsKnown, Bind, ApiTypeOK
    <3>4. SnapshotsKnown'
      BY <2>1, <3>2 DEF Owned, SnapshotsKnown
    <3>5. WrittenByOwner'
      BY <3>1, <3>2 DEF Owned, WrittenByOwner
    <3>. QED BY <3>3, <3>4, <3>5 DEF Owned
  <2>. QED BY <2>2, <2>3
<1>3. ASSUME NEW c \in Slot, PutReadsRows(c) PROVE Owned'
  <2>1. call[c] \in Call
    BY <1>3 DEF PutReadsRows, InFlight, ApiTypeOK
  <2>2. call'[c].matches = {p \in Pid : tokens[p] = call[c].token} /\ call'[c].token = call[c].token
    <3>. DEFINE rows == {p \in Pid : tokens[p] = call[c].token}
                z == [call[c] EXCEPT !.at = "hashing", !.matches = rows]
    <3>1. call'[c] = z
      BY <1>3 DEF PutReadsRows, ApiTypeOK
    <3>2. z.matches = rows /\ z.token = call[c].token
      BY <2>1, CallHashing
    <3>. HIDE DEF z
    <3>. QED BY <3>1, <3>2
  <2>3. call[c].token # NoToken
    BY <2>1, ApiConstants DEF Call
  <2>4. \A p \in call'[c].matches : <<p, call'[c].token>> \in bound'
    BY <1>3, <2>2, <2>3 DEF PutReadsRows, Owned, RowsKnown
  <2>5. \A d \in Slot : d # c => call'[d] = call[d]
    BY <1>3 DEF PutReadsRows, ApiTypeOK
  <2>8. bound' = bound
    BY <1>3 DEF PutReadsRows
  <2>6. SnapshotsKnown'
    BY <2>4, <2>5, <2>8 DEF Owned, SnapshotsKnown
  <2>7. UNCHANGED <<tokens, profiles, bound>>
    BY <1>3 DEF PutReadsRows
  <2>. QED BY <2>6, <2>7 DEF Owned, RowsKnown, WrittenByOwner
<1>4. ASSUME NEW c \in Slot, PutUnknown(c) PROVE Owned'
  BY <1>4, ReplyKeeps, OwnedKept DEF PutUnknown, InFlight
<1>5. ASSUME NEW c \in Slot, NEW status, PutMatches(c, status) PROVE Owned'
  <2>1. PICK p \in call[c].matches :
          IF p # call[c].pid THEN Reply(c, 403) /\ UNCHANGED profiles
                             ELSE Written(c) /\ Reply(c, status)
    BY <1>5 DEF PutMatches
  <2>2. \A d \in Slot : call'[d] # Free =>
          call[d] # Free /\ call'[d].matches = call[d].matches /\ call'[d].token = call[d].token
    BY <1>5, <2>1, ReplyKeeps DEF PutMatches, InFlight
  <2>3. CASE p # call[c].pid
    BY <1>5, <2>1, <2>2, <2>3, OwnedKept DEF PutMatches
  <2>4. CASE p = call[c].pid
    <3>1. <<call[c].pid, call[c].token>> \in bound
      BY <1>5, <2>4 DEF PutMatches, InFlight, Owned, SnapshotsKnown
    <3>2. call[c].pid \in Pid
      BY <1>5 DEF PutMatches, InFlight, ApiTypeOK, Call
    <3>3. WrittenByOwner'
      BY <1>5, <2>1, <2>4, <3>1, <3>2 DEF PutMatches, Written, Owned, WrittenByOwner, ApiTypeOK
    <3>4. RowsKnown' /\ SnapshotsKnown'
      BY <1>5, <2>2 DEF PutMatches, Owned, RowsKnown, SnapshotsKnown
    <3>. QED BY <3>3, <3>4 DEF Owned
  <2>. QED BY <2>3, <2>4
<1>6. ASSUME NEW c \in Slot, ServerError(c) PROVE Owned'
  BY <1>6, ReplyKeeps, OwnedKept DEF ServerError
<1>7. ASSUME NEW c \in Slot, Vanish(c), UNCHANGED <<tokens, profiles, bound>> PROVE Owned'
  BY <1>7, OwnedKept DEF Vanish, ApiTypeOK
<1>8. ASSUME NEW c \in Slot, NEW kind, NEW t, NEW p,
             Request(c, kind, t, p), UNCHANGED <<tokens, profiles, bound>>
      PROVE Owned'
  BY <1>8, OwnedKept DEF Request, ApiTypeOK
<1>9. ASSUME NEW p \in Pid, MaintainerDeletes(p) PROVE Owned'
  BY <1>9 DEF MaintainerDeletes, Owned, WrittenByOwner, RowsKnown, SnapshotsKnown, ApiTypeOK
<1>10. CASE RelayRestarts
  BY <1>10, OwnedKept DEF RelayRestarts, ApiTypeOK
<1>11. CASE UNCHANGED apiVars
  BY <1>11, OwnedKept DEF apiVars
<1>. QED
  BY <1>1, <1>2, <1>3, <1>4, <1>5, <1>6, <1>7, <1>8, <1>9, <1>10, <1>11
  DEF ApiNext, Handlers, Failures

\* Profiles are written by tokens their ID was bound to, under any clients.
THEOREM ApiOwner == ApiSpec => []WrittenByOwner
<1>1. ApiInit => Owned
  BY DEF ApiInit, Owned, WrittenByOwner, RowsKnown, SnapshotsKnown
<1>2. Owned => WrittenByOwner
  BY DEF Owned
<1>. QED
  BY <1>1, <1>2, ApiTypes, OwnedStep, PTL DEF ApiSpec
----------------------------------------------------------------------------
(* The client *)

Fate == {"open", "stored", "aged", "401", "403", "409", "500"}

SyncTypes ==
  /\ life \in [Install -> [token : Token, pid : Pid \cup {NoPid}, pending : BOOLEAN, fate : Fate]]
  /\ flow \in [Slot -> Flow \cup {NoFlow}]

Flows(i) == {c \in Slot : flow[c] # NoFlow /\ flow[c].by = i}

\* What OneFate rests on: nothing is sent before Lua has emitted, and the first
\* call is alone, for the timer is set when it has failed.
FirstAlone ==
  \A i \in Install :
    /\ life[i].pid = NoPid => Flows(i) = {} /\ ~life[i].pending /\ life[i].fate = "open"
    /\ \A c, d \in Flows(i) : ~flow[c].retry => c = d

ClientInv == SyncTypes /\ OneFate /\ FirstAlone

\* The call in c ends as not terminal.
LEMMA FailedKeeps ==
  ASSUME ClientInv, NEW c \in Slot, flow[c] # NoFlow, Failed(c)
  PROVE  ClientInv'
<1>1. PICK i \in Install : i = flow[c].by /\ flow[c] \in Flow
  BY DEF ClientInv, SyncTypes, Flow
<1>2. flow' = [flow EXCEPT ![c] = NoFlow]
  BY DEF Failed
<1>3. life' = [life EXCEPT ![i].pending = @ \/ ~flow[c].retry]
  BY <1>1 DEF Failed, Queued
<1>4. SyncTypes'
  <2>1. PICK b \in BOOLEAN : b = (life[i].pending \/ ~flow[c].retry)
    OBVIOUS
  <2>2. life' = [life EXCEPT ![i].pending = b]
    BY <1>3, <2>1
  <2>. QED BY <1>2, <2>2 DEF ClientInv, SyncTypes
<1>5. \A j \in Install : Flows(j)' = Flows(j) \ {c} /\ FirstFlow(j)' = FirstFlow(j) \ {c}
  BY <1>2 DEF Flows, FirstFlow, ClientInv, SyncTypes
<1>6. \A j \in Install : /\ life'[j].pid = life[j].pid /\ life'[j].fate = life[j].fate
                         /\ j # i => life'[j].pending = life[j].pending
  BY <1>1, <1>3 DEF ClientInv, SyncTypes
<1>7. life'[i].pending = (life[i].pending \/ ~flow[c].retry)
  BY <1>1, <1>3 DEF ClientInv, SyncTypes
<1>8. c \in Flows(i) /\ life[i].pid # NoPid
  BY <1>1 DEF Flows, ClientInv, FirstAlone
<1>9. \A j \in Install \ {i} : c \notin Flows(j) /\ c \notin FirstFlow(j)
  BY <1>1 DEF Flows, FirstFlow
<1>12. \A j \in Install \ {i} : life'[j].pid # NoPid => InOnePlace(j)'
  <2>1. \A j \in Install \ {i} : FirstFlow(j)' = FirstFlow(j)
    BY <1>5, <1>9
  <2>. QED BY <1>6, <2>1 DEF ClientInv, OneFate, InOnePlace
<1>10. CASE flow[c].retry
  <2>1. c \notin FirstFlow(i)
    BY <1>10 DEF FirstFlow
  <2>2. InOnePlace(i)'
    <3>1. FirstFlow(i)' = FirstFlow(i) /\ life'[i].pending = life[i].pending
      BY <1>1, <1>5, <1>7, <1>10, <2>1 DEF ClientInv, SyncTypes
    <3>. QED BY <1>1, <1>6, <1>8, <3>1 DEF ClientInv, OneFate, InOnePlace
  <2>3. FirstAlone'
    BY <1>2, <1>5, <1>6, <1>7, <1>8, <1>10 DEF ClientInv, FirstAlone, Flows, SyncTypes
  <2>. QED BY <1>4, <1>12, <2>2, <2>3 DEF ClientInv, OneFate, InOnePlace
<1>11. CASE ~flow[c].retry
  <2>1. Flows(i) = {c} /\ FirstFlow(i) = {c}
    BY <1>1, <1>8, <1>11 DEF ClientInv, FirstAlone, Flows, FirstFlow
  <2>2. life[i].fate = "open"
    BY <1>1, <1>8, <2>1 DEF ClientInv, OneFate, InOnePlace
  <2>3. InOnePlace(i)'
    BY <1>1, <1>5, <1>6, <1>7, <1>11, <2>1, <2>2 DEF InOnePlace
  <2>4. FirstAlone'
    BY <1>2, <1>5, <1>6, <1>7, <1>8, <1>11 DEF ClientInv, FirstAlone, Flows, SyncTypes
  <2>. QED BY <1>4, <1>12, <2>3, <2>4 DEF ClientInv, OneFate, InOnePlace
<1>. QED
  BY <1>1, <1>10, <1>11 DEF Flow

\* The call in c ends for good.
LEMMA EndedKeeps ==
  ASSUME ClientInv, NEW c \in Slot, flow[c] # NoFlow, NEW fate \in Fate \ {"open"}, Ended(c, fate)
  PROVE  ClientInv'
<1>1. PICK i \in Install : i = flow[c].by /\ flow[c] \in Flow
  BY DEF ClientInv, SyncTypes, Flow
<1>2. flow' = [flow EXCEPT ![c] = NoFlow]
  BY DEF Ended
<1>3. life'[i].fate = fate /\ life'[i].pending = (life[i].pending /\ ~flow[c].retry)
        /\ life'[i].pid = life[i].pid /\ life'[i].token = life[i].token
  BY <1>1 DEF Ended, ClientInv, SyncTypes
<1>4. SyncTypes'
  BY <1>1, <1>2 DEF Ended, ClientInv, SyncTypes, Flow
<1>5. \A j \in Install : Flows(j)' = Flows(j) \ {c} /\ FirstFlow(j)' = FirstFlow(j) \ {c}
  BY <1>2 DEF Flows, FirstFlow, ClientInv, SyncTypes
<1>6. \A j \in Install : j # i => life'[j] = life[j]
  BY <1>1 DEF Ended, ClientInv, SyncTypes
<1>7. c \in Flows(i) /\ life[i].pid # NoPid
  BY <1>1 DEF Flows, ClientInv, FirstAlone
<1>8. \A j \in Install \ {i} : c \notin Flows(j) /\ c \notin FirstFlow(j)
  BY <1>1 DEF Flows, FirstFlow
<1>9. FirstFlow(i) \subseteq {c}
  BY <1>1, <1>7 DEF ClientInv, FirstAlone, Flows, FirstFlow
<1>10. ~life'[i].pending
  BY <1>1, <1>3, <1>7 DEF ClientInv, OneFate, InOnePlace, FirstFlow
<1>11. OneFate'
  BY <1>3, <1>5, <1>6, <1>8, <1>9, <1>10 DEF ClientInv, OneFate, InOnePlace, Fate
<1>12. FirstAlone'
  BY <1>2, <1>3, <1>5, <1>6, <1>7 DEF ClientInv, FirstAlone, Flows, SyncTypes
<1>. QED
  BY <1>4, <1>11, <1>12 DEF ClientInv

\* The call in c goes on with its next request.
LEMMA GoesOnKeeps ==
  ASSUME ClientInv, NEW c \in Slot, flow[c] # NoFlow, NEW step \in {"pair", "again"}, UNCHANGED life,
         flow' = [flow EXCEPT ![c].step = step]
  PROVE  ClientInv'
<1>1. flow[c] \in Flow
  BY DEF ClientInv, SyncTypes
<1>2. flow'[c] \in Flow /\ flow'[c].by = flow[c].by /\ flow'[c].retry = flow[c].retry
  BY <1>1 DEF ClientInv, SyncTypes, Flow
<1>3. \A d \in Slot : d # c => flow'[d] = flow[d]
  BY DEF ClientInv, SyncTypes
<1>4. flow'[c] # NoFlow
  BY <1>2, SyncConstants
<1>5. SyncTypes'
  BY <1>2 DEF ClientInv, SyncTypes
<1>6. \A j \in Install : Flows(j)' = Flows(j) /\ FirstFlow(j)' = FirstFlow(j)
  BY <1>2, <1>3, <1>4 DEF Flows, FirstFlow
<1>7. \A d \in Slot : flow[d] # NoFlow => flow'[d].retry = flow[d].retry
  BY <1>2, <1>3
<1>8. FirstAlone'
  BY <1>6, <1>7 DEF ClientInv, FirstAlone, Flows
<1>. QED
  BY <1>5, <1>6, <1>8 DEF ClientInv, OneFate, InOnePlace

\* A call of sendUpsert begins in a slot of its own.
LEMMA SendStarts ==
  ASSUME ClientInv, NEW i \in Install, NEW pid \in Pid, NEW retry \in BOOLEAN,
         SendUpsert(i, pid, retry)
  PROVE  \E c \in Slot :
           /\ flow' \in [Slot -> Flow \cup {NoFlow}]
           /\ flow'[c].retry = retry
           /\ \A d \in Slot : d # c => flow'[d] = flow[d]
           /\ c \notin Flows(i) /\ Flows(i)' = Flows(i) \cup {c}
           /\ FirstFlow(i)' = IF retry THEN FirstFlow(i) ELSE FirstFlow(i) \cup {c}
           /\ \A j \in Install : j # i => Flows(j)' = Flows(j) /\ FirstFlow(j)' = FirstFlow(j)
<1>. DEFINE r == [by |-> i, step |-> "put", retry |-> retry]
<1>1. PICK c \in Slot : flow[c] = NoFlow /\ flow' = [flow EXCEPT ![c] = r]
  BY DEF SendUpsert, Idle
<1>2. r \in Flow /\ r.by = i /\ r.retry = retry
  BY DEF Flow
<1>3. r # NoFlow
  BY <1>2, SyncConstants
<1>4. flow'[c] = r /\ \A d \in Slot : d # c => flow'[d] = flow[d]
  BY <1>1 DEF ClientInv, SyncTypes
<1>5. flow' \in [Slot -> Flow \cup {NoFlow}]
  BY <1>1, <1>2 DEF ClientInv, SyncTypes
<1>. HIDE DEF r
<1>6. c \notin Flows(i) /\ Flows(i)' = Flows(i) \cup {c}
  BY <1>1, <1>2, <1>3, <1>4 DEF Flows
<1>7. FirstFlow(i)' = IF retry THEN FirstFlow(i) ELSE FirstFlow(i) \cup {c}
  BY <1>1, <1>2, <1>3, <1>4 DEF FirstFlow
<1>8. \A j \in Install : j # i => Flows(j)' = Flows(j) /\ FirstFlow(j)' = FirstFlow(j)
  BY <1>1, <1>2, <1>3, <1>4 DEF Flows, FirstFlow
<1>. QED
  BY <1>2, <1>4, <1>5, <1>6, <1>7, <1>8

\* Each step keeps ClientInv.
LEMMA ClientStep == ClientInv /\ [Next]_syncVars => ClientInv'
<1>. SUFFICES ASSUME ClientInv, [Next]_syncVars PROVE ClientInv'
  OBVIOUS
<1>1. ASSUME NEW i \in Install, NEW p \in Pid, Emitted(i, p) PROVE ClientInv'
  <2>1. PICK c \in Slot :
          /\ flow' \in [Slot -> Flow \cup {NoFlow}]
          /\ flow'[c].retry = FALSE
          /\ \A d \in Slot : d # c => flow'[d] = flow[d]
          /\ c \notin Flows(i) /\ Flows(i)' = Flows(i) \cup {c}
          /\ FirstFlow(i)' = FirstFlow(i) \cup {c}
          /\ \A j \in Install : j # i => Flows(j)' = Flows(j) /\ FirstFlow(j)' = FirstFlow(j)
    BY <1>1, SendStarts DEF Emitted
  <2>2. Flows(i) = {} /\ ~life[i].pending /\ life[i].pid = NoPid
    BY <1>1 DEF Emitted, ClientInv, FirstAlone
  <2>3. life' = [life EXCEPT ![i].pid = p]
    BY <1>1 DEF Emitted
  <2>4. SyncTypes'
    BY <2>1, <2>3 DEF ClientInv, SyncTypes
  <2>5. life'[i].pid = p /\ ~life'[i].pending /\ life'[i].fate = life[i].fate
          /\ \A j \in Install : j # i => life'[j] = life[j]
    BY <2>2, <2>3 DEF ClientInv, SyncTypes
  <2>6. life[i].fate = "open"
    BY <2>2 DEF ClientInv, FirstAlone
  <2>7. OneFate'
    BY <2>1, <2>5, <2>6 DEF ClientInv, OneFate, InOnePlace
  <2>8. p # NoPid
    BY SyncConstants
  <2>9. FirstAlone'
    BY <2>1, <2>2, <2>5, <2>8 DEF ClientInv, FirstAlone, Flows
  <2>. QED BY <2>4, <2>7, <2>9 DEF ClientInv
<1>2. ASSUME NEW i \in Install, RetryFires(i) PROVE ClientInv'
  <2>1. life[i].pending /\ life[i].pid \in Pid /\ UNCHANGED life
    BY <1>2 DEF RetryFires, ClientInv, SyncTypes, FirstAlone
  <2>2. PICK c \in Slot :
          /\ flow' \in [Slot -> Flow \cup {NoFlow}]
          /\ flow'[c].retry = TRUE
          /\ \A d \in Slot : d # c => flow'[d] = flow[d]
          /\ c \notin Flows(i) /\ Flows(i)' = Flows(i) \cup {c}
          /\ FirstFlow(i)' = FirstFlow(i)
          /\ \A j \in Install : j # i => Flows(j)' = Flows(j) /\ FirstFlow(j)' = FirstFlow(j)
    BY <1>2, <2>1, SendStarts DEF RetryFires
  <2>3. FirstFlow(i) = {}
    BY <2>1, SyncConstants DEF ClientInv, OneFate, InOnePlace
  <2>4. SyncTypes'
    BY <2>1, <2>2 DEF ClientInv, SyncTypes
  <2>5. OneFate'
    BY <2>1, <2>2 DEF ClientInv, OneFate, InOnePlace
  <2>6. \A d \in Flows(i) : flow[d].retry = TRUE
    BY <2>3 DEF FirstFlow, Flows, ClientInv, SyncTypes, Flow
  <2>7. FirstAlone'
    BY <2>1, <2>2, <2>6, SyncConstants DEF ClientInv, FirstAlone, Flows
  <2>. QED BY <2>4, <2>5, <2>7 DEF ClientInv
<1>3. ASSUME NEW i \in Install, PendingExpires(i) PROVE ClientInv'
  <2>1. life' = [life EXCEPT ![i].pending = FALSE, ![i].fate = "aged"] /\ UNCHANGED flow
    BY <1>3 DEF PendingExpires
  <2>2. life'[i].pid = life[i].pid /\ ~life'[i].pending /\ life'[i].fate = "aged"
          /\ \A j \in Install : j # i => life'[j] = life[j]
    BY <2>1 DEF ClientInv, SyncTypes
  <2>3. \A j \in Install : Flows(j)' = Flows(j) /\ FirstFlow(j)' = FirstFlow(j)
    BY <2>1 DEF Flows, FirstFlow
  <2>4. SyncTypes'
    BY <2>1 DEF ClientInv, SyncTypes, Fate
  <2>5. life[i].pid # NoPid /\ FirstFlow(i) = {}
    BY <1>3 DEF PendingExpires, ClientInv, OneFate, InOnePlace, FirstAlone
  <2>6. OneFate'
    BY <2>2, <2>3, <2>5 DEF ClientInv, OneFate, InOnePlace
  <2>7. FirstAlone'
    BY <2>1, <2>2, <2>3, <2>5 DEF ClientInv, FirstAlone
  <2>. QED BY <2>4, <2>6, <2>7 DEF ClientInv
<1>4. ASSUME NEW i \in Install, Relaunch(i) PROVE ClientInv'
  <2>1. PICK t \in Token : life' = [life EXCEPT ![i] = Start(t)]
    BY <1>4 DEF Relaunch
  <2>2. flow' = [c \in Slot |-> IF flow[c] # NoFlow /\ flow[c].by = i THEN NoFlow ELSE flow[c]]
    BY <1>4 DEF Relaunch
  <2>3. life'[i] = Start(t) /\ \A j \in Install : j # i => life'[j] = life[j]
    BY <2>1 DEF ClientInv, SyncTypes
  <2>4. Start(t).pid = NoPid /\ ~Start(t).pending /\ Start(t).fate = "open"
    BY DEF Start
  <2>5. SyncTypes'
    BY <2>1, <2>2 DEF ClientInv, SyncTypes, Start, Fate
  <2>6. Flows(i)' = {} /\ \A j \in Install : j # i => Flows(j)' = Flows(j) /\ FirstFlow(j)' = FirstFlow(j)
    BY <2>2 DEF Flows, FirstFlow
  <2>7. OneFate'
    BY <2>3, <2>4, <2>6 DEF ClientInv, OneFate, InOnePlace
  <2>8. \A j \in Install : j # i => \A c \in Flows(j) : flow'[c] = flow[c]
    BY <2>2 DEF Flows
  <2>9. FirstAlone'
    BY <2>3, <2>4, <2>6, <2>8 DEF ClientInv, FirstAlone
  <2>. QED BY <2>5, <2>7, <2>9 DEF ClientInv
<1>5. ASSUME NEW c \in Slot, Reads(c) PROVE ClientInv'
  <2>1. CASE PutStored(c)
    BY <2>1, EndedKeeps DEF PutStored, Answered, Fate
  <2>2. CASE PutUnauthorised(c)
    BY <2>2, GoesOnKeeps DEF PutUnauthorised, Answered, GoesOn
  <2>3. CASE PutForbidden(c)
    BY <2>3, EndedKeeps DEF PutForbidden, Answered, Fate
  <2>4. CASE PutFails(c)
    BY <2>4, FailedKeeps DEF PutFails, Answered
  <2>5. CASE Paired(c)
    BY <2>5, GoesOnKeeps DEF Paired, Answered, GoesOn
  <2>6. CASE PairConflicts(c)
    BY <2>6, EndedKeeps DEF PairConflicts, Answered, Fate
  <2>7. CASE PairFails(c)
    BY <2>7, FailedKeeps DEF PairFails, Answered
  <2>8. CASE PutAgainRefused(c)
    <3>1. flow[c] # NoFlow /\ \E fate \in {"401", "403", "500"} : Ended(c, fate)
      BY <2>8 DEF PutAgainRefused, Answered
    <3>. QED BY <3>1, EndedKeeps DEF Fate
  <2>9. CASE Orphaned(c)
    BY <2>9 DEF Orphaned, ClientInv, SyncTypes, OneFate, InOnePlace, FirstAlone, Flows, FirstFlow
  <2>. QED BY <1>5, <2>1, <2>2, <2>3, <2>4, <2>5, <2>6, <2>7, <2>8, <2>9 DEF Reads
<1>6. ASSUME NEW c \in Slot, TransportError(c) PROVE ClientInv'
  BY <1>6, FailedKeeps DEF TransportError
<1>7. CASE UNCHANGED <<life, flow>>
  BY <1>7 DEF ClientInv, SyncTypes, OneFate, InOnePlace, FirstAlone, Flows, FirstFlow
<1>. QED
  BY <1>1, <1>2, <1>3, <1>4, <1>5, <1>6, <1>7
  DEF Next, Lost, Serves, GoesWrong, Maintenance, syncVars

\* An upsert is always in exactly one place.
THEOREM SyncFate == Spec => []OneFate
<1>1. Init => ClientInv
  BY SyncConstants DEF Init, Start, ClientInv, SyncTypes, OneFate, InOnePlace, FirstAlone, Flows, FirstFlow, Fate
<1>2. ClientInv => OneFate
  BY DEF ClientInv
<1>. QED
  BY <1>1, <1>2, ClientStep, PTL DEF Spec
----------------------------------------------------------------------------
(* The client drives the API by its actions only *)

LEMMA StepOfApi == ApiTypeOK /\ ClientInv /\ [Next]_syncVars => [ApiNext]_apiVars
<1>. SUFFICES ASSUME ApiTypeOK, ClientInv, [Next]_syncVars PROVE ApiNext \/ UNCHANGED apiVars
  OBVIOUS
<1>1. ASSUME NEW i \in Install, NEW pid \in Pid, NEW retry \in BOOLEAN,
             SendUpsert(i, pid, retry), UNCHANGED tables
      PROVE ApiNext
  <2>1. life[i].token \in Token
    BY DEF ClientInv, SyncTypes
  <2>. QED BY <1>1, <2>1 DEF SendUpsert, ApiNext, tables
<1>2. ASSUME NEW i \in Install, NEW p \in Pid, Emitted(i, p) PROVE ApiNext
  BY <1>1, <1>2 DEF Emitted
<1>3. ASSUME NEW i \in Install, RetryFires(i) PROVE ApiNext
  <2>1. life[i].pid \in Pid
    BY <1>3 DEF RetryFires, ClientInv, SyncTypes, FirstAlone
  <2>. QED BY <1>1, <1>3, <2>1 DEF RetryFires
<1>4. ASSUME NEW c \in Slot, NEW kind \in {"put", "pair"}, NEW step,
             call[c] # Free, GoesOn(c, kind, step), UNCHANGED tables
      PROVE ApiNext
  <2>1. call[c].token \in Token /\ call[c].pid \in Pid
    BY <1>4 DEF ApiTypeOK, Call
  <2>. QED BY <1>4, <2>1 DEF GoesOn, ApiNext, tables
<1>5. ASSUME NEW c \in Slot, Vanish(c), UNCHANGED tables PROVE ApiNext
  BY <1>5 DEF ApiNext, tables
<1>6. ASSUME NEW c \in Slot, Reads(c) PROVE ApiNext
  <2>1. CASE PutUnauthorised(c)
    BY <1>4, <2>1 DEF PutUnauthorised, Answered
  <2>2. CASE Paired(c)
    BY <1>4, <2>2 DEF Paired, Answered
  <2>3. CASE Vanish(c) /\ UNCHANGED tables
    BY <1>5, <2>3
  <2>. QED
    BY <1>6, <2>1, <2>2, <2>3
    DEF Reads, PutStored, PutForbidden, PutFails, PairConflicts, PairFails, PutAgainRefused,
        Orphaned, Answered
<1>7. ASSUME NEW c \in Slot, Lost(c) PROVE ApiNext
  BY <1>5, <1>7 DEF Lost
<1>8. ASSUME NEW c \in Slot, Serves(c) \/ GoesWrong(c) PROVE ApiNext
  BY <1>8 DEF Serves, GoesWrong, ApiNext
<1>9. CASE Maintenance
  BY <1>9 DEF Maintenance, ApiNext
<1>10. ASSUME NEW i \in Install, PendingExpires(i) \/ Relaunch(i) PROVE UNCHANGED apiVars
  BY <1>10 DEF PendingExpires, Relaunch
<1>11. ASSUME NEW c \in Slot, TransportError(c) PROVE UNCHANGED apiVars
  BY <1>11 DEF TransportError
<1>12. CASE UNCHANGED syncVars
  BY <1>12 DEF syncVars, apiVars
<1>. QED
  BY <1>2, <1>3, <1>6, <1>7, <1>8, <1>9, <1>10, <1>11, <1>12 DEF Next

LEMMA InitTyped == Init => ApiTypeOK /\ ClientInv
  BY SyncConstants DEF Init, ApiInit, ApiTypeOK, Start, ClientInv, SyncTypes, OneFate, FirstAlone,
     Flows, FirstFlow, Fate

\* The profile client implements the specification of the API's clients: its
\* behaviours are behaviours of ApiSpec, so what is proved of that holds here.
THEOREM SyncIsApi == Spec => ApiSpec
<1>1. ApiTypeOK /\ ClientInv /\ [Next]_syncVars => ApiTypeOK' /\ ClientInv'
  BY StepOfApi, ApiTypesStep, ClientStep
<1>2. Init => ApiInit
  BY DEF Init
<1>. QED
  BY <1>1, <1>2, InitTyped, StepOfApi, PTL DEF Spec, ApiSpec

\* Trust on first use, for the system with its own client.
THEOREM SyncBinding == Spec => TofuBinding
  BY SyncIsApi, ApiBinding

\* Profiles are written by their owners, for the system with its own client.
THEOREM SyncOwner == Spec => []WrittenByOwner
  BY SyncIsApi, ApiOwner
=============================================================================
