---------------------------- MODULE UpdateProofs ----------------------------
(***************************************************************************)
(* What the two 304 answers confirm, for every number of clients and every *)
(* set of releases: types, RevalidatesTheSame and ClientInStep.            *)
(***************************************************************************)
EXTENDS UpdateChain, TLAPS

USE DEF projectionVars, vars

\* An ETag is kept with the release it came with, at the relay and at a client;
\* a request for a refresh carries the ETag of the copy it is to replace; and a
\* 304 is said of the ETag that was sent.
CopyWhole == cached.release = cached.etag
FlightOfCopy == flight.at # "none" => flight.etag = cached.etag
Confirmed == flight.status = 304 => flight.at # "none" /\ flight.release = flight.etag

ClientWhole == \A c \in Client : client[c].latest = client[c].etag
AnswerOfEtag == \A c \in Client : req[c].status = 304 => req[c].release = client[c].etag

CopyInv == CopyWhole /\ FlightOfCopy /\ Confirmed
ClientInv == ClientWhole /\ AnswerOfEtag

UpdateInv == UpdateTypeOK /\ CopyInv /\ ClientInv

----------------------------------------------------------------------------
(* The relay's copy *)

LEMMA ConstantTypes ==
  /\ NoRelease \in Release0 /\ NoRelease \notin Release
  /\ NoFlight \in Flight
  /\ Cold \in [release : Release0, etag : Release0]
BY ProjectionConstants DEF Release0, NoFlight, Flight, Cold

LEMMA NoReleaseTypes == NoRelease \in Release0 /\ Cold.release = Cold.etag
BY DEF Release0, Cold

LEMMA AnswerTypes ==
  ASSUME NEW c \in Client, NEW r \in Release0, UpdateTypeOK
  PROVE  /\ Answer(c, r) \in Req
         /\ Answer(c, r).at = "answered"
         /\ Answer(c, r).release = r
         /\ Answer(c, r).status = 304 => client[c].etag = r
         /\ Answer(c, r).status \in {200, 304} => r # NoRelease
<1>1. PICK s \in {200, 304, 503} :
        /\ s = IF r = NoRelease THEN 503 ELSE IF client[c].etag = r THEN 304 ELSE 200
        /\ s = 304 => client[c].etag = r
        /\ s \in {200, 304} => r # NoRelease
  OBVIOUS
<1>2. Answer(c, r) = [at |-> "answered", release |-> r, status |-> s]
  BY <1>1 DEF Answer
<1> QED
  BY <1>1, <1>2 DEF Req

\* Every action of the projection keeps its types and CopyInv.
LEMMA CopyAsks ==
  ASSUME ProjectionTypeOK, CopyInv, NEW c \in Client, Awaits(c)
  PROVE  ProjectionTypeOK' /\ CopyInv'
<1>1. CASE flight # NoFlight
  BY <1>1 DEF Awaits, ProjectionTypeOK, CopyInv, CopyWhole, FlightOfCopy, Confirmed
<1>2. CASE flight = NoFlight
  <2>1. PICK e \in Release0 : e = cached.etag
    BY DEF ProjectionTypeOK
  <2>2. flight' = [at |-> "asked", etag |-> e, status |-> 0, release |-> NoRelease]
    BY <1>2, <2>1 DEF Awaits, NoFlight
  <2> QED
    BY <2>1, <2>2, ConstantTypes DEF Awaits, ProjectionTypeOK, Flight, CopyInv, CopyWhole,
       FlightOfCopy, Confirmed
<1> QED
  BY <1>1, <1>2

LEMMA CopyAnswered ==
  ASSUME ProjectionTypeOK, CopyInv, GithubAnswers \/ GithubFails
  PROVE  ProjectionTypeOK' /\ CopyInv'
<1>1. PICK e \in Release0, z \in {0, 200, 304, 500}, q \in Release0 :
        flight = [at |-> "asked", etag |-> e, status |-> z, release |-> q]
  BY DEF GithubAnswers, GithubFails, ProjectionTypeOK, Flight
<1>2. github \in Release0
  BY DEF ProjectionTypeOK, Release0
<1>3. PICK s \in {200, 304, 500}, r \in Release0 :
        /\ flight' = [at |-> "answered", etag |-> e, status |-> s, release |-> r]
        /\ s = 304 => r = e
  <2>1. CASE GithubAnswers /\ e = github
    <3>1. flight' = [at |-> "answered", etag |-> e, status |-> 304, release |-> e]
      BY <1>1, <2>1 DEF GithubAnswers
    <3> QED
      BY <3>1
  <2>2. CASE GithubAnswers /\ e # github
    <3>1. flight' = [at |-> "answered", etag |-> e, status |-> 200, release |-> github]
      BY <1>1, <2>2 DEF GithubAnswers
    <3> QED
      BY <1>2, <3>1
  <2>3. CASE GithubFails
    <3>1. PICK k \in Release0 :
            flight' = [flight EXCEPT !.at = "answered", !.status = 500, !.release = k]
      BY <1>2, <2>3, NoReleaseTypes DEF GithubFails
    <3>2. flight' = [[at |-> "asked", etag |-> e, status |-> z, release |-> q]
                       EXCEPT !.at = "answered", !.status = 500, !.release = k]
      BY <1>1, <3>1
    <3>3. flight' = [at |-> "answered", etag |-> e, status |-> 500, release |-> k]
      BY <3>2
    <3> QED
      BY <3>3
  <2> QED
    BY <2>1, <2>2, <2>3
<1>4. flight' \in Flight
  BY <1>3 DEF Flight
<1> QED
  BY <1>1, <1>3, <1>4 DEF GithubAnswers, GithubFails, ProjectionTypeOK, CopyInv, CopyWhole,
                     FlightOfCopy, Confirmed

LEMMA CopyRefreshed ==
  ASSUME ProjectionTypeOK, CopyInv, RefreshEnds
  PROVE  ProjectionTypeOK' /\ CopyInv' /\ cached'.release \in Release0
<1>1. cached' \in [release : Release0, etag : Release0] /\ cached'.release = cached'.etag
  <2>1. CASE cached' = cached
    BY <2>1 DEF ProjectionTypeOK, CopyInv, CopyWhole
  <2>2. CASE cached' = [release |-> flight.release, etag |-> flight.release]
    BY <2>2 DEF ProjectionTypeOK, Flight
  <2> QED
    BY <2>1, <2>2 DEF RefreshEnds, FailedRefresh
<1>2. fresh' \in BOOLEAN /\ backoff' \in BOOLEAN
  BY DEF RefreshEnds, FailedRefresh, ProjectionTypeOK
<1>3. flight' = NoFlight /\ waiting' = {} /\ github' \in Release
  BY DEF RefreshEnds, ProjectionTypeOK
<1> QED
  BY <1>1, <1>2, <1>3, ConstantTypes DEF ProjectionTypeOK, CopyInv, CopyWhole,
     FlightOfCopy, Confirmed, NoFlight

LEMMA CopyStays ==
  ASSUME ProjectionTypeOK, CopyInv, UNCHANGED <<cached, flight>>,
         github' \in Release, fresh' \in BOOLEAN, backoff' \in BOOLEAN, waiting' \subseteq Client
  PROVE  ProjectionTypeOK' /\ CopyInv'
BY DEF ProjectionTypeOK, CopyInv, CopyWhole, FlightOfCopy, Confirmed

LEMMA CopyLost ==
  ASSUME ProjectionTypeOK, ProjectionRestarts
  PROVE  ProjectionTypeOK' /\ CopyInv'
<1>1. cached' = Cold /\ Cold.release = Cold.etag /\ flight' = NoFlight
        /\ NoFlight.at = "none" /\ NoFlight.status = 0
  BY DEF ProjectionRestarts, Cold, NoFlight
<1>2. github' \in Release /\ fresh' \in BOOLEAN /\ backoff' \in BOOLEAN /\ waiting' \subseteq Client
  BY DEF ProjectionRestarts, ProjectionTypeOK
<1> QED
  BY <1>1, <1>2, ConstantTypes DEF ProjectionTypeOK, CopyInv, CopyWhole,
     FlightOfCopy, Confirmed

----------------------------------------------------------------------------
(* The clients *)

ClientRec == [latest : Release0, etag : Release0, recent : BOOLEAN, told : SUBSET Release]

\* What an emission leaves of a client.
LEMMA Emission ==
  ASSUME UpdateTypeOK, NEW c \in Client, NEW k \in ClientRec, EmitIfNewer(c, k)
  PROVE  /\ client' \in [Client -> ClientRec]
         /\ client'[c].latest = k.latest /\ client'[c].etag = k.etag
         /\ \A d \in Client \ {c} : client'[d] = client[d]
<1>1. client \in [Client -> ClientRec]
  BY DEF UpdateTypeOK, ClientRec
<1>2. PICK n \in ClientRec :
        client' = [client EXCEPT ![c] = n] /\ n.latest = k.latest /\ n.etag = k.etag
  <2>1. CASE client' = [client EXCEPT ![c] = k]
    BY <2>1
  <2>2. CASE client' = [client EXCEPT ![c] = [k EXCEPT !.told =
                          IF k.latest > Installed THEN @ \cup {k.latest} ELSE @]]
    <3>1. k.latest > Installed => k.latest \in Release
      BY ProjectionConstants, ChainConstants DEF ClientRec, Release0
    <3>2. PICK w \in SUBSET Release :
            w = IF k.latest > Installed THEN k.told \cup {k.latest} ELSE k.told
      BY <3>1 DEF ClientRec
    <3>3. client' = [client EXCEPT ![c] = [k EXCEPT !.told = w]]
      BY <2>2, <3>2
    <3>4. [k EXCEPT !.told = w] \in ClientRec
            /\ [k EXCEPT !.told = w].latest = k.latest /\ [k EXCEPT !.told = w].etag = k.etag
      BY DEF ClientRec
    <3> QED
      BY <3>3, <3>4
  <2> QED
    BY <2>1, <2>2 DEF EmitIfNewer
<1> QED
  BY <1>1, <1>2

\* A step of one client, after which no request of its is awaited or usable.
Unusable(q) == q \in Req /\ q.at # "waiting" /\ q.status \notin {200, 304}

ClientOnly(c, q) ==
  /\ UNCHANGED <<github, cached, fresh, backoff, flight>>
  /\ waiting' = waiting \ {c}
  /\ req' = [req EXCEPT ![c] = q]
  /\ client' \in [Client -> ClientRec] /\ client'[c].latest = client'[c].etag
  /\ \A d \in Client \ {c} : client'[d] = client[d]

LEMMA ClientActs ==
  ASSUME UpdateInv, NEW c \in Client, NEW q, Unusable(q), ClientOnly(c, q)
  PROVE  UpdateInv'
<1> USE DEF ClientOnly, Unusable
<1>1. ProjectionTypeOK' /\ CopyInv'
  BY DEF UpdateInv, UpdateTypeOK, ProjectionTypeOK, CopyInv, CopyWhole, FlightOfCopy, Confirmed
<1>2. req' \in [Client -> Req] /\ req'[c] = q /\ \A d \in Client \ {c} : req'[d] = req[d]
  BY DEF UpdateInv, UpdateTypeOK
<1>3. UpdateTypeOK'
  BY <1>1, <1>2 DEF UpdateInv, UpdateTypeOK, ClientRec
<1>4. ClientInv'
  BY <1>2 DEF UpdateInv, ClientInv, ClientWhole, AnswerOfEtag
<1> QED
  BY <1>1, <1>3, <1>4 DEF UpdateInv

LEMMA UnusableRequests ==
  /\ Unusable(NoReq)
  /\ Unusable([NoReq EXCEPT !.at = "sent"])
  /\ \A r \in Release0 : Unusable([at |-> "answered", status |-> 503, release |-> r])
BY NoReleaseTypes DEF Unusable, NoReq, Req

LEMMA StepCheck ==
  ASSUME UpdateInv, NEW c \in Client, Check(c)
  PROVE  UpdateInv'
<1>1. /\ req \in [Client -> Req] /\ client \in [Client -> ClientRec]
      /\ client[c].latest = client[c].etag /\ req[c] = NoReq /\ c \notin waiting
  BY DEF UpdateInv, UpdateTypeOK, ClientRec, ClientInv, ClientWhole, Check, CheckCached,
     CheckAsks, NoReq
<1>2. waiting' = waiting \ {c} /\ UNCHANGED <<github, cached, fresh, backoff, flight>>
  BY <1>1 DEF Check, CheckCached, CheckAsks
<1>3. CASE CheckCached(c)
  <2>1. req' = [req EXCEPT ![c] = NoReq]
    BY <1>1, <1>3 DEF CheckCached
  <2>2. /\ client' \in [Client -> ClientRec] /\ client'[c].latest = client'[c].etag
        /\ \A d \in Client \ {c} : client'[d] = client[d]
    BY <1>1, <1>3, Emission DEF CheckCached, UpdateInv
  <2>3. ClientOnly(c, NoReq)
    BY <1>2, <2>1, <2>2 DEF ClientOnly
  <2> QED
    BY <2>3, UnusableRequests, ClientActs
<1>4. CASE CheckAsks(c)
  <2>1. ClientOnly(c, [NoReq EXCEPT !.at = "sent"])
    BY <1>1, <1>2, <1>4 DEF ClientOnly, CheckAsks
  <2> QED
    BY <2>1, UnusableRequests, ClientActs
<1> QED
  BY <1>3, <1>4 DEF Check

LEMMA StepReads ==
  ASSUME UpdateInv, NEW c \in Client, Reads(c)
  PROVE  UpdateInv'
<1>1. /\ req[c] \in Req /\ client[c] \in ClientRec /\ client[c].latest = client[c].etag
      /\ req[c].at = "answered" /\ c \notin waiting
  BY DEF UpdateInv, UpdateTypeOK, ClientRec, ClientInv, ClientWhole, Reads
<1>2. PICK k \in ClientRec : EmitIfNewer(c, k) /\ k.latest = k.etag
  <2>1. Rejected(c) \in ClientRec /\ Rejected(c).latest = Rejected(c).etag
    BY <1>1 DEF Rejected
  <2>2. Accepted(c) \in ClientRec /\ Accepted(c).latest = Accepted(c).etag
    BY <1>1 DEF Accepted, ClientRec, Req
  <2>3. CASE req[c].status = 503
    BY <2>1, <2>3 DEF Reads
  <2>4. CASE req[c].status # 503
    BY <2>2, <2>4 DEF Reads
  <2> QED
    BY <2>3, <2>4
<1>3. /\ client' \in [Client -> ClientRec] /\ client'[c].latest = client'[c].etag
      /\ \A d \in Client \ {c} : client'[d] = client[d]
  BY <1>2, Emission DEF UpdateInv
<1>4. /\ req' = [req EXCEPT ![c] = NoReq] /\ waiting' = waiting \ {c}
      /\ UNCHANGED <<github, cached, fresh, backoff, flight>>
  BY <1>1 DEF Reads
<1>5. ClientOnly(c, NoReq)
  BY <1>3, <1>4 DEF ClientOnly
<1> QED
  BY <1>5, UnusableRequests, ClientActs

LEMMA StepRequestFails ==
  ASSUME UpdateInv, NEW c \in Client, RequestFails(c)
  PROVE  UpdateInv'
<1>1. PICK r \in Release0 : r = req[c].release
  BY DEF UpdateInv, UpdateTypeOK, Req
<1>2. req' = [req EXCEPT ![c] = [at |-> "answered", status |-> 503, release |-> r]]
  BY <1>1 DEF RequestFails
<1>4. /\ client' \in [Client -> ClientRec] /\ client' = client
      /\ client[c].latest = client[c].etag
  BY DEF UpdateInv, UpdateTypeOK, ClientRec, ClientInv, ClientWhole, RequestFails
<1>5. ClientOnly(c, [at |-> "answered", status |-> 503, release |-> r])
  BY <1>2, <1>4 DEF RequestFails, ClientOnly
<1> QED
  BY <1>5, UnusableRequests, ClientActs

LEMMA StepRelaunch ==
  ASSUME UpdateInv, NEW c \in Client, Relaunch(c)
  PROVE  UpdateInv'
<1>1. Starting \in ClientRec /\ Starting.latest = Starting.etag
  BY ConstantTypes DEF Starting, ClientRec
<1>2. /\ client' \in [Client -> ClientRec] /\ client'[c] = Starting
      /\ \A d \in Client \ {c} : client'[d] = client[d]
  BY <1>1 DEF Relaunch, UpdateInv, UpdateTypeOK, ClientRec
<1>3. /\ req' = [req EXCEPT ![c] = NoReq] /\ waiting' = waiting \ {c}
      /\ UNCHANGED <<github, cached, fresh, backoff, flight>>
  BY DEF Relaunch
<1>4. ClientOnly(c, NoReq)
  BY <1>1, <1>2, <1>3 DEF ClientOnly
<1> QED
  BY <1>4, UnusableRequests, ClientActs

LEMMA StepCooldownEnds ==
  ASSUME UpdateInv, NEW c \in Client, CooldownEnds(c)
  PROVE  UpdateInv'
<1>1. PICK k \in ClientRec :
        client' = [client EXCEPT ![c] = k] /\ k.latest = client[c].latest /\ k.etag = client[c].etag
  <2>1. client[c] \in ClientRec
    BY DEF UpdateInv, UpdateTypeOK, ClientRec
  <2>2. /\ [client[c] EXCEPT !.recent = FALSE] \in ClientRec
        /\ [client[c] EXCEPT !.recent = FALSE].latest = client[c].latest
        /\ [client[c] EXCEPT !.recent = FALSE].etag = client[c].etag
    BY <2>1 DEF ClientRec
  <2>3. client' = [client EXCEPT ![c] = [client[c] EXCEPT !.recent = FALSE]]
    BY DEF CooldownEnds
  <2> QED
    BY <2>2, <2>3
<1>2. /\ client' \in [Client -> ClientRec]
      /\ \A d \in Client : client'[d].latest = client[d].latest /\ client'[d].etag = client[d].etag
  BY <1>1 DEF UpdateInv, UpdateTypeOK, ClientRec
<1>3. UpdateTypeOK' /\ CopyInv'
  BY <1>2 DEF CooldownEnds, UpdateInv, UpdateTypeOK, ClientRec, ProjectionTypeOK, CopyInv,
     CopyWhole, FlightOfCopy, Confirmed
<1>4. ClientInv'
  BY <1>2 DEF CooldownEnds, UpdateInv, ClientInv, ClientWhole, AnswerOfEtag
<1> QED
  BY <1>3, <1>4 DEF UpdateInv

----------------------------------------------------------------------------
(* The relay's part *)

\* Steps that leave the clients alone.
LEMMA RelayActs ==
  ASSUME UpdateInv, ProjectionTypeOK', CopyInv', client' = client,
         req' \in [Client -> Req],
         \A d \in Client :
           /\ d \in waiting' <=> req'[d].at = "waiting"
           /\ req'[d].status \in {200, 304} => req'[d].release # NoRelease
           /\ req'[d].status = 304 => req'[d].release = client[d].etag
  PROVE  UpdateInv'
<1>1. UpdateTypeOK'
  BY DEF UpdateInv, UpdateTypeOK
<1>2. ClientInv'
  BY DEF UpdateInv, ClientInv, ClientWhole, AnswerOfEtag
<1> QED
  BY <1>1, <1>2 DEF UpdateInv

\* ... and the requests as well.
LEMMA CopyActs ==
  ASSUME UpdateInv, ProjectionTypeOK', CopyInv', UNCHANGED <<client, req, waiting>>
  PROVE  UpdateInv'
BY DEF UpdateInv, UpdateTypeOK, ClientInv, ClientWhole, AnswerOfEtag

LEMMA StepRelayServes ==
  ASSUME UpdateInv, NEW c \in Client, RelayServes(c)
  PROVE  UpdateInv'
<1>1. /\ UpdateTypeOK /\ ProjectionTypeOK /\ CopyInv /\ req[c].at = "sent"
      /\ client' = client /\ cached.release \in Release0 /\ req[c] \in Req
  BY DEF UpdateInv, UpdateTypeOK, ProjectionTypeOK, RelayServes
<1>2. CASE Serves /\ req' = [req EXCEPT ![c] = Answer(c, cached.release)]
  <2>1. PICK q \in Req :
          /\ q = Answer(c, cached.release) /\ q.at = "answered"
          /\ q.status \in {200, 304} => q.release # NoRelease
          /\ q.status = 304 => q.release = client[c].etag
    BY <1>1, AnswerTypes
  <2>2. req' = [req EXCEPT ![c] = q]
    BY <1>2, <2>1
  <2>3. UNCHANGED projectionVars
    BY <1>2 DEF Serves
  <2>4. ProjectionTypeOK' /\ CopyInv'
    BY <1>1, <2>3 DEF ProjectionTypeOK, CopyInv, CopyWhole, FlightOfCopy, Confirmed
  <2>5. /\ req' \in [Client -> Req] /\ req'[c] = q
        /\ \A d \in Client \ {c} : req'[d] = req[d]
    BY <2>2 DEF UpdateInv, UpdateTypeOK
  <2>6. UpdateTypeOK'
    BY <1>1, <2>1, <2>3, <2>4, <2>5 DEF UpdateTypeOK
  <2>7. ClientInv'
    BY <1>1, <2>1, <2>5 DEF UpdateInv, ClientInv, ClientWhole, AnswerOfEtag
  <2> QED
    BY <2>4, <2>6, <2>7 DEF UpdateInv
<1>3. CASE Awaits(c) /\ req' = [req EXCEPT ![c].at = "waiting"]
  <2>1. ProjectionTypeOK' /\ CopyInv'
    BY <1>1, <1>3, CopyAsks
  <2>2. PICK q \in Req : /\ q = [req[c] EXCEPT !.at = "waiting"] /\ q.at = "waiting"
                        /\ q.status = req[c].status /\ q.release = req[c].release
    <3>1. /\ [req[c] EXCEPT !.at = "waiting"] \in Req
          /\ [req[c] EXCEPT !.at = "waiting"].at = "waiting"
          /\ [req[c] EXCEPT !.at = "waiting"].status = req[c].status
          /\ [req[c] EXCEPT !.at = "waiting"].release = req[c].release
      BY <1>1 DEF Req
    <3> QED
      BY <3>1
  <2>3. req' = [req EXCEPT ![c] = q]
    BY <1>3, <2>2
  <2>4. /\ req' \in [Client -> Req] /\ req'[c] = q /\ waiting' = waiting \cup {c}
        /\ \A d \in Client \ {c} : req'[d] = req[d]
    BY <1>3, <2>3 DEF UpdateInv, UpdateTypeOK, Awaits
  <2>5. /\ req[c].status \in {200, 304} => req[c].release # NoRelease
        /\ req[c].status = 304 => req[c].release = client[c].etag
    BY DEF UpdateInv, UpdateTypeOK, ClientInv, AnswerOfEtag
  <2>6. \A d \in Client :
          /\ d \in waiting' <=> req'[d].at = "waiting"
          /\ req'[d].status \in {200, 304} => req'[d].release # NoRelease
          /\ req'[d].status = 304 => req'[d].release = client[d].etag
    <3>1. ASSUME NEW d \in Client, d # c
          PROVE  /\ d \in waiting' <=> req'[d].at = "waiting"
                 /\ req'[d].status \in {200, 304} => req'[d].release # NoRelease
                 /\ req'[d].status = 304 => req'[d].release = client[d].etag
      BY <2>4, <3>1 DEF UpdateInv, UpdateTypeOK, ClientInv, AnswerOfEtag
    <3>2. /\ c \in waiting' /\ req'[c].at = "waiting"
          /\ req'[c].status = req[c].status /\ req'[c].release = req[c].release
      BY <2>2, <2>4
    <3> QED
      BY <2>5, <3>1, <3>2
  <2> QED
    BY <1>1, <2>1, <2>4, <2>6, RelayActs
<1> QED
  BY <1>2, <1>3 DEF RelayServes

LEMMA StepRelayRefreshed ==
  ASSUME UpdateInv, RelayRefreshed
  PROVE  UpdateInv'
<1>1. /\ UpdateTypeOK /\ client' = client /\ waiting' = {}
      /\ req' = [d \in Client |-> IF d \in waiting THEN Answer(d, cached'.release) ELSE req[d]]
  BY DEF UpdateInv, RelayRefreshed, RefreshEnds
<1>2. ProjectionTypeOK' /\ CopyInv' /\ cached'.release \in Release0
  BY CopyRefreshed DEF UpdateInv, UpdateTypeOK, RelayRefreshed
<1>3. ASSUME NEW d \in Client
      PROVE  /\ req'[d] \in Req /\ req'[d].at # "waiting"
             /\ req'[d].status \in {200, 304} => req'[d].release # NoRelease
             /\ req'[d].status = 304 => req'[d].release = client[d].etag
  <2>1. CASE d \in waiting
    <3>1. PICK r \in Release0 : r = cached'.release
      BY <1>2
    <3>2. req'[d] = Answer(d, r)
      BY <1>1, <2>1, <3>1
    <3> QED
      BY <1>1, <3>2, AnswerTypes
  <2>2. CASE d \notin waiting
    BY <1>1, <2>2 DEF UpdateInv, UpdateTypeOK, ClientInv, AnswerOfEtag
  <2> QED
    BY <2>1, <2>2
<1>4. req' \in [Client -> Req]
  BY <1>1, <1>3
<1> QED
  BY <1>1, <1>2, <1>3, <1>4, RelayActs

LEMMA StepRelayRestarts ==
  ASSUME UpdateInv, RelayRestarts
  PROVE  UpdateInv'
<1> DEFINE f == [at |-> "answered", status |-> 503, release |-> NoRelease]
<1>1. f \in Req /\ f.at # "waiting" /\ f.status \notin {200, 304}
  BY NoReleaseTypes DEF Req
<1>2. /\ UpdateTypeOK /\ client' = client /\ waiting' = {}
      /\ req' = [d \in Client |-> IF d \in waiting THEN f ELSE req[d]]
  BY DEF UpdateInv, RelayRestarts, ProjectionRestarts
<1> HIDE DEF f
<1>3. ProjectionTypeOK' /\ CopyInv'
  BY CopyLost DEF UpdateInv, UpdateTypeOK, RelayRestarts
<1>4. req' \in [Client -> Req]
  BY <1>1, <1>2 DEF UpdateTypeOK
<1>5. \A d \in Client :
        /\ req'[d].at # "waiting"
        /\ req'[d].status \in {200, 304} => req'[d].release # NoRelease
        /\ req'[d].status = 304 => req'[d].release = client[d].etag
  BY <1>1, <1>2 DEF UpdateInv, UpdateTypeOK, ClientInv, AnswerOfEtag
<1> QED
  BY <1>2, <1>3, <1>4, <1>5, RelayActs

----------------------------------------------------------------------------
(* Theorems *)

LEMMA UpdateInitially == Init => UpdateInv
<1> SUFFICES ASSUME Init PROVE UpdateInv
  OBVIOUS
<1>1. ProjectionTypeOK /\ CopyInv /\ waiting = {}
  <2>1. cached = Cold /\ flight = NoFlight /\ NoFlight.at = "none" /\ NoFlight.status = 0
    BY DEF Init, ProjectionInit, NoFlight
  <2>2. github \in Release /\ fresh \in BOOLEAN /\ backoff \in BOOLEAN /\ waiting = {}
    BY DEF Init, ProjectionInit
  <2> QED
    BY <2>1, <2>2, ConstantTypes, NoReleaseTypes DEF ProjectionTypeOK, CopyInv, CopyWhole,
       FlightOfCopy, Confirmed
<1>2. Starting \in ClientRec /\ Starting.latest = Starting.etag
  BY NoReleaseTypes DEF Starting, ClientRec
<1>3. NoReq \in Req /\ NoReq.at = "none" /\ NoReq.status = 0
  BY NoReleaseTypes DEF NoReq, Req
<1>4. /\ client \in [Client -> ClientRec] /\ req \in [Client -> Req]
      /\ \A c \in Client : client[c] = Starting /\ req[c] = NoReq
  BY <1>2, <1>3 DEF Init
<1>5. UpdateTypeOK
  BY <1>1, <1>3, <1>4 DEF UpdateTypeOK, ClientRec
<1>6. ClientInv
  BY <1>2, <1>3, <1>4 DEF ClientInv, ClientWhole, AnswerOfEtag
<1> QED
  BY <1>1, <1>5, <1>6 DEF UpdateInv

LEMMA UpdateInductive == UpdateInv /\ [Next]_vars => UpdateInv'
<1> SUFFICES ASSUME UpdateInv, [Next]_vars PROVE UpdateInv'
  OBVIOUS
<1>0. ProjectionTypeOK /\ CopyInv
  BY DEF UpdateInv, UpdateTypeOK
<1>1. ASSUME NEW c \in Client, Check(c) PROVE UpdateInv'
  BY <1>1, StepCheck
<1>2. ASSUME NEW c \in Client, Reads(c) PROVE UpdateInv'
  BY <1>2, StepReads
<1>3. ASSUME NEW c \in Client, RequestFails(c) PROVE UpdateInv'
  BY <1>3, StepRequestFails
<1>4. ASSUME NEW c \in Client, CooldownEnds(c) PROVE UpdateInv'
  BY <1>4, StepCooldownEnds
<1>5. ASSUME NEW c \in Client, Relaunch(c) PROVE UpdateInv'
  BY <1>5, StepRelaunch
<1>6. ASSUME NEW c \in Client, RelayServes(c) PROVE UpdateInv'
  BY <1>6, StepRelayServes
<1>7. CASE RelayRefreshed
  BY <1>7, StepRelayRefreshed
<1>8. CASE GithubReplies
  <2>1. UNCHANGED <<client, req, waiting>> /\ (GithubAnswers \/ GithubFails)
    BY <1>8 DEF GithubReplies, GithubAnswers, GithubFails
  <2>2. ProjectionTypeOK' /\ CopyInv'
    BY <1>0, <2>1, CopyAnswered
  <2> QED
    BY <2>1, <2>2, CopyActs
<1>9. CASE CopyAges
  <2>1. ProjectionTypeOK' /\ CopyInv' /\ UNCHANGED <<client, req, waiting>>
    BY <1>0, <1>9 DEF CopyAges, Ages, ProjectionTypeOK, CopyInv, CopyWhole, FlightOfCopy, Confirmed
  <2> QED
    BY <2>1, CopyActs
<1>10. ASSUME NEW r \in Release, Publishes(r) PROVE UpdateInv'
  <2>1. ProjectionTypeOK' /\ CopyInv' /\ UNCHANGED <<client, req, waiting>>
    BY <1>0, <1>10 DEF Publishes, Published, ProjectionTypeOK, CopyInv, CopyWhole, FlightOfCopy,
       Confirmed
  <2> QED
    BY <2>1, CopyActs
<1>11. CASE RelayRestarts
  BY <1>11, StepRelayRestarts
<1>12. CASE UNCHANGED vars
  <2>1. ProjectionTypeOK' /\ CopyInv' /\ UNCHANGED <<client, req, waiting>>
    BY <1>0, <1>12 DEF ProjectionTypeOK, CopyInv, CopyWhole, FlightOfCopy, Confirmed
  <2> QED
    BY <2>1, CopyActs
<1> QED
  BY <1>1, <1>2, <1>3, <1>4, <1>5, <1>6, <1>7, <1>8, <1>9, <1>10, <1>11, <1>12 DEF Next

\* The types of the relay's copy, of the requests and of the clients; an awaiting
\* handler is a request that waits (getLatest, fetchAndCompare).
THEOREM UpdateTypes == Spec => []UpdateTypeOK
<1>1. UpdateInv => UpdateTypeOK
  BY DEF UpdateInv
<1> QED
  BY <1>1, UpdateInitially, UpdateInductive, PTL DEF Spec

\* refresh: a 304 of GitHub is about the release that the relay has cached.
THEOREM UpdateRevalidation == Spec => []RevalidatesTheSame
<1>1. UpdateInv => RevalidatesTheSame
  BY DEF UpdateInv, CopyInv, CopyWhole, FlightOfCopy, Confirmed, RevalidatesTheSame
<1> QED
  BY <1>1, UpdateInitially, UpdateInductive, PTL DEF Spec

\* fetchAndCompare: a 304 of the relay is about the release the client remembers.
THEOREM UpdateInStep == Spec => []ClientInStep
<1>1. UpdateInv => ClientInStep
  BY DEF UpdateInv, ClientInv, ClientWhole, AnswerOfEtag, ClientInStep
<1> QED
  BY <1>1, UpdateInitially, UpdateInductive, PTL DEF Spec
=============================================================================
