--------------------------- MODULE SessionProofs ---------------------------
(***************************************************************************)
(* The files and the watchdog, for every number of sessions and lines and  *)
(* every time-out above one interval: types, OwnLinesOnly, HeardInOrder,   *)
(* the outbox as a queue for each sidecar, LingersBriefly, KeepsCompany.   *)
(***************************************************************************)
EXTENDS Heartbeat, SequenceTheorems, TLAPS

USE DEF ipcVars, lua, files, gameSide, Session

ToldLine == [n : Nat, in : Nat]

Sidecar == [at : Place, offset : 0..Len(outbox), base : 0..Len(outbox),
            seen : 0..Len(outbox), got : Seq(Nat)]

LuaTypes ==
  /\ game \in {"off", "emptied", "primed", "swept", "running"}
  /\ session \in 0..MaxSession /\ (game # "off" => session \in Session)
  /\ told \in Nat /\ refused \in BOOLEAN
  /\ inbox \in Seq(ToldLine) /\ heard \in Seq(ToldLine) /\ inboxOffset \in 0..Len(inbox)

OutboxTypes == outbox \in Seq(Session) /\ proc \in [Session -> Sidecar]

----------------------------------------------------------------------------
(* Types *)

LEMMA TypesSplit ==
  /\ IpcTypeOK <=> LuaTypes /\ OutboxTypes
  /\ IpcTypeOK' <=> LuaTypes' /\ OutboxTypes'
<1>1. IpcTypeOK <=> LuaTypes /\ OutboxTypes
  BY DEF IpcTypeOK, LuaTypes, OutboxTypes, ToldLine, Sidecar
<1>2. IpcTypeOK' <=> LuaTypes' /\ OutboxTypes'
  BY DEF IpcTypeOK, LuaTypes, OutboxTypes, ToldLine, Sidecar
<1> QED
  BY <1>1, <1>2

LEMMA PositionsTypes ==
  ASSUME NEW from \in Nat, NEW to \in Nat, from <= to
  PROVE  /\ Positions(from, to) \in Seq(Nat)
         /\ Len(Positions(from, to)) = to - from
         /\ \A i \in 1..to - from : Positions(from, to)[i] = from + i
<1>1. to - from \in Nat
  OBVIOUS
<1>2. \A i \in 1..to - from : from + i \in Nat
  OBVIOUS
<1> QED
  BY <1>1, <1>2, IsASeq DEF Positions

LEMMA PositionsAnyTypes ==
  ASSUME NEW from \in Nat, NEW to \in Nat
  PROVE  Positions(from, to) \in Seq(Nat)
<1>1. CASE from <= to
  BY <1>1, PositionsTypes
<1>2. CASE to < from
  <2>1. 1..to - from = 1..0
    BY <1>2
  <2> QED
    BY <2>1, IsASeq DEF Positions
<1> QED
  BY <1>1, <1>2

LEMMA PositionsAppended ==
  ASSUME NEW g \in Seq(Nat), NEW from \in Nat, NEW to \in Nat, from <= to,
         NEW h, h = g \o Positions(from, to), NEW i \in 1..Len(h)
  PROVE  (i \in 1..Len(g) /\ h[i] = g[i]) \/ h[i] \in from + 1..to
<1>. DEFINE new == Positions(from, to)
<1>1. /\ new \in Seq(Nat) /\ Len(new) = to - from
      /\ \A j \in 1..to - from : new[j] = from + j
  BY PositionsTypes
<1>. HIDE DEF new
<1>2. /\ Len(g \o new) = Len(g) + (to - from) /\ Len(g) \in Nat
      /\ \A j \in 1..Len(g) + (to - from) :
           (g \o new)[j] = IF j <= Len(g) THEN g[j] ELSE new[j - Len(g)]
  <2>1. /\ Len(g \o new) = Len(g) + Len(new)
        /\ \A j \in 1..Len(g) + Len(new) :
             (g \o new)[j] = IF j <= Len(g) THEN g[j] ELSE new[j - Len(g)]
    BY <1>1, ConcatProperties, Zenon
  <2> QED
    BY <1>1, <2>1
<1>3. CASE i <= Len(g)
  BY <1>2, <1>3 DEF new
<1>4. CASE i > Len(g)
  <2>1. i - Len(g) \in 1..to - from
    BY <1>2, <1>4 DEF new
  <2>2. (g \o new)[i] = from + (i - Len(g))
    BY <1>1, <1>2, <1>4, <2>1 DEF new
  <2> QED
    BY <2>1, <2>2 DEF new
<1> QED
  BY <1>2, <1>3, <1>4 DEF new

LEMMA IpcTypesInit == Init => IpcTypeOK
<1>. SUFFICES ASSUME Init PROVE LuaTypes /\ OutboxTypes
  BY TypesSplit
<1>1. <<>> \in Seq(Nat) /\ <<>> \in Seq(Session) /\ <<>> \in Seq(ToldLine) /\ Len(<<>>) = 0
  BY EmptySeq
<1>2. outbox = <<>> /\ inbox = <<>> /\ heard = <<>> /\ proc = [s \in Session |-> Absent]
  BY DEF Init
<1>3. Absent \in Sidecar
  BY <1>1, <1>2 DEF Absent, Sidecar, Place
<1>4. OutboxTypes
  BY <1>1, <1>2, <1>3 DEF OutboxTypes
<1>5. LuaTypes
  <2>1. inbox \in Seq(ToldLine) /\ heard \in Seq(ToldLine) /\ Len(inbox) = 0
    BY <1>1, <1>2
  <2>2. game = "off" /\ session = 0 /\ told = 0 /\ inboxOffset = 0
    BY DEF Init
  <2>3. refused \in BOOLEAN
    BY DEF Init
  <2> QED
    BY <2>1, <2>2, <2>3, IpcConstants DEF LuaTypes
<1> QED
  BY <1>4, <1>5

\* A longer outbox leaves the offsets into it what they are.
LEMMA OutboxGrows ==
  ASSUME outbox \in Seq(Session), NEW s \in Session, outbox' = Append(outbox, s)
  PROVE  /\ outbox' \in Seq(Session) /\ Len(outbox') = Len(outbox) + 1
         /\ Sidecar \subseteq Sidecar'
<1>1. outbox' \in Seq(Session) /\ Len(outbox') = Len(outbox) + 1 /\ Len(outbox) \in Nat
  OBVIOUS
<1>2. 0..Len(outbox) \subseteq 0..Len(outbox')
  BY <1>1
<1> QED
  BY <1>1, <1>2 DEF Sidecar

LEMMA LuaStepTypes ==
  ASSUME LuaTypes, OutboxTypes,
         \/ \E ok \in BOOLEAN : BootEmpties(ok) \/ MapLoaded(ok)
         \/ ReadInbox \/ \E s \in Session : AppendToInbox(s)
  PROVE  LuaTypes' /\ OutboxTypes'
<1>1. CASE \E ok \in BOOLEAN : BootEmpties(ok)
  <2>1. <<>> \in Seq(ToldLine) /\ Len(<<>>) = 0
    BY EmptySeq
  <2>2. PICK ok \in BOOLEAN : BootEmpties(ok)
    BY <1>1
  <2>3. inbox' \in Seq(ToldLine) /\ Len(inbox') \in Nat /\ inboxOffset' = 0
    BY <2>1, <2>2 DEF BootEmpties, TruncateInbox, LuaTypes
  <2>4. session' \in Session
    BY <2>2, IpcConstants DEF BootEmpties, LuaTypes
  <2> QED
    BY <2>1, <2>2, <2>3, <2>4 DEF BootEmpties, LuaTypes, OutboxTypes, Sidecar
<1>2. CASE \E ok \in BOOLEAN : MapLoaded(ok)
  BY <1>2 DEF MapLoaded, TruncateInbox, LuaTypes, OutboxTypes, Sidecar
<1>3. CASE ReadInbox
  <2>1. SubSeq(inbox, inboxOffset + 1, Len(inbox)) \in Seq(ToldLine)
    BY SubSeqProperties DEF LuaTypes
  <2>2. heard' \in Seq(ToldLine)
    BY <1>3, <2>1, ConcatProperties DEF ReadInbox, LuaTypes
  <2>3. inboxOffset' \in 0..Len(inbox')
    BY <1>3 DEF ReadInbox, LuaTypes
  <2> QED
    BY <1>3, <2>2, <2>3 DEF ReadInbox, LuaTypes, OutboxTypes, Sidecar
<1>4. CASE \E s \in Session : AppendToInbox(s)
  <2>. DEFINE line == [n |-> told + 1, in |-> session]
  <2>1. line \in ToldLine
    BY DEF LuaTypes, ToldLine
  <2>2. inbox' = Append(inbox, line) /\ told' = told + 1
        /\ UNCHANGED <<gameSide, outbox, proc>>
    BY <1>4 DEF AppendToInbox
  <2>3. inbox' \in Seq(ToldLine) /\ Len(inbox') = Len(inbox) + 1
    BY <2>1, <2>2, AppendProperties DEF LuaTypes
  <2>. HIDE DEF line
  <2> QED
    BY <2>2, <2>3 DEF LuaTypes, OutboxTypes, Sidecar
<1> QED
  BY <1>1, <1>2, <1>3, <1>4

\* What a step of a sidecar leaves alone.
LEMMA BecomesTypes ==
  ASSUME LuaTypes, OutboxTypes, NEW s \in Session, NEW p \in Sidecar, Becomes(s, p)
  PROVE  /\ LuaTypes' /\ OutboxTypes'
         /\ proc'[s] = p /\ \A t \in Session \ {s} : proc'[t] = proc[t]
         /\ UNCHANGED <<gameSide, files>>
<1>1. UNCHANGED <<gameSide, files>> /\ proc' = [proc EXCEPT ![s] = p]
  BY DEF Becomes
<1>2. LuaTypes'
  BY <1>1 DEF LuaTypes
<1>3. Sidecar' = Sidecar
  BY <1>1 DEF Sidecar
<1>4. OutboxTypes'
  BY <1>1, <1>3 DEF OutboxTypes
<1> QED
  BY <1>1, <1>2, <1>4 DEF OutboxTypes

\* What is left of a sidecar that is over.
LEMMA OverRecord ==
  ASSUME OutboxTypes, NEW p \in Sidecar
  PROVE  /\ Over(p) \in Sidecar /\ Over(p).at = "gone"
         /\ Over(p).offset = p.offset /\ Over(p).got = p.got
<1>1. Len(outbox) \in Nat /\ 0 \in 0..Len(outbox) /\ "gone" \in Place
  BY DEF OutboxTypes, Place
<1> QED
  BY <1>1 DEF Over, Sidecar

LEMMA SidecarRecords ==
  ASSUME OutboxTypes, NEW s \in Session
  PROVE  LET p == proc[s] IN
         /\ p \in Sidecar /\ Len(outbox) \in Nat
         /\ [p EXCEPT !.at = "started", !.offset = Len(outbox)] \in Sidecar
         /\ [p EXCEPT !.at = "watching", !.base = Len(outbox)] \in Sidecar
         /\ [p EXCEPT !.at = "changed", !.base = Len(outbox)] \in Sidecar
         /\ \A to \in {"watching", "reading"} :
              [p EXCEPT !.at = to, !.seen = Len(outbox)] \in Sidecar
         /\ [p EXCEPT !.at = "watching", !.offset = p.seen,
                      !.got = @ \o Positions(p.offset, p.seen)] \in Sidecar
         /\ Over(p) \in Sidecar
<1>. DEFINE p == proc[s]
<1>1. p \in Sidecar /\ Len(outbox) \in Nat /\ Len(outbox) \in 0..Len(outbox)
  BY DEF OutboxTypes
<1>. HIDE DEF p
<1>2. p.got \o Positions(p.offset, p.seen) \in Seq(Nat)
  <2>1. p.got \in Seq(Nat) /\ p.offset \in Nat /\ p.seen \in Nat
    BY <1>1 DEF Sidecar
  <2> QED
    BY <2>1, PositionsAnyTypes, ConcatProperties
<1>3. [p EXCEPT !.at = "watching", !.offset = p.seen,
                !.got = @ \o Positions(p.offset, p.seen)] \in Sidecar
  BY <1>1, <1>2 DEF Sidecar, Place
<1>4. /\ [p EXCEPT !.at = "started", !.offset = Len(outbox)] \in Sidecar
      /\ [p EXCEPT !.at = "watching", !.base = Len(outbox)] \in Sidecar
      /\ [p EXCEPT !.at = "changed", !.base = Len(outbox)] \in Sidecar
      /\ Over(p) \in Sidecar
  BY <1>1, OverRecord DEF Sidecar, Place
<1>5. \A to \in {"watching", "reading"} :
        [p EXCEPT !.at = to, !.seen = Len(outbox)] \in Sidecar
  BY <1>1 DEF Sidecar, Place
<1> QED
  BY <1>1, <1>3, <1>4, <1>5 DEF p

LEMMA SidecarStepTypes ==
  ASSUME LuaTypes, OutboxTypes, NEW s \in Session,
         \/ ProcessStarts(s) \/ WatchBegins(s) \/ OutboxChanged(s) \/ StatOutbox(s)
         \/ ReadOutbox(s) \/ SidecarEnds(s)
  PROVE  LuaTypes' /\ OutboxTypes'
<1>1. \E p \in Sidecar : Becomes(s, p)
  BY SidecarRecords
     DEF ProcessStarts, WatchBegins, OutboxChanged, StatOutbox, ReadOutbox, SidecarEnds
<1> QED
  BY <1>1, BecomesTypes

LEMMA IpcTypesStep == IpcTypeOK /\ [Next]_ipcVars => IpcTypeOK'
<1>. SUFFICES ASSUME LuaTypes, OutboxTypes, [Next]_ipcVars PROVE LuaTypes' /\ OutboxTypes'
  BY TypesSplit
<1>1. CASE BootPrimes \/ GameEnds
  <2>1. CASE BootPrimes
    BY <2>1 DEF BootPrimes, LuaTypes, OutboxTypes, Sidecar
  <2>2. CASE GameEnds
    <3>1. <<>> \in Seq(ToldLine) /\ Len(inbox) \in Nat
      BY EmptySeq DEF LuaTypes
    <3>2. LuaTypes' /\ OutboxTypes'
      BY <2>2, <3>1 DEF GameEnds, LuaTypes, OutboxTypes, Sidecar
    <3> QED
      BY <3>2
  <2> QED
    BY <1>1, <2>1, <2>2
<1>2. CASE BootSweeps
  <2>1. LuaTypes' /\ outbox' = outbox /\ Sidecar' = Sidecar
    BY <1>2, SMTT(30) DEF BootSweeps, LuaTypes, Sidecar
  <2>2. \A s \in Session : proc[s] \in Sidecar /\ Over(proc[s]) \in Sidecar
    BY SidecarRecords DEF OutboxTypes
  <2>3. proc' \in [Session -> Sidecar]
    BY <1>2, <2>2 DEF BootSweeps
  <2> QED
    BY <2>1, <2>3 DEF OutboxTypes
<1>3. CASE \E found \in BOOLEAN : BootLaunches(found)
  <2>1. LuaTypes' /\ outbox' = outbox /\ Sidecar' = Sidecar
    BY <1>3 DEF BootLaunches, LuaTypes, Sidecar
  <2>2. session \in Session
    BY <1>3 DEF BootLaunches, LuaTypes
  <2>3. PICK at \in Place : proc' = [proc EXCEPT ![session] = [proc[session] EXCEPT !.at = at]]
    BY <1>3 DEF BootLaunches, Place
  <2>4. [proc[session] EXCEPT !.at = at] \in Sidecar
    BY <2>2 DEF OutboxTypes, Sidecar
  <2> QED
    BY <2>1, <2>3, <2>4 DEF OutboxTypes
<1>4. CASE LuaWrites
  <2>1. session \in Session
    BY <1>4 DEF LuaTypes, LuaWrites
  <2>2. outbox' \in Seq(Session) /\ Sidecar \subseteq Sidecar'
    BY <1>4, <2>1, OutboxGrows DEF LuaWrites, OutboxTypes
  <2>3. OutboxTypes'
    BY <1>4, <2>2 DEF LuaWrites, OutboxTypes
  <2> QED
    BY <1>4, <2>3 DEF LuaWrites, LuaTypes
<1>5. CASE UNCHANGED ipcVars
  BY <1>5 DEF LuaTypes, OutboxTypes, Sidecar
<1> QED
  BY <1>1, <1>2, <1>3, <1>4, <1>5, LuaStepTypes, SidecarStepTypes DEF Next

THEOREM IpcTypes == Spec => []IpcTypeOK
BY IpcTypesInit, IpcTypesStep, PTL DEF Spec

----------------------------------------------------------------------------
(* Which sidecar is there when, and what it has handled *)

Idle == {"none", "gone"}

\* Sidecars are launched one per session, after the last one is gone.
OneByOne ==
  /\ \A s \in Session : s > session => proc[s] = Absent
  /\ game \in {"emptied", "primed", "swept"} => proc[session] = Absent
  /\ game \in {"swept", "running"} => \A s \in Session \ {session} : proc[s].at \in Idle
  /\ \A s, t \in Session : proc[s].at \notin Idle /\ proc[t].at \notin Idle => s = t

\* One that has not started has handled nothing.
Unstarted(p) == p.at \in {"none", "launching"} => p.got = <<>> /\ p.offset = 0

\* What it handled is before its offset, what it is about to read after it.
Offsets(p) ==
  /\ \A i \in 1..Len(p.got) : p.got[i] \in 1..p.offset
  /\ p.at = "reading" => p.offset < p.seen

\* What it handled is of its session, and what is left of the file too.
Own(s) ==
  /\ \A i \in 1..Len(proc[s].got) : outbox[proc[s].got[i]] = s
  /\ Alive(s) => \A n \in proc[s].offset + 1..Len(outbox) : outbox[n] = s

OwnInv ==
  /\ OneByOne
  /\ \A s \in Session : Unstarted(proc[s]) /\ Offsets(proc[s]) /\ Own(s)

LEMMA OwnInit == Init => OwnInv
<1>. SUFFICES ASSUME Init PROVE OwnInv
  OBVIOUS
<1>1. proc = [s \in Session |-> Absent] /\ game = "off"
  BY DEF Init
<1>2. OneByOne
  BY <1>1 DEF OneByOne, Absent, Idle
<1>3. ASSUME NEW s \in Session PROVE Unstarted(proc[s]) /\ Offsets(proc[s]) /\ Own(s)
  <2>1. proc[s] = Absent
    BY <1>1
  <2>2. Absent.got = <<>> /\ Absent.offset = 0 /\ Absent.at = "none" /\ Len(<<>>) = 0
    BY EmptySeq DEF Absent
  <2> QED
    BY <2>1, <2>2 DEF Unstarted, Offsets, Own, Alive
<1> QED
  BY <1>2, <1>3 DEF OwnInv

\* A step of a sidecar keeps the invariant if the record it leaves does.
LEMMA BecomesOwn ==
  ASSUME LuaTypes, OutboxTypes, OwnInv, NEW s \in Session, NEW p \in Sidecar, Becomes(s, p),
         proc[s].at \notin Idle, p.at \notin {"none", "launching"}, Offsets(p),
         \A i \in 1..Len(p.got) : outbox[p.got[i]] = s,
         p.at # "gone" => \A n \in p.offset + 1..Len(outbox) : outbox[n] = s
  PROVE  OwnInv'
<1>1. proc'[s] = p /\ (\A t \in Session \ {s} : proc'[t] = proc[t]) /\ UNCHANGED <<gameSide, files>>
  BY BecomesTypes
<1>2. s <= session /\ proc[s] # Absent
  BY DEF OwnInv, OneByOne, Absent, Idle, LuaTypes
<1>3. OneByOne'
  <2>1. \A t \in Session : proc'[t].at \notin Idle => proc[t].at \notin Idle
    BY <1>1
  <2>2. \A t \in Session \ {s} : proc[t].at \in Idle
    BY DEF OwnInv, OneByOne
  <2>3. game' \in {"swept", "running"} => \A t \in Session \ {session'} : proc'[t].at \in Idle
    BY <1>1, <2>1 DEF OwnInv, OneByOne
  <2>4. game' \in {"emptied", "primed", "swept"} => proc'[session'] = Absent
    BY <1>1, <1>2 DEF OwnInv, OneByOne, LuaTypes
  <2>5. \A t \in Session : t > session' => proc'[t] = Absent
    BY <1>1, <1>2 DEF OwnInv, OneByOne, LuaTypes
  <2> QED
    BY <2>1, <2>3, <2>4, <2>5 DEF OwnInv, OneByOne
<1>4. ASSUME NEW t \in Session PROVE (Unstarted(proc[t]) /\ Offsets(proc[t]) /\ Own(t))'
  <2>1. CASE t = s
    BY <1>1, <2>1 DEF Unstarted, Offsets, Own, Alive
  <2>2. CASE t # s
    BY <1>1, <2>2 DEF OwnInv, Unstarted, Offsets, Own, Alive
  <2> QED
    BY <2>1, <2>2
<1> QED
  BY <1>3, <1>4 DEF OwnInv

LEMMA SidecarStepOwn ==
  ASSUME LuaTypes, OutboxTypes, OwnInv, NEW s \in Session,
         \/ ProcessStarts(s) \/ WatchBegins(s) \/ OutboxChanged(s) \/ StatOutbox(s)
         \/ ReadOutbox(s) \/ SidecarEnds(s)
  PROVE  OwnInv'
<1>. DEFINE p == proc[s]
<1>1. p \in Sidecar /\ Len(outbox) \in Nat
  BY DEF OutboxTypes
<1>2. Unstarted(p) /\ Offsets(p) /\ (\A i \in 1..Len(p.got) : outbox[p.got[i]] = s)
      /\ (p.at \in {"started", "watching", "changed", "reading"} =>
            \A n \in p.offset + 1..Len(outbox) : outbox[n] = s)
  BY DEF OwnInv, Own, Alive
<1>3. CASE ProcessStarts(s)
  <2>. DEFINE q == [p EXCEPT !.at = "started", !.offset = Len(outbox)]
  <2>1. q \in Sidecar /\ Becomes(s, q) /\ p.at = "launching"
    BY <1>3, SidecarRecords DEF ProcessStarts
  <2>2. q.got = <<>> /\ q.at = "started" /\ q.offset = Len(outbox) /\ Len(<<>>) = 0
    BY <1>1, <1>2, <2>1, EmptySeq DEF Unstarted, Sidecar
  <2>. HIDE DEF q
  <2>3. Offsets(q) /\ Len(q.got) = 0
    BY <2>2 DEF Offsets
  <2> QED
    BY <1>1, <2>1, <2>2, <2>3, BecomesOwn, SMTT(30) DEF Idle
<1>4. CASE WatchBegins(s)
  <2>. DEFINE q == [p EXCEPT !.at = "watching", !.base = Len(outbox)]
  <2>1. q \in Sidecar /\ Becomes(s, q) /\ p.at = "started"
    BY <1>4, SidecarRecords DEF WatchBegins
  <2>2. q.got = p.got /\ q.at = "watching" /\ q.offset = p.offset
    BY <1>1 DEF Sidecar
  <2>. HIDE DEF q
  <2>3. Offsets(q)
    BY <1>2, <2>2 DEF Offsets
  <2> QED
    BY <1>2, <2>1, <2>2, <2>3, BecomesOwn, SMTT(30) DEF Idle
<1>5. CASE OutboxChanged(s)
  <2>. DEFINE q == [p EXCEPT !.at = "changed", !.base = Len(outbox)]
  <2>1. q \in Sidecar /\ Becomes(s, q) /\ p.at = "watching"
    BY <1>5, SidecarRecords DEF OutboxChanged
  <2>2. q.got = p.got /\ q.at = "changed" /\ q.offset = p.offset
    BY <1>1 DEF Sidecar
  <2>. HIDE DEF q
  <2>3. Offsets(q)
    BY <1>2, <2>2 DEF Offsets
  <2> QED
    BY <1>2, <2>1, <2>2, <2>3, BecomesOwn, SMTT(30) DEF Idle
<1>6. CASE StatOutbox(s)
  <2>. DEFINE to == IF Len(outbox) # p.offset THEN "reading" ELSE "watching"
              q == [p EXCEPT !.at = to, !.seen = Len(outbox)]
  <2>1. q \in Sidecar /\ Becomes(s, q) /\ p.at = "changed" /\ to \in {"reading", "watching"}
    BY <1>6, SidecarRecords DEF StatOutbox
  <2>2. q.got = p.got /\ q.at = to /\ q.offset = p.offset /\ q.seen = Len(outbox)
        /\ p.offset \in 0..Len(outbox)
    BY <1>1 DEF Sidecar
  <2>. HIDE DEF q
  <2>3. Offsets(q)
    BY <1>1, <1>2, <2>2 DEF Offsets
  <2>. HIDE DEF to
  <2> QED
    BY <1>2, <2>1, <2>2, <2>3, BecomesOwn DEF Idle
<1>7. CASE ReadOutbox(s)
  <2>. DEFINE q == [p EXCEPT !.at = "watching", !.offset = p.seen,
                            !.got = @ \o Positions(p.offset, p.seen)]
  <2>1. q \in Sidecar /\ Becomes(s, q) /\ p.at = "reading"
    BY <1>7, SidecarRecords DEF ReadOutbox
  <2>2. q.got = p.got \o Positions(p.offset, p.seen) /\ q.at = "watching" /\ q.offset = p.seen
    BY <1>1 DEF Sidecar
  <2>3. p.got \in Seq(Nat) /\ p.offset \in Nat /\ p.seen \in 0..Len(outbox) /\ p.offset < p.seen
    BY <1>1, <1>2, <2>1 DEF Sidecar, Offsets
  <2>4. /\ \A j \in 1..Len(p.got) : p.got[j] \in 1..p.offset /\ outbox[p.got[j]] = s
        /\ \A n \in p.offset + 1..Len(outbox) : outbox[n] = s
    BY <1>2, <2>1 DEF Offsets
  <2>. HIDE DEF p, q
  <2>6. ASSUME NEW i \in 1..Len(q.got)
        PROVE  q.got[i] \in 1..q.offset /\ outbox[q.got[i]] = s
    <3>1. CASE i \in 1..Len(p.got) /\ q.got[i] = p.got[i]
      BY <2>2, <2>3, <2>4, <3>1, SMTT(30)
    <3>2. CASE q.got[i] \in p.offset + 1..p.seen
      BY <1>1, <2>2, <2>3, <2>4, <3>2, SMTT(30)
    <3>3. p.seen \in Nat /\ p.offset <= p.seen
      BY <1>1, <2>3
    <3>4. (i \in 1..Len(p.got) /\ q.got[i] = p.got[i]) \/ q.got[i] \in p.offset + 1..p.seen
      BY <2>2, <2>3, <3>3, PositionsAppended, Zenon
    <3> QED
      BY <3>1, <3>2, <3>4
  <2>7. Offsets(q)
    BY <2>2, <2>6 DEF Offsets
  <2>8. \A n \in q.offset + 1..Len(outbox) : outbox[n] = s
    BY <1>1, <2>2, <2>3, <2>4
  <2> QED
    BY <2>1, <2>2, <2>6, <2>7, <2>8, BecomesOwn DEF Idle, p
<1>8. CASE SidecarEnds(s)
  <2>. DEFINE q == Over(p)
  <2>1. q \in Sidecar /\ Becomes(s, q) /\ Alive(s)
    BY <1>8, SidecarRecords DEF SidecarEnds
  <2>2. q.got = p.got /\ q.at = "gone" /\ q.offset = p.offset
    BY <1>1, OverRecord
  <2>. HIDE DEF q
  <2>3. Offsets(q)
    BY <1>2, <2>2 DEF Offsets
  <2> QED
    BY <1>2, <2>1, <2>2, <2>3, BecomesOwn, SMTT(30) DEF Idle, Alive
<1> QED
  BY <1>3, <1>4, <1>5, <1>6, <1>7, <1>8

LEMMA UnchangedOwn ==
  ASSUME OwnInv, UNCHANGED <<game, session, outbox, proc>>
  PROVE  OwnInv'
BY DEF OwnInv, OneByOne, Unstarted, Offsets, Own, Alive

LEMMA LuaWritesOwn ==
  ASSUME LuaTypes, OutboxTypes, OwnInv, LuaWrites
  PROVE  OwnInv'
<1>1. /\ game = "running" /\ session \in Session /\ outbox' = Append(outbox, session)
      /\ UNCHANGED <<game, session, proc>>
  BY DEF LuaWrites, LuaTypes
<1>2. /\ Len(outbox) \in Nat /\ Len(outbox') = Len(outbox) + 1 /\ outbox'[Len(outbox) + 1] = session
      /\ \A n \in 1..Len(outbox) : outbox'[n] = outbox[n]
  BY <1>1, AppendProperties DEF OutboxTypes
<1>3. OneByOne'
  BY <1>1 DEF OwnInv, OneByOne
<1>4. ASSUME NEW s \in Session PROVE (Unstarted(proc[s]) /\ Offsets(proc[s]) /\ Own(s))'
  <2>1. Unstarted(proc[s])' /\ Offsets(proc[s])'
    BY <1>1 DEF OwnInv, Unstarted, Offsets
  <2>2. proc[s].offset \in 0..Len(outbox)
    BY DEF OutboxTypes, Sidecar
  <2>3. \A i \in 1..Len(proc[s].got) : proc[s].got[i] \in 1..Len(outbox)
    BY <1>2, <2>2 DEF OwnInv, Offsets
  <2>4. Alive(s) => s = session
    BY <1>1 DEF OwnInv, OneByOne, Alive, Idle
  <2>5. Own(s)'
    BY <1>1, <1>2, <2>2, <2>3, <2>4 DEF OwnInv, Own, Alive
  <2> QED
    BY <2>1, <2>5
<1> QED
  BY <1>3, <1>4 DEF OwnInv

LEMMA BootEmptiesOwn ==
  ASSUME LuaTypes, OutboxTypes, OwnInv, NEW ok, BootEmpties(ok)
  PROVE  OwnInv'
<1>1. session' = session + 1 /\ session' \in Session /\ game' = "emptied" /\ UNCHANGED <<outbox, proc>>
  BY IpcConstants DEF BootEmpties, LuaTypes
<1>2. session < session' /\ \A s \in Session : s > session' => s > session
  BY <1>1 DEF LuaTypes
<1>3. OneByOne'
  BY <1>1, <1>2 DEF OwnInv, OneByOne
<1> QED
  BY <1>1, <1>3 DEF OwnInv, Unstarted, Offsets, Own, Alive

\* A sidecar that is killed leaves its record.
LEMMA BootSweepsOwn ==
  ASSUME LuaTypes, OutboxTypes, OwnInv, BootSweeps
  PROVE  OwnInv'
<1>1. /\ game = "primed" /\ game' = "swept" /\ UNCHANGED <<session, outbox>>
      /\ session \in Session /\ \A s \in Session : proc[s].at # "launching"
  BY DEF BootSweeps, LuaTypes
<1>2. ASSUME NEW s \in Session
      PROVE  /\ proc'[s] = proc[s] \/ (Alive(s) /\ proc'[s] = Over(proc[s]))
             /\ proc'[s].at \in Idle
  <2>1. proc[s] \in Sidecar /\ proc'[s] = IF Alive(s) THEN Over(proc[s]) ELSE proc[s]
    BY DEF BootSweeps, OutboxTypes
  <2>2. CASE Alive(s)
    BY <2>1, <2>2, OverRecord DEF Idle
  <2>3. CASE ~Alive(s)
    BY <1>1, <2>1, <2>3 DEF Alive, Sidecar, Place, Idle
  <2> QED
    BY <2>2, <2>3
<1>3. ASSUME NEW s \in Session
      PROVE  /\ proc'[s].got = proc[s].got /\ proc'[s].offset = proc[s].offset
             /\ proc'[s].at = proc[s].at \/ proc'[s].at = "gone"
             /\ proc[s] = Absent => proc'[s] = Absent
  <2>1. proc[s] \in Sidecar /\ (proc[s] = Absent => ~Alive(s))
    BY DEF OutboxTypes, Absent, Alive
  <2>2. CASE proc'[s] = proc[s]
    BY <2>2
  <2>3. CASE Alive(s) /\ proc'[s] = Over(proc[s])
    BY <2>1, <2>3, OverRecord
  <2> QED
    BY <1>2, <2>2, <2>3
<1>4. OneByOne'
  BY <1>1, <1>2, <1>3 DEF OwnInv, OneByOne
<1>5. ASSUME NEW s \in Session PROVE (Unstarted(proc[s]) /\ Offsets(proc[s]) /\ Own(s))'
  <2>1. Unstarted(proc[s]) /\ Offsets(proc[s]) /\ Own(s)
    BY DEF OwnInv
  <2>2. Unstarted(proc'[s]) /\ Offsets(proc'[s])
    BY <1>2, <1>3, <2>1 DEF Unstarted, Offsets, Idle
  <2>3. Own(s)'
    BY <1>1, <1>2, <1>3, <2>1 DEF Own, Alive, Idle
  <2> QED
    BY <2>2, <2>3
<1> QED
  BY <1>4, <1>5 DEF OwnInv

LEMMA BootLaunchesOwn ==
  ASSUME LuaTypes, OutboxTypes, OwnInv, NEW found \in BOOLEAN, BootLaunches(found)
  PROVE  OwnInv'
<1>1. /\ game = "swept" /\ game' = "running" /\ UNCHANGED <<session, outbox>>
      /\ session \in Session
  BY DEF BootLaunches, LuaTypes
<1>2. PICK at \in {"launching", "gone"} :
        proc' = [proc EXCEPT ![session] = [proc[session] EXCEPT !.at = at]]
  BY DEF BootLaunches
<1>3. /\ proc'[session].at = at /\ proc'[session].got = <<>> /\ proc'[session].offset = 0
      /\ \A s \in Session \ {session} : proc'[s] = proc[s]
  BY <1>1, <1>2 DEF OwnInv, OneByOne, OutboxTypes, Sidecar, Absent
<1>4. OneByOne'
  BY <1>1, <1>2, <1>3 DEF OwnInv, OneByOne, LuaTypes
<1>5. ASSUME NEW s \in Session PROVE (Unstarted(proc[s]) /\ Offsets(proc[s]) /\ Own(s))'
  <2>1. CASE s = session
    BY <1>1, <1>2, <1>3, <2>1, EmptySeq DEF Unstarted, Offsets, Own, Alive
  <2>2. CASE s # session
    BY <1>1, <1>3, <2>2 DEF OwnInv, Unstarted, Offsets, Own, Alive
  <2> QED
    BY <2>1, <2>2
<1> QED
  BY <1>4, <1>5 DEF OwnInv

LEMMA OwnStep == IpcTypeOK /\ OwnInv /\ [Next]_ipcVars => OwnInv'
<1>. SUFFICES ASSUME LuaTypes, OutboxTypes, OwnInv, [Next]_ipcVars PROVE OwnInv'
  BY TypesSplit
<1>1. CASE BootPrimes \/ GameEnds
  <2>1. UNCHANGED <<session, outbox, proc>>
        /\ ((game = "emptied" /\ game' = "primed") \/ game' = "off")
    BY <1>1 DEF BootPrimes, GameEnds
  <2>2. OneByOne'
    BY <2>1 DEF OwnInv, OneByOne
  <2> QED
    BY <2>1, <2>2 DEF OwnInv, Unstarted, Offsets, Own, Alive
<1>2. CASE \/ ReadInbox \/ \E ok \in BOOLEAN : MapLoaded(ok)
           \/ \E s \in Session : AppendToInbox(s)
           \/ UNCHANGED ipcVars
  BY <1>2, UnchangedOwn DEF ReadInbox, MapLoaded, AppendToInbox
<1> QED
  BY <1>1, <1>2, LuaWritesOwn, BootEmptiesOwn, BootSweepsOwn, BootLaunchesOwn, SidecarStepOwn
     DEF Next

\* Every line a sidecar handles was written in the session that launched it.
THEOREM OwnLines == Spec => []OwnLinesOnly
<1>1. OwnInv => OwnLinesOnly
  BY DEF OwnInv, Own, OwnLinesOnly
<1> QED
  BY <1>1, IpcTypesInit, IpcTypesStep, OwnInit, OwnStep, PTL DEF Spec

----------------------------------------------------------------------------
(* The outbox and an offset are a queue *)

LEMMA PositionsEmpty ==
  ASSUME NEW n \in Nat
  PROVE  Positions(n, n) = <<>>
<1>1. Positions(n, n) \in Seq(Nat) /\ Len(Positions(n, n)) = 0
  BY PositionsTypes
<1> QED
  BY <1>1, EmptySeq

LEMMA PositionsAppend ==
  ASSUME NEW from \in Nat, NEW to \in Nat, from <= to
  PROVE  Positions(from, to + 1) = Append(Positions(from, to), to + 1)
<1>. DEFINE old == Positions(from, to)
            new == Positions(from, to + 1)
<1>1. /\ old \in Seq(Nat) /\ Len(old) = to - from
      /\ \A i \in 1..to - from : old[i] = from + i
  BY PositionsTypes
<1>2. /\ new \in Seq(Nat) /\ Len(new) = to + 1 - from
      /\ \A i \in 1..to + 1 - from : new[i] = from + i
  <2>1. to + 1 \in Nat /\ from <= to + 1
    OBVIOUS
  <2> QED
    BY <2>1, PositionsTypes
<1>. HIDE DEF old, new
<1>3. /\ Append(old, to + 1) \in Seq(Nat) /\ Len(Append(old, to + 1)) = to + 1 - from
      /\ \A i \in 1..to - from : Append(old, to + 1)[i] = old[i]
      /\ Append(old, to + 1)[to - from + 1] = to + 1
  BY <1>1, AppendProperties, SMTT(30)
<1>4. \A i \in 1..Len(new) : new[i] = Append(old, to + 1)[i]
  BY <1>1, <1>2, <1>3
<1>5. new = Append(old, to + 1)
  BY <1>2, <1>3, <1>4, SeqEqual
<1> QED
  BY <1>5 DEF old, new

LEMMA PositionsSub ==
  ASSUME NEW from \in Nat, NEW to \in Nat, NEW a \in Nat, NEW b \in Nat,
         a <= b, b <= to - from
  PROVE  SubSeq(Positions(from, to), a + 1, b) = Positions(from + a, from + b)
<1>. DEFINE all == Positions(from, to)
            part == Positions(from + a, from + b)
            cut == SubSeq(all, a + 1, b)
<1>1. from <= to /\ from + a \in Nat /\ from + b \in Nat /\ from + a <= from + b
  OBVIOUS
<1>2. /\ all \in Seq(Nat) /\ Len(all) = to - from
      /\ \A i \in 1..to - from : all[i] = from + i
  BY <1>1, PositionsTypes
<1>3. /\ part \in Seq(Nat) /\ Len(part) = b - a
      /\ \A i \in 1..b - a : part[i] = from + a + i
  <2>1. /\ part \in Seq(Nat) /\ Len(part) = (from + b) - (from + a)
        /\ \A i \in 1..(from + b) - (from + a) : part[i] = (from + a) + i
    BY <1>1, PositionsTypes, Zenon
  <2> QED
    BY <2>1
<1>. HIDE DEF all, part
<1>4. \A i \in a + 1..b : all[i] \in Nat
  BY <1>2
<1>5. /\ cut \in Seq(Nat) /\ Len(cut) = IF a + 1 <= b THEN b - (a + 1) + 1 ELSE 0
      /\ \A i \in 1..b - (a + 1) + 1 : cut[i] = all[a + 1 + i - 1]
  BY <1>4, SubSeqProperties
<1>6. Len(cut) = b - a /\ \A i \in 1..b - a : cut[i] = from + a + i
  BY <1>2, <1>5
<1>. HIDE DEF cut
<1>7. cut = part
  BY <1>3, <1>5, <1>6, SeqEqual
<1> QED
  BY <1>7 DEF all, part, cut

\* What Q(s) shows of a state.
LEMMA WaitingTypes ==
  ASSUME OutboxTypes, NEW s \in Session
  PROVE  /\ Len(outbox) \in Nat /\ proc[s].offset \in 0..Len(outbox)
         /\ proc[s].seen \in 0..Len(outbox) /\ proc[s] \in Sidecar
BY DEF OutboxTypes, Sidecar

LEMMA QueueStutters ==
  ASSUME NEW s \in Session, Len(outbox') = Len(outbox), proc'[s].offset = proc[s].offset,
         proc'[s].got = proc[s].got, Alive(s)' <=> Alive(s)
  PROVE  UNCHANGED Q(s)!queueVars
<1>1. Alive(s)' = Alive(s)
  BY DEF Alive
<1> QED
  BY <1>1 DEF Q!queueVars, Waiting, Positions

LEMMA SidecarStepQueues ==
  ASSUME OutboxTypes, OwnInv, NEW s \in Session, NEW t \in Session,
         \/ ProcessStarts(t) \/ WatchBegins(t) \/ OutboxChanged(t) \/ StatOutbox(t)
         \/ ReadOutbox(t) \/ SidecarEnds(t)
  PROVE  [Q(s)!Next]_(Q(s)!queueVars)
<1>1. Len(outbox) \in Nat /\ proc[t] \in Sidecar /\ outbox' = outbox
  BY WaitingTypes
     DEF ProcessStarts, WatchBegins, OutboxChanged, StatOutbox, ReadOutbox, SidecarEnds, Becomes
<1>2. CASE s # t
  <2>1. proc'[s] = proc[s]
    BY <1>2 DEF ProcessStarts, WatchBegins, OutboxChanged, StatOutbox, ReadOutbox, SidecarEnds,
                Becomes, OutboxTypes
  <2> QED
    BY <1>1, <2>1, QueueStutters DEF Alive
<1>3. CASE s = t /\ ProcessStarts(s)
  <2>1. proc'[s] = [proc[s] EXCEPT !.at = "started", !.offset = Len(outbox)] /\ ~Alive(s)
    BY <1>3 DEF ProcessStarts, Becomes, OutboxTypes, Alive
  <2>2. proc'[s].at = "started" /\ proc'[s].offset = Len(outbox) /\ proc'[s].got = proc[s].got
    BY <1>1, <1>3, <2>1 DEF Sidecar
  <2>3. Waiting(s)' = <<>> /\ Alive(s)' = TRUE
    BY <1>1, <2>2, PositionsEmpty DEF Waiting, Alive
  <2>4. Q(s)!Start
    BY <2>1, <2>2, <2>3 DEF Q!Start
  <2> QED
    BY <2>4 DEF Q!Next
<1>4. CASE s = t /\ (WatchBegins(s) \/ OutboxChanged(s) \/ StatOutbox(s))
  <2>1. /\ proc'[s].offset = proc[s].offset /\ proc'[s].got = proc[s].got
        /\ Alive(s) /\ Alive(s)'
    <3>1. CASE WatchBegins(s)
      BY <1>1, <3>1 DEF WatchBegins, Becomes, OutboxTypes, Sidecar, Alive
    <3>2. CASE OutboxChanged(s)
      BY <1>1, <3>2 DEF OutboxChanged, Becomes, OutboxTypes, Sidecar, Alive
    <3>3. CASE StatOutbox(s)
      BY <1>1, <3>3 DEF StatOutbox, Becomes, OutboxTypes, Sidecar, Alive
    <3> QED
      BY <1>4, <3>1, <3>2, <3>3
  <2> QED
    BY <1>1, <2>1, QueueStutters
<1>5. CASE s = t /\ ReadOutbox(s)
  <2>. DEFINE o == proc[s].offset
              n == proc[s].seen - o
  <2>1. /\ o \in Nat /\ o < proc[s].seen /\ proc[s].seen <= Len(outbox)
        /\ n \in 1..Len(outbox) - o /\ proc[s].seen = o + n
    BY <1>5, WaitingTypes DEF ReadOutbox, OwnInv, Offsets
  <2>2. proc'[s] = [proc[s] EXCEPT !.at = "watching", !.offset = proc[s].seen,
                                   !.got = @ \o Positions(o, proc[s].seen)]
    BY <1>5 DEF ReadOutbox, Becomes, OutboxTypes
  <2>3. /\ proc'[s].at = "watching" /\ proc'[s].offset = o + n
        /\ proc'[s].got = proc[s].got \o Positions(o, o + n)
    BY <1>1, <1>5, <2>1, <2>2 DEF Sidecar
  <2>4. Waiting(s) = Positions(o, Len(outbox)) /\ Len(Waiting(s)) = Len(outbox) - o
    <3>1. o <= Len(outbox)
      BY <1>1, <2>1
    <3> QED
      BY <1>1, <2>1, <3>1, PositionsTypes, Zenon DEF Waiting
  <2>5. Waiting(s)' = Positions(o + n, Len(outbox))
    BY <1>1, <2>3 DEF Waiting
  <2>. HIDE DEF o, n
  <2>6. SubSeq(Waiting(s), 1, n) = Positions(o, o + n)
    <3>1. 0 \in Nat /\ n \in Nat /\ 0 <= n /\ n <= Len(outbox) - o /\ o + 0 = o
      BY <1>1, <2>1
    <3>2. SubSeq(Positions(o, Len(outbox)), 0 + 1, n) = Positions(o + 0, o + n)
      BY <1>1, <2>1, <3>1, PositionsSub, ZenonT(40)
    <3> QED
      BY <2>4, <3>1, <3>2
  <2>7. SubSeq(Waiting(s), n + 1, Len(Waiting(s))) = Positions(o + n, Len(outbox))
    <3>1. n \in Nat /\ Len(outbox) - o \in Nat /\ n <= Len(outbox) - o
          /\ o + (Len(outbox) - o) = Len(outbox) /\ Len(outbox) - o <= Len(outbox) - o
      BY <1>1, <2>1
    <3>2. SubSeq(Positions(o, Len(outbox)), n + 1, Len(outbox) - o)
            = Positions(o + n, o + (Len(outbox) - o))
      BY <1>1, <2>1, <3>1, PositionsSub, ZenonT(40)
    <3> QED
      BY <2>4, <3>1, <3>2
  <2>8. Alive(s) /\ Alive(s)' /\ n \in 1..Len(Waiting(s))
    BY <1>5, <2>1, <2>3, <2>4 DEF Alive, ReadOutbox
  <2>9. Alive(s)' = Alive(s)
    BY <2>8 DEF Alive
  <2>10. Q(s)!Take
    BY <2>3, <2>5, <2>6, <2>7, <2>8, <2>9 DEF Q!Take
  <2> QED
    BY <2>10 DEF Q!Next
<1>6. CASE s = t /\ SidecarEnds(s)
  <2>1. /\ proc'[s].offset = proc[s].offset /\ proc'[s].got = proc[s].got
        /\ Alive(s) /\ proc'[s].at = "gone"
    BY <1>1, <1>6, OverRecord DEF SidecarEnds, Becomes, OutboxTypes
  <2>2. Alive(s)' = FALSE
    BY <2>1 DEF Alive
  <2>3. Q(s)!Stop
    BY <1>1, <2>1, <2>2 DEF Q!Stop, Waiting
  <2> QED
    BY <2>3 DEF Q!Next
<1> QED
  BY <1>2, <1>3, <1>4, <1>5, <1>6

LEMMA LuaWritesQueues ==
  ASSUME OutboxTypes, LuaTypes, NEW s \in Session, IpcConstants, LuaWrites
  PROVE  Q(s)!Next
<1>1. /\ outbox' = Append(outbox, session) /\ session \in Session /\ proc' = proc
      /\ Len(outbox) < MaxLines
  BY DEF LuaWrites, LuaTypes
<1>2. Len(outbox) \in Nat /\ Len(outbox') = Len(outbox) + 1
      /\ proc[s].offset \in Nat /\ proc[s].offset <= Len(outbox)
  BY <1>1, WaitingTypes, AppendProperties DEF OutboxTypes
<1>3. Waiting(s)' = Append(Waiting(s), Len(outbox) + 1)
  BY <1>1, <1>2, PositionsAppend DEF Waiting
<1>4. Len(outbox) + 1 \in 1..MaxLines
  BY <1>1, <1>2, IpcConstants
<1>5. Alive(s)' = Alive(s)
  BY <1>1 DEF Alive
<1> QED
  BY <1>1, <1>3, <1>4, <1>5 DEF Q!Next, Q!Put

LEMMA QueueStep ==
  ASSUME IpcTypeOK, OwnInv, Next, NEW s \in Session
  PROVE  [Q(s)!Next]_(Q(s)!queueVars)
<1>1. LuaTypes /\ OutboxTypes /\ proc[s] \in Sidecar
  BY TypesSplit, WaitingTypes
<1>2. CASE BootSweeps
  <2>1. outbox' = outbox /\ proc'[s] = IF Alive(s) THEN Over(proc[s]) ELSE proc[s]
    BY <1>2 DEF BootSweeps
  <2>2. CASE Alive(s)
    <3>1. proc'[s].offset = proc[s].offset /\ proc'[s].got = proc[s].got /\ proc'[s].at = "gone"
      BY <1>1, <2>1, <2>2, OverRecord
    <3>2. Alive(s)' = FALSE
      BY <3>1 DEF Alive
    <3>3. Q(s)!Stop
      BY <2>1, <2>2, <3>1, <3>2 DEF Q!Stop, Waiting
    <3> QED
      BY <3>3 DEF Q!Next
  <2>3. CASE ~Alive(s)
    BY <2>1, <2>3, QueueStutters DEF Alive
  <2> QED
    BY <2>2, <2>3
<1>3. CASE \E found \in BOOLEAN : BootLaunches(found)
  <2>1. session \in Session /\ proc[session] = Absent /\ outbox' = outbox
    BY <1>1, <1>3 DEF BootLaunches, LuaTypes, OwnInv, OneByOne
  <2>2. PICK at \in {"launching", "gone"} :
          proc' = [proc EXCEPT ![session] = [proc[session] EXCEPT !.at = at]]
    BY <1>3 DEF BootLaunches
  <2>3. proc'[s].offset = proc[s].offset /\ proc'[s].got = proc[s].got /\ (Alive(s)' <=> Alive(s))
    BY <1>1, <2>1, <2>2 DEF OutboxTypes, Sidecar, Alive, Absent
  <2> QED
    BY <2>1, <2>3, QueueStutters
<1>4. CASE LuaWrites
  BY <1>1, <1>4, LuaWritesQueues, IpcConstants
<1>5. CASE \/ BootPrimes \/ GameEnds \/ ReadInbox
           \/ \E ok \in BOOLEAN : BootEmpties(ok) \/ MapLoaded(ok)
           \/ \E t \in Session : AppendToInbox(t)
  <2>1. outbox' = outbox /\ proc' = proc
    BY <1>5 DEF BootPrimes, GameEnds, ReadInbox, BootEmpties, MapLoaded, AppendToInbox
  <2> QED
    BY <2>1, QueueStutters DEF Alive
<1> QED
  BY <1>1, <1>2, <1>3, <1>4, <1>5, SidecarStepQueues DEF Next

\* The file, the offset and the watcher implement LineQueue, for each sidecar.
THEOREM OutboxQueue == Spec => OutboxIsQueue
<1>1. Init => \A s \in Session : Q(s)!Init
  <2>. SUFFICES ASSUME Init, NEW s \in Session PROVE Q(s)!Init
    OBVIOUS
  <2>1. outbox = <<>> /\ proc[s] = Absent /\ Len(<<>>) = 0
    BY EmptySeq DEF Init
  <2>2. Waiting(s) = <<>>
    BY <2>1, PositionsEmpty DEF Waiting, Absent
  <2> QED
    BY <2>1, <2>2 DEF Q!Init, Absent, Alive
<1>2. IpcTypeOK /\ OwnInv /\ [Next]_ipcVars
        => [\A s \in Session : [Q(s)!Next]_(Q(s)!queueVars)]_ipcVars
  BY QueueStep
<1> QED
  BY <1>1, <1>2, IpcTypesInit, IpcTypesStep, OwnInit, OwnStep, PTL DEF Spec, OutboxIsQueue

----------------------------------------------------------------------------
(* The inbox *)

\* Lines are numbered as they are written, and what Lua has heard was written
\* before what it has not; after a truncation that worked, all in this session.
InboxOrder ==
  /\ \A i \in 1..Len(inbox) : inbox[i].n <= told
  /\ \A i, j \in 1..Len(inbox) : i < j => inbox[i].n < inbox[j].n

HeardOrder ==
  /\ \A i \in 1..Len(heard) : heard[i].n <= told
  /\ ~refused =>
       /\ \A i \in 1..Len(inbox) : inbox[i].in = session
       /\ \A i \in 1..Len(heard), j \in inboxOffset + 1..Len(inbox) : heard[i].n < inbox[j].n

InboxInv == InboxOrder /\ HeardOrder /\ HeardInOrder

LEMMA InboxInit == Init => InboxInv
<1>. SUFFICES ASSUME Init PROVE InboxInv
  OBVIOUS
<1>1. inbox = <<>> /\ heard = <<>> /\ Len(<<>>) = 0
  BY EmptySeq DEF Init
<1> QED
  BY <1>1 DEF InboxInv, InboxOrder, HeardOrder, HeardInOrder

\* Steps that empty the inbox, or fail to.
LEMMA TruncateInboxOrder ==
  ASSUME LuaTypes, InboxInv, NEW ok \in BOOLEAN, BootEmpties(ok) \/ MapLoaded(ok)
  PROVE  InboxInv'
<1>1. /\ told' = told /\ (inbox' = inbox \/ inbox' = <<>>)
      /\ ~refused' => inbox' = <<>> /\ (heard' = <<>> \/ (heard' = heard /\ ~refused /\ session' = session))
      /\ heard' = <<>> \/ heard' = heard
  BY DEF BootEmpties, MapLoaded, TruncateInbox
<1>2. Len(<<>>) = 0
  BY EmptySeq
<1>3. InboxOrder'
  BY <1>1, <1>2 DEF InboxInv, InboxOrder
<1>4. HeardOrder'
  <2>1. \A i \in 1..Len(heard') : heard'[i].n <= told'
    BY <1>1, <1>2 DEF InboxInv, HeardOrder
  <2>2. ~refused' => 1..Len(inbox') = {} /\ inboxOffset' + 1..Len(inbox') = {}
    BY <1>1, <1>2 DEF BootEmpties, MapLoaded, TruncateInbox
  <2> QED
    BY <2>1, <2>2 DEF HeardOrder
<1>5. HeardInOrder'
  BY <1>1, <1>2 DEF InboxInv, HeardInOrder
<1> QED
  BY <1>3, <1>4, <1>5 DEF InboxInv

LEMMA AppendToInboxOrder ==
  ASSUME LuaTypes, InboxInv, NEW s \in Session, AppendToInbox(s)
  PROVE  InboxInv'
<1>. DEFINE line == [n |-> told + 1, in |-> session]
<1>1. /\ inbox' = Append(inbox, line) /\ told' = told + 1 /\ UNCHANGED <<session, inboxOffset, heard, refused>>
      /\ told \in Nat /\ line \in ToldLine /\ line.n = told + 1 /\ line.in = session
  BY DEF AppendToInbox, LuaTypes, ToldLine
<1>. HIDE DEF line
<1>2. /\ Len(inbox) \in Nat /\ Len(inbox') = Len(inbox) + 1 /\ inbox'[Len(inbox) + 1] = line
      /\ \A i \in 1..Len(inbox) : inbox'[i] = inbox[i] /\ inbox[i].n \in Nat
  <2>1. \A i \in 1..Len(inbox) : inbox[i] \in ToldLine
    BY ElementOfSeq DEF LuaTypes
  <2> QED
    BY <1>1, <2>1, AppendProperties DEF LuaTypes, ToldLine
<1>3. \A i \in 1..Len(heard) : heard[i].n \in Nat
  <2>1. \A i \in 1..Len(heard) : heard[i] \in ToldLine
    BY ElementOfSeq DEF LuaTypes
  <2> QED
    BY <2>1 DEF ToldLine
<1>4. InboxOrder'
  <2>1. \A i \in 1..Len(inbox) : inbox[i].n <= told
    BY DEF InboxInv, InboxOrder
  <2>2. \A i \in 1..Len(inbox') : inbox'[i].n <= told'
    BY <1>1, <1>2, <2>1
  <2>3. ASSUME NEW i \in 1..Len(inbox'), NEW j \in 1..Len(inbox'), i < j
        PROVE  inbox'[i].n < inbox'[j].n
    <3>1. CASE j <= Len(inbox)
      BY <1>2, <2>3, <3>1 DEF InboxInv, InboxOrder
    <3>2. CASE j = Len(inbox) + 1
      BY <1>1, <1>2, <2>1, <2>3, <3>2
    <3> QED
      BY <1>2, <3>1, <3>2
  <2> QED
    BY <2>2, <2>3 DEF InboxOrder
<1>5. HeardOrder'
  <2>1. \A i \in 1..Len(heard) : heard[i].n <= told
    BY DEF InboxInv, HeardOrder
  <2>2. \A i \in 1..Len(heard') : heard'[i].n <= told'
    BY <1>1, <1>3, <2>1
  <2>3. ASSUME ~refused', NEW i \in 1..Len(inbox') PROVE inbox'[i].in = session'
    BY <1>1, <1>2, <2>3 DEF InboxInv, HeardOrder
  <2>4. ASSUME ~refused', NEW i \in 1..Len(heard'), NEW j \in inboxOffset' + 1..Len(inbox')
        PROVE  heard'[i].n < inbox'[j].n
    <3>1. CASE j <= Len(inbox)
      <4>1. j \in 1..Len(inbox) /\ j \in inboxOffset + 1..Len(inbox) /\ i \in 1..Len(heard)
        BY <1>1, <1>2, <2>4, <3>1 DEF LuaTypes
      <4>2. heard[i].n < inbox[j].n
        BY <1>1, <2>4, <4>1 DEF InboxInv, HeardOrder
      <4> QED
        BY <1>1, <1>2, <4>1, <4>2
    <3>2. CASE j = Len(inbox) + 1
      BY <1>1, <1>2, <1>3, <2>1, <3>2
    <3> QED
      BY <1>1, <1>2, <3>1, <3>2 DEF LuaTypes
  <2> QED
    BY <2>2, <2>3, <2>4 DEF HeardOrder
<1>6. HeardInOrder'
  BY <1>1 DEF InboxInv, HeardInOrder
<1> QED
  BY <1>4, <1>5, <1>6 DEF InboxInv

LEMMA ReadInboxOrder ==
  ASSUME LuaTypes, InboxInv, ReadInbox
  PROVE  InboxInv'
<1>. DEFINE new == SubSeq(inbox, inboxOffset + 1, Len(inbox))
<1>1. /\ heard' = heard \o new /\ inboxOffset' = Len(inbox) /\ inboxOffset < Len(inbox)
      /\ UNCHANGED <<session, inbox, told, refused>>
      /\ inboxOffset \in Nat /\ Len(inbox) \in Nat /\ Len(heard) \in Nat
  BY DEF ReadInbox, LuaTypes
<1>2. /\ new \in Seq(ToldLine) /\ Len(new) = Len(inbox) - inboxOffset
      /\ \A i \in 1..Len(inbox) - inboxOffset : new[i] = inbox[inboxOffset + i]
  <2>1. \A i \in inboxOffset + 1..Len(inbox) : inbox[i] \in ToldLine
    BY <1>1, ElementOfSeq DEF LuaTypes
  <2> QED
    BY <1>1, <2>1, SubSeqProperties
<1>. HIDE DEF new
<1>3. /\ Len(heard') = Len(heard) + (Len(inbox) - inboxOffset)
      /\ \A i \in 1..Len(heard) + Len(new) :
           heard'[i] = IF i <= Len(heard) THEN heard[i] ELSE new[i - Len(heard)]
  <2>1. /\ Len(heard') = Len(heard) + Len(new)
        /\ \A i \in 1..Len(heard) + Len(new) :
             heard'[i] = IF i <= Len(heard) THEN heard[i] ELSE new[i - Len(heard)]
    BY <1>1, <1>2, ConcatProperties, Zenon DEF LuaTypes
  <2> QED
    BY <1>2, <2>1
\* Each line heard was heard before, or is one of those that waited.
<1>4. ASSUME NEW i \in 1..Len(heard')
      PROVE  \/ i \in 1..Len(heard) /\ heard'[i] = heard[i]
             \/ /\ i > Len(heard) /\ inboxOffset + (i - Len(heard)) \in inboxOffset + 1..Len(inbox)
                /\ heard'[i] = inbox[inboxOffset + (i - Len(heard))]
  <2>1. CASE i <= Len(heard)
    BY <1>1, <1>2, <1>3, <2>1
  <2>2. CASE i > Len(heard)
    <3>1. i - Len(heard) \in 1..Len(inbox) - inboxOffset
      BY <1>1, <1>3, <2>2
    <3>2. heard'[i] = new[i - Len(heard)]
      BY <1>1, <1>2, <1>3, <2>2
    <3> QED
      BY <1>1, <1>2, <2>2, <3>1, <3>2
  <2> QED
    BY <1>1, <1>3, <2>1, <2>2
<1>5. \A i \in 1..Len(heard') :
        \/ i \in 1..Len(heard) /\ heard'[i] = heard[i]
        \/ \E j \in 1..Len(inbox) : heard'[i] = inbox[j]
  <2>1. \A n \in inboxOffset + 1..Len(inbox) : n \in 1..Len(inbox)
    BY <1>1
  <2> QED
    BY <1>4, <2>1
<1>6. InboxOrder'
  BY <1>1 DEF InboxInv, InboxOrder
<1>7. HeardOrder'
  <2>1. inboxOffset' + 1..Len(inbox') = {}
    BY <1>1
  <2>2. \A i \in 1..Len(heard') : heard'[i].n <= told'
    <3>. TAKE i \in 1..Len(heard')
    <3>1. CASE i \in 1..Len(heard) /\ heard'[i] = heard[i]
      BY <1>1, <3>1 DEF InboxInv, HeardOrder
    <3>2. CASE \E j \in 1..Len(inbox) : heard'[i] = inbox[j]
      BY <1>1, <3>2 DEF InboxInv, InboxOrder
    <3> QED
      BY <1>5, <3>1, <3>2
  <2> QED
    BY <1>1, <2>1, <2>2 DEF InboxInv, HeardOrder
<1>8. HeardInOrder'
  <2>. SUFFICES ASSUME ~refused'
                PROVE  /\ \A i \in 1..Len(heard') : heard'[i].in = session'
                       /\ \A i, j \in 1..Len(heard') : i < j => heard'[i].n < heard'[j].n
    BY DEF HeardInOrder
  <2>1. \A i \in 1..Len(heard') : heard'[i].in = session'
    <3>. TAKE i \in 1..Len(heard')
    <3>1. CASE i \in 1..Len(heard) /\ heard'[i] = heard[i]
      BY <1>1, <3>1 DEF InboxInv, HeardInOrder
    <3>2. CASE \E j \in 1..Len(inbox) : heard'[i] = inbox[j]
      BY <1>1, <3>2 DEF InboxInv, HeardOrder
    <3> QED
      BY <1>5, <3>1, <3>2
  <2>2. ASSUME NEW i \in 1..Len(heard'), NEW j \in 1..Len(heard'), i < j
        PROVE  heard'[i].n < heard'[j].n
    <3>1. CASE j \in 1..Len(heard) /\ heard'[j] = heard[j]
      <4>1. i \in 1..Len(heard) /\ heard'[i] = heard[i]
        BY <1>1, <1>4, <2>2, <3>1
      <4> QED
        BY <1>1, <2>2, <3>1, <4>1 DEF InboxInv, HeardInOrder
    <3>2. CASE /\ j > Len(heard) /\ inboxOffset + (j - Len(heard)) \in inboxOffset + 1..Len(inbox)
               /\ heard'[j] = inbox[inboxOffset + (j - Len(heard))]
      <4>1. CASE i \in 1..Len(heard) /\ heard'[i] = heard[i]
        BY <1>1, <3>2, <4>1 DEF InboxInv, HeardOrder
      <4>2. CASE /\ i > Len(heard) /\ inboxOffset + (i - Len(heard)) \in inboxOffset + 1..Len(inbox)
                 /\ heard'[i] = inbox[inboxOffset + (i - Len(heard))]
        BY <1>1, <2>2, <3>2, <4>2, SMTT(30) DEF InboxInv, InboxOrder
      <4> QED
        BY <1>4, <4>1, <4>2
    <3> QED
      BY <1>4, <3>1, <3>2
  <2> QED
    BY <2>1, <2>2
<1> QED
  BY <1>6, <1>7, <1>8 DEF InboxInv

LEMMA InboxStep == IpcTypeOK /\ InboxInv /\ [Next]_ipcVars => InboxInv'
<1>. SUFFICES ASSUME LuaTypes, InboxInv, [Next]_ipcVars PROVE InboxInv'
  BY TypesSplit
<1>1. CASE \/ BootPrimes \/ BootSweeps \/ LuaWrites \/ UNCHANGED ipcVars
           \/ \E found \in BOOLEAN : BootLaunches(found)
           \/ \E s \in Session :
                \/ ProcessStarts(s) \/ WatchBegins(s) \/ OutboxChanged(s) \/ StatOutbox(s)
                \/ ReadOutbox(s) \/ SidecarEnds(s)
  <2>1. UNCHANGED <<session, inbox, inboxOffset, heard, told, refused>>
    BY <1>1 DEF BootPrimes, BootSweeps, LuaWrites, BootLaunches, ProcessStarts,
                WatchBegins, OutboxChanged, StatOutbox, ReadOutbox, SidecarEnds, Becomes
  <2> QED
    BY <2>1 DEF InboxInv, InboxOrder, HeardOrder, HeardInOrder
<1>2. CASE GameEnds
  <2>1. heard' = <<>> /\ UNCHANGED <<session, inbox, told, refused>>
    BY <1>2 DEF GameEnds
  <2>2. 1..Len(heard') = {}
    BY <2>1, EmptySeq
  <2> QED
    BY <2>1, <2>2 DEF InboxInv, InboxOrder, HeardOrder, HeardInOrder
<1> QED
  BY <1>1, <1>2, TruncateInboxOrder, AppendToInboxOrder, ReadInboxOrder DEF Next

\* What Lua hears is of its session, once and in order.
THEOREM HearsInOrder == Spec => []HeardInOrder
<1>1. InboxInv => HeardInOrder
  BY DEF InboxInv
<1> QED
  BY <1>1, IpcTypesInit, IpcTypesStep, InboxInit, InboxStep, PTL DEF Spec

----------------------------------------------------------------------------
(* With a clock and a watchdog *)

IpcInv == IpcTypeOK /\ OwnInv /\ InboxInv

LEMMA HeartbeatStep == HNext => [Next]_ipcVars
<1>. SUFFICES ASSUME HNext PROVE [Next]_ipcVars
  OBVIOUS
<1>1. CASE Tick \/ Stalls \/ Resumes \/ Suspended \/ LuaBeats
  BY <1>1 DEF Tick, Stalls, Resumes, Suspended, LuaBeats
<1>2. CASE \E s \in Session : CheckHeartbeat(s)
  BY <1>2 DEF CheckHeartbeat, Next
<1>3. CASE \E s \in Session : Started(s) \/ WatchStep(s) \/ TellStep(s) \/ Killed(s)
  BY <1>3 DEF Started, WatchStep, TellStep, Killed, Next
<1>4. CASE \/ Primed \/ Swept \/ Launched \/ Ended \/ LuaStep
           \/ \E ok \in BOOLEAN : Emptied(ok) \/ Mapped(ok)
  BY <1>4 DEF Primed, Swept, Launched, Ended, LuaStep, Emptied, Mapped, Next
<1> QED
  BY <1>1, <1>2, <1>3, <1>4 DEF HNext

\* The clock and the watchdog only choose among the steps of the files.
THEOREM Implements == HSpec => Spec
<1>1. [HNext]_vars => [Next]_ipcVars
  BY HeartbeatStep DEF vars
<1>2. HInit => Init
  BY DEF HInit
<1> QED
  BY <1>1, <1>2, PTL DEF HSpec, Spec

LEMMA IpcInvInit == HInit => IpcInv
BY IpcTypesInit, OwnInit, InboxInit DEF HInit, IpcInv

LEMMA IpcInvStep == IpcInv /\ [HNext]_vars => IpcInv'
<1>1. [HNext]_vars => [Next]_ipcVars
  BY HeartbeatStep DEF vars
<1> QED
  BY <1>1, IpcTypesStep, OwnStep, InboxStep DEF IpcInv

TimeTypes ==
  /\ beat \in Nat \cup {Missing} /\ up \in Nat /\ alone \in Nat
  /\ done \subseteq {"lua", "sidecar"}

\* The age of the file, or the uptime where there is none, keeps up with the
\* time that the sidecar has been alone, and a look at it stops the count.
Aged ==
  /\ alone > 0 => game = "off" /\ SidecarUp
  /\ beat = Missing =>
       alone <= up /\ up <= Grace + 1 /\ (SidecarUp /\ "sidecar" \in done => up <= Grace)
  /\ beat # Missing =>
       alone <= beat /\ beat <= Timeout + 1 /\ (SidecarUp /\ "sidecar" \in done => alone <= Timeout)

AgedInv == TimeTypes /\ Aged

LEMMA AgedInit == HInit => AgedInv
<1>1. HInit => ~SidecarUp
  BY DEF HInit, Init, SidecarUp, Alive, Absent
<1> QED
  BY <1>1, HeartbeatConstants DEF HInit, AgedInv, TimeTypes, Aged

\* Steps that take no time.
LEMMA SameAge ==
  ASSUME AgedInv, UNCHANGED <<beat, up>>, done' \subseteq done \cup {"lua"},
         alone' = 0 \/ (alone' = alone /\ (alone > 0 => game' = game /\ (SidecarUp => SidecarUp'))),
         SidecarUp' => SidecarUp
  PROVE  AgedInv'
<1>1. TimeTypes' /\ alone' <= alone
  BY HeartbeatConstants DEF AgedInv, TimeTypes
<1>2. alone' > 0 => game' = "off" /\ SidecarUp'
  BY <1>1 DEF AgedInv, Aged, TimeTypes
<1>3. SidecarUp' /\ "sidecar" \in done' => SidecarUp /\ "sidecar" \in done
  OBVIOUS
<1>4. beat' = Missing =>
        alone' <= up' /\ up' <= Grace + 1 /\ (SidecarUp' /\ "sidecar" \in done' => up' <= Grace)
  BY <1>1, <1>3, HeartbeatConstants DEF AgedInv, Aged, TimeTypes
<1>5. beat' # Missing =>
        /\ alone' <= beat' /\ beat' <= Timeout + 1
        /\ SidecarUp' /\ "sidecar" \in done' => alone' <= Timeout
  BY <1>1, <1>3, HeartbeatConstants DEF AgedInv, Aged, TimeTypes
<1> QED
  BY <1>1, <1>2, <1>4, <1>5 DEF AgedInv, Aged

\* A beat, while the game is there.
LEMMA BeatAged ==
  ASSUME AgedInv, game # "off", UNCHANGED <<up, alone>>, done' \subseteq {"lua", "sidecar"},
         beat' = 0 \/ (beat' = beat /\ ("sidecar" \in done' => "sidecar" \in done)),
         SidecarUp' => SidecarUp
  PROVE  AgedInv'
<1>1. alone = 0 /\ alone' = 0
  BY DEF AgedInv, Aged, TimeTypes
<1>2. TimeTypes'
  BY DEF AgedInv, TimeTypes
<1>3. CASE beat' = 0
  BY <1>1, <1>2, <1>3, HeartbeatConstants DEF AgedInv, Aged
<1>4. CASE beat' = beat /\ ("sidecar" \in done' => "sidecar" \in done)
  BY <1>1, <1>2, <1>4, HeartbeatConstants DEF AgedInv, Aged
<1> QED
  BY <1>3, <1>4

LEMMA TickAged ==
  ASSUME AgedInv, Tick
  PROVE  AgedInv'
<1>1. SidecarUp' <=> SidecarUp
  BY DEF Tick, SidecarUp, Alive
<1>2. /\ done' = {} /\ game' = game /\ (SidecarUp => "sidecar" \in done)
      /\ beat' = (IF beat = Missing THEN Missing ELSE OneMore(beat, Timeout))
      /\ up' = (IF beat = Missing /\ SidecarUp THEN OneMore(up, Grace) ELSE up)
      /\ alone' = (IF game = "off" /\ SidecarUp THEN OneMore(alone, Timeout + Grace) ELSE 0)
  BY DEF Tick
<1>3. Timeout \in Nat /\ Grace \in Nat /\ Missing \notin Nat
      /\ beat \in Nat \cup {Missing} /\ up \in Nat /\ alone \in Nat
  BY HeartbeatConstants DEF AgedInv, TimeTypes
<1>4. \/ alone' = 0
      \/ SidecarUp /\ game = "off" /\ (alone' = alone \/ alone' = alone + 1)
  BY <1>2 DEF OneMore
<1>5. CASE beat = Missing
  <2>1. beat' = Missing /\ up <= Grace + 1 /\ (SidecarUp => up <= Grace /\ alone <= up)
    BY <1>2, <1>5 DEF AgedInv, Aged
  <2>2. up' = IF SidecarUp THEN up + 1 ELSE up
    BY <1>2, <1>3, <1>5, <2>1 DEF OneMore
  <2>3. /\ alone' \in Nat /\ up' \in Nat /\ alone' <= up' /\ up' <= Grace + 1
        /\ alone' > 0 => game' = "off" /\ SidecarUp'
    BY <1>1, <1>2, <1>3, <1>4, <2>1, <2>2
  <2> QED
    BY <1>2, <2>1, <2>3 DEF AgedInv, Aged, TimeTypes
<1>6. CASE beat # Missing
  <2>1. beat \in Nat /\ beat <= Timeout + 1 /\ alone <= beat /\ (SidecarUp => alone <= Timeout)
    BY <1>2, <1>3, <1>6 DEF AgedInv, Aged
  <2>2. beat' = IF beat <= Timeout THEN beat + 1 ELSE beat
    BY <1>2, <1>6 DEF OneMore
  <2>3. /\ alone' \in Nat /\ beat' \in Nat /\ alone' <= beat' /\ beat' <= Timeout + 1 /\ up' = up
        /\ alone' > 0 => game' = "off" /\ SidecarUp'
    BY <1>1, <1>2, <1>3, <1>4, <1>6, <2>1, <2>2
  <2> QED
    BY <1>2, <1>3, <2>3 DEF AgedInv, Aged, TimeTypes
<1> QED
  BY <1>5, <1>6

\* Only the last sidecar may have outlived the game, and one that starts is the
\* only one there is.
LEMMA StartedAged ==
  ASSUME AgedInv, OwnInv, NEW s \in Session, Started(s)
  PROVE  AgedInv'
<1>1. ~SidecarUp
  BY DEF Started, ProcessStarts, OwnInv, OneByOne, SidecarUp, Alive, Idle
<1>2. alone = 0 /\ alone' = 0 /\ up' = 0 /\ beat' = beat /\ done' = done \cup {"sidecar"}
  BY <1>1 DEF Started, AgedInv, Aged, TimeTypes
<1> QED
  BY <1>2, HeartbeatConstants DEF AgedInv, Aged, TimeTypes

LEMMA CheckHeartbeatAged ==
  ASSUME AgedInv, OutboxTypes, NEW s \in Session, CheckHeartbeat(s)
  PROVE  AgedInv'
<1>1. UNCHANGED <<beat, up>>
  BY DEF CheckHeartbeat
<1>2. CASE MayStay /\ done' = done \cup {"sidecar"} /\ UNCHANGED <<ipcVars, alone>>
  <2>1. SidecarUp' <=> SidecarUp
    BY <1>2 DEF SidecarUp, Alive
  <2> QED
    BY <1>1, <1>2, <2>1, HeartbeatConstants DEF AgedInv, Aged, TimeTypes, MayStay
<1>3. CASE SidecarEnds(s) /\ alone' = 0 /\ UNCHANGED done
  <2>1. SidecarUp' => SidecarUp
    BY <1>3 DEF SidecarEnds, SidecarUp
  <2> QED
    BY <1>1, <1>3, <2>1, SameAge
<1> QED
  BY <1>2, <1>3 DEF CheckHeartbeat

\* The steps of the files leave the sidecar there, except those that end it.
LEMMA StillUp ==
  ASSUME IpcInv, NEW s \in Session,
         \/ WatchBegins(s) \/ OutboxChanged(s) \/ StatOutbox(s) \/ ReadOutbox(s)
  PROVE  SidecarUp /\ SidecarUp' /\ game' = game
<1>1. proc[s] \in Sidecar /\ proc \in [Session -> Sidecar]
  BY TypesSplit DEF IpcInv, OutboxTypes
<1>2. Alive(s) /\ Alive(s)'
  <2>1. CASE WatchBegins(s)
    BY <1>1, <2>1 DEF WatchBegins, Becomes, Sidecar, Alive
  <2>2. CASE OutboxChanged(s)
    BY <1>1, <2>2 DEF OutboxChanged, Becomes, Sidecar, Alive
  <2>3. CASE StatOutbox(s)
    BY <1>1, <2>3 DEF StatOutbox, Becomes, Sidecar, Alive
  <2>4. CASE ReadOutbox(s)
    BY <1>1, <2>4 DEF ReadOutbox, Becomes, Sidecar, Alive
  <2> QED
    BY <2>1, <2>2, <2>3, <2>4
<1> QED
  BY <1>2 DEF SidecarUp, WatchBegins, OutboxChanged, StatOutbox, ReadOutbox, Becomes

LEMMA LaunchedUp ==
  ASSUME IpcInv, NEW found \in BOOLEAN, BootLaunches(found)
  PROVE  (SidecarUp' <=> SidecarUp) /\ game = "swept" /\ game' = "running"
<1>1. session \in Session /\ proc \in [Session -> Sidecar] /\ proc[session] = Absent
  BY TypesSplit DEF BootLaunches, IpcInv, LuaTypes, OutboxTypes, OwnInv, OneByOne
<1>2. PICK at \in {"launching", "gone"} :
        proc' = [proc EXCEPT ![session] = [proc[session] EXCEPT !.at = at]]
  BY DEF BootLaunches
<1>3. ~Alive(session) /\ ~Alive(session)'
      /\ \A s \in Session \ {session} : proc'[s] = proc[s]
  <2>1. proc'[session].at = at
    BY <1>1, <1>2 DEF Sidecar
  <2> QED
    BY <1>1, <1>2, <2>1 DEF Alive, Absent, BootLaunches
<1>4. \A s \in Session : Alive(s)' <=> Alive(s)
  BY <1>3 DEF Alive, BootLaunches
<1> QED
  BY <1>4 DEF SidecarUp, BootLaunches

LEMMA SweptUp ==
  ASSUME IpcInv, BootSweeps
  PROVE  ~SidecarUp' /\ game = "primed" /\ game' = "swept"
<1>1. \A s \in Session : proc[s] \in Sidecar
  BY TypesSplit DEF IpcInv, OutboxTypes
<1>2. \A s \in Session : ~Alive(s)'
  <2>. TAKE s \in Session
  <2>1. proc'[s] = IF Alive(s) THEN Over(proc[s]) ELSE proc[s]
    BY DEF BootSweeps
  <2> QED
    BY <1>1, <2>1, OverRecord, TypesSplit DEF Alive, IpcInv
<1> QED
  BY <1>2 DEF SidecarUp, BootSweeps

LEMMA AgedStep == IpcInv /\ AgedInv /\ [HNext]_vars => AgedInv'
<1>. SUFFICES ASSUME IpcInv, AgedInv, [HNext]_vars PROVE AgedInv'
  OBVIOUS
<1>. USE DEF timeVars
<1>1. alone \in Nat /\ (alone > 0 => game = "off" /\ SidecarUp) /\ done \subseteq {"lua", "sidecar"}
      /\ OutboxTypes /\ OwnInv
  BY TypesSplit DEF AgedInv, Aged, TimeTypes, IpcInv
<1>2. CASE \E ok \in BOOLEAN : Emptied(ok) \/ Mapped(ok)
  <2>1. SidecarUp' <=> SidecarUp
    BY <1>2 DEF Emptied, Mapped, BootEmpties, MapLoaded, SidecarUp, Alive
  <2>2. CASE \E ok \in BOOLEAN : Emptied(ok)
    BY <2>1, <2>2, SameAge DEF Emptied
  <2>3. CASE \E ok \in BOOLEAN : Mapped(ok)
    BY <1>1, <2>1, <2>3, SameAge DEF Mapped, MapLoaded
  <2> QED
    BY <1>2, <2>2, <2>3
<1>3. CASE Primed
  <2>1. SidecarUp' <=> SidecarUp
    BY <1>3 DEF Primed, BootPrimes, SidecarUp, Alive
  <2> QED
    BY <1>1, <1>3, <2>1, BeatAged DEF Primed, BootPrimes, WriteHeartbeat
<1>4. CASE Swept
  <2>1. ~SidecarUp' /\ game = "primed"
    BY <1>4, SweptUp DEF Swept
  <2> QED
    BY <1>1, <1>4, <2>1, SameAge DEF Swept
<1>5. CASE Launched
  <2>1. (SidecarUp' <=> SidecarUp) /\ game = "swept"
    BY <1>5, LaunchedUp DEF Launched
  <2> QED
    BY <1>1, <1>5, <2>1, SameAge DEF Launched
<1>6. CASE Ended
  <2>1. (SidecarUp' <=> SidecarUp) /\ alone = 0
    BY <1>1, <1>6 DEF Ended, GameEnds, SidecarUp, Alive
  <2> QED
    BY <1>6, <2>1, SameAge DEF Ended
<1>7. CASE LuaBeats
  <2>1. SidecarUp' <=> SidecarUp
    BY <1>7 DEF LuaBeats, SidecarUp, Alive
  <2> QED
    BY <1>1, <1>7, <2>1, BeatAged DEF LuaBeats, WriteHeartbeat
<1>8. CASE LuaStep
  <2>1. (SidecarUp' <=> SidecarUp) /\ game' = game
    BY <1>8 DEF LuaStep, LuaWrites, ReadInbox, SidecarUp, Alive
  <2> QED
    BY <1>1, <1>8, <2>1, SameAge DEF LuaStep, Untimed
<1>9. CASE \E s \in Session : Started(s)
  BY <1>1, <1>9, StartedAged
<1>10. CASE \E s \in Session : WatchStep(s)
  <2>1. SidecarUp /\ SidecarUp' /\ game' = game
    BY <1>10, StillUp DEF WatchStep
  <2> QED
    BY <1>10, <2>1, SameAge DEF WatchStep, Untimed
<1>11. CASE \E s \in Session : TellStep(s)
  <2>1. (SidecarUp' <=> SidecarUp) /\ game' = game
    BY <1>11 DEF TellStep, AppendToInbox, SidecarUp, Alive
  <2> QED
    BY <1>11, <2>1, SameAge DEF TellStep, Untimed
<1>12. CASE \E s \in Session : CheckHeartbeat(s)
  BY <1>1, <1>12, CheckHeartbeatAged
<1>13. CASE \E s \in Session : Killed(s)
  <2>1. SidecarUp
    BY <1>13 DEF Killed, SidecarEnds, SidecarUp
  <2> QED
    BY <1>13, <2>1, SameAge DEF Killed
<1>14. CASE Tick
  BY <1>14, TickAged
<1>15. CASE Stalls \/ Resumes
  <2>1. (SidecarUp' <=> SidecarUp) /\ game' = game
    BY <1>15 DEF Stalls, Resumes, SidecarUp, Alive
  <2> QED
    BY <1>15, <2>1, SameAge DEF Stalls, Resumes
<1>16. CASE Suspended
  <2>1. SidecarUp' <=> SidecarUp
    BY <1>16 DEF Suspended, SidecarUp, Alive
  <2>2. /\ beat # Missing /\ beat' = Timeout + 1 /\ beat' # Missing /\ Timeout + 1 \in Nat
        /\ UNCHANGED <<up, done, alone, game>>
    BY <1>16, HeartbeatConstants DEF Suspended
  <2>3. alone <= Timeout + 1 /\ (SidecarUp /\ "sidecar" \in done => alone <= Timeout)
    BY <1>1, <2>2, HeartbeatConstants DEF AgedInv, Aged, TimeTypes
  <2> QED
    BY <2>1, <2>2, <2>3 DEF AgedInv, Aged, TimeTypes
<1>17. CASE UNCHANGED vars
  <2>1. (SidecarUp' <=> SidecarUp) /\ UNCHANGED <<game, beat, up, done, alone>>
    BY <1>17 DEF vars, SidecarUp, Alive
  <2> QED
    BY <2>1, SameAge
<1> QED
  BY <1>2, <1>3, <1>4, <1>5, <1>6, <1>7, <1>8, <1>9, <1>10, <1>11, <1>12, <1>13, <1>14,
     <1>15, <1>16, <1>17 DEF HNext

\* The sidecar never outlives the game by more than the time-out and a unit.
THEOREM Lingers == HSpec => []LingersBriefly
<1>1. AgedInv => LingersBriefly
  <2>. SUFFICES ASSUME AgedInv PROVE LingersBriefly
    OBVIOUS
  <2>1. CASE beat = Missing
    BY <2>1, HeartbeatConstants DEF AgedInv, Aged, TimeTypes, LingersBriefly
  <2>2. CASE beat # Missing
    BY <2>2, HeartbeatConstants DEF AgedInv, Aged, TimeTypes, LingersBriefly
  <2> QED
    BY <2>1, <2>2
<1> QED
  BY <1>1, IpcInvInit, IpcInvStep, AgedInit, AgedStep, PTL DEF HSpec

\* What holds of the files holds of them under the clock and the watchdog.
THEOREM FilesUnderWatchdog ==
  HSpec => [](IpcTypeOK /\ OwnLinesOnly /\ HeardInOrder) /\ OutboxIsQueue
BY Implements, IpcTypes, OwnLines, HearsInOrder, OutboxQueue, PTL

----------------------------------------------------------------------------
(* While the game runs *)

\* The file is fresh from before the sidecar is launched, and Lua writes it in
\* each unit in which it runs.
Beating ==
  /\ stalled => hurt /\ game = "running"
  /\ game \in {"primed", "swept"} /\ ~hurt => beat = 0
  /\ game = "running" /\ ~hurt => /\ beat \in {0, 1} /\ ("lua" \in done => beat = 0)
                                 /\ proc[session].at # "gone"

LEMMA BeatingInit == HInit => Beating
BY DEF HInit, Init, Beating

LEMMA BeatingStep == IpcInv /\ Beating /\ [HNext]_vars => Beating'
<1>. SUFFICES ASSUME IpcInv, Beating, [HNext]_vars PROVE Beating'
  OBVIOUS
<1>. USE DEF timeVars
<1>1. /\ game # "off" => session \in Session
      /\ proc \in [Session -> Sidecar]
  BY TypesSplit DEF IpcInv, LuaTypes, OutboxTypes
<1>2. CASE \E ok \in BOOLEAN : Emptied(ok)
  BY <1>2 DEF Emptied, BootEmpties, Beating
<1>3. CASE \E ok \in BOOLEAN : Mapped(ok)
  BY <1>3 DEF Mapped, MapLoaded, Either, NoTrouble, Trouble, Beating
<1>4. CASE Primed
  BY <1>4 DEF Primed, BootPrimes, WriteHeartbeat, Either, NoTrouble, Trouble, Beating
<1>5. CASE Swept
  BY <1>5 DEF Swept, BootSweeps, NoTrouble, Beating
<1>6. CASE Launched
  <2>1. PICK ok \in BOOLEAN : BootLaunches(ok) /\ Either(ok) /\ UNCHANGED <<beat, stalled>>
    BY <1>6 DEF Launched
  <2>2. game = "swept" /\ game' = "running" /\ session' = session
    BY <2>1 DEF BootLaunches
  <2>3. CASE ok
    <3>1. proc' = [proc EXCEPT ![session] = [proc[session] EXCEPT !.at = "launching"]]
      BY <2>1, <2>3 DEF BootLaunches
    <3>2. proc'[session'].at = "launching"
      BY <1>1, <2>2, <3>1 DEF Sidecar
    <3> QED
      BY <2>1, <2>2, <2>3, <3>2 DEF Either, NoTrouble, Beating
  <2>4. CASE ~ok
    BY <2>1, <2>2, <2>4 DEF Either, Trouble, Beating
  <2> QED
    BY <2>3, <2>4
<1>7. CASE Ended
  BY <1>7 DEF Ended, GameEnds, Beating
<1>8. CASE LuaBeats
  BY <1>8 DEF LuaBeats, WriteHeartbeat, Either, NoTrouble, Trouble, Beating
<1>9. CASE LuaStep \/ \E s \in Session : TellStep(s)
  <2>1. UNCHANGED <<game, session, proc, beat, up, done, stalled, alone, hurt>>
    BY <1>9 DEF LuaStep, TellStep, LuaWrites, ReadInbox, AppendToInbox, Untimed, NoTrouble
  <2> QED
    BY <2>1 DEF Beating
<1>10. CASE \E s \in Session : Started(s) \/ WatchStep(s)
  <2>1. PICK s \in Session : Started(s) \/ WatchStep(s)
    BY <1>10
  <2>2. /\ proc[s] \in Sidecar /\ proc'[s].at # "gone"
        /\ UNCHANGED <<game, session>> /\ \A t \in Session \ {s} : proc'[t] = proc[t]
    <3>1. CASE ProcessStarts(s)
      BY <1>1, <3>1 DEF ProcessStarts, Becomes, Sidecar
    <3>2. CASE WatchBegins(s)
      BY <1>1, <3>2 DEF WatchBegins, Becomes, Sidecar
    <3>3. CASE OutboxChanged(s)
      BY <1>1, <3>3 DEF OutboxChanged, Becomes, Sidecar
    <3>4. CASE StatOutbox(s)
      BY <1>1, <3>4 DEF StatOutbox, Becomes, Sidecar
    <3>5. CASE ReadOutbox(s)
      BY <1>1, <3>5 DEF ReadOutbox, Becomes, Sidecar
    <3> QED
      BY <2>1, <3>1, <3>2, <3>3, <3>4, <3>5 DEF Started, WatchStep
  <2>3. UNCHANGED <<beat, stalled, hurt>> /\ ("lua" \in done' => "lua" \in done)
    BY <2>1 DEF Started, WatchStep, Untimed, NoTrouble
  <2> QED
    BY <1>1, <2>2, <2>3 DEF Beating
<1>11. CASE \E s \in Session : CheckHeartbeat(s)
  <2>1. PICK s \in Session : CheckHeartbeat(s)
    BY <1>11
  <2>2. UNCHANGED <<beat, stalled, hurt>>
    BY <2>1 DEF CheckHeartbeat, NoTrouble
  <2>3. CASE MayStay /\ done' = done \cup {"sidecar"} /\ UNCHANGED <<ipcVars, alone>>
    BY <2>2, <2>3 DEF Beating
  <2>4. CASE MayExit /\ SidecarEnds(s) /\ done' = done
    <3>1. UNCHANGED <<game, session>>
      BY <2>4 DEF SidecarEnds, Becomes
    <3>2. ~(game = "running" /\ ~hurt)
      BY <2>4, HeartbeatConstants DEF Beating, MayExit
    <3> QED
      BY <2>2, <2>4, <3>1, <3>2 DEF Beating
  <2> QED
    BY <2>1, <2>3, <2>4 DEF CheckHeartbeat
<1>12. CASE \E s \in Session : Killed(s)
  BY <1>12 DEF Killed, SidecarEnds, Becomes, Trouble, Beating
<1>13. CASE Tick
  <2>1. /\ game \in {"off", "running"} /\ (game = "running" /\ ~stalled => "lua" \in done)
        /\ done' = {} /\ UNCHANGED <<game, session, proc, stalled, hurt>>
        /\ beat' = (IF beat = Missing THEN Missing ELSE OneMore(beat, Timeout))
    BY <1>13 DEF Tick, NoTrouble
  <2>2. game = "running" /\ ~hurt => beat = 0 /\ beat' = 1
    BY <2>1, HeartbeatConstants DEF Beating, OneMore
  <2> QED
    BY <2>1, <2>2 DEF Beating
<1>14. CASE Stalls \/ Suspended
  BY <1>14 DEF Stalls, Suspended, Trouble, Beating
<1>15. CASE Resumes
  BY <1>15 DEF Resumes, NoTrouble, Beating
<1>16. CASE UNCHANGED vars
  BY <1>16 DEF vars, Beating
<1> QED
  BY <1>2, <1>3, <1>4, <1>5, <1>6, <1>7, <1>8, <1>9, <1>10, <1>11, <1>12, <1>13, <1>14, <1>15, <1>16
     DEF HNext

\* Where nothing goes wrong, the watchdog does not end a sidecar of a game that runs.
THEOREM Company == HSpec => []KeepsCompany
<1>1. Beating => KeepsCompany
  BY DEF Beating, KeepsCompany
<1> QED
  BY <1>1, IpcInvInit, IpcInvStep, BeatingInit, BeatingStep, PTL DEF HSpec
=============================================================================
