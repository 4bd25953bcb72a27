----------------------------- MODULE LineQueue -----------------------------
(***************************************************************************)
(* What outbox.jsonl promises one reader: a queue of lines that anybody    *)
(* may be writing before, while and after it is read.  The reader takes    *)
(* lines from the front, in order, each once; none is lost but those that  *)
(* wait when it starts.                                                    *)
(***************************************************************************)
EXTENDS Naturals, Sequences

CONSTANT Line

VARIABLES
  queue,    \* lines that wait
  got,      \* lines taken, in order
  reading   \* whether there is a reader

queueVars == <<queue, got, reading>>

Init == queue = <<>> /\ got = <<>> /\ ~reading

Put == \E line \in Line : queue' = Append(queue, line) /\ UNCHANGED <<got, reading>>

Start == ~reading /\ reading' = TRUE /\ queue' = <<>> /\ UNCHANGED got

Take ==
  /\ reading
  /\ \E n \in 1..Len(queue) :
       /\ got' = got \o SubSeq(queue, 1, n)
       /\ queue' = SubSeq(queue, n + 1, Len(queue))
  /\ UNCHANGED reading

Stop == reading /\ reading' = FALSE /\ UNCHANGED <<queue, got>>

Next == Put \/ Start \/ Take \/ Stop

Spec == Init /\ [][Next]_queueVars
=============================================================================
