------------------------------ MODULE MCRelay ------------------------------
(* Small instance of Relay: one address, one socket more than its cap.     *)
EXTENDS Relay, TLC

CONSTANTS s1, s2, s3, ip, r1, r2, ann

MCIpOf == [s \in Socket |-> ip]

MCJoin(room, team, spectator, reveal, rev) ==
  [room |-> room, user |-> ann, team |-> team, spectator |-> spectator,
   reveal |-> reveal, rev |-> rev]

\* A player before gameplay, one of the other team who has seen it begin, a
\* spectator, a player in another room, and a code the relay refuses.
MCJoinMsg ==
  {MCJoin(r1, 0, FALSE, FALSE, 1), MCJoin(r1, 1, FALSE, TRUE, 1),
   MCJoin(r1, NoTeam, TRUE, FALSE, 1),
   MCJoin(r2, 0, FALSE, FALSE, 2), MCJoin(Malformed, 0, FALSE, FALSE, 2)}

MCSymmetry == Permutations(Socket)
=============================================================================
