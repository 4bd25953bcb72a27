-------------------------- MODULE MCPresenceChain --------------------------
(* Small instances of PresenceChain: one other player, two connections.    *)
EXTENDS PresenceChain, TLC

CONSTANTS me, anon, bob, m1, m2, p1

PeerJoins(team) ==
  [room |-> 1, user |-> bob, team |-> team, spectator |-> FALSE, reveal |-> FALSE, rev |-> 1]

\* The other player may change sides.
EitherSide == {PeerJoins(0), PeerJoins(1)}

Teammate == {PeerJoins(0)}

BothTeams == {[team |-> t, spectator |-> FALSE] : t \in {0, 1}}

\* AssignedTeam does not count for a spectator.
AnyRole == BothTeams \cup {[team |-> 0, spectator |-> TRUE]}

OneSide == {[team |-> 0, spectator |-> FALSE]}

MCSymmetry == Permutations(MySocket)

ToAll == {[audience |-> "all", target |-> NoTeam]}
=============================================================================
