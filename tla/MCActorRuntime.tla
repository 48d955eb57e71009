--------------------------- MODULE MCActorRuntime ---------------------------
(* Instances of ActorRuntime for TLC. *)
EXTENDS ActorRuntime, TLC

CONSTANTS t1, t2, a1, a2, s1, s2

OneActor == {a1}
TwoActors == {a1, a2}
NoCalls == {}
Upward == {<<a1, a2>>}
SelfCall == {<<a1, a1>>}
Symmetric == Permutations(Threads) \union Permutations(Slots)
=============================================================================
