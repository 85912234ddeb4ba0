--------------------------- MODULE MCEventDelivery --------------------------
(* EventDelivery with interchangeable workers and users.                    *)
EXTENDS EventDelivery, TLC

CONSTANTS alice, bob, w1, w2

MCWorkers == {w1, w2}

MCActors == {alice, bob}

Interchangeable == Permutations(MCWorkers) \cup Permutations(MCActors)

=============================================================================
