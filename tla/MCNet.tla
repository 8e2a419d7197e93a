-------------------------------- MODULE MCNet --------------------------------
(* Handles that are used as a server or a UDP socket, and as a TCP stream. *)
EXTENDS Net, TLC

CONSTANTS h1, h2, h3, w1, w2

Mixed == (h1 :> {"server", "udp"}) @@ (h2 :> {"stream"})
OneStream == h1 :> {"stream"}
Three == (h1 :> {"server"}) @@ (h2 :> {"stream"}) @@ (h3 :> {"udp"})
OneOfEach == h1 :> {"server", "stream", "udp"}

Symmetry == Permutations(Reqs)
==============================================================================
