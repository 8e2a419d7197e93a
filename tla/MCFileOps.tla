----------------------------- MODULE MCFileOps -----------------------------
(* Two files, with enough requests for a queue of two on one of them. *)
EXTENDS FileOps, TLC

CONSTANTS f1, f2, r1, r2, r3, r4

MCFileOf == (r1 :> f1) @@ (r2 :> f1) @@ (r3 :> f1) @@ (r4 :> f2)
MCOpens == {{"R"}, {"W", "CREATE"}}
=============================================================================
