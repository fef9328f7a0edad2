---------------------------- MODULE MCEngineCache ---------------------------
(* Two engines: one with two threads, so that it races itself, and one with *)
(* a single thread in the role of another process.                          *)
EXTENDS EngineCache, TLC

CONSTANTS a, b, a1, a2, b1

TwoEngines == {a, b}

ThreeThreads == {a1, a2, b1}

SharedEngine == (a1 :> a) @@ (a2 :> a) @@ (b1 :> b)

TwoThreads == {a1, b1}

OneEach == (a1 :> a) @@ (b1 :> b)
=============================================================================
