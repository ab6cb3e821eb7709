---------------------------- MODULE MCEventLoop ----------------------------
(* Model-checking instance of EventLoop: two distinct windows, so that an *)
(* overwritten job entry or a misordered hint is visible.                  *)
EXTENDS EventLoop, TLC

CONSTANTS w1, w2

MCWindows == {w1, w2}

(* w2 continues the chain w1 starts from the initial slot 0.                *)
MCOutputSlot == (w1 :> 1) @@ (w2 :> 2)

MCSymmetry == Permutations(MCWindows)
=============================================================================
