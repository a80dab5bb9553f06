-------------------------- MODULE MCHoldSettlement --------------------------
(***************************************************************************)
(* HoldSettlement for TLC: a hold that a completion, a cancellation, an    *)
(* over-budget completion and an API request all try to settle, and a      *)
(* second hold of the same account.                                        *)
(***************************************************************************)
EXTENDS HoldSettlement, TLC

CONSTANTS h1, h2, done, cancelled

MCMaximum == h1 :> 2 @@ h2 :> 1
MCRequests ==
  LET Call(h, p, k, ev, a) ==
        [hold |-> h, path |-> p, kind |-> k, event |-> ev, amount |-> a]
  IN {Call(h1, "job", "finalize", done, 1), Call(h1, "job", "finalize", done, 3),
      Call(h1, "job", "release", cancelled, 0), Call(h1, "api", "finalize", done, 1),
      Call(h1, "api", "release", cancelled, 0),
      Call(h2, "job", "finalize", cancelled, 1), Call(h2, "api", "finalize", done, 0)}
=============================================================================
