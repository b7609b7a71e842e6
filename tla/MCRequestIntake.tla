--------------------------- MODULE MCRequestIntake ---------------------------
(* Constants of the model-checking run of RequestIntake. *)
EXTENDS RequestIntake, TLC

CONSTANTS c1, c2, c3, c4

Signed(nonce, ts, sensitive, host) ==
  [nonce |-> nonce, ts |-> ts, sensitive |-> sensitive, signed |-> TRUE, host |-> host]
\* A request from a client whose clock is ahead, delivered twice; a later one, which
\* clears the ledger; and one with a signature that is wrong.
Deliveries ==
  c1 :> Signed("n1", 1, TRUE, "allowed") @@ c2 :> Signed("n1", 1, TRUE, "allowed")
    @@ c3 :> Signed("n2", 2, TRUE, "other") @@ c4 :> [Signed("none", 0, FALSE, "other") EXCEPT !.signed = FALSE]
\* The two copies of a request are alike.
Alike == Permutations({c1, c2})

Source(addresses, reply, declared, size, whole) ==
  [addresses |-> addresses, reply |-> reply, declared |-> declared, size |-> size, whole |-> whole]
MCSources == {
  Source(<<"pub1", "pub2">>, "ok", 1, 1, TRUE), Source(<<"pub1">>, "ok", Undeclared, 2, TRUE),
  Source(<<"pub1">>, "ok", 1, 0, FALSE), Source(<<"pub1">>, "redirect", Undeclared, 1, TRUE),
  Source(<<"pub1", "internal">>, "ok", 1, 1, TRUE)}
=============================================================================
