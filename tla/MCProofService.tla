--------------------------- MODULE MCProofService ---------------------------
(***************************************************************************)
(* Small instances of ProofService for TLC.  s1 is a persona's validator,  *)
(* s2 and s3 are not; balances are counted in half ETH.                    *)
(***************************************************************************)
EXTENDS ProofService

CONSTANTS s1, s2, s3, t1

MCPrefix == [v \in Validators |-> IF v = t1 THEN 2 ELSE 1]
MCBalance == [v \in Validators |-> IF v = s2 THEN 65 ELSE 64]

Checkpoint(id, kind, source) == [id |-> id, kind |-> kind, source |-> source, target |-> t1]
FillOf(id, source) == [id |-> id, source |-> source, target |-> t1]

\* s1's consolidation is the replayed one
Demo == {Checkpoint(1, "accepted", s1), Checkpoint(2, "accepted", s2), Checkpoint(3, "delivered", s2)}
One  == {Checkpoint(1, "accepted", s1)}

OneFill  == {FillOf(1, s1)}
LateFill == {FillOf(1, s3)}
Replayed == [src |-> s1, tgt |-> t1]
=============================================================================
