----------------------------- MODULE MCQrTopups -----------------------------
(* Two wallets, two sessions, two top-ups, amounts up to two units.        *)
EXTENDS QrTopups, TLC

CONSTANTS a1, a2, d1, s1, s2, q1, q2, p1, p2

MCAmount == 0..2

(* Wallets, sessions, orders and payments are interchangeable.             *)
Symmetry == {f @@ g @@ h @@ i :
               f \in Permutations({a1, a2}), g \in Permutations({s1, s2}),
               h \in Permutations({q1, q2}), i \in Permutations({p1, p2})}
=============================================================================
