----------------------------- MODULE MCCharging -----------------------------
(* Charging on small instances.                                            *)
EXTENDS Charging, TLC

CONSTANTS r1, r2, t1, t2, w1, w2

Once(kinds) == [kind : kinds, tx : Tx, copy : {1}]

StartEvidence  == Once({"started"})

(* An update of t2 may reconstruct its session before its start arrives.   *)
OrderEvidence  == [kind : {"started"}, tx : {t1}, copy : {1}]
                    \cup [kind : {"started", "charging", "ended"}, tx : {t2},
                          copy : {1}]

MeterEvidence  == Once({"started", "meter", "unaddressed_meter", "ended"})

(* The end of t1 is sent twice.                                            *)
TwiceEvidence  == Once({"started", "ended"})
                    \cup [kind : {"ended"}, tx : {t1}, copy : {2}]

(* t2 is reconstructed from an update and ends twice, while t1 may hold    *)
(* the connector.                                                          *)
ReviewEvidence == [kind : {"started"}, tx : {t1}, copy : {1}]
                    \cup [kind : {"charging", "suspended", "ended", "meter",
                                  "unaddressed_meter"},
                          tx : {t2}, copy : {1}]
                    \cup [kind : {"ended"}, tx : {t2}, copy : {2}]

(* Reviewers are interchangeable.                                          *)
Reviewers == Permutations({w1, w2})

=============================================================================
