------------------------------- MODULE MCAuth -------------------------------
(* An instance of Auth for TLC: who sends what, and with which clocks. *)
EXTENDS Auth, TLC

CONSTANTS t1, t2, m1, m2, m3, m4, alice

MCThreads == {t1, t2}
MCMessages == {m1, m2, m3, m4}
MCSenders == {alice}
MCSender == (m1 :> alice @@ m2 :> alice @@ m3 :> alice @@ m4 :> alice)
Good == [signed |-> TRUE, version |-> TRUE, lacks |-> "nothing", entity |-> TRUE,
         intact |-> TRUE, proof |-> "none"]

(* Copies of the first message arrive as sent, altered, or without the nonce. *)
MCArrives == [m \in MCMessages |->
                {Good} \cup IF m = m1 THEN {[Good EXCEPT !.intact = FALSE], [Good EXCEPT !.lacks = "nonce"]}
                           ELSE {}]
MCCopies == (m1 :> 2 @@ m2 :> 1 @@ m3 :> 1 @@ m4 :> 1)
AuthSymmetry == Permutations(MCThreads) \cup Permutations({m2, m3, m4})
MCDrift == (alice :> 0)
=============================================================================
