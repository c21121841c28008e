----------------------------- MODULE MCChannel -----------------------------
(* Small instances of Channel.  Two words in the ring and three values make *)
(* both indices wrap, the ring fill and empty, and the close fall anywhere. *)
EXTENDS Channel, TLC

CONSTANTS s1, s2, r1, r2, c1

MCSenders == {s1, s2}
MCReceivers == {r1, r2}
MCClosers == {c1}

MCBudgets == {(s1 :> a @@ s2 :> b @@ r1 :> c @@ r2 :> d @@ c1 :> 1) :
                 <<a, b, c, d>> \in {<<0, 0, 1, 1>>, <<2, 1, 2, 0>>, <<3, 0, 2, 0>>,
                                     <<2, 0, 2, 1>>}}

=============================================================================
