------------------------------ MODULE MCTunnel ------------------------------
(* Small instances of Tunnel for TLC. *)
EXTENDS Tunnel

MCHosts == {[numbers |-> <<1, 4, 7>>,  probe |-> TRUE], [numbers |-> <<1, 4, 7>>, probe |-> FALSE],
            [numbers |-> <<1, 4, 21>>, probe |-> TRUE], [numbers |-> <<1, 6, 0>>, probe |-> TRUE],
            [numbers |-> <<1, 6, 2>>,  probe |-> TRUE]}
=============================================================================
