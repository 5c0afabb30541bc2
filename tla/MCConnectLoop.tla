--------------------------- MODULE MCConnectLoop ---------------------------
(***************************************************************************)
(* Bounded instances of ConnectLoop for TLC: three connect goroutines, so  *)
(* that a connection can drain while its successor already drains too.     *)
(***************************************************************************)
EXTENDS ConnectLoop

CONSTANTS c1, c2, c3

MCConns == {c1, c2, c3}
MCTwoConns == {c1, c2}

=============================================================================
