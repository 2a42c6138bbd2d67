--------------------------- MODULE MCGatewayStore ---------------------------
(* A word of the staff and the buyer's answer, in batches of two with         *)
(* a poor and a rich copy of each.                                           *)
EXTENDS GatewayStore, TLC

CONSTANTS own, other, h1, h2

Copy(msg, account) == [msg |-> msg, account |-> account]
Posts == {<<Copy(1, None), Copy(2, own)>>, <<Copy(1, own), Copy(2, None)>>}
Symmetric == Permutations({h1, h2})
=============================================================================
