----------------------------- MODULE MCSending -----------------------------
(* Finite instances of Sending for TLC: on the Pinduoduo road two sends of *)
(* one text to one buyer, a jump, and a person's doing; on the Taobao road *)
(* two calls for two buyers, by two threads of the sender pool.            *)
EXTENDS Sending, TLC

CONSTANTS s1, s2, jump, click, c1, c2, ann, bob, hello, bye, open

Who == [d \in Deeds |-> IF d = jump THEN bob ELSE ann]
What == [d \in Deeds |-> IF d \in Sends THEN hello ELSE open]

QnWho == c1 :> ann @@ c2 :> bob
QnWhat == c1 :> hello @@ c2 :> bye
=============================================================================
