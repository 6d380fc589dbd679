-------------------------- MODULE MCTelegramPolling --------------------------
(***************************************************************************)
(* Two supervisors on one bot token and in one chat: a named one, which is *)
(* killed, cannot always store its offset and waits for codes, and an      *)
(* unnamed one whose polls fail.                                           *)
(***************************************************************************)
EXTENDS TelegramPolling

MCCodes == {"111111"}
Two == {"a", "b"}
Names == [i \in Two |-> IF i = "a" THEN <<"a">> ELSE << >>]
SameChat == [i \in Two |-> "family"]
Trusted == [i \in Two |-> {"ann"}]
Sent == {[chat |-> "family", sender |-> "ann", text |-> t] : t \in {<<"a", "111111">>, <<"sync">>}}

Exposed == [i \in Two |-> IF i = "a" THEN {"kill", "nostore", "prompt"} ELSE {"error"}]
=============================================================================
