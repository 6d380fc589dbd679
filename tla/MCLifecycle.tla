----------------------------- MODULE MCLifecycle -----------------------------
(***************************************************************************)
(* A container whose operator keeps some settings in the legacy file.  A   *)
(* step of the clock is 20 s, and durations are rounded up: 900 s are 45   *)
(* steps, a message (30 s to connect and 30 s to answer) is three.         *)
(***************************************************************************)
EXTENDS Lifecycle

Numbers == [text \in {"60", "7200", "86400"} |->
              CASE text = "60" -> 60 [] text = "7200" -> 7200 [] text = "86400" -> 86400]
Lists == [text \in {"personal,shared"} |-> <<"personal", "shared">>]
StandardNumbers == [download_interval |-> 86400, telegram_poll_interval |-> 30]

Environment == [apple_id |-> "me", libraries |-> ""]
CapitalEnvironment == [telegram_poll_interval |-> "60"]

\* Files that load, with Telegram and a shared library and without both; half of
\* the Telegram settings; and a typing error.
Volumes == {
  [user |-> "a", telegram_token |-> "token", telegram_chat_id |-> "chat", photo_library |-> "personal,shared"],
  [user |-> "a", download_interval |-> "7200"],
  [user |-> "a", telegram_token |-> "token"],
  [user |-> "a", download_interval |-> "daily"]}

AllFaults == {"kill", "raise", "hang", "preflight"}
=============================================================================
