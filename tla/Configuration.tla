---------------------------- MODULE Configuration ----------------------------
(***************************************************************************)
(* How the settings of a container become a configuration (config.py       *)
(* _read_legacy_conf, load_config, Config.validate): a variable of the     *)
(* environment, in lower or in upper case, beats the legacy file, which    *)
(* beats the default.  What cannot be read or used is a ConfigError.       *)
(*                                                                         *)
(* A source is a function from its keys, in lower case, to texts; a        *)
(* missing key and the empty text are the same to the code.  Settings that *)
(* only end up in icloudpd's arguments are left out.                       *)
(***************************************************************************)
EXTENDS Integers, Sequences

CONSTANTS
  Number,       \* the texts int() accepts, with their values
  Parts,        \* the texts of library lists, with their non-blank parts
  MinInterval,  \* the 3600 s of validate
  Defaults      \* the numbers of Config: download_interval, telegram_poll_interval

\* The name of a setting in the legacy file.
LegacyKeys ==
  [apple_id |-> "apple_id", name |-> "name", legacy_user |-> "user",
   download_interval |-> "download_interval", libraries |-> "photo_library",
   telegram_token |-> "telegram_token", telegram_chat_id |-> "telegram_chat_id"]

Lookup(source, key) == IF key \in DOMAIN source THEN source[key] ELSE ""

Legacy(file, key) == IF key \in DOMAIN LegacyKeys THEN Lookup(file, LegacyKeys[key]) ELSE ""

FirstOf(texts) ==
  IF \E k \in DOMAIN texts : texts[k] # ""
  THEN texts[CHOOSE k \in DOMAIN texts : texts[k] # "" /\ \A l \in 1 .. k - 1 : texts[l] = ""]
  ELSE ""
Get(s, key) == FirstOf(<<Lookup(s.lower, key), Lookup(s.upper, key), Legacy(s.file, key)>>)

\* Two of the seven numbers stand for all; the legacy file knows the first, not the second.
NumberKeys == {"download_interval", "telegram_poll_interval"}
Integer(s, key) == IF Get(s, key) = "" THEN Defaults[key] ELSE Number[Get(s, key)]
Malformed(s) == \E key \in NumberKeys : Get(s, key) # "" /\ Get(s, key) \notin DOMAIN Number

\* The fallback to the legacy user reads the file only.
Parsed(s) ==
  [apple_id |-> Get(s, "apple_id"),
   name |-> FirstOf(<<Get(s, "name"), Legacy(s.file, "legacy_user")>>),
   interval |-> Integer(s, "download_interval"),
   poll |-> Integer(s, "telegram_poll_interval"),
   libraries |-> IF Get(s, "libraries") = "" THEN <<"personal">> ELSE Parts[Get(s, "libraries")],
   telegram |-> Get(s, "telegram_token") # "" /\ Get(s, "telegram_chat_id") # "",
   partial |-> (Get(s, "telegram_token") = "") # (Get(s, "telegram_chat_id") = "")]

Valid(c) ==
  /\ c.apple_id # "" /\ c.interval >= MinInterval
  /\ c.libraries # << >> /\ ~c.partial

\* load_config raises no ConfigError.
Loads(s) == ~Malformed(s) /\ Valid(Parsed(s))
=============================================================================
