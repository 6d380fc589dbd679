---------------------------- MODULE CommandParser ----------------------------
(***************************************************************************)
(* What a Telegram message means to an instance (telegram.py               *)
(* parse_command, main.py run_supervisor, scheduler.py _send_help).        *)
(*                                                                         *)
(* A text is the sequence of its words.  parse_command compares words in   *)
(* lower case, except codes, which have no case: a word stands for all its *)
(* spellings.  An instance name is a text too, since the configuration     *)
(* allows blanks inside it; the empty name is an unnamed instance.         *)
(***************************************************************************)
EXTENDS Naturals, Sequences

CONSTANT Codes  \* words of six ASCII digits

ASSUME CodesAreDigits ==
  Codes \cap {"sync", "download", "auth", "reauth", "status", "help", "user", "icloudpd"} = {}

\* Mutant: the help and the parser disagree on a word.
KeywordsRenamed == [download |-> "sync", auth |-> "reauth", reauth |-> "reauth",
                    status |-> "status", help |-> "help"]
Keywords == [sync |-> "sync", download |-> "sync", auth |-> "reauth", reauth |-> "reauth",
             status |-> "status", help |-> "help"]

Ignored == [kind |-> "none", value |-> "none"]
Command(kind) == [kind |-> kind, value |-> "none"]

Meaning(word) ==
  IF word \in Codes THEN [kind |-> "code", value |-> word]
  ELSE IF word \in DOMAIN Keywords THEN Command(Keywords[word])
  ELSE Ignored

\* Only the first word is compared with the aliases.
Prefixed(text, aliases) == text # << >> /\ <<Head(text)>> \in aliases

Parse(text, aliases, requirePrefix) ==
  LET words == IF Prefixed(text, aliases) THEN Tail(text) ELSE text
  IN CASE Prefixed(text, aliases) /\ words = << >> -> Command("sync")
       [] requirePrefix /\ ~Prefixed(text, aliases) -> Ignored
       [] OTHER -> IF Len(words) = 1 THEN Meaning(words[1]) ELSE Ignored

\* How the listener of an instance parses.  Mutant: it does not insist on its name.
HearLoosely(name, text) == Parse(text, {name}, FALSE)
Hear(name, text) ==
  IF name # << >> THEN Parse(text, {name}, TRUE)
  ELSE Parse(text, {<<"user">>, <<"icloudpd">>}, FALSE)

\* What the help of an instance tells the user to send, and what it should mean.
Advertised(name) ==
  {[text |-> Append(name, w), command |-> Command(w)] : w \in {"sync", "reauth", "status"}}
    \union {[text |-> Append(name, c), command |-> [kind |-> "code", value |-> c]] : c \in Codes}
=============================================================================
