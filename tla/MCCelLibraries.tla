---------------------------- MODULE MCCelLibraries ----------------------------
(* CelLibraries on every method and a few arguments and tokens, for TLC. *)
EXTENDS CelLibraries

Scalar(string, int, float, bool) ==
    [string |-> string, int |-> int, float |-> float, bool |-> bool]
One == Scalar("1", "1", "1", "true")        \* the text 1
Half == Scalar(None, "0", "0.5", "true")    \* the number 0.5
Text == Scalar("text", None, None, None)
Items == {One, Half, Text}

Values == {[kind |-> "scalar", as |-> item] : item \in Items}
          \cup {[kind |-> "list", items |-> items] : items \in {<<>>, <<One, Text, Half>>}}

Params == {Error} \cup {[arguments |-> arguments] :
              arguments \in {None} \cup {[key \in {"k"} |-> value] : value \in Values}}

Methods == Lists \cup {"initialize", "ping", "resources/read", "tools/call",
                       "logging/setLevel", "prompts/get", "elicitation/create", "custom"}

Incoming ==
    {[envelope |-> TRUE, rpc |-> rpc, method |-> method, id |-> "7", params |-> params] :
        rpc \in BOOLEAN, method \in Methods, params \in Params}
    \cup {[envelope |-> FALSE, rpc |-> rpc, method |-> None, id |-> None, params |-> Error] :
        rpc \in BOOLEAN}

Claims == [{"exp", "aud"} -> {"time", "strings", "plain"}]
Signed ==
    {[verifies |-> TRUE, valid |-> TRUE, claims |-> claims] : claims \in Claims}
    \cup {[verifies |-> FALSE, valid |-> TRUE, claims |-> claims] : claims \in Claims}
===============================================================================
