----------------------------- MODULE CelLibraries -----------------------------
(***************************************************************************)
(* What a policy sees of one request through the MCP and JWT libraries     *)
(* (pkg/cel/libs, pkg/cel/impl): the front end parses the body before the  *)
(* policies run, and an expression may parse it again, read arguments and  *)
(* decode tokens.                                                          *)
(***************************************************************************)
EXTENDS Sequences, FiniteSets

CONSTANTS
    Bodies,    \* [envelope, rpc: do the two structs unmarshal?, method, id, params]
    Tokens,    \* [verifies, valid, claims: what each claim decodes to]
    Defaults,  \* what an expression gives for a missing argument
    None,      \* a nil pointer, an empty string, a failed conversion
    Error      \* an error instead of a value

Lists == {"resources/list", "resources/templates/list", "tools/list", "prompts/list"}

\* The field of MCPRequest for the params of a method.
Field(method) ==
    CASE method = "initialize" -> "Initialize"
      [] method \in Lists -> "Paginated"
      [] method = "resources/read" -> "ResourceRead"
      [] method = "tools/call" -> "ToolCall"
      [] method = "logging/setLevel" -> "SetLogLevel"
      [] method = "prompts/get" -> "PromptGet"
      [] method = "elicitation/create" -> "Elicitation"
      [] OTHER -> None

Fields == {"Initialize", "Paginated", "ResourceRead", "ToolCall", "SetLogLevel",
           "PromptGet", "Elicitation"}

MCPRequest(method, id, params) == [method |-> method, id |-> id, params |-> params]
NoParams == [f \in Fields |-> None]

\* MCPImpl.Parse: params that do not unmarshal fail the whole parse.
Parse(body) ==
    IF ~ body.rpc THEN Error
    ELSE IF Field(body.method) = None THEN MCPRequest(body.method, body.id, NoParams)
    ELSE IF body.params = Error THEN Error
    ELSE MCPRequest(body.method, body.id,
                    [NoParams EXCEPT ![Field(body.method)] = body.params])

\* Fault: a failed parse leaves an empty request.
NoFallback(body) ==
    IF Parse(body) # Error THEN Parse(body) ELSE MCPRequest(None, None, NoParams)

\* parseMCPRequest: the method of the envelope survives a failed parse, the id
\* does not.
ParseMCPRequest(body) ==
    IF Parse(body) # Error THEN Parse(body)
    ELSE MCPRequest(IF body.envelope THEN body.method ELSE None, None, NoParams)

\* GetArguments: the arguments of a tool call if they are a map, else those of
\* a resource, else those of a prompt.
GetArguments(request) ==
    LET has == {f \in {"ToolCall", "ResourceRead", "PromptGet"} :
                    request.params[f] # None /\ request.params[f].arguments # None}
    IN IF has = {} THEN [key \in {} |-> None]
       ELSE request.params[CHOOSE f \in has :
                \/ f = "ToolCall"
                \/ f = "ResourceRead" /\ "ToolCall" \notin has
                \/ has = {f}].arguments

\* A scalar argument is what each getter makes of it; a list is a sequence of
\* them.  What does not convert counts as missing.
GetArgument(request, key, type, default) ==
    LET arguments == GetArguments(request)
    IN IF key \in DOMAIN arguments /\ arguments[key].kind = "scalar"
          /\ arguments[key].as[type] # None
       THEN arguments[key].as[type] ELSE default

\* A list keeps the items that convert.
Converted(items, type) ==
    LET kept == SelectSeq(items, LAMBDA item : item[type] # None)
    IN [i \in DOMAIN kept |-> kept[i][type]]

GetSliceArgument(request, key, type, default) ==
    LET arguments == GetArguments(request)
    IN IF key \in DOMAIN arguments /\ arguments[key].kind = "list"
       THEN Converted(arguments[key].items, type) ELSE default

\* What structpb.NewStruct takes.
Encodable == {"plain", "list"}

\* Fault: times are not turned into numbers.
ClaimWithSetRaw(claim) == IF claim = "strings" THEN "list" ELSE claim

\* The switch of decode_string_set: a time is a number, a list is untyped.
ClaimWithSet(claim) ==
    CASE claim = "time" -> "plain" [] claim = "strings" -> "list" [] OTHER -> claim

\* That of decode_string_string leaves lists of strings as they are.
ClaimWithKey(claim) == IF claim = "time" THEN "plain" ELSE claim

Decode(token, Claim(_)) ==
    IF ~ token.verifies THEN Error
    ELSE LET claims == [c \in DOMAIN token.claims |-> Claim(token.claims[c])]
         IN IF \A c \in DOMAIN claims : claims[c] \in Encodable
            THEN [claims |-> claims, valid |-> token.valid]
            ELSE Error

DecodeWithSet(token) == Decode(token, ClaimWithSet)
DecodeWithKey(token) == Decode(token, ClaimWithKey)

\* The method is a field of both structs: what unmarshals into the second has in
\* the first the same method, or none that is not empty.
ASSUME BodiesAssumption ==
    \A body \in Bodies : body.rpc /\ ~ body.envelope => body.method = None

ASSUME TokensAssumption ==
    \A token \in Tokens :
        /\ token.valid \in BOOLEAN
        /\ token = [verifies |-> token.verifies, valid |-> token.valid, claims |-> token.claims]

\* An error is no decoded token.
ASSUME ErrorAssumption ==
    \A token \in Tokens : \A claims \in [DOMAIN token.claims -> Encodable], valid \in BOOLEAN :
        Error # [claims |-> claims, valid |-> valid]

-----------------------------------------------------------------------------

VARIABLES
    body, token,   \* the request
    object,        \* object.mcp.request, None before the request is read
    parsed,        \* what mcp.Parse made of the body
    got,           \* what the getters answered: [of, type, list, key, value]
    decoded        \* decoded[overload]: what jwt.Decode answered

vars == <<body, token, object, parsed, got, decoded>>

Init ==
    /\ body \in Bodies /\ token \in Tokens
    /\ object = None /\ parsed = None
    /\ got = None
    /\ decoded = [overload \in {"key", "set"} |-> None]

\* NewRequest of the HTTP front end: reading the body may fail, and then no
\* policy runs.
NewRequest ==
    /\ object = None
    /\ object' = ParseMCPRequest(body)
    /\ UNCHANGED <<body, token, parsed, got, decoded>>

\* mcp_parse in an expression.
ParseInPolicy ==
    /\ object # None
    /\ parsed' = Parse(body)
    /\ UNCHANGED <<body, token, object, got, decoded>>

\* mcp_get_*: of the request at hand.
Get ==
    /\ object # None
    /\ \E request \in {object, parsed} \ {None, Error}, key \in {"k", "absent"},
          type \in {"string", "int", "float", "bool"}, default \in Defaults :
        \E list \in BOOLEAN :
            got' = [of |-> request, key |-> key, type |-> type, list |-> list,
                    default |-> default,
                    value |-> IF list THEN GetSliceArgument(request, key, type, default)
                              ELSE GetArgument(request, key, type, default)]
    /\ UNCHANGED <<body, token, object, parsed, decoded>>

\* The clock passes the exp of the token: jwt.Validate looks at it each time.
Expire ==
    /\ token.valid
    /\ token' = [token EXCEPT !.valid = FALSE]
    /\ UNCHANGED <<body, object, parsed, got, decoded>>

\* jwt.Decode with a key or with a key set.
DecodeToken ==
    /\ object # None
    /\ \/ decoded' = [decoded EXCEPT !["key"] = DecodeWithKey(token)]
       \/ decoded' = [decoded EXCEPT !["set"] = DecodeWithSet(token)]
    /\ UNCHANGED <<body, token, object, parsed, got>>

Next ==
    \/ NewRequest
    \/ ParseInPolicy
    \/ Get
    \/ DecodeToken
    \/ Expire

Spec == Init /\ [][Next]_vars

-----------------------------------------------------------------------------

\* parseMCPRequest promises that conditions on the method "still evaluate
\* correctly even when param parsing fails": the policies see the method of
\* the body whenever it has one, with the params of that method or none;
\* parsing again in a policy never gives a different request, and what a getter
\* answers other than its default stands in the arguments of that body.
RequestFitsBody ==
    object # None =>
        /\ object.method = IF body.envelope THEN body.method ELSE None
        /\ \A f \in Fields : object.params[f] # None => f = Field(object.method)
        /\ parsed \notin {None, Error} => parsed = object
        /\ got # None /\ got.value # got.default =>
              /\ body.method \in {"tools/call", "resources/read", "prompts/get"}
              /\ got.key \in DOMAIN body.params.arguments

\* jwt.Decode gives a key and a key set that verify the same token the same
\* claims; a claim that is a list of strings is the exception, an error with
\* the key.
DecodesAlike ==
    None \notin {decoded["key"], decoded["set"]} =>
        \/ decoded["key"] = Error /\ decoded["set"] = Error
        \/ Error \notin {decoded["key"], decoded["set"]}
           /\ decoded["key"].claims = decoded["set"].claims
        \/ decoded["key"] = Error /\ \E c \in DOMAIN token.claims : token.claims[c] = "strings"

\* "Method and ID are preserved from the envelope" (types.go:88-89): refuted,
\* the id of a request whose params fail to parse is empty.
IdPreserved ==
    object # None /\ body.envelope => object.id = body.id
===============================================================================
