-------------------------- MODULE CelLibrariesProofs --------------------------
(***************************************************************************)
(* Proofs about what the policies see of a request, for every body, every  *)
(* token and every order of the calls.                                     *)
(***************************************************************************)
EXTENDS CelLibraries, TLAPS

\* What a getter answers beside its default stands in the arguments of the body.
AnswerFits(answer) ==
    answer # None /\ answer.value # answer.default =>
        /\ body.method \in {"tools/call", "resources/read", "prompts/get"}
        /\ answer.key \in DOMAIN body.params.arguments

\* The token as the clock may have had it.
Dated(valid) == [token EXCEPT !.valid = valid]

CelInv ==
    /\ body \in Bodies
    /\ object \in {None, ParseMCPRequest(body)}
    /\ parsed \in {None, Parse(body)}
    /\ AnswerFits(got)
    /\ \E t \in Tokens, valid \in BOOLEAN : token = [t EXCEPT !.valid = valid]
    /\ DOMAIN decoded = {"key", "set"}
    /\ decoded["key"] = None \/ \E valid \in BOOLEAN : decoded["key"] = DecodeWithKey(Dated(valid))
    /\ decoded["set"] = None \/ \E valid \in BOOLEAN : decoded["set"] = DecodeWithSet(Dated(valid))

-----------------------------------------------------------------------------
(* Requests.                                                                 *)

\* Three fields have arguments, each for the params of one method.
LEMMA FieldOf ==
    ASSUME NEW method, NEW f, f = Field(method), f # None
    PROVE  /\ f = "ToolCall" => method = "tools/call"
           /\ f = "ResourceRead" => method = "resources/read"
           /\ f = "PromptGet" => method = "prompts/get"
  BY DEF Field, Lists

\* A successful parse has the method of the body and, at most, its params in the
\* one field of that method.
LEMMA Parsed ==
    ASSUME NEW b, Parse(b) # Error
    PROVE  /\ Parse(b).method = b.method
           /\ \A f \in Fields : Parse(b).params[f] # None =>
                 f = Field(b.method) /\ f # None /\ Parse(b).params[f] = b.params
  <1>1. \A f \in Fields : NoParams[f] = None
    BY DEF NoParams
  <1>2. CASE Field(b.method) = None
    BY <1>1, <1>2 DEF Parse, MCPRequest
  <1>3. CASE Field(b.method) # None
    <2>1. Parse(b) = MCPRequest(b.method, b.id, [NoParams EXCEPT ![Field(b.method)] = b.params])
      BY <1>3 DEF Parse
    <2>2. \A f \in Fields :
             [NoParams EXCEPT ![Field(b.method)] = b.params][f]
               = IF f = Field(b.method) THEN b.params ELSE None
      BY DEF NoParams
    <2> QED
      BY <1>3, <2>1, <2>2 DEF MCPRequest
  <1> QED
    BY <1>2, <1>3

LEMMA Seen ==
    ASSUME NEW b
    PROVE  /\ ParseMCPRequest(b).method = IF Parse(b) = Error /\ ~ b.envelope THEN None ELSE b.method
           /\ \A f \in Fields : ParseMCPRequest(b).params[f] # None =>
                 /\ f = Field(b.method) /\ f # None
                 /\ ParseMCPRequest(b).params[f] = b.params
                 /\ Parse(b) # Error
  <1>1. CASE Parse(b) # Error
    BY <1>1, Parsed DEF ParseMCPRequest
  <1>2. CASE Parse(b) = Error
    BY <1>2 DEF ParseMCPRequest, MCPRequest, NoParams
  <1> QED
    BY <1>1, <1>2

\* The arguments of a request are those of the body, if it has any.
LEMMA ArgumentsOf ==
    ASSUME NEW b, NEW key, key \in DOMAIN GetArguments(ParseMCPRequest(b))
    PROVE  /\ b.method \in {"tools/call", "resources/read", "prompts/get"}
           /\ key \in DOMAIN b.params.arguments
  <1> DEFINE request == ParseMCPRequest(b)
             has == {f \in {"ToolCall", "ResourceRead", "PromptGet"} :
                        request.params[f] # None /\ request.params[f].arguments # None}
  <1>1. \A f \in has : f = Field(b.method) /\ f # None /\ request.params[f] = b.params
    <2>1. {"ToolCall", "ResourceRead", "PromptGet"} \subseteq Fields
      BY DEF Fields
    <2> QED
      BY <2>1, Seen
  <1>2. has # {}
    <2>1. SUFFICES ASSUME has = {} PROVE FALSE
      OBVIOUS
    <2>2. GetArguments(request) = [k \in {} |-> None]
      BY <2>1 DEF GetArguments
    <2> QED
      BY <2>2
  <1>3. PICK f \in has : TRUE
    BY <1>2
  <1>4. has = {f}
    BY <1>1, <1>3
  <1> DEFINE chosen(g) == \/ g = "ToolCall"
                          \/ g = "ResourceRead" /\ "ToolCall" \notin has
                          \/ has = {g}
  <1>5. (CHOOSE g \in has : chosen(g)) \in has
    <2>1. chosen(f)
      BY <1>4
    <2> QED
      BY <1>3, <2>1
  <1>6. GetArguments(request) = request.params[CHOOSE g \in has : chosen(g)].arguments
    BY <1>2 DEF GetArguments
  <1>7. GetArguments(request) = b.params.arguments
    BY <1>1, <1>5, <1>6
  <1>8. b.method \in {"tools/call", "resources/read", "prompts/get"}
    BY <1>1, <1>3, FieldOf
  <1> QED
    BY <1>7, <1>8

-----------------------------------------------------------------------------
(* Tokens.                                                                   *)

\* Both decoders take a token that verifies and has no list of strings, and keep
\* the same claims; a list of strings is an error with the key.
LEMMA DecodedClaims ==
    ASSUME NEW t \in Tokens, NEW v \in BOOLEAN, NEW w \in BOOLEAN,
           NEW k, k = DecodeWithKey([t EXCEPT !.valid = v]),
           NEW s, s = DecodeWithSet([t EXCEPT !.valid = w])
    PROVE  \/ k = Error /\ s = Error
           \/ k # Error /\ s # Error /\ k.claims = s.claims
           \/ k = Error /\ \E c \in DOMAIN t.claims : t.claims[c] = "strings"
  <1> DEFINE withKey == [c \in DOMAIN t.claims |-> ClaimWithKey(t.claims[c])]
             withSet == [c \in DOMAIN t.claims |-> ClaimWithSet(t.claims[c])]
  <1>1. \A u \in BOOLEAN : /\ [t EXCEPT !.valid = u].verifies = t.verifies
                           /\ [t EXCEPT !.valid = u].claims = t.claims
                           /\ [t EXCEPT !.valid = u].valid = u
    BY TokensAssumption
  <1>2. k = IF ~ t.verifies THEN Error
            ELSE IF \A c \in DOMAIN withKey : withKey[c] \in Encodable
                 THEN [claims |-> withKey, valid |-> v] ELSE Error
    BY <1>1 DEF DecodeWithKey, Decode
  <1>3. s = IF ~ t.verifies THEN Error
            ELSE IF \A c \in DOMAIN withSet : withSet[c] \in Encodable
                 THEN [claims |-> withSet, valid |-> w] ELSE Error
    BY <1>1 DEF DecodeWithSet, Decode
  <1>4. CASE ~ t.verifies
    BY <1>2, <1>3, <1>4
  <1>5. CASE \E c \in DOMAIN t.claims : t.claims[c] = "strings"
    <2>1. PICK c \in DOMAIN t.claims : t.claims[c] = "strings"
      BY <1>5
    <2>2. withKey[c] \notin Encodable
      BY <2>1 DEF ClaimWithKey, Encodable
    <2> QED
      BY <1>2, <1>5, <2>1, <2>2
  <1>6. CASE t.verifies /\ \A c \in DOMAIN t.claims : t.claims[c] # "strings"
    <2>1. withKey = withSet
      BY <1>6 DEF ClaimWithKey, ClaimWithSet
    <2>2. CASE \A c \in DOMAIN withKey : withKey[c] \in Encodable
      <3>1. withKey \in [DOMAIN t.claims -> Encodable]
        BY <2>2
      <3>2. k = [claims |-> withKey, valid |-> v] /\ s = [claims |-> withKey, valid |-> w]
        BY <1>2, <1>3, <1>6, <2>1, <2>2
      <3> HIDE DEF withKey, withSet
      <3>3. k # Error /\ s # Error
        BY <3>1, <3>2, ErrorAssumption
      <3> QED
        BY <3>2, <3>3
    <2>3. CASE ~ \A c \in DOMAIN withKey : withKey[c] \in Encodable
      BY <1>2, <1>3, <1>6, <2>1, <2>3
    <2> QED
      BY <2>2, <2>3
  <1> QED
    BY <1>4, <1>5, <1>6

-----------------------------------------------------------------------------
(* The invariant.                                                            *)

LEMMA CelInit == Init => CelInv
  <1> SUFFICES ASSUME Init PROVE CelInv
    OBVIOUS
  <1>1. token = [token EXCEPT !.valid = token.valid] /\ token.valid \in BOOLEAN
    BY TokensAssumption DEF Init
  <1> QED
    BY <1>1 DEF Init, CelInv, AnswerFits

LEMMA CelStep == CelInv /\ [Next]_vars => CelInv'
  <1> SUFFICES ASSUME CelInv, [Next]_vars PROVE CelInv'
    OBVIOUS
  <1> USE DEF CelInv
  <1>1. CASE NewRequest
    BY <1>1 DEF NewRequest, AnswerFits, Dated
  <1>2. CASE ParseInPolicy
    BY <1>2 DEF ParseInPolicy, AnswerFits, Dated
  <1>3. CASE Get
    <2>1. PICK request \in {object, parsed} \ {None, Error}, key \in {"k", "absent"},
               type \in {"string", "int", "float", "bool"}, default \in Defaults :
             \E list \in BOOLEAN :
                got' = [of |-> request, key |-> key, type |-> type, list |-> list,
                        default |-> default,
                        value |-> IF list THEN GetSliceArgument(request, key, type, default)
                                  ELSE GetArgument(request, key, type, default)]
      BY <1>3 DEF Get
    <2>2. request = ParseMCPRequest(body)
      BY <2>1 DEF ParseMCPRequest
    <2>3. got'.key = key /\ got'.default = default
      BY <2>1
    <2>4. got'.value # default => key \in DOMAIN GetArguments(request)
      BY <2>1 DEF GetArgument, GetSliceArgument
    <2>5. AnswerFits(got)'
      BY <1>3, <2>2, <2>3, <2>4, ArgumentsOf DEF AnswerFits, Get
    <2> QED
      BY <1>3, <2>5 DEF Get, Dated
  <1>4. CASE DecodeToken
    <2>1. PICK t \in Tokens, valid \in BOOLEAN : token = [t EXCEPT !.valid = valid]
      OBVIOUS
    <2>2. token = Dated(valid)
      BY <2>1, TokensAssumption DEF Dated
    <2>3. /\ DOMAIN decoded' = {"key", "set"}
          /\ decoded'["key"] = decoded["key"] \/ decoded'["key"] = DecodeWithKey(token)
          /\ decoded'["set"] = decoded["set"] \/ decoded'["set"] = DecodeWithSet(token)
      BY <1>4 DEF DecodeToken
    <2>4. UNCHANGED <<body, token, object, parsed, got>>
      BY <1>4 DEF DecodeToken
    <2> QED
      BY <2>2, <2>3, <2>4 DEF AnswerFits, Dated
  <1>5. CASE Expire
    <2>1. PICK t \in Tokens, valid \in BOOLEAN : token = [t EXCEPT !.valid = valid]
      OBVIOUS
    <2>2. token' = [t EXCEPT !.valid = FALSE]
      BY <1>5, <2>1, TokensAssumption DEF Expire
    <2>3. \A v \in BOOLEAN : Dated(v)' = Dated(v)
      BY <2>1, <2>2, TokensAssumption DEF Dated
    <2> QED
      BY <1>5, <2>2, <2>3 DEF Expire, AnswerFits
  <1>6. CASE UNCHANGED vars
    BY <1>6 DEF vars, AnswerFits, Dated
  <1> QED
    BY <1>1, <1>2, <1>3, <1>4, <1>5, <1>6 DEF Next

LEMMA CelInductive == Spec => []CelInv
  BY CelInit, CelStep, PTL DEF Spec

\* Policies see the request that was sent, whatever they call in whatever order:
\* the method of the body, the params of that method or none; parsing again gives
\* the same request, and a getter answers from the arguments of the body or with
\* its default (types.go:92-111, mcp.go:14-94).
THEOREM RequestIsTheBody == Spec => []RequestFitsBody
  <1>1. ASSUME CelInv PROVE RequestFitsBody
    <2> SUFFICES ASSUME object # None PROVE
             /\ object.method = IF body.envelope THEN body.method ELSE None
             /\ \A f \in Fields : object.params[f] # None => f = Field(object.method)
             /\ parsed \notin {None, Error} => parsed = object
             /\ AnswerFits(got)
      BY DEF RequestFitsBody, AnswerFits
    <2>1. object = ParseMCPRequest(body) /\ AnswerFits(got)
      BY <1>1 DEF CelInv
    <2>2. parsed \notin {None, Error} => parsed = object
      BY <1>1, <2>1 DEF CelInv, ParseMCPRequest
    <2>3. Parse(body) # Error => body.rpc
      BY DEF Parse
    <2>4. object.method = IF body.envelope THEN body.method ELSE None
      BY <1>1, <2>1, <2>3, Seen, BodiesAssumption DEF CelInv
    <2>5. \A f \in Fields : object.params[f] # None => f = Field(object.method)
      BY <2>1, Seen
    <2> QED
      BY <2>1, <2>2, <2>4, <2>5
  <1> QED
    BY <1>1, CelInductive, PTL

\* A token gives the same claims with a key and with a key set, whenever they are
\* asked and whether or not it has expired between: only a list of strings, which
\* the key does not decode, tells them apart (impl.go:55-60, 104-115).
THEOREM DecodersAgree == Spec => []DecodesAlike
  <1>1. ASSUME CelInv PROVE DecodesAlike
    <2> SUFFICES ASSUME decoded["key"] # None, decoded["set"] # None
                 PROVE  \/ decoded["key"] = Error /\ decoded["set"] = Error
                        \/ Error \notin {decoded["key"], decoded["set"]}
                           /\ decoded["key"].claims = decoded["set"].claims
                        \/ decoded["key"] = Error
                           /\ \E c \in DOMAIN token.claims : token.claims[c] = "strings"
      BY DEF DecodesAlike
    <2>1. PICK t \in Tokens, u \in BOOLEAN : token = [t EXCEPT !.valid = u]
      BY <1>1 DEF CelInv
    <2>2. token.claims = t.claims /\ \A v \in BOOLEAN : Dated(v) = [t EXCEPT !.valid = v]
      <3>1. t = [verifies |-> t.verifies, valid |-> t.valid, claims |-> t.claims]
        BY TokensAssumption
      <3>2. token = [verifies |-> t.verifies, valid |-> u, claims |-> t.claims]
        BY <2>1, <3>1
      <3>3. \A v \in BOOLEAN : [token EXCEPT !.valid = v]
                              = [verifies |-> t.verifies, valid |-> v, claims |-> t.claims]
        BY <3>2
      <3>4. \A v \in BOOLEAN : [t EXCEPT !.valid = v]
                              = [verifies |-> t.verifies, valid |-> v, claims |-> t.claims]
        BY <3>1
      <3> QED
        BY <3>2, <3>3, <3>4 DEF Dated
    <2>3. PICK v \in BOOLEAN : decoded["key"] = DecodeWithKey([t EXCEPT !.valid = v])
      BY <1>1, <2>2 DEF CelInv
    <2>4. PICK w \in BOOLEAN : decoded["set"] = DecodeWithSet([t EXCEPT !.valid = w])
      BY <1>1, <2>2 DEF CelInv
    <2> QED
      BY <2>2, <2>3, <2>4, DecodedClaims
  <1> QED
    BY <1>1, CelInductive, PTL
===============================================================================
