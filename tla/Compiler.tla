------------------------------- MODULE Compiler -------------------------------
(***************************************************************************)
(* Compile and what it calls in pkg/engine/compiler/compiler.go.  A CEL    *)
(* expression is the type of its value, Ill when it does not parse, check  *)
(* or plan, the policy variables it selects (variables.x), and those it    *)
(* selects where the checker does not look (dyn(variables).x).             *)
(***************************************************************************)
EXTENDS Sequences, Naturals

Ill == "ill"
Types == {"bool", "http.CheckResponse", "envoy.CheckResponse", "null", "dyn"}
Modes == {"HTTP", "Envoy"}     \* NewEnv knows no other

Expression(type, uses, dynamic) == [type |-> type, uses |-> uses, dynamic |-> dynamic]

\* A list of variables as the schema has it: no two have the same name.
NamesAreKeys(variables) ==
    /\ Len(variables) \in Nat /\ DOMAIN variables = 1 .. Len(variables)
    /\ \A i, k \in DOMAIN variables : variables[i].name = variables[k].name => i = k

\* env.Compile, the test of the output type and env.Program.  The type provider is
\* asked for the fields of variables, never for those of a dyn value.
Compiles(expression, declared, types) ==
    expression.type \in types /\ expression.uses \subseteq declared

\* Fault: a variable is registered before it is compiled.
DeclaredWithItself(variables, i) == {variables[k].name : k \in 1 .. i}

\* RegisterField: the names the provider knows when the i-th variable is
\* compiled.
Declared(variables, i) == {variables[k].name : k \in 1 .. i - 1}
AllDeclared(variables) == {variables[k].name : k \in DOMAIN variables}

\* Match conditions are compiled while no variable is registered.
ConditionsCompile(policy) ==
    \A i \in DOMAIN policy.matchConditions :
        Compiles(policy.matchConditions[i], {}, {"bool"})

VariablesCompile(policy) ==
    \A i \in DOMAIN policy.variables :
        Compiles(policy.variables[i].expression, Declared(policy.variables, i), Types)

ResponseTypes(mode) ==
    {"null", IF mode = "HTTP" THEN "http.CheckResponse" ELSE "envoy.CheckResponse"}

\* compileAuthorization, for every rule
RulesCompile(policy) ==
    \A i \in DOMAIN policy.rules :
        Compiles(policy.rules[i], AllDeclared(policy.variables), ResponseTypes(policy.mode))

\* compileException, in the environment of the policy
ExceptionCompiles(exception, policy) ==
    \A i \in DOMAIN exception.matchConditions :
        Compiles(exception.matchConditions[i], AllDeclared(policy.variables), {"bool"})

PolicyCompiles(policy) ==
    /\ policy.mode \in Modes
    /\ ConditionsCompile(policy)
    /\ VariablesCompile(policy)
    /\ RulesCompile(policy)

\* The loop over the exceptions looks at the error of an earlier call: an
\* exception that does not compile is dereferenced although it is nil.
Compile(policy, exceptions) ==
    IF ~ PolicyCompiles(policy) THEN "error"
    ELSE IF \A i \in DOMAIN exceptions : ExceptionCompiles(exceptions[i], policy)
    THEN "compiled"
    ELSE "panic"

-----------------------------------------------------------------------------
(* What the programs of a compiled policy find when they run: match gives  *)
(* its conditions the object only, setupVariables gives the others one     *)
(* lazy value per name, computed when it is first read.                    *)

Reads(expression) == expression.uses \cup expression.dynamic

\* What a program reads in vain is what it selects from dyn(variables).
MissesOnlyDynamic(expression, names) == Reads(expression) \ names \subseteq expression.dynamic

\* Variables that wait for one another (each of a group reads one of the group, for
\* instance itself) do so through dyn(variables).
WaitsOnlyDynamic(variables) ==
    \A group \in SUBSET DOMAIN variables :
        LET ofGroup(read) == read \cap {variables[k].name : k \in group} # {} IN
        (group # {} /\ \A i \in group : ofGroup(Reads(variables[i].expression)))
            => \E i \in group : ofGroup(variables[i].expression.dynamic)

FailsOnlyDynamic(policy, exceptions) ==
    /\ \A i \in DOMAIN policy.matchConditions : MissesOnlyDynamic(policy.matchConditions[i], {})
    /\ WaitsOnlyDynamic(policy.variables)
    /\ LET names == AllDeclared(policy.variables) IN
       /\ \A i \in DOMAIN policy.variables :
              MissesOnlyDynamic(policy.variables[i].expression, names)
       /\ \A i \in DOMAIN policy.rules : MissesOnlyDynamic(policy.rules[i], names)
       /\ \A i \in DOMAIN exceptions : \A c \in DOMAIN exceptions[i].matchConditions :
              MissesOnlyDynamic(exceptions[i].matchConditions[c], names)

\* No variable of a policy reads itself or one behind it.
ReadsNoLater(variables) ==
    \A i, k \in DOMAIN variables : i <= k => variables[k].name \notin Reads(variables[i].expression)
===============================================================================
