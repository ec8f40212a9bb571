---------------------------- MODULE MCPolicyLoading ----------------------------
(* PolicyLoading on small trees and on many policies in one file, for TLC. *)
EXTENDS PolicyLoading

Entry(dir, name, ext) == [dir |-> dir, name |-> name, ext |-> ext]
Order == <<Entry(".", "a", "yaml"), Entry(".", "b", "json"), Entry(".", "readme", "txt"),
           Entry(".", "sub", "dir"), Entry("sub", "a", "yaml"), Entry("sub", "c", "yaml")>>

Policy(name, mode, conditions, variables, rules) ==
    [kind |-> "ValidatingPolicy", name |-> name, mode |-> mode,
     matchConditions |-> conditions, variables |-> variables, rules |-> rules]
Exception(mode, refs, conditions) ==
    [kind |-> "PolicyException", name |-> "x", mode |-> mode, refs |-> refs,
     matchConditions |-> conditions]
Broken == [kind |-> "broken"]
Typed(type, uses) == Expression(type, uses, {})
Dynamic(type, selected) == Expression(type, {}, selected)
Named(name, expression) == [name |-> name, expression |-> expression]
Variable(name, type, uses) == Named(name, Typed(type, uses))

Allow == Typed("http.CheckResponse", {})
P == Policy("p", "HTTP", <<>>, <<Variable("x", "bool", {})>>, <<Allow>>)
Q == Policy("q", "HTTP", <<>>, <<>>, <<Typed(Ill, {})>>)
R == Policy("r", "Envoy", <<>>, <<Variable("x", "dyn", {})>>, <<Typed("null", {"x"})>>)
E == Exception("HTTP", {"p"}, <<Typed("bool", {"x"})>>)
Unclear == Exception("HTTP", {"p"}, <<Typed("dyn", {})>>)

S == Policy("s", "Kubernetes", <<>>, <<>>, <<>>)
Forward ==
    Policy("p", "HTTP", <<Typed("bool", {"x"})>>, <<Variable("x", "bool", {})>>, <<Allow>>)
Clustered == {P, Q, Forward, S}
Exempting == {E, Unclear}

Heads == {Absent, Unreadable} \cup {File(docs) : docs \in BoundedSeq({P, Q, R, E, Broken}, 2)}
Single == {Absent, Unreadable, File(<<P>>), File(<<R>>), File(<<Broken>>)}

\* Two files of one document each at most, but for the one at the front.
Tree(a, b, subA, subC) ==
    [e \in Entries |-> CASE e = Order[1] -> a [] e = Order[2] -> b
                         [] e = Order[5] -> subA [] e = Order[6] -> subC
                         [] OTHER -> File(<<P>>)]

\* Policies of every kind the compiler tells apart.
Bodies ==
    {Policy("p", mode, conditions, variables, rules) :
        mode \in {"HTTP", "Envoy", "Kubernetes"},
        conditions \in {<<>>, <<Typed("bool", {})>>, <<Typed("bool", {"x"})>>,
                        <<Dynamic("bool", {"x"})>>, <<Typed("bool", {}), Typed("dyn", {})>>},
        variables \in {<<>>, <<Variable("x", Ill, {})>>} \cup
            {<<Variable("x", "bool", used)>> : used \in SUBSET {"x"}} \cup
            {<<Named("x", Dynamic("dyn", selected))>> : selected \in {{"x"}, {"y"}}} \cup
            {<<Named("x", Dynamic("dyn", {"y"})), Variable("y", "bool", {"x"})>>} \cup
            {<<Variable("x", "bool", used), Variable("y", "dyn", needed)>> :
                used, needed \in SUBSET {"x", "y"}},
        rules \in {<<>>, <<Allow>>, <<Typed("envoy.CheckResponse", {"y"})>>,
                   <<Typed("null", {"x"}), Typed(Ill, {})>>}}

AllDocuments == {P, Q, R, E, Broken} \cup Bodies

OneFile(docs) == [scheme |-> "file", tree |-> Tree(File(docs), Absent, Absent, Absent)]

Lists ==
    {<<[scheme |-> "file", tree |-> Tree(a, b, subA, subC)]>> :
        a \in Heads, b \in Single, subA, subC \in {Absent, File(<<P>>)}}
    \cup {<<OneFile(<<body>>)>> : body \in Bodies}
    \cup {<<[OneFile(<<P, one>>) EXCEPT !.scheme = "oci"], OneFile(<<R, two>>)>> :
            one, two \in {P, Q}}
===============================================================================
