----------------------------- MODULE MCExposure -----------------------------
(***************************************************************************)
(* Exposure on a small instance: a tool of two properties, the first with   *)
(* every kind of schema and rule, the second plain; values around the       *)
(* bounds 0, 0.0, 1/2 and 1, and one string. In version 1, tools of two     *)
(* properties and two bindings, and arrays of up to two strings.            *)
(***************************************************************************)
EXTENDS Exposure

CONSTANTS word, \* a pattern
          env   \* a variable that is set

Whole(n) == [kind |-> "integer", size |-> 2 * n, matches |-> {}]
FloatZero == [kind |-> "float", size |-> 0, matches |-> {}]
Half == [kind |-> "float", size |-> 1, matches |-> {}]
Text == [kind |-> "string", size |-> 2, matches |-> {word}]
Values == {Whole(0), Whole(1), FloatZero, Half, Text}

Zero == [kind |-> "string", size |-> 2, matches |-> {Nul}]
List(items) == [kind |-> "array", items |-> items, size |-> 2 * Len(items), matches |-> {}]
Arrays == {List(<<>>), List(<<Text, Zero>>), List(<<Text, Text>>)}
Plain(type) ==
  [type |-> type, low |-> None, high |-> None, enum |-> {}, pattern |-> None]
Texts == [type |-> "array", low |-> None, high |-> Whole(2), enum |-> {}, pattern |-> None,
          items |-> Plain("string")]
Schemas ==
  { Plain("number"), [Plain("number") EXCEPT !.low = Half],
    [Plain("number") EXCEPT !.low = FloatZero],
    [Plain("number") EXCEPT !.low = Whole(0), !.enum = {Whole(1), Half}],
    [Plain("integer") EXCEPT !.high = Whole(0)],
    [Plain("string") EXCEPT !.pattern = word], Plain("unsupported"),
    [Texts EXCEPT !.enum = Arrays, !.items.pattern = word] }
Constraints ==
  { NoConstraint,
    [NoConstraint EXCEPT !.of = "number", !.low = Whole(1)],
    [NoConstraint EXCEPT !.of = "number", !.high = Half],
    [NoConstraint EXCEPT !.enum = {FloatZero, Whole(1)}],
    [NoConstraint EXCEPT !.of = "string", !.low = Whole(2)] }

Partial(first, second) ==
  {f \in [{1} -> first]  : TRUE} \cup {g \in [{2} -> second] : TRUE} \cup {<<>>}
  \cup {h \in [{1, 2} -> first \cup second] : h[1] \in first /\ h[2] \in second}
MCSizes == 0 .. 4
MCPatterns == {word, Nul}
MCNames == {1, 2}
MCDefinitions ==
  { d \in [properties : Partial(Schemas, {Plain("number")}), required : SUBSET MCNames,
           open : BOOLEAN] :
      IF d.open THEN d.required \subseteq {2} ELSE d.required \subseteq DOMAIN d.properties }
Fixed(v) == [Rule("fixed") EXCEPT !.value = v]
V3Rules ==
  {[Rule("expose") EXCEPT !.constraint = c] : c \in Constraints}
  \cup {[Rule("expose") EXCEPT !.required = TRUE]}
  \cup {Fixed(Half), Fixed(Whole(1)), Rule("omit")}
V2Rules ==
  {[Rule("expose") EXCEPT !.constraint = c] : c \in Constraints}
  \cup {Fixed(Half), Fixed(Whole(1))}
Restriction(version, unlisted, rules) ==
  [version |-> version, restricted |-> TRUE, unlisted |-> unlisted, rules |-> rules]
MCExposures ==
  {Restriction(3, u, r) : u \in BOOLEAN, r \in Partial(V3Rules, {Rule("omit"), Rule("expose")})}
  \cup {Restriction(2, FALSE, r) : r \in Partial(V2Rules, {Rule("expose"), Fixed(Whole(1))})}
  \cup {[Restriction(v, FALSE, <<>>) EXCEPT !.restricted = FALSE] : v \in {2, 3}}

MCEnvironment == [e \in {env} |-> Text]
Bind(kind, of) == [kind |-> kind, of |-> of]
Nodes ==
  {Bind("literal", v) : v \in {Text, Zero}} \cup {Bind("environment", env)}
  \cup {Bind(k, of) : k \in {"input", "each"}, of \in {<<>>, <<1>>, <<2>>}}
RawTools ==
  {[version |-> 1, restricted |-> FALSE, target |-> t, invoke |-> i, nodes |-> ns,
    schema |-> [properties |-> properties, required |-> required, open |-> FALSE]] :
     t \in {"cli", "mcp"}, i \in {"cli", "mcp"}, ns \in [{1, 2} -> Nodes],
     properties \in Partial({Plain("number"), Plain("string"), Texts}, {Plain("number")}),
     required \in SUBSET MCNames}
MCPolicies == MCExposures \cup {p \in RawTools : ValidPolicy(p)}
MCArguments == Partial(Values, {Whole(1)}) \cup {<<v, Whole(1)>> : v \in Arrays \cup {Zero}}
=============================================================================
