------------------------------ MODULE Exposure ------------------------------
(***************************************************************************)
(* The policy of one public tool (crates/core/src/lib.rs). Version 1: a     *)
(* schema of its own and bindings of its properties to the arguments of a   *)
(* program or of an upstream tool. Versions 2 and 3: an exposed upstream    *)
(* tool; how a public schema is derived from the upstream's definition and  *)
(* the administrator's restriction, and how it is frozen (version 2) or     *)
(* derived again (version 3). How a call's arguments are validated and      *)
(* rebuilt.                                                                 *)
(*                                                                          *)
(* A property schema has a type, bounds (minimum and maximum of a number,   *)
(* of the length of a string or of an array), an enum and a pattern, and an *)
(* array has a schema of its items. A definition that the schema compiler   *)
(* does not support has an "unsupported" property.                          *)
(***************************************************************************)
EXTENDS Integers, FiniteSets, Sequences
Seqs == INSTANCE SequencesExt

CONSTANTS
  Names,       \* property names
  Policies,    \* what an administrator may write
  Definitions, \* definitions the upstream may list
  Arguments,   \* arguments objects a client may send
  Environment, \* server_environment: the value of each variable that is set
  Sizes,       \* what numbers and lengths there are
  Patterns,    \* what a string may match or not
  Nul,         \* the pattern of a string with a NUL in it
  None,        \* an absent keyword, a blocked tool, a rejected call
  Panic        \* the task of the call dies

NoConstraint == [of |-> "any", low |-> None, high |-> None, enum |-> {}, pattern |-> None]
Rule(how) == [how |-> how, constraint |-> NoConstraint, required |-> FALSE, value |-> None]

VARIABLES
  policy, \* the exposure of the tool
  origin, \* the definition its public schema was derived from
  known,  \* the definition the last discovery returned
  public, \* the public schema: what a call is validated with
  active, \* the tool is in the catalog
  sent    \* the last call: its arguments and what was forwarded

vars == <<policy, origin, known, public, active, sent>>
NoCall == [arguments |-> None, forwarded |-> None]

\* The tool of version 1 is public from the start, with the schema it declares.
Init ==
  /\ policy \in Policies
  /\ origin = None /\ known = None
  /\ public = IF policy.version = 1 THEN policy.schema ELSE None
  /\ active = (policy.version = 1)
  /\ sent = NoCall

-----------------------------------------------------------------------------
(* Values. A number is an integer or a float with "size" twice the number; a *)
(* string has twice its length, and the patterns it matches; an array has    *)
(* twice its length, and its items.                                          *)

Numeric == {"integer", "float"}
Even == {n \in Sizes : n % 2 = 0}
Integer == [kind : {"integer"}, size : Even, matches : {{}}]
Number == Integer \cup [kind : {"float"}, size : Sizes, matches : {{}}]
Scalar == Number \cup [kind : {"string"}, size : Even, matches : SUBSET Patterns]
Datum == Scalar \cup [kind : {"array"}, items : Seq(Scalar), size : Even, matches : {{}}]
IsObject(v) == \E names \in SUBSET Names : v \in [names -> Datum]

Order(a, b) == IF a < b THEN "Less" ELSE IF a > b THEN "Greater" ELSE "Equal"
Reverse(order) ==
  CASE order = "Less" -> "Greater" [] order = "Greater" -> "Less" [] OTHER -> "Equal"
Magnitude(x) == IF x < 0 THEN -x ELSE x

CompareIntegerFloat(i, f) ==
  LET whole == Order(Magnitude(i) \div 2, Magnitude(f) \div 2)
      magnitude == IF whole # "Equal" THEN whole
                   ELSE IF Magnitude(f) % 2 = 0 THEN "Equal" ELSE "Less"
  IN  IF i = 0 THEN Order(f, 0)
      ELSE IF (i < 0) # (f < 0) THEN (IF i < 0 THEN "Less" ELSE "Greater")
      ELSE IF i < 0 THEN Reverse(magnitude) ELSE magnitude

NumericCompare(a, b) ==
  CASE a.kind = "integer" /\ b.kind = "float" -> CompareIntegerFloat(a.size, b.size)
    [] a.kind = "float" /\ b.kind = "integer" -> Reverse(CompareIntegerFloat(b.size, a.size))
    [] OTHER -> Order(a.size, b.size)

ScalarsEqual(a, b) ==
  IF a.kind \in Numeric /\ b.kind \in Numeric THEN NumericCompare(a, b) = "Equal" ELSE a = b
ValuesEqual(a, b) ==
  IF a.kind = "array" /\ b.kind = "array"
  THEN /\ DOMAIN a.items = DOMAIN b.items
       /\ \A i \in DOMAIN a.items : ScalarsEqual(a.items[i], b.items[i])
  ELSE ScalarsEqual(a, b)

\* What a bound is compared with: a number, or the length of a string or an array.
Measure(v) == IF v.kind \in {"string", "array"} THEN [v EXCEPT !.kind = "integer"] ELSE v

\* schema_value_compatible: an integer is what was written as one.
TypeFits(type, v) ==
  CASE type = "integer" -> v.kind = "integer"
    [] type = "number" -> v.kind \in Numeric
    [] type \in {"string", "array"} -> v.kind = type
    [] OTHER -> FALSE

-----------------------------------------------------------------------------
(* Property schemas. *)

\* numeric_bound, usize_value: a bound is a number, and that of a length an integer.
Limit == Number \cup {None}
Length == Integer \cup {None}
Pattern == Patterns \cup {None}
ScalarSchema ==
  [type : {"integer", "number", "unsupported"}, low : Limit, high : Limit, enum : SUBSET Datum,
   pattern : {None}]
  \cup [type : {"string"}, low : Length, high : Length, enum : SUBSET Datum, pattern : Pattern]
ArraySchema ==
  [type : {"array"}, low : Length, high : Length, enum : SUBSET Datum, pattern : {None},
   items : ScalarSchema]
Schema == ScalarSchema \cup ArraySchema
DefinitionOf(names) == [properties : [names -> Schema], required : SUBSET Names, open : BOOLEAN]
IsDefinition(d) == \E names \in SUBSET Names : d \in DefinitionOf(names)

\* validate_restriction_constraint: which keywords there are says what it is of.
Constraint ==
  [of : {"any"}, low : {None}, high : {None}, enum : SUBSET Datum, pattern : {None}]
  \cup [of : {"number"}, low : Limit, high : Limit, enum : SUBSET Datum, pattern : {None}]
  \cup [of : {"string"}, low : Length, high : Length, enum : SUBSET Datum, pattern : Pattern]

\* validate_value, of a value that is no object.
ValidatesOne(s, v) ==
  /\ TypeFits(s.type, v)
  /\ s.enum # {} => \E e \in s.enum : ValuesEqual(e, v)
  /\ s.low # None => NumericCompare(Measure(v), s.low) # "Less"
  /\ s.high # None => NumericCompare(Measure(v), s.high) # "Greater"
  /\ s.pattern # None => s.pattern \in v.matches
Validates(s, v) ==
  /\ ValidatesOne(s, v)
  /\ s.type = "array" => \A i \in DOMAIN v.items : ValidatesOne(s.items, v.items[i])

\* compile_schema_impl, of a property.
Scalars == {"integer", "number", "string"}
Compiles(s) ==
  /\ s.type \in Scalars \cup {"array"}
  /\ s.type = "array" => s.items.type \in Scalars
  /\ s.low # None /\ s.high # None => NumericCompare(s.low, s.high) # "Greater"
  /\ s.type = "integer" => \A b \in {s.low, s.high} \ {None} : b.kind = "integer"
  /\ \A e \in s.enum : TypeFits(s.type, e)
  /\ \A e, f \in s.enum : ValuesEqual(e, f) => e = f

\* canonicalize: in what is made public a zero is the integer 0, however it was written.
ZeroAsInteger(v) ==
  IF v.kind = "float" /\ v.size = 0 THEN [v EXCEPT !.kind = "integer"] ELSE v
CanonicalValue(v) ==
  IF v.kind = "array"
  THEN [v EXCEPT !.items = [i \in DOMAIN v.items |-> ZeroAsInteger(v.items[i])]]
  ELSE ZeroAsInteger(v)
CanonicalBound(b) == IF b = None THEN None ELSE ZeroAsInteger(b)
CanonicalOne(s) ==
  [s EXCEPT !.low = CanonicalBound(@), !.high = CanonicalBound(@),
            !.enum = {CanonicalValue(e) : e \in @}]
Canonical(s) ==
  IF s.type = "array" THEN [CanonicalOne(s) EXCEPT !.items = CanonicalOne(@)]
  ELSE CanonicalOne(s)
CanonicalDefinition(d) ==
  [d EXCEPT !.properties = [n \in DOMAIN d.properties |-> Canonical(d.properties[n])]]

\* Mutant of Tighter: the looser of two bounds is taken.
Looser(wins, ours, theirs) ==
  IF ours = None THEN theirs
  ELSE IF theirs = None \/ NumericCompare(ours, theirs) # wins THEN ours ELSE theirs

\* The bound of a conjunction: ours, if it is the tighter one.
Tighter(wins, ours, theirs) ==
  IF ours = None THEN theirs
  ELSE IF theirs = None \/ NumericCompare(ours, theirs) = wins THEN ours ELSE theirs

\* intersect_property_schema: the schema of what satisfies both, or None. A
\* constraint is "of" numbers or strings when it has a keyword of one of them. Every
\* caller compiles what it is given.
Merged(s, c) ==
  LET common == {e \in s.enum : \E f \in c.enum : ValuesEqual(f, e)}
  IN  [s EXCEPT !.pattern = IF c.pattern # None THEN c.pattern ELSE @,
                !.low = Tighter("Greater", c.low, @),
                !.high = Tighter("Less", c.high, @),
                !.enum = IF c.enum = {} THEN @ ELSE IF @ = {} THEN c.enum ELSE common]
Intersect(s, c) ==
  LET merged == Merged(s, c)
      canonical == Canonical(merged)
  IN  IF /\ s.type # "unsupported"
         /\ c.of = "string" => s.type = "string"
         /\ c.of = "number" => s.type \in {"integer", "number"}
         /\ s.pattern # None /\ c.pattern # None => s.pattern = c.pattern
         /\ c.enum # {} => merged.enum # {}
         /\ Compiles(merged) /\ Compiles(canonical)
      THEN canonical ELSE None

-----------------------------------------------------------------------------
(* Derivation of a public schema. *)

Ruled(p, how) == {n \in DOMAIN p.rules : p.rules[n].how = how}
RuleFor(p, n) ==
  IF n \in DOMAIN p.rules THEN p.rules[n]
  ELSE IF p.unlisted THEN Rule("expose") ELSE Rule("omit")

DefinitionCompiles(d) ==
  /\ d.required \subseteq DOMAIN d.properties
  /\ \A n \in DOMAIN d.properties : Compiles(d.properties[n])

\* Mutant of ExposeConflicts: a rule that conflicts with the upstream is kept.
NoConflict(p, d, n) == FALSE

ExposeConflicts(p, d, n) ==
  RuleFor(p, n).how = "expose" /\ Intersect(d.properties[n], RuleFor(p, n).constraint) = None
FixedIsInvalid(p, d, n) ==
  RuleFor(p, n).how = "fixed" /\ ~Validates(d.properties[n], RuleFor(p, n).value)
OmitsRequired(p, d, n) == RuleFor(p, n).how = "omit" /\ n \in d.required
RequiredOf(p, d, exposed) == {n \in exposed : n \in d.required \/ RuleFor(p, n).required}

\* derive_v3_public_tool, of a restriction. A definition open to other
\* properties is closed by it.
DeriveV3(p, d) ==
  LET exposed == {n \in DOMAIN d.properties : RuleFor(p, n).how = "expose"}
      merged == [n \in exposed |-> Intersect(d.properties[n], RuleFor(p, n).constraint)]
  IN  IF /\ DefinitionCompiles(d) /\ DOMAIN p.rules \subseteq DOMAIN d.properties
         /\ \A n \in DOMAIN d.properties :
              ~ExposeConflicts(p, d, n) /\ ~FixedIsInvalid(p, d, n) /\ ~OmitsRequired(p, d, n)
      THEN [properties |-> merged, required |-> RequiredOf(p, d, exposed), open |-> FALSE]
      ELSE None

\* derive_restricted_public_tool, of a restriction: it differs in that the
\* definition must be closed, and only required properties may be inputs.
DeriveV2(p, d) ==
  IF /\ ~d.open
     /\ d.required \subseteq DOMAIN p.rules
     /\ Ruled(p, "expose") \subseteq d.required
  THEN DeriveV3(p, d) ELSE None

\* Mutant of Compatible: every change of a property is incompatible.
CompatibleIfSame(p, frozen, d) ==
  /\ DOMAIN p.rules \subseteq DOMAIN d.properties
  /\ \A n \in Ruled(p, "expose") : d.properties[n] = frozen.properties[n]

\* restricted_compatibility. (A definition without properties is compatible; here
\* every definition has some, if no more than the empty function.)
Compatible(p, frozen, d) ==
  /\ DOMAIN p.rules \subseteq DOMAIN d.properties
  /\ \A n \in Ruled(p, "fixed") :
       Compiles(d.properties[n]) => Validates(d.properties[n], p.rules[n].value)
  /\ d.required \subseteq DOMAIN p.rules

-----------------------------------------------------------------------------
(* What the validation of a configuration lets through. *)

\* A rule exposes, fixes or omits a property, and does one of the three only.
ValidRule(r) ==
  \/ r.how = "expose" /\ r.value = None
  \/ r.how = "fixed" /\ r = [Rule("fixed") EXCEPT !.value = r.value] /\ r.value # None
  \/ r = Rule("omit")

\* Version 2 has inputs and fixed values, version 3 one rule for a property. No
\* bound is compared here.
ValidExposure(p) ==
  /\ \A n \in DOMAIN p.rules : ValidRule(p.rules[n])
  /\ p.version = 2 => ~p.unlisted /\ \A n \in DOMAIN p.rules :
                         p.rules[n].how # "omit" /\ ~p.rules[n].required
  /\ ~p.restricted => DOMAIN p.rules = {}

\* Mutant of StrictlyCompiles: properties may be optional.
CompilesOptional(d) == DefinitionCompiles(d) /\ ~d.open

\* compile_schema: every property is required.
StrictlyCompiles(d) ==
  DefinitionCompiles(d) /\ ~d.open /\ d.required = DOMAIN d.properties

\* schema_at_pointer: the empty pointer is the whole input.
SchemaAt(d, pointer) ==
  CASE pointer = <<>> -> [type |-> "object"]
    [] Len(pointer) = 1 /\ pointer[1] \in DOMAIN d.properties -> d.properties[pointer[1]]
    [] OTHER -> None

\* compile_bindings, compile_mcp_binding: an argument of a program is a scalar, an
\* argument of an upstream tool is any value.
BindingCompiles(p, node) ==
  LET s == SchemaAt(p.schema, node.of) IN
  CASE node.kind = "literal" -> IF node.of.kind = "string" THEN Nul \notin node.of.matches
                                ELSE p.invoke = "mcp"
    [] node.kind = "input" -> s # None /\ (p.invoke = "cli" => s.type \in Scalars)
    [] node.kind = "each" -> /\ p.invoke = "cli" /\ s # None
                             /\ s.type = "array" /\ s.items.type \in Scalars
    [] node.kind = "environment" -> p.invoke = "mcp" /\ node.of \in DOMAIN Environment

\* That a tool which invokes a program has a target that is one is not looked at.
ValidTool(p) ==
  /\ p.target \in {"cli", "mcp"} /\ (p.invoke = "mcp" => p.target = "mcp")
  /\ StrictlyCompiles(p.schema)
  /\ \A k \in DOMAIN p.nodes : BindingCompiles(p, p.nodes[k])

ValidPolicy(p) ==
  /\ p.version \in 1 .. 3
  /\ IF p.version = 1 THEN ValidTool(p) /\ ~p.restricted ELSE ValidExposure(p)

RuleType ==
  [how : {"expose", "fixed", "omit"}, constraint : Constraint, required : BOOLEAN,
   value : Datum \cup {None}]
Node ==
  [kind : {"literal"}, of : Datum] \cup [kind : {"environment"}, of : DOMAIN Environment]
  \cup [kind : {"input", "each"}, of : Seq(Names)]
PolicyOf(names) ==
  [version : {1}, restricted : BOOLEAN, target : {"cli", "mcp"}, invoke : {"cli", "mcp"},
   nodes : Seq(Node), schema : DefinitionOf(names)]
  \cup [version : {2, 3}, restricted : BOOLEAN, unlisted : BOOLEAN, rules : [names -> RuleType]]
IsPolicy(p) == \E names \in SUBSET Names : p \in PolicyOf(names)

\* Configurations, definitions and arguments are of their types, and None and Panic of none.
ASSUME PolicyAssumption == \A p \in Policies : IsPolicy(p) /\ ValidPolicy(p)
ASSUME DataAssumption ==
  /\ Sizes \subseteq Int
  /\ \A d \in Definitions : IsDefinition(d)
  /\ \A arguments \in Arguments : IsObject(arguments)
  /\ \A e \in DOMAIN Environment : Environment[e] \in Scalar
  /\ None \notin Datum \cup Schema \cup Patterns /\ ~IsDefinition(None) /\ ~IsObject(None)
  /\ None \notin Seq(Datum \cup Arguments) /\ Panic \notin Seq(Datum \cup Arguments)

TypeOK ==
  /\ IsPolicy(policy) /\ ValidPolicy(policy)
  /\ origin \in Definitions \cup {None} /\ known \in Definitions \cup {None}
  /\ public # None =>
       /\ IsDefinition(public)
       /\ policy.restricted => public.required \subseteq DOMAIN public.properties
  /\ active \in BOOLEAN
  /\ sent.arguments \in Arguments \cup {None}
  /\ policy.version # 1 => sent.forwarded = None \/ IsObject(sent.forwarded)

-----------------------------------------------------------------------------
(* Calls. *)

\* validate_input.
Accepts(s, arguments) ==
  /\ s.required \subseteq DOMAIN arguments
  /\ DOMAIN arguments \subseteq DOMAIN s.properties
  /\ \A n \in DOMAIN arguments : Validates(s.properties[n], arguments[n])

\* The arguments without what is not public, and the fixed values.
WithFixed(p, s, arguments) ==
  [n \in (DOMAIN arguments \cap DOMAIN s.properties) \cup Ruled(p, "fixed") |->
     IF n \in Ruled(p, "fixed") THEN p.rules[n].value ELSE arguments[n]]

\* resolve_v3_mcp: a proxy forwards what it was given.
ResolveV3(p, s, arguments) ==
  IF ~p.restricted THEN arguments
  ELSE IF Accepts(s, arguments) THEN WithFixed(p, s, arguments) ELSE None

\* resolve_v2_mcp: the frozen schema must fit the restriction, and the
\* constraints are enforced once more.
ResolveV2(p, s, arguments) ==
  IF ~p.restricted THEN arguments
  ELSE IF /\ Accepts(s, arguments)
          /\ DOMAIN s.properties = Ruled(p, "expose")
          /\ \A n \in DOMAIN arguments :
               LET constrained == Intersect(s.properties[n], p.rules[n].constraint)
               IN  constrained # None /\ Validates(constrained, arguments[n])
       THEN WithFixed(p, s, arguments) ELSE None

\* value_at, value_to_arg: a zero of any kind becomes the argument 0.
ValueAt(pointer, arguments) ==
  CASE pointer = <<>> -> arguments
    [] pointer # <<>> /\ pointer[1] \in DOMAIN arguments -> arguments[pointer[1]]
    [] OTHER -> None
Argument(v) == ZeroAsInteger(v)

\* The value of a binding of an upstream argument; a literal is made canonical when
\* the configuration is read.
Bound(node, arguments) ==
  CASE node.kind = "literal" -> CanonicalValue(node.of)
    [] node.kind = "environment" -> Environment[node.of]
    [] OTHER -> ValueAt(node.of, arguments)
\* The arguments of a program that a node of argv stands for.
Expanded(node, arguments) ==
  CASE node.kind = "literal" -> <<node.of>>
    [] node.kind = "input" -> <<Argument(ValueAt(node.of, arguments))>>
    [] node.kind = "each" -> LET array == ValueAt(node.of, arguments).items
                             IN  [i \in DOMAIN array |-> Argument(array[i])]

\* resolve_cli: what is not there is unwrapped, and the task panics.
ResolveCli(p, arguments) ==
  LET missing == {k \in DOMAIN p.nodes : p.nodes[k].kind # "literal" /\
                                          ValueAt(p.nodes[k].of, arguments) = None}
      argv == Seqs!FlattenSeq([k \in DOMAIN p.nodes |-> Expanded(p.nodes[k], arguments)])
  IN  CASE p.target # "cli" -> None
        [] p.target = "cli" /\ missing # {} -> Panic
        [] OTHER -> IF \E i \in DOMAIN argv : Nul \in argv[i].matches THEN None ELSE argv

\* resolve_mcp
ResolveMcp(p, arguments) ==
  LET values == [k \in DOMAIN p.nodes |-> Bound(p.nodes[k], arguments)]
  IN  IF \E k \in DOMAIN values : values[k] = None THEN None ELSE values

ResolveV1(p, s, arguments) ==
  IF ~Accepts(s, arguments) THEN None
  ELSE IF p.invoke = "mcp" THEN ResolveMcp(p, arguments) ELSE ResolveCli(p, arguments)

Resolve(p, s, arguments) ==
  CASE p.version = 1 -> ResolveV1(p, s, arguments)
    [] p.version = 2 -> ResolveV2(p, s, arguments)
    [] p.version = 3 -> ResolveV3(p, s, arguments)

-----------------------------------------------------------------------------
(* A discovery returns a definition; the catalog projects it. *)

\* projected_tool of version 2: the first schema derived is kept, and a later
\* definition only decides whether it is in the catalog.
Freeze(d) ==
  /\ policy.version = 2 /\ policy.restricted
  /\ IF public = None
     THEN /\ public' = DeriveV2(policy, d)
          /\ origin' = d
          /\ active' = (public' # None)
     ELSE active' = Compatible(policy, public, d) /\ UNCHANGED <<public, origin>>

Project(d) ==
  /\ policy.version = 3 \/ (policy.version = 2 /\ ~policy.restricted)
  /\ public' = IF policy.restricted THEN DeriveV3(policy, d) ELSE CanonicalDefinition(d)
  /\ origin' = d
  /\ active' = (public' # None)

Discover(d) ==
  /\ Freeze(d) \/ Project(d)
  /\ known' = d
  /\ sent' = NoCall
  /\ UNCHANGED policy

Call(arguments) ==
  /\ active /\ sent = NoCall
  /\ sent' = [arguments |-> arguments, forwarded |-> Resolve(policy, public, arguments)]
  /\ UNCHANGED <<policy, origin, known, public, active>>

Next ==
  \/ \E d \in Definitions : Discover(d)
  \/ \E arguments \in Arguments : Call(arguments)

Spec == Init /\ [][Next]_vars

-----------------------------------------------------------------------------
(* What JSON Schema says of values, with the order of the numbers; a whole number  *)
(* is an integer, however it is written.                                           *)

IsOf(type, v) ==
  IF type = "integer" THEN v.kind \in Numeric /\ v.size % 2 = 0 ELSE TypeFits(type, v)
SameScalar(a, b) == a = b \/ ({a.kind, b.kind} \subseteq Numeric /\ a.size = b.size)
Same(a, b) ==
  \/ SameScalar(a, b)
  \/ /\ a.kind = "array" /\ b.kind = "array" /\ DOMAIN a.items = DOMAIN b.items
     /\ \A i \in DOMAIN a.items : SameScalar(a.items[i], b.items[i])
MeetsBounds(s, v) ==
  /\ s.enum # {} => \E e \in s.enum : Same(e, v)
  /\ s.low # None => v.size >= s.low.size
  /\ s.high # None => v.size <= s.high.size
  /\ s.pattern # None => s.pattern \in v.matches
MeetsOne(s, v) == IsOf(s.type, v) /\ MeetsBounds(s, v)
Meets(s, v) ==
  \/ s.type = "unsupported"
  \/ /\ MeetsOne(s, v)
     /\ s.type = "array" /\ s.items.type # "unsupported" =>
          \A i \in DOMAIN v.items : MeetsOne(s.items, v.items[i])
\* The upstream may accept the arguments, as far as its definition tells.
MayAccept(d, arguments) ==
  /\ d.required \subseteq DOMAIN arguments
  /\ d.open \/ DOMAIN arguments \subseteq DOMAIN d.properties
  /\ \A n \in DOMAIN arguments \cap DOMAIN d.properties : Meets(d.properties[n], arguments[n])
\* The restriction allows what is forwarded.
Allowed(p, forwarded) ==
  /\ Ruled(p, "fixed") \subseteq DOMAIN forwarded
  /\ \A n \in DOMAIN forwarded :
       /\ RuleFor(p, n).how # "omit"
       /\ RuleFor(p, n).how = "fixed" => forwarded[n] = p.rules[n].value
       /\ RuleFor(p, n).how = "expose" => MeetsBounds(RuleFor(p, n).constraint, forwarded[n])
  /\ \A n \in DOMAIN p.rules : p.rules[n].required => n \in DOMAIN forwarded

HasNul(v) ==
  IF v.kind = "array" THEN \E i \in DOMAIN v.items : Nul \in v.items[i].matches
  ELSE Nul \in v.matches

\* The numbers that are compared for a property, or for the items of its value; the
\* comparison of the integer 0 with a float other than 0 comes out reversed
\* (ConjunctionEnforced), and a bound of 0.0 is the integer 0 once it is public.
BoundsOf(s) == {CanonicalBound(s.low), CanonicalBound(s.high)}
Compared(p, d, forwarded, n) ==
  (IF n \in DOMAIN d.properties THEN BoundsOf(d.properties[n]) ELSE {})
  \cup BoundsOf(RuleFor(p, n).constraint)
  \cup (IF n \in DOMAIN forwarded THEN {forwarded[n]} ELSE {})
ComparedItems(d, forwarded, n) ==
  (IF n \in DOMAIN d.properties /\ d.properties[n].type = "array"
   THEN BoundsOf(d.properties[n].items) ELSE {})
  \cup (IF n \in DOMAIN forwarded /\ forwarded[n].kind = "array"
        THEN {forwarded[n].items[i] : i \in DOMAIN forwarded[n].items} ELSE {})
Mixed(S) ==
  \E a, b \in S \ {None} :
    a.kind = "integer" /\ a.size = 0 /\ b.kind = "float" /\ b.size # 0
ZeroWithFloat(p, d, forwarded) ==
  \E n \in Names : Mixed(Compared(p, d, forwarded, n)) \/ Mixed(ComparedItems(d, forwarded, n))

\* A float is given for an integer: the code refuses it, a whole one too.
GivenFloat(s, v) ==
  \/ s.type = "integer" /\ v.kind = "float"
  \/ /\ s.type = "array" /\ s.items.type = "integer" /\ v.kind = "array"
     /\ \E i \in DOMAIN v.items : v.items[i].kind = "float"
FloatForInteger(d, forwarded) ==
  \E n \in DOMAIN forwarded \cap DOMAIN d.properties :
    GivenFloat(d.properties[n], forwarded[n])

-----------------------------------------------------------------------------
(* Properties. *)

Restricted == policy.restricted /\ sent.arguments # None
Forwarded == Restricted /\ sent.forwarded # None
Sound == Forwarded => ~ZeroWithFloat(policy, origin, sent.forwarded)

\* What a call forwards is what the administrator allowed and the upstream may
\* accept. Of a restriction: every constraint holds, fixed values are the
\* administrator's, nothing omitted or unlisted is sent, whatever the definition
\* says and, in version 2, however it changed since; and it satisfies the
\* definition that the public schema was derived from. Of a program: an argument
\* before the first "each", or after the last, is at its own place, whatever the
\* input holds.
Value(node, arguments) ==
  IF node.kind = "literal" THEN node.of ELSE arguments[node.of[1]]
AtItsPlace(node, argument, arguments) ==
  argument.size = Value(node, arguments).size /\ argument.matches = Value(node, arguments).matches
PlacesKept(nodes, argv, arguments) ==
  \A k \in DOMAIN nodes :
    /\ (\A j \in 1 .. k : nodes[j].kind # "each") => AtItsPlace(nodes[k], argv[k], arguments)
    /\ (\A j \in k .. Len(nodes) : nodes[j].kind # "each") =>
         AtItsPlace(nodes[k], argv[Len(argv) - (Len(nodes) - k)], arguments)
RestrictionEnforced ==
  /\ Forwarded /\ Sound => Allowed(policy, sent.forwarded) /\ MayAccept(origin, sent.forwarded)
  /\ policy.version = 1 /\ sent.forwarded \notin {None, Panic} /\ policy.invoke = "cli" =>
       PlacesKept(policy.nodes, sent.forwarded, sent.arguments)

\* Nothing else is rejected. Of a restriction: arguments of exposed properties that
\* it allows and the upstream accepts are forwarded, but for a float where an integer
\* is asked for. Of version 1: no input that the
\* public schema accepts is refused, or ends the task, because of a binding; except
\* for a NUL, and for a tool whose target is not of the kind it invokes, which the
\* validation of the configuration lets through.
NothingElseRejected ==
  /\ Restricted /\ sent.forwarded = None =>
       LET arguments == sent.arguments
           whole == WithFixed(policy, [properties |-> arguments], arguments)
       IN  \/ ZeroWithFloat(policy, origin, arguments) \/ FloatForInteger(origin, arguments)
           \/ \E n \in DOMAIN arguments :
                n \notin DOMAIN origin.properties \/ RuleFor(policy, n).how # "expose"
           \/ ~Allowed(policy, whole) \/ ~MayAccept(origin, whole)
  /\ policy.version = 1 /\ sent.arguments # None /\ sent.forwarded \in {None, Panic} =>
       \/ ~Accepts(public, sent.arguments)
       \/ sent.forwarded = None /\ policy.invoke = "cli" /\
            (policy.target # "cli" \/ \E n \in DOMAIN sent.arguments : HasNul(sent.arguments[n]))

\* A frozen restriction leaves the catalog only when no call can succeed any more
\* (but for a float where an integer is asked for now).
\* (A property that is gone from an open definition may still be accepted: the code
\* takes the tool down, and so does docs/mcp-exposure-design.md.)
TombstoneIsDefinite ==
  policy.version = 2 /\ policy.restricted /\ public # None /\ ~active =>
    \/ known.open
    \/ \A arguments \in Arguments :
         LET forwarded == Resolve(policy, public, arguments)
         IN  forwarded # None =>
               \/ ~MayAccept(known, forwarded)
               \/ ZeroWithFloat(policy, known, forwarded) \/ FloatForInteger(known, forwarded)

\* docs/mcp-exposure-v3-design.md on the public schema and the validator: both the
\* upstream's schema and the local constraints hold of what is forwarded.
ConjunctionEnforced ==
  Forwarded => Allowed(policy, sent.forwarded) /\ MayAccept(origin, sent.forwarded)
=============================================================================
