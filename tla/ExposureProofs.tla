--------------------------- MODULE ExposureProofs ---------------------------
(***************************************************************************)
(* What Exposure guarantees for any property names, configurations that its  *)
(* validation lets through, definitions and arguments.                       *)
(*                                                                          *)
(* The code compares numbers by halves and signs, intersects a schema with a *)
(* constraint keyword by keyword and flattens the nodes of argv; the         *)
(* reference says what JSON Schema means, with the order of the numbers. The *)
(* lemmas go from the one to the other: comparison and equality (Compares,   *)
(* EqualsAreSame), one value (ValidatesIsMeets), one intersection            *)
(* (Conjunction), a whole restriction both ways (OnlyAllowed, AllAllowed,    *)
(* Incompatible), the bindings of a tool (McpResolves, CliResolves). The     *)
(* inductive invariant says where the public schema comes from               *)
(* (PublicIsDerived) and what the last call was resolved with                *)
(* (CallIsResolved).                                                         *)
(***************************************************************************)
EXTENDS Exposure, SequenceTheorems, WellFoundedInduction, TLAPS

-----------------------------------------------------------------------------
(* Numbers. *)

\* Reverse is the order the other way round.
LEMMA Orders == \A a, b \in Int : Reverse(Order(a, b)) = Order(b, a)
  BY DEF Reverse, Order

\* Two numbers, of which one is a whole (its double is even), compare as their wholes do, and
\* where these are equal as the fraction of the other says.
LEMMA Halves ==
  ASSUME NEW m \in Int, m >= 0, m % 2 = 0, NEW n \in Int, n >= 0
  PROVE  /\ (m \div 2 < n \div 2) => m < n
         /\ (m \div 2 > n \div 2) => m > n
         /\ (m \div 2 = n \div 2 /\ n % 2 = 0) => m = n
         /\ (m \div 2 = n \div 2 /\ n % 2 # 0) => m < n
  OBVIOUS

\* CompareIntegerFloat is the order of the numbers; but that of the integer 0 and another float
\* is the other way round.
LEMMA CompareWhole ==
  ASSUME NEW i \in Int, i % 2 = 0, NEW f \in Int
  PROVE  /\ CompareIntegerFloat(i, f) = "Equal" <=> i = f
         /\ ~(i = 0 /\ f # 0) => CompareIntegerFloat(i, f) = Order(i, f)
<1>. DEFINE m == Magnitude(i)
            n == Magnitude(f)
            order == IF Order(m \div 2, n \div 2) # "Equal" THEN Order(m \div 2, n \div 2)
                     ELSE IF n % 2 = 0 THEN "Equal" ELSE "Less"
<1>1. m \in Int /\ m >= 0 /\ m % 2 = 0 /\ n \in Int /\ n >= 0  BY DEF Magnitude
<1>2. order = Order(m, n)
  BY <1>1, Halves DEF Order
<1>3. CompareIntegerFloat(i, f) =
        IF i = 0 THEN Order(f, 0)
        ELSE IF (i < 0) # (f < 0) THEN (IF i < 0 THEN "Less" ELSE "Greater")
        ELSE IF i < 0 THEN Reverse(order) ELSE order
  BY DEF CompareIntegerFloat
<1>. HIDE DEF order
<1>4. CASE i = 0  BY <1>3, <1>4 DEF Order
<1>5. CASE i # 0 /\ ((i < 0) # (f < 0))  BY <1>3, <1>5 DEF Order
<1>6. CASE i > 0 /\ f >= 0
  <2>1. m = i /\ n = f  BY <1>6 DEF Magnitude
  <2>. QED  BY <1>2, <1>3, <1>6, <2>1 DEF Order
<1>7. CASE i < 0 /\ f < 0
  <2>1. m = -i /\ n = -f  BY <1>7 DEF Magnitude
  <2>2. Reverse(Order(m, n)) = Order(i, f)  BY <1>7, <2>1 DEF Order, Reverse
  <2>. QED  BY <1>2, <1>3, <1>7, <2>2 DEF Order
<1>. QED  BY <1>4, <1>5, <1>6, <1>7

\* What a value of each kind is.
LEMMA Data ==
  /\ None \notin Datum /\ None \notin Number /\ None \notin Schema /\ None \notin Patterns
  /\ \A v \in Number : /\ v.kind \in Numeric /\ v.size \in Int
                       /\ v.kind = "integer" => v.size % 2 = 0
  /\ \A v \in Integer : v \in Number /\ v.kind = "integer"
  /\ \A v \in Number : v \in Scalar
  /\ \A v \in Scalar : /\ v \in Datum /\ v.kind \in {"integer", "float", "string"} /\ v.size \in Int
                       /\ (v.kind \in Numeric => v \in Number)
  /\ \A v \in Datum : v.size \in Int /\ (v.kind = "array" \/ v \in Scalar)
  /\ \A v \in Datum : v.kind = "array" =>
       v.items \in Seq(Scalar) /\ \A i \in DOMAIN v.items : v.items[i] \in Scalar
<1>1. /\ Sizes \subseteq Int /\ None \notin Datum \cup Schema \cup Patterns
  BY DataAssumption
<1>2. \A n \in Even : n \in Int /\ n \in Sizes /\ n % 2 = 0  BY <1>1 DEF Even
<1>3. \A v \in Integer : v.kind = "integer" /\ v.size \in Even  BY DEF Integer
<1>4. \A v \in Number : /\ v.kind \in Numeric /\ v.size \in Int
                        /\ v.kind = "integer" => v.size % 2 = 0
  <2>1. \A v \in [kind : {"float"}, size : Sizes, matches : {{}}] :
          v.kind = "float" /\ v.size \in Int
    BY <1>1
  <2>. QED  BY <1>2, <1>3, <2>1 DEF Number, Numeric
<1>5. \A v \in [kind : {"string"}, size : Even, matches : SUBSET Patterns] :
        v.kind = "string" /\ v.size \in Int
  BY <1>2
<1>6. \A v \in Scalar : v.kind \in {"integer", "float", "string"} /\ v.size \in Int
                        /\ (v.kind \in Numeric => v \in Number)
  BY <1>4, <1>5 DEF Scalar, Numeric
<1>7. \A v \in [kind : {"array"}, items : Seq(Scalar), size : Even, matches : {{}}] :
        v.kind = "array" /\ v.size \in Int /\ v.items \in Seq(Scalar)
  BY <1>2
<1>8. \A s \in Seq(Scalar) : \A i \in DOMAIN s : s[i] \in Scalar  OBVIOUS
<1>. QED  BY <1>1, <1>3, <1>4, <1>6, <1>7, <1>8 DEF Datum, Scalar, Number

\* Two numbers are equal if they are as big; and compared by how big they are, unless one is
\* the integer 0 and the other a float.
LEMMA Compares ==
  ASSUME NEW a \in Number, NEW b \in Number
  PROVE  /\ NumericCompare(a, b) = "Equal" <=> a.size = b.size
         /\ ~Mixed({a, b}) => NumericCompare(a, b) = Order(a.size, b.size)
<1>1. /\ a.kind \in Numeric /\ a.size \in Int /\ (a.kind = "integer" => a.size % 2 = 0)
      /\ b.kind \in Numeric /\ b.size \in Int /\ (b.kind = "integer" => b.size % 2 = 0)
      /\ a # None /\ b # None
  BY Data
<1>2. ~Mixed({a, b}) =>
        /\ ~(a.kind = "integer" /\ a.size = 0 /\ b.kind = "float" /\ b.size # 0)
        /\ ~(b.kind = "integer" /\ b.size = 0 /\ a.kind = "float" /\ a.size # 0)
  BY <1>1 DEF Mixed
<1>3. CASE a.kind = "integer" /\ b.kind = "float"
  <2>1. NumericCompare(a, b) = CompareIntegerFloat(a.size, b.size)  BY <1>3 DEF NumericCompare
  <2>. QED  BY <1>1, <1>2, <1>3, <2>1, CompareWhole
<1>4. CASE a.kind = "float" /\ b.kind = "integer"
  <2>1. NumericCompare(a, b) = Reverse(CompareIntegerFloat(b.size, a.size))
    BY <1>4 DEF NumericCompare
  <2>2. \A o : Reverse(o) = "Equal" <=> o \notin {"Less", "Greater"}  BY DEF Reverse
  <2>3. CompareIntegerFloat(b.size, a.size) \in {"Less", "Greater", "Equal"}
    BY DEF CompareIntegerFloat, Order, Reverse
  <2>4. CompareIntegerFloat(b.size, a.size) = "Equal" <=> b.size = a.size
    BY <1>1, <1>4, CompareWhole
  <2>5. NumericCompare(a, b) = "Equal" <=> a.size = b.size  BY <2>1, <2>2, <2>3, <2>4
  <2>6. ~Mixed({a, b}) => CompareIntegerFloat(b.size, a.size) = Order(b.size, a.size)
    BY <1>1, <1>2, <1>4, CompareWhole
  <2>. QED  BY <1>1, <2>1, <2>5, <2>6, Orders
<1>5. CASE a.kind = b.kind
  <2>1. NumericCompare(a, b) = Order(a.size, b.size)
    BY <1>1, <1>5 DEF NumericCompare, Numeric
  <2>2. Order(a.size, b.size) = "Equal" <=> a.size = b.size  BY <1>1 DEF Order
  <2>. QED  BY <2>1, <2>2
<1>. QED  BY <1>1, <1>3, <1>4, <1>5 DEF Numeric

\* Fewer values are compared.
LEMMA LessMixed ==
  ASSUME NEW S, NEW T, S \subseteq T, Mixed(S)
  PROVE  Mixed(T)
BY DEF Mixed

\* A canonical value is a value of the same size, and matches the same.
LEMMA Zeros ==
  ASSUME NEW v \in Scalar
  PROVE  /\ ZeroAsInteger(v) \in Scalar
         /\ ZeroAsInteger(v).size = v.size /\ ZeroAsInteger(v).matches = v.matches
         /\ v \in Number => ZeroAsInteger(v) \in Number
         /\ ~(v.kind = "float" /\ v.size = 0) => ZeroAsInteger(v) = v
         /\ ~(ZeroAsInteger(v).kind = "float" /\ ZeroAsInteger(v).size = 0)
<1>1. CASE v.kind = "float" /\ v.size = 0
  <2>1. ZeroAsInteger(v) = [v EXCEPT !.kind = "integer"]  BY <1>1 DEF ZeroAsInteger
  <2>2. v \in Number  BY <1>1, Data DEF Numeric
  <2>3. v.size \in Sizes /\ v.size % 2 = 0 /\ v.matches = {}
    BY <1>1, <2>2 DEF Number, Integer, Even
  <2>4. v = [kind |-> v.kind, size |-> v.size, matches |-> v.matches]
    BY <2>2 DEF Number, Integer
  <2>5. ZeroAsInteger(v) = [kind |-> "integer", size |-> v.size, matches |-> {}]
    BY <2>1, <2>3, <2>4
  <2>6. v.size \in Even  BY <2>3 DEF Even
  <2>7. ZeroAsInteger(v) \in Integer  BY <2>5, <2>6 DEF Integer
  <2>. QED  BY <1>1, <2>3, <2>5, <2>7, Data
<1>2. CASE ~(v.kind = "float" /\ v.size = 0)  BY <1>2 DEF ZeroAsInteger
<1>. QED  BY <1>1, <1>2

\* A canonical bound is of the same sort, and as big; a length is canonical.
LEMMA CanonicalBounds ==
  ASSUME NEW b \in Limit
  PROVE  /\ CanonicalBound(b) \in Limit
         /\ CanonicalBound(b) = None <=> b = None
         /\ b # None => b.size \in Int /\ CanonicalBound(b).size = b.size
         /\ b \in Length => CanonicalBound(b) = b
         /\ CanonicalBound(CanonicalBound(b)) = CanonicalBound(b)
         /\ b # None /\ ~(b.kind = "float" /\ b.size = 0) => CanonicalBound(b) = b
<1>1. CASE b = None  BY <1>1 DEF CanonicalBound, Limit
<1>2. CASE b # None
  <2>1. b \in Number /\ b \in Scalar /\ b.size \in Int  BY <1>2, Data DEF Limit
  <2>2. /\ CanonicalBound(b) = ZeroAsInteger(b) /\ ZeroAsInteger(b) \in Number
        /\ ZeroAsInteger(b).size = b.size
    BY <1>2, <2>1, Zeros DEF CanonicalBound
  <2>3. ZeroAsInteger(b) # None  BY <2>2, Data
  <2>4. b \in Length => b.kind = "integer"  BY <1>2, Data DEF Length
  <2>5. ~(b.kind = "float" /\ b.size = 0) => ZeroAsInteger(b) = b  BY <2>1, Zeros
  <2>6. ZeroAsInteger(ZeroAsInteger(b)) = ZeroAsInteger(b)
    <3>1. ZeroAsInteger(b) \in Scalar  BY <2>1, Zeros
    <3>2. ~(ZeroAsInteger(b).kind = "float" /\ ZeroAsInteger(b).size = 0)  BY <2>1, Zeros
    <3>. QED  BY <3>1, <3>2, Zeros
  <2>7. CanonicalBound(ZeroAsInteger(b)) = ZeroAsInteger(ZeroAsInteger(b))
    BY <2>3 DEF CanonicalBound
  <2>. QED  BY <1>2, <2>1, <2>2, <2>3, <2>4, <2>5, <2>6, <2>7 DEF Limit
<1>. QED  BY <1>1, <1>2

\* Bounds that are compared in order when they are canonical, are so as they are written.
LEMMA WrittenInOrder ==
  ASSUME NEW B \in SUBSET Limit, NEW V, Mixed(B \cup V)
  PROVE  Mixed({CanonicalBound(b) : b \in B} \cup V)
<1>1. PICK a \in (B \cup V) \ {None}, b \in (B \cup V) \ {None} :
        a.kind = "integer" /\ a.size = 0 /\ b.kind = "float" /\ b.size # 0
  BY DEF Mixed
<1>2. a \in B => CanonicalBound(a) = a  BY <1>1, CanonicalBounds
<1>3. b \in B => CanonicalBound(b) = b  BY <1>1, CanonicalBounds
<1>4. a \in {CanonicalBound(x) : x \in B} \cup V /\ b \in {CanonicalBound(x) : x \in B} \cup V
  BY <1>1, <1>2, <1>3
<1>. QED  BY <1>1, <1>4 DEF Mixed

\* The code's equality of values is that of JSON Schema.
LEMMA EqualsAreSame ==
  ASSUME NEW a \in Datum, NEW b \in Datum
  PROVE  ValuesEqual(a, b) <=> Same(a, b)
<1>1. \A x, y \in Scalar : ScalarsEqual(x, y) <=> SameScalar(x, y)
  <2>. SUFFICES ASSUME NEW x \in Scalar, NEW y \in Scalar
                PROVE  ScalarsEqual(x, y) <=> SameScalar(x, y)
    OBVIOUS
  <2>1. CASE x.kind \in Numeric /\ y.kind \in Numeric
    <3>1. NumericCompare(x, y) = "Equal" <=> x.size = y.size  BY <2>1, Data, Compares
    <3>. QED  BY <2>1, <3>1 DEF ScalarsEqual, SameScalar
  <2>2. CASE ~(x.kind \in Numeric /\ y.kind \in Numeric)
    BY <2>2 DEF ScalarsEqual, SameScalar
  <2>. QED  BY <2>1, <2>2
<1>2. CASE a.kind = "array" /\ b.kind = "array"
  <2>1. a.kind \notin Numeric  BY <1>2 DEF Numeric
  <2>2. \A i \in DOMAIN a.items : a.items[i] \in Scalar  BY <1>2, Data
  <2>3. \A i \in DOMAIN b.items : b.items[i] \in Scalar  BY <1>2, Data
  <2>4. ValuesEqual(a, b) <=> /\ DOMAIN a.items = DOMAIN b.items
                              /\ \A i \in DOMAIN a.items : SameScalar(a.items[i], b.items[i])
    BY <1>1, <1>2, <2>2, <2>3 DEF ValuesEqual
  <2>5. a = b => \A i \in DOMAIN a.items : SameScalar(a.items[i], b.items[i])  BY DEF SameScalar
  <2>6. SameScalar(a, b) => a = b  BY <2>1 DEF SameScalar
  <2>. QED  BY <1>2, <2>4, <2>5, <2>6 DEF Same, SameScalar
<1>3. CASE ~(a.kind = "array" /\ b.kind = "array")
  <2>1. ValuesEqual(a, b) <=> ScalarsEqual(a, b)  BY <1>3 DEF ValuesEqual
  <2>2. Same(a, b) <=> SameScalar(a, b)  BY <1>3 DEF Same
  <2>3. CASE a \in Scalar /\ b \in Scalar  BY <1>1, <2>1, <2>2, <2>3
  <2>4. CASE a.kind = "array" \/ b.kind = "array"
    BY <2>1, <2>2, <2>4 DEF ScalarsEqual, SameScalar, Numeric
  <2>. QED  BY <2>3, <2>4, Data
<1>. QED  BY <1>2, <1>3

\* It is an equivalence.
LEMMA SameIsAnEquivalence ==
  /\ \A a : Same(a, a)
  /\ \A a, b : Same(a, b) => Same(b, a)
  /\ \A a, b, c : Same(a, b) /\ Same(b, c) => Same(a, c)
<1>1. \A a, b : SameScalar(a, b) => SameScalar(b, a)  BY DEF SameScalar
<1>2. \A a, b, c : SameScalar(a, b) /\ SameScalar(b, c) => SameScalar(a, c)  BY DEF SameScalar
<1>3. \A a, b : Same(a, b) => Same(b, a)  BY <1>1 DEF Same
<1>4. ASSUME NEW a, NEW b, NEW c, Same(a, b), Same(b, c) PROVE Same(a, c)
  <2>1. CASE a = b \/ b = c  BY <1>4, <2>1
  <2>2. CASE a.kind = "array" /\ b.kind = "array" /\ c.kind = "array" /\ a # b /\ b # c
    <3>1. ~SameScalar(a, b) /\ ~SameScalar(b, c)  BY <2>2 DEF SameScalar, Numeric
    <3>. QED  BY <1>2, <1>4, <3>1 DEF Same
  <2>3. CASE SameScalar(a, b) /\ SameScalar(b, c)  BY <1>2, <2>3 DEF Same
  <2>. QED  BY <1>4, <2>1, <2>2, <2>3 DEF Same, SameScalar, Numeric
<1>. QED  BY <1>3, <1>4 DEF Same, SameScalar

\* A canonical value is the same value.
LEMMA CanonicalValues ==
  ASSUME NEW v \in Datum
  PROVE  /\ CanonicalValue(v) \in Datum /\ Same(CanonicalValue(v), v)
         /\ CanonicalValue(v) # None
<1>1. ASSUME NEW x \in Scalar
      PROVE  ZeroAsInteger(x) \in Scalar /\ SameScalar(ZeroAsInteger(x), x)
  <2>1. ZeroAsInteger(x) \in Scalar /\ ZeroAsInteger(x).size = x.size  BY Zeros
  <2>2. CASE x.kind = "float" /\ x.size = 0
    <3>1. x \in Number  BY <2>2, Data DEF Numeric
    <3>2. ZeroAsInteger(x) \in Number  BY <3>1, Zeros
    <3>3. {ZeroAsInteger(x).kind, x.kind} \subseteq Numeric  BY <3>1, <3>2, Data
    <3>. QED  BY <2>1, <3>3 DEF SameScalar
  <2>3. CASE ~(x.kind = "float" /\ x.size = 0)  BY <2>1, <2>3, Zeros DEF SameScalar
  <2>. QED  BY <2>2, <2>3
<1>2. CASE v.kind # "array"
  <2>1. v \in Scalar /\ CanonicalValue(v) = ZeroAsInteger(v)
    BY <1>2, Data DEF CanonicalValue
  <2>. QED  BY <1>1, <2>1, Data DEF Same
<1>3. CASE v.kind = "array"
  <2>. DEFINE items == [i \in DOMAIN v.items |-> ZeroAsInteger(v.items[i])]
  <2>1. CanonicalValue(v) = [v EXCEPT !.items = items]  BY <1>3 DEF CanonicalValue
  <2>2. v \in [kind : {"array"}, items : Seq(Scalar), size : Even, matches : {{}}]
    <3>1. v \notin Scalar  BY <1>3, Data
    <3>. QED  BY <3>1 DEF Datum
  <2>3. v.items \in Seq(Scalar) /\ \A i \in DOMAIN v.items : v.items[i] \in Scalar
    BY <1>3, Data
  <2>4. PICK n \in Nat : DOMAIN v.items = 1 .. n  BY <2>3, LenProperties
  <2>5. items \in [1 .. n -> Scalar]  BY <1>1, <2>3, <2>4
  <2>6. items \in Seq(Scalar)  BY <2>5, SeqDef
  <2>7. DOMAIN items = DOMAIN v.items /\ \A i \in DOMAIN items : SameScalar(items[i], v.items[i])
    BY <1>1, <2>3
  <2>. HIDE DEF items
  <2>8. /\ CanonicalValue(v) \in [kind : {"array"}, items : Seq(Scalar), size : Even, matches : {{}}]
        /\ CanonicalValue(v).kind = "array" /\ CanonicalValue(v).items = items
    BY <2>1, <2>2, <2>6
  <2>9. CanonicalValue(v) \in Datum  BY <2>8 DEF Datum
  <2>. QED  BY <1>3, <2>7, <2>8, <2>9, Data DEF Same
<1>. QED  BY <1>2, <1>3

-----------------------------------------------------------------------------
(* Values and schemas. *)

\* A bound that a value is compared with is of its sort.
Comparable(v, b) ==
  b = None \/ (v \in Number /\ b \in Number) \/ (v.kind \in {"string", "array"} /\ b \in Integer)

\* What a bound says is meant of sizes.
LEMMA Bounds ==
  ASSUME NEW v \in Datum, NEW b, b # None, Comparable(v, b), ~Mixed({v, b})
  PROVE  /\ NumericCompare(Measure(v), b) # "Less" <=> v.size >= b.size
         /\ NumericCompare(Measure(v), b) # "Greater" <=> v.size <= b.size
<1>1. v.size \in Int /\ b.size \in Int  BY Data DEF Comparable
<1>2. NumericCompare(Measure(v), b) = Order(v.size, b.size)
  <2>1. CASE v \in Number /\ b \in Number
    <3>1. Measure(v) = v  BY <2>1, Data DEF Measure, Numeric
    <3>. QED  BY <2>1, <3>1, Compares
  <2>2. CASE v.kind \in {"string", "array"} /\ b \in Integer
    <3>1. Measure(v) = [v EXCEPT !.kind = "integer"]  BY <2>2 DEF Measure
    <3>2. /\ [v EXCEPT !.kind = "integer"].kind = "integer"
          /\ [v EXCEPT !.kind = "integer"].size = v.size
      BY DEF Datum, Scalar, Number, Integer
    <3>3. b.kind = "integer"  BY <2>2, Data
    <3>. QED  BY <3>1, <3>2, <3>3 DEF NumericCompare
  <2>. QED  BY <2>1, <2>2 DEF Comparable
<1>. QED  BY <1>1, <1>2 DEF Order

\* A value of a schema's type has bounds of its sort.
LEMMA Fits ==
  ASSUME NEW s \in Schema, NEW v \in Datum, TypeFits(s.type, v)
  PROVE  Comparable(v, s.low) /\ Comparable(v, s.high) /\ s.enum \subseteq Datum
<1>1. CASE s \in [type : {"integer", "number", "unsupported"}, low : Limit, high : Limit,
                  enum : SUBSET Datum, pattern : {None}]
  <2>1. v.kind \in Numeric  BY <1>1 DEF TypeFits, Numeric
  <2>2. v \in Number  BY <2>1, Data DEF Numeric
  <2>. QED  BY <1>1, <2>2 DEF Limit, Comparable
<1>2. CASE s \in [type : {"string"}, low : Length, high : Length, enum : SUBSET Datum,
                  pattern : Pattern]
  <2>1. v.kind = "string"  BY <1>2 DEF TypeFits
  <2>. QED  BY <1>2, <2>1 DEF Length, Comparable
<1>3. CASE s \in ArraySchema
  <2>1. v.kind = "array"  BY <1>3 DEF TypeFits, ArraySchema
  <2>. QED  BY <1>3, <2>1 DEF Length, Comparable, ArraySchema
<1>. QED  BY <1>1, <1>2, <1>3 DEF Schema, ScalarSchema

\* What the code takes for a type is of that type; the rest of what is, is a float for an integer.
LEMMA Types ==
  ASSUME NEW v \in Datum, NEW type
  PROVE  /\ TypeFits(type, v) => IsOf(type, v)
         /\ IsOf(type, v) /\ ~(type = "integer" /\ v.kind = "float") => TypeFits(type, v)
<1>1. v.kind = "integer" => v.size % 2 = 0  BY Data DEF Numeric
<1>. QED  BY <1>1 DEF TypeFits, IsOf, Numeric

\* The bounds of a schema or of a constraint.
LEMMA Limits ==
  ASSUME NEW s \in Schema \cup Constraint
  PROVE  s.low \in Limit /\ s.high \in Limit /\ s.enum \in SUBSET Datum
<1>1. Length \subseteq Limit  BY DEF Length, Limit, Number
<1>. QED  BY <1>1 DEF Schema, ScalarSchema, ArraySchema, Constraint, Limit

\* Bounds are compared in order as they are written, too.
LEMMA BoundsInOrder ==
  ASSUME NEW s \in Schema \cup Constraint, NEW V
  PROVE  Mixed({s.low, s.high} \cup V) => Mixed(BoundsOf(s) \cup V)
<1>1. {s.low, s.high} \in SUBSET Limit  BY Limits
<1>2. {CanonicalBound(b) : b \in {s.low, s.high}} = BoundsOf(s)  BY DEF BoundsOf
<1>. QED  BY <1>1, <1>2, WrittenInOrder

\* The validator accepts what JSON Schema does.
LEMMA ValidatesOneIsMeets ==
  ASSUME NEW s \in Schema, NEW v \in Datum, ~Mixed(BoundsOf(s) \cup {v})
  PROVE  /\ ValidatesOne(s, v) => MeetsOne(s, v)
         /\ MeetsOne(s, v) /\ ~(s.type = "integer" /\ v.kind = "float") => ValidatesOne(s, v)
<1>. SUFFICES ASSUME TypeFits(s.type, v) PROVE ValidatesOne(s, v) <=> MeetsBounds(s, v)
  BY Types DEF ValidatesOne, MeetsOne
<1>1. Comparable(v, s.low) /\ Comparable(v, s.high) /\ s.enum \subseteq Datum  BY Fits
<1>2. (\E e \in s.enum : ValuesEqual(e, v)) <=> (\E e \in s.enum : Same(e, v))
  BY <1>1, EqualsAreSame
<1>0. ~Mixed({s.low, s.high} \cup {v})  BY BoundsInOrder
<1>3. ~Mixed({v, s.low}) /\ ~Mixed({v, s.high})
  <2>1. {v, s.low} \subseteq {s.low, s.high} \cup {v}  OBVIOUS
  <2>2. {v, s.high} \subseteq {s.low, s.high} \cup {v}  OBVIOUS
  <2>. QED  BY <1>0, <2>1, <2>2, LessMixed
<1>4. s.low # None => (NumericCompare(Measure(v), s.low) # "Less" <=> v.size >= s.low.size)
  BY <1>1, <1>3, Bounds
<1>5. s.high # None => (NumericCompare(Measure(v), s.high) # "Greater" <=> v.size <= s.high.size)
  BY <1>1, <1>3, Bounds
<1>. QED  BY <1>2, <1>4, <1>5 DEF ValidatesOne, MeetsBounds

\* The numbers compared for the items of a value.
ItemLimits(s, v) ==
  (IF s.type = "array" THEN BoundsOf(s.items) ELSE {})
  \cup (IF v.kind = "array" THEN {v.items[i] : i \in DOMAIN v.items} ELSE {})
\* The validator accepts only what the schema says, and all of it if the schema compiles, but for
\* a float where it asks for an integer.
LEMMA ValidatesIsMeets ==
  ASSUME NEW s \in Schema, NEW v \in Datum, ~Mixed(BoundsOf(s) \cup {v}),
         ~Mixed(ItemLimits(s, v))
  PROVE  /\ Validates(s, v) => Meets(s, v)
         /\ Compiles(s) /\ Meets(s, v) /\ ~GivenFloat(s, v) => Validates(s, v)
<1>1. /\ ValidatesOne(s, v) => MeetsOne(s, v)
      /\ MeetsOne(s, v) /\ ~(s.type = "integer" /\ v.kind = "float") => ValidatesOne(s, v)
  BY ValidatesOneIsMeets
<1>2. s.type = "unsupported" => ~Compiles(s)  BY DEF Compiles, Scalars
<1>3. CASE s.type # "array"
  BY <1>1, <1>2, <1>3 DEF Validates, Meets, GivenFloat
<1>4. CASE s.type = "array"
  <2>1. MeetsOne(s, v) => v.kind = "array"  BY <1>4 DEF MeetsOne, IsOf, TypeFits
  <2>2. s.items \in Schema  BY <1>4 DEF Schema, ArraySchema, ScalarSchema
  <2>3. ASSUME v.kind = "array", NEW i \in DOMAIN v.items
        PROVE  /\ ValidatesOne(s.items, v.items[i]) => MeetsOne(s.items, v.items[i])
               /\ /\ MeetsOne(s.items, v.items[i])
                  /\ ~(s.items.type = "integer" /\ v.items[i].kind = "float")
                 => ValidatesOne(s.items, v.items[i])
    <3>1. v.items[i] \in Datum  BY <2>3, Data
    <3>2. BoundsOf(s.items) \cup {v.items[i]} \subseteq ItemLimits(s, v)
      BY <1>4, <2>3 DEF ItemLimits
    <3>3. ~Mixed(BoundsOf(s.items) \cup {v.items[i]})  BY <3>2, LessMixed
    <3>. QED  BY <2>2, <3>1, <3>3, ValidatesOneIsMeets
  <2>4. Compiles(s) => s.items.type # "unsupported"  BY <1>4 DEF Compiles, Scalars
  <2>5. ASSUME Validates(s, v) PROVE Meets(s, v)
    BY <1>1, <1>4, <2>1, <2>3, <2>5 DEF Validates, Meets
  <2>6. ASSUME Compiles(s), Meets(s, v), ~GivenFloat(s, v) PROVE Validates(s, v)
    <3>1. MeetsOne(s, v) /\ v.kind = "array"  BY <1>4, <2>1, <2>6 DEF Meets
    <3>2. \A i \in DOMAIN v.items : MeetsOne(s.items, v.items[i])
      BY <1>4, <2>4, <2>6 DEF Meets
    <3>3. \A i \in DOMAIN v.items : ~(s.items.type = "integer" /\ v.items[i].kind = "float")
      BY <1>4, <2>6, <3>1 DEF GivenFloat
    <3>. QED  BY <1>1, <1>4, <2>3, <3>1, <3>2, <3>3 DEF Validates
  <2>. QED  BY <2>5, <2>6
<1>. QED  BY <1>3, <1>4

\* A canonical schema is a schema of the same type with canonical bounds and the same items.
CanonicalOf(k, s) ==
  /\ k.type = s.type /\ k.pattern = s.pattern
  /\ k.low = CanonicalBound(s.low) /\ k.high = CanonicalBound(s.high)
  /\ k.enum = {CanonicalValue(e) : e \in s.enum}
\* So is one of no array, and the schema of the items of an array.
LEMMA CanonicalOnes ==
  ASSUME NEW s \in ScalarSchema
  PROVE  CanonicalOne(s) \in ScalarSchema /\ CanonicalOf(CanonicalOne(s), s)
<1>. DEFINE low == CanonicalBound(s.low)
            high == CanonicalBound(s.high)
            enum == {CanonicalValue(e) : e \in s.enum}
<1>0. s \in Schema  BY DEF Schema
<1>1. s.low \in Limit /\ s.high \in Limit /\ s.enum \in SUBSET Datum  BY <1>0, Limits
<1>2. low \in Limit /\ high \in Limit  BY <1>1, CanonicalBounds
<1>3. enum \in SUBSET Datum  BY <1>1, CanonicalValues
<1>4. s.type = "string" => low \in Length /\ high \in Length
  <2>1. s.type = "string" => s.low \in Length /\ s.high \in Length  BY DEF ScalarSchema
  <2>. QED  BY <1>1, <2>1, CanonicalBounds
<1>5. CanonicalOne(s) = [s EXCEPT !.low = low, !.high = high, !.enum = enum]
  BY DEF CanonicalOne
<1>. HIDE DEF low, high, enum
<1>6. CASE s \in [type : {"integer", "number", "unsupported"}, low : Limit, high : Limit,
                  enum : SUBSET Datum, pattern : {None}]
  <2>1. CanonicalOne(s) \in [type : {"integer", "number", "unsupported"}, low : Limit,
                             high : Limit, enum : SUBSET Datum, pattern : {None}]
    BY <1>2, <1>3, <1>5, <1>6
  <2>2. /\ CanonicalOne(s).type = s.type /\ CanonicalOne(s).pattern = s.pattern
        /\ CanonicalOne(s).low = low /\ CanonicalOne(s).high = high
        /\ CanonicalOne(s).enum = enum
    BY <1>5, <1>6
  <2>. QED  BY <2>1, <2>2 DEF ScalarSchema, CanonicalOf, low, high, enum
<1>7. CASE s \in [type : {"string"}, low : Length, high : Length, enum : SUBSET Datum,
                  pattern : Pattern]
  <2>1. CanonicalOne(s) \in [type : {"string"}, low : Length, high : Length, enum : SUBSET Datum,
                             pattern : Pattern]
    BY <1>3, <1>4, <1>5, <1>7
  <2>2. /\ CanonicalOne(s).type = s.type /\ CanonicalOne(s).pattern = s.pattern
        /\ CanonicalOne(s).low = low /\ CanonicalOne(s).high = high
        /\ CanonicalOne(s).enum = enum
    BY <1>5, <1>7
  <2>. QED  BY <2>1, <2>2 DEF ScalarSchema, CanonicalOf, low, high, enum
<1>. QED  BY <1>6, <1>7 DEF ScalarSchema

\* So is one of any type.
LEMMA Canonicals ==
  ASSUME NEW s \in Schema
  PROVE  /\ Canonical(s) \in Schema /\ CanonicalOf(Canonical(s), s)
         /\ s.type = "array" =>
              /\ s.items \in ScalarSchema /\ Canonical(s).items = CanonicalOne(s.items)
<1>1. CASE s \in ScalarSchema
  <2>1. s.type # "array"  BY <1>1 DEF ScalarSchema
  <2>2. Canonical(s) = CanonicalOne(s)  BY <2>1 DEF Canonical
  <2>. QED  BY <1>1, <2>1, <2>2, CanonicalOnes DEF Schema
<1>2. CASE s \in ArraySchema
  <2>. DEFINE low == CanonicalBound(s.low)
              high == CanonicalBound(s.high)
              enum == {CanonicalValue(e) : e \in s.enum}
              items == CanonicalOne(s.items)
  <2>1. s.type = "array" /\ s.items \in ScalarSchema  BY <1>2 DEF ArraySchema
  <2>2. /\ s.low \in Limit /\ s.high \in Limit /\ s.enum \in SUBSET Datum
        /\ s.low \in Length /\ s.high \in Length
    BY <1>2, Limits DEF Schema, ArraySchema
  <2>3. low \in Length /\ high \in Length  BY <2>2, CanonicalBounds
  <2>4. enum \in SUBSET Datum  BY <2>2, CanonicalValues
  <2>5. items \in ScalarSchema  BY <2>1, CanonicalOnes
  <2>6. Canonical(s) = [[s EXCEPT !.low = low, !.high = high, !.enum = enum]
                          EXCEPT !.items = CanonicalOne(@)]
    BY <2>1 DEF Canonical, CanonicalOne
  <2>7. [s EXCEPT !.low = low, !.high = high, !.enum = enum].items = s.items
    BY <1>2 DEF ArraySchema
  <2>8. Canonical(s) = [[s EXCEPT !.low = low, !.high = high, !.enum = enum]
                          EXCEPT !.items = items]
    BY <1>2, <2>6, <2>7 DEF ArraySchema
  <2>. HIDE DEF low, high, enum, items
  <2>9. /\ Canonical(s) \in ArraySchema
        /\ Canonical(s).type = s.type /\ Canonical(s).pattern = s.pattern
        /\ Canonical(s).low = low /\ Canonical(s).high = high /\ Canonical(s).enum = enum
        /\ Canonical(s).items = items
    BY <1>2, <2>3, <2>4, <2>5, <2>8 DEF ArraySchema
  <2>. QED  BY <2>1, <2>9 DEF Schema, CanonicalOf, low, high, enum, items
<1>. QED  BY <1>1, <1>2 DEF Schema

\* What it asks of a value.
LEMMA SameBounds ==
  ASSUME NEW s \in Schema, NEW k, CanonicalOf(k, s), NEW v
  PROVE  /\ MeetsOne(k, v) <=> MeetsOne(s, v)
         /\ BoundsOf(k) = BoundsOf(s)
<1>1. s.low \in Limit /\ s.high \in Limit /\ s.enum \in SUBSET Datum  BY Limits
<1>2. /\ k.type = s.type /\ k.pattern = s.pattern
      /\ k.low = CanonicalBound(s.low) /\ k.high = CanonicalBound(s.high)
      /\ k.enum = {CanonicalValue(e) : e \in s.enum}
  BY DEF CanonicalOf
<1>3. /\ k.low = None <=> s.low = None
      /\ k.high = None <=> s.high = None
      /\ s.low # None => k.low.size = s.low.size
      /\ s.high # None => k.high.size = s.high.size
  BY <1>1, <1>2, CanonicalBounds
<1>4. (\E e \in k.enum : Same(e, v)) <=> (\E e \in s.enum : Same(e, v))
  <2>1. \A e \in s.enum : Same(CanonicalValue(e), v) <=> Same(e, v)
    BY <1>1, CanonicalValues, SameIsAnEquivalence
  <2>. QED  BY <1>2, <2>1
<1>5. k.enum = {} <=> s.enum = {}  BY <1>2
<1>6. MeetsBounds(k, v) <=> MeetsBounds(s, v)
  BY <1>2, <1>3, <1>4, <1>5 DEF MeetsBounds
<1>7. BoundsOf(k) = BoundsOf(s)
  BY <1>1, <1>2, CanonicalBounds DEF BoundsOf
<1>. QED  BY <1>2, <1>6, <1>7 DEF MeetsOne

\* The same, of the items too.
LEMMA CanonicalMeets ==
  ASSUME NEW s \in Schema, NEW v
  PROVE  /\ Meets(Canonical(s), v) <=> Meets(s, v)
         /\ BoundsOf(Canonical(s)) = BoundsOf(s)
         /\ ItemLimits(Canonical(s), v) = ItemLimits(s, v)
         /\ GivenFloat(Canonical(s), v) <=> GivenFloat(s, v)
<1>. DEFINE k == Canonical(s)
<1>1. /\ CanonicalOf(k, s) /\ k.type = s.type
      /\ s.type = "array" => s.items \in ScalarSchema /\ k.items = CanonicalOne(s.items)
  BY Canonicals DEF CanonicalOf
<1>. HIDE DEF k
<1>2. (MeetsOne(k, v) <=> MeetsOne(s, v)) /\ BoundsOf(k) = BoundsOf(s)  BY <1>1, SameBounds
<1>3. ASSUME s.type = "array", NEW x
      PROVE  /\ MeetsOne(k.items, x) <=> MeetsOne(s.items, x)
             /\ BoundsOf(k.items) = BoundsOf(s.items) /\ k.items.type = s.items.type
  <2>1. CanonicalOf(k.items, s.items) /\ s.items \in Schema
    BY <1>1, <1>3, CanonicalOnes DEF Schema
  <2>. QED  BY <2>1, SameBounds DEF CanonicalOf
<1>4. Meets(k, v) <=> Meets(s, v)  BY <1>1, <1>2, <1>3 DEF Meets
<1>5. ItemLimits(k, v) = ItemLimits(s, v)  BY <1>1, <1>3 DEF ItemLimits
<1>6. GivenFloat(k, v) <=> GivenFloat(s, v)  BY <1>1, <1>3 DEF GivenFloat
<1>. QED  BY <1>2, <1>4, <1>5, <1>6 DEF k

-----------------------------------------------------------------------------
(* The intersection of a schema with a constraint. *)

\* The tighter of two bounds is one of them, and says what both say.
LEMMA Tight ==
  ASSUME NEW x \in Int, NEW ours \in Limit, NEW theirs \in Limit, ~Mixed({ours, theirs})
  PROVE  /\ LET b == Tighter("Greater", ours, theirs)
            IN  /\ b \in {ours, theirs}
                /\ (b # None => x >= b.size) <=>
                     (ours # None => x >= ours.size) /\ (theirs # None => x >= theirs.size)
         /\ LET b == Tighter("Less", ours, theirs)
            IN  /\ b \in {ours, theirs}
                /\ (b # None => x <= b.size) <=>
                     (ours # None => x <= ours.size) /\ (theirs # None => x <= theirs.size)
<1>1. CASE ours = None  BY <1>1 DEF Tighter
<1>2. CASE ours # None /\ theirs = None  BY <1>2 DEF Tighter
<1>3. CASE ours # None /\ theirs # None
  <2>1. ours \in Number /\ theirs \in Number  BY <1>3 DEF Limit
  <2>2. ours.size \in Int /\ theirs.size \in Int  BY <2>1, Data
  <2>3. NumericCompare(ours, theirs) = Order(ours.size, theirs.size)  BY <2>1, Compares
  <2>. QED  BY <1>3, <2>2, <2>3 DEF Tighter, Order
<1>. QED  BY <1>1, <1>2, <1>3

\* The enum of a conjunction.
Common(E, F) == {e \in E : \E f \in F : ValuesEqual(f, e)}
Enums(E, F) == IF F = {} THEN E ELSE IF E = {} THEN F ELSE Common(E, F)

\* Where there is an intersection, what it is made of.
LEMMA Merges ==
  ASSUME NEW s \in Schema, NEW c \in Constraint, NEW m, m = Merged(s, c), Intersect(s, c) # None
  PROVE  /\ Intersect(s, c) = Canonical(m)
         /\ m \in Schema /\ Compiles(m) /\ Compiles(Canonical(m))
         /\ m.type = s.type
         /\ s.type = "array" => m.items = s.items
         /\ m.low = Tighter("Greater", c.low, s.low) /\ m.high = Tighter("Less", c.high, s.high)
         /\ m.enum = Enums(s.enum, c.enum) /\ (c.enum # {} => m.enum # {})
         /\ m.pattern = IF c.pattern # None THEN c.pattern ELSE s.pattern
         /\ s.pattern # None /\ c.pattern # None => s.pattern = c.pattern
         /\ c.of = "string" => s.type = "string"
         /\ c.of = "number" => s.type \in {"integer", "number"}
<1>. DEFINE pattern == IF c.pattern # None THEN c.pattern ELSE s.pattern
            low == Tighter("Greater", c.low, s.low)
            high == Tighter("Less", c.high, s.high)
            enum == Enums(s.enum, c.enum)
            merged == [s EXCEPT !.pattern = pattern, !.low = low, !.high = high, !.enum = enum]
<1>0. m = merged  BY DEF Merged, Enums, Common
<1>1. /\ m = merged /\ Compiles(m) /\ Compiles(Canonical(m)) /\ (c.enum # {} => m.enum # {})
      /\ Intersect(s, c) = Canonical(m)
      /\ s.pattern # None /\ c.pattern # None => s.pattern = c.pattern
      /\ c.of = "string" => s.type = "string"
      /\ c.of = "number" => s.type \in {"integer", "number"}
  BY <1>0 DEF Intersect
<1>2. low \in {c.low, s.low} /\ high \in {c.high, s.high}  BY DEF Tighter
<1>3. enum \subseteq Datum /\ pattern \in Pattern
  <2>1. s.enum \subseteq Datum /\ s.pattern \in Pattern
    BY DEF Pattern, Schema, ScalarSchema, ArraySchema
  <2>2. c.enum \subseteq Datum /\ c.pattern \in Pattern  BY DEF Constraint, Pattern
  <2>. QED  BY <2>1, <2>2 DEF Enums, Common
<1>. HIDE DEF enum, pattern, low, high
<1>4. /\ m \in Schema /\ m.type = s.type
      /\ m.low = low /\ m.high = high /\ m.enum = enum /\ m.pattern = pattern
      /\ s.type = "array" => m.items = s.items
  <2>1. CASE s \in [type : {"integer", "number", "unsupported"}, low : Limit, high : Limit,
                    enum : SUBSET Datum, pattern : {None}]
    <3>1. c.low \in Limit /\ c.high \in Limit
      BY <1>1, <2>1, Data DEF Constraint, Limit, Length, Number
    <3>2. low \in Limit /\ high \in Limit  BY <1>2, <2>1, <3>1
    <3>0. pattern = None
      <4>1. c.of # "string"  BY <1>1, <2>1
      <4>2. c.pattern = None  BY <4>1 DEF Constraint
      <4>. QED  BY <2>1, <4>2 DEF pattern
    <3>3. m \in [type : {"integer", "number", "unsupported"}, low : Limit, high : Limit,
                   enum : SUBSET Datum, pattern : {None}]
      BY <1>1, <1>3, <2>1, <3>0, <3>2
    <3>4. m.type = s.type /\ m.low = low /\ m.high = high /\ m.enum = enum /\ m.pattern = pattern
      BY <1>1, <2>1
    <3>. QED  BY <2>1, <3>3, <3>4 DEF Schema, ScalarSchema
  <2>2. CASE s \in [type : {"string"}, low : Length, high : Length, enum : SUBSET Datum,
                    pattern : Pattern]
    <3>1. c.of # "number"  BY <1>1, <2>2
    <3>2. c.low \in Length /\ c.high \in Length  BY <3>1 DEF Constraint, Length
    <3>3. low \in Length /\ high \in Length  BY <1>2, <2>2, <3>2
    <3>4. m \in [type : {"string"}, low : Length, high : Length, enum : SUBSET Datum,
                   pattern : Pattern]
      BY <1>1, <1>3, <2>2, <3>3
    <3>5. m.type = s.type /\ m.low = low /\ m.high = high /\ m.enum = enum /\ m.pattern = pattern
      BY <1>1, <2>2
    <3>. QED  BY <2>2, <3>4, <3>5 DEF Schema, ScalarSchema
  <2>3. CASE s \in ArraySchema
    <3>1. c.of = "any"  BY <1>1, <2>3 DEF ArraySchema, Constraint
    <3>2. c.low = None /\ c.high = None  BY <3>1 DEF Constraint
    <3>3. low \in Length /\ high \in Length  BY <1>2, <2>3, <3>2 DEF ArraySchema, Length
    <3>0. pattern = None
      <4>1. c.pattern = None  BY <3>1 DEF Constraint
      <4>. QED  BY <2>3, <4>1 DEF pattern, ArraySchema
    <3>4. m \in ArraySchema  BY <1>1, <1>3, <2>3, <3>0, <3>3 DEF ArraySchema
    <3>5. /\ m.type = s.type /\ m.low = low /\ m.high = high /\ m.enum = enum /\ m.pattern = pattern
          /\ m.items = s.items
      BY <1>1, <2>3 DEF ArraySchema
    <3>. QED  BY <2>3, <3>4, <3>5 DEF Schema, ArraySchema
  <2>. QED  BY <2>1, <2>2, <2>3 DEF Schema, ScalarSchema
<1>. QED  BY <1>1, <1>4 DEF low, high, enum, pattern

\* A value is the same as one of the enum of a conjunction when it is the same as one of each.
LEMMA EnumsMeet ==
  ASSUME NEW E \in SUBSET Datum, NEW F \in SUBSET Datum, NEW v \in Datum,
         F # {} => Enums(E, F) # {}
  PROVE  (Enums(E, F) # {} => \E e \in Enums(E, F) : Same(e, v)) <=>
           (E # {} => \E e \in E : Same(e, v)) /\ (F # {} => \E f \in F : Same(f, v))
<1>1. CASE F = {} \/ E = {}  BY <1>1 DEF Enums
<1>2. CASE F # {} /\ E # {}
  <2>1. Enums(E, F) = Common(E, F) /\ Enums(E, F) # {}  BY <1>2 DEF Enums
  <2>2. ASSUME NEW e \in Common(E, F), Same(e, v)
        PROVE  e \in E /\ \E f \in F : Same(f, v)
    <3>1. PICK f \in F : ValuesEqual(f, e)  BY DEF Common
    <3>2. Same(f, e)  BY <3>1, EqualsAreSame DEF Common
    <3>. QED  BY <2>2, <3>2, SameIsAnEquivalence DEF Common
  <2>3. ASSUME NEW e \in E, Same(e, v), NEW f \in F, Same(f, v)
        PROVE  e \in Common(E, F)
    <3>1. Same(v, e)  BY <2>3, SameIsAnEquivalence
    <3>2. Same(f, e)  BY <2>3, <3>1, SameIsAnEquivalence
    <3>3. ValuesEqual(f, e)  BY <3>2, EqualsAreSame
    <3>. QED  BY <3>3 DEF Common
  <2>. QED  BY <1>2, <2>1, <2>2, <2>3
<1>. QED  BY <1>1, <1>2

\* A value of the type of a schema is within the bounds of its intersection with a constraint
\* when it is within those of both.
LEMMA BoundsOfBoth ==
  ASSUME NEW s \in Schema, NEW c \in Constraint, NEW v \in Datum,
         Intersect(s, c) # None, ~Mixed({s.low, s.high, c.low, c.high})
  PROVE  MeetsBounds(Merged(s, c), v) <=> MeetsBounds(s, v) /\ MeetsBounds(c, v)
<1>. DEFINE m == Merged(s, c)
<1>1. /\ m.low = Tighter("Greater", c.low, s.low) /\ m.high = Tighter("Less", c.high, s.high)
      /\ m.enum = Enums(s.enum, c.enum) /\ (c.enum # {} => m.enum # {})
      /\ m.pattern = IF c.pattern # None THEN c.pattern ELSE s.pattern
      /\ s.pattern # None /\ c.pattern # None => s.pattern = c.pattern
  BY Merges
<1>. HIDE DEF m
<1>2. /\ s.low \in Limit /\ s.high \in Limit /\ s.enum \in SUBSET Datum
      /\ c.low \in Limit /\ c.high \in Limit /\ c.enum \in SUBSET Datum
  BY Limits
<1>3. v.size \in Int  BY Data
<1>4. ~Mixed({c.low, s.low}) /\ ~Mixed({c.high, s.high})  BY LessMixed
<1>5. (m.low # None => v.size >= m.low.size) <=>
        (c.low # None => v.size >= c.low.size) /\ (s.low # None => v.size >= s.low.size)
  <2>. DEFINE b == Tighter("Greater", c.low, s.low)
  <2>1. (b # None => v.size >= b.size) <=>
          (c.low # None => v.size >= c.low.size) /\ (s.low # None => v.size >= s.low.size)
    BY ONLY <1>2, <1>3, <1>4, Tight
  <2>2. m.low = b  BY <1>1
  <2>. QED  BY ONLY <2>1, <2>2
<1>6. (m.high # None => v.size <= m.high.size) <=>
        (c.high # None => v.size <= c.high.size) /\ (s.high # None => v.size <= s.high.size)
  <2>. DEFINE b == Tighter("Less", c.high, s.high)
  <2>1. (b # None => v.size <= b.size) <=>
          (c.high # None => v.size <= c.high.size) /\ (s.high # None => v.size <= s.high.size)
    BY ONLY <1>2, <1>3, <1>4, Tight
  <2>2. m.high = b  BY <1>1
  <2>. QED  BY ONLY <2>1, <2>2
<1>7. (m.enum # {} => \E e \in m.enum : Same(e, v)) <=>
        /\ s.enum # {} => \E e \in s.enum : Same(e, v)
        /\ c.enum # {} => \E e \in c.enum : Same(e, v)
  BY <1>1, <1>2, EnumsMeet
<1>8. (m.pattern # None => m.pattern \in v.matches) <=>
        /\ s.pattern # None => s.pattern \in v.matches
        /\ c.pattern # None => c.pattern \in v.matches
  BY <1>1
<1>9. MeetsBounds(m, v) <=> MeetsBounds(s, v) /\ MeetsBounds(c, v)
  BY <1>5, <1>6, <1>7, <1>8 DEF MeetsBounds
<1>. QED  BY <1>9 DEF m

\* The bounds of both are compared in order as they are written, too.
LEMMA BothInOrder ==
  ASSUME NEW s \in Schema, NEW c \in Constraint, NEW V
  PROVE  /\ Mixed({s.low, s.high, c.low, c.high} \cup V) =>
              Mixed(BoundsOf(s) \cup BoundsOf(c) \cup V)
         /\ Mixed({s.low, s.high, c.low, c.high}) => Mixed(BoundsOf(s) \cup BoundsOf(c) \cup V)
<1>1. {s.low, s.high, c.low, c.high} \in SUBSET Limit  BY Limits
<1>2. {CanonicalBound(b) : b \in {s.low, s.high, c.low, c.high}} = BoundsOf(s) \cup BoundsOf(c)
  BY DEF BoundsOf
<1>3. Mixed({s.low, s.high, c.low, c.high} \cup V) => Mixed(BoundsOf(s) \cup BoundsOf(c) \cup V)
  BY <1>1, <1>2, WrittenInOrder
<1>4. {s.low, s.high, c.low, c.high} \subseteq {s.low, s.high, c.low, c.high} \cup V  OBVIOUS
<1>. QED  BY <1>3, <1>4, LessMixed

\* The validator of the intersection accepts what the schema and the constraint say, and all of
\* it but for a float where an integer is asked for.
THEOREM Conjunction ==
  ASSUME NEW s \in Schema, NEW c \in Constraint, NEW v \in Datum, Intersect(s, c) # None,
         ~Mixed(BoundsOf(s) \cup BoundsOf(c) \cup {v}), ~Mixed(ItemLimits(s, v))
  PROVE  /\ Validates(Intersect(s, c), v) => Meets(s, v) /\ MeetsBounds(c, v)
         /\ Meets(s, v) /\ MeetsBounds(c, v) /\ ~GivenFloat(s, v) =>
              Validates(Intersect(s, c), v)
<1>. DEFINE m == Merged(s, c)
            k == Canonical(m)
<1>1. /\ m \in Schema /\ Compiles(m) /\ Compiles(k) /\ Intersect(s, c) = k
      /\ m.type = s.type /\ (s.type = "array" => m.items = s.items)
      /\ m.low \in {c.low, s.low} /\ m.high \in {c.high, s.high}
  BY Merges DEF Tighter
<1>2. MeetsBounds(m, v) <=> MeetsBounds(s, v) /\ MeetsBounds(c, v)
  BY BothInOrder, BoundsOfBoth
<1>. HIDE DEF m
<1>3. s.type # "unsupported"  BY <1>1 DEF Compiles, Scalars
<1>4. /\ k \in Schema /\ BoundsOf(k) = BoundsOf(m) /\ ItemLimits(k, v) = ItemLimits(m, v)
      /\ (Meets(k, v) <=> Meets(m, v)) /\ (GivenFloat(k, v) <=> GivenFloat(m, v))
  BY <1>1, Canonicals, CanonicalMeets
<1>. HIDE DEF k
<1>5. ~Mixed(BoundsOf(k) \cup {v})
  <2>1. BoundsOf(m) \subseteq BoundsOf(s) \cup BoundsOf(c)  BY <1>1 DEF BoundsOf
  <2>2. BoundsOf(k) \cup {v} \subseteq BoundsOf(s) \cup BoundsOf(c) \cup {v}  BY <1>4, <2>1
  <2>. QED  BY <2>2, LessMixed
<1>6. ItemLimits(m, v) = ItemLimits(s, v)  BY <1>1 DEF ItemLimits
<1>7. GivenFloat(m, v) <=> GivenFloat(s, v)  BY <1>1 DEF GivenFloat
<1>8. /\ Validates(k, v) => Meets(k, v)
      /\ Meets(k, v) /\ ~GivenFloat(k, v) => Validates(k, v)
  BY <1>1, <1>4, <1>5, <1>6, ValidatesIsMeets
<1>9. Meets(m, v) <=> Meets(s, v) /\ MeetsBounds(c, v)
  BY <1>1, <1>2, <1>3 DEF Meets, MeetsOne
<1>. QED  BY <1>1, <1>4, <1>7, <1>8, <1>9

\* The tighter of a bound and what it is the tighter one of, made canonical, is that.
LEMMA TightOnce ==
  ASSUME NEW wins \in {"Greater", "Less"}, NEW ours \in Limit, NEW theirs \in Limit,
         ~Mixed({CanonicalBound(ours), CanonicalBound(theirs)}),
         NEW once, once = CanonicalBound(Tighter(wins, ours, theirs))
  PROVE  /\ Tighter(wins, ours, once) = once
         /\ CanonicalBound(once) = once /\ once \in Limit
<1>. DEFINE b == Tighter(wins, ours, theirs)
<1>0. b \in Limit  BY DEF Tighter
<1>1. CanonicalBound(once) = once /\ once \in Limit  BY <1>0, CanonicalBounds
<1>2. CASE ours = None  BY <1>1, <1>2 DEF Tighter
<1>3. CASE ours # None /\ b = ours
  <2>1. once # None /\ once.size = ours.size /\ once \in Number /\ ours \in Number
    BY <1>0, <1>1, <1>3, CanonicalBounds DEF Limit
  <2>2. NumericCompare(ours, once) = "Equal"  BY <2>1, Compares
  <2>. QED  BY <1>1, <2>1, <2>2 DEF Tighter
<1>4. CASE ours # None /\ b # ours
  <2>1. b = theirs /\ theirs # None /\ NumericCompare(ours, theirs) # wins
    BY <1>4 DEF Tighter
  <2>2. /\ once # None /\ once.size = theirs.size /\ once \in Number /\ once = CanonicalBound(theirs)
        /\ ours \in Number /\ theirs \in Number
    BY <1>1, <1>4, <2>1, CanonicalBounds DEF Limit
  <2>3. ~Mixed({ours, theirs})
    <3>1. {CanonicalBound(x) : x \in {ours, theirs}} \cup {} =
            {CanonicalBound(ours), CanonicalBound(theirs)}
      OBVIOUS
    <3>2. {ours, theirs} \cup {} = {ours, theirs} /\ {ours, theirs} \in SUBSET Limit  OBVIOUS
    <3>. QED  BY <3>1, <3>2, WrittenInOrder
  <2>4. ~Mixed({ours, once})
    <3>. SUFFICES ASSUME Mixed({ours} \cup {once}) PROVE FALSE
      <4>1. {ours, once} = {ours} \cup {once}  OBVIOUS
      <4>. QED  BY <4>1
    <3>1. {ours} \in SUBSET Limit  OBVIOUS
    <3>2. Mixed({CanonicalBound(x) : x \in {ours}} \cup {once})  BY <3>1, WrittenInOrder
    <3>3. {CanonicalBound(x) : x \in {ours}} \cup {once} =
            {CanonicalBound(ours), CanonicalBound(theirs)}
      BY <2>2
    <3>. QED  BY <3>2, <3>3
  <2>5. /\ NumericCompare(ours, theirs) = Order(ours.size, theirs.size)
        /\ NumericCompare(ours, once) = Order(ours.size, once.size)
    BY <2>2, <2>3, <2>4, Compares
  <2>6. NumericCompare(ours, once) # wins  BY <2>1, <2>2, <2>5
  <2>. QED  BY <1>1, <2>2, <2>6 DEF Tighter
<1>. QED  BY <1>1, <1>2, <1>3, <1>4

\* An item, or a value, that is canonical.
LEMMA CanonicalTwice ==
  /\ \A v \in Datum : CanonicalValue(CanonicalValue(v)) = CanonicalValue(v)
<1>. SUFFICES ASSUME NEW v \in Datum
              PROVE  CanonicalValue(CanonicalValue(v)) = CanonicalValue(v)
  OBVIOUS
<1>1. \A x \in Scalar : ZeroAsInteger(ZeroAsInteger(x)) = ZeroAsInteger(x)
  <2>. TAKE x \in Scalar
  <2>1. ZeroAsInteger(x) \in Scalar /\ ~(ZeroAsInteger(x).kind = "float" /\ ZeroAsInteger(x).size = 0)
    BY Zeros
  <2>. QED  BY <2>1, Zeros
<1>2. CASE v.kind # "array"
  <2>1. v \in Scalar /\ CanonicalValue(v) = ZeroAsInteger(v)
    BY <1>2, Data DEF CanonicalValue
  <2>2. ZeroAsInteger(v).kind # "array"  BY <2>1, Zeros, Data
  <2>. QED  BY <1>1, <2>1, <2>2 DEF CanonicalValue
<1>3. CASE v.kind = "array"
  <2>. DEFINE items == [i \in DOMAIN v.items |-> ZeroAsInteger(v.items[i])]
              w == CanonicalValue(v)
  <2>1. w = [v EXCEPT !.items = items]  BY <1>3 DEF CanonicalValue
  <2>2. v \in [kind : {"array"}, items : Seq(Scalar), size : Even, matches : {{}}]
    <3>1. v \notin Scalar  BY <1>3, Data
    <3>. QED  BY <3>1 DEF Datum
  <2>3. \A i \in DOMAIN v.items : v.items[i] \in Scalar  BY <1>3, Data
  <2>4. items = [i \in DOMAIN items |-> ZeroAsInteger(items[i])]  BY <1>1, <2>3
  <2>. HIDE DEF items
  <2>5. w.kind = "array" /\ w.items = items /\ [w EXCEPT !.items = items] = w  BY <2>1, <2>2
  <2>. HIDE DEF w
  <2>6. CanonicalValue(w) = [w EXCEPT !.items = [i \in DOMAIN w.items |-> ZeroAsInteger(w.items[i])]]
    BY <2>5 DEF CanonicalValue
  <2>7. CanonicalValue(w) = w  BY <2>4, <2>5, <2>6
  <2>. QED  BY <2>7 DEF w
<1>. QED  BY <1>2, <1>3

\* A canonical schema is its own canonical schema.
LEMMA CanonicalSchemaTwice ==
  ASSUME NEW s \in Schema
  PROVE  Canonical(Canonical(s)) = Canonical(s)
<1>1. ASSUME NEW k \in Schema, CanonicalBound(k.low) = k.low, CanonicalBound(k.high) = k.high,
             \A e \in k.enum : CanonicalValue(e) = e
      PROVE  CanonicalOne(k) = k
  <2>1. {CanonicalValue(e) : e \in k.enum} = k.enum  BY <1>1
  <2>2. [k EXCEPT !.low = k.low, !.high = k.high, !.enum = k.enum] = k
    BY DEF Schema, ScalarSchema, ArraySchema
  <2>. QED  BY <1>1, <2>1, <2>2 DEF CanonicalOne
<1>2. ASSUME NEW x \in Schema, NEW k \in Schema, CanonicalOf(k, x) PROVE CanonicalOne(k) = k
  <2>1. x.low \in Limit /\ x.high \in Limit /\ x.enum \in SUBSET Datum  BY Limits
  <2>2. CanonicalBound(k.low) = k.low /\ CanonicalBound(k.high) = k.high
    BY <1>2, <2>1, CanonicalBounds DEF CanonicalOf
  <2>3. \A e \in k.enum : CanonicalValue(e) = e
    BY <1>2, <2>1, CanonicalTwice DEF CanonicalOf
  <2>. QED  BY <1>1, <2>2, <2>3
<1>. DEFINE k == Canonical(s)
<1>3. /\ k \in Schema /\ CanonicalOf(k, s) /\ k.type = s.type
      /\ s.type = "array" => s.items \in ScalarSchema /\ k.items = CanonicalOne(s.items)
  BY Canonicals DEF CanonicalOf
<1>. HIDE DEF k
<1>4. CanonicalOne(k) = k  BY <1>2, <1>3
<1>5. CASE s.type # "array"  BY <1>3, <1>4, <1>5 DEF Canonical, k
<1>6. CASE s.type = "array"
  <2>1. k.items \in Schema /\ s.items \in Schema /\ CanonicalOf(k.items, s.items)
    BY <1>3, <1>6, CanonicalOnes DEF Schema
  <2>2. CanonicalOne(k.items) = k.items  BY <1>2, <2>1
  <2>3. Canonical(k) = [CanonicalOne(k) EXCEPT !.items = CanonicalOne(@)]
    BY <1>3, <1>6 DEF Canonical
  <2>4. k \in ArraySchema  BY <1>3, <1>6 DEF Schema, ScalarSchema
  <2>5. [k EXCEPT !.items = CanonicalOne(@)] = [k EXCEPT !.items = CanonicalOne(k.items)]
    BY <2>4 DEF ArraySchema
  <2>6. [k EXCEPT !.items = k.items] = k  BY <2>4 DEF ArraySchema
  <2>7. Canonical(k) = k  BY <1>4, <2>2, <2>3, <2>5, <2>6
  <2>. QED  BY <2>7 DEF k
<1>. QED  BY <1>5, <1>6

\* A constraint that is enforced once more changes nothing.
LEMMA Idempotent ==
  ASSUME NEW s \in Schema, NEW c \in Constraint, Intersect(s, c) # None,
         ~Mixed(BoundsOf(s) \cup BoundsOf(c))
  PROVE  Intersect(Intersect(s, c), c) = Intersect(s, c)
<1>. DEFINE m == Merged(s, c)
            k == Canonical(m)
<1>1. /\ m \in Schema /\ m.type = s.type /\ Intersect(s, c) = k /\ Compiles(k)
      /\ m.low = Tighter("Greater", c.low, s.low) /\ m.high = Tighter("Less", c.high, s.high)
      /\ m.enum = Enums(s.enum, c.enum) /\ (c.enum # {} => m.enum # {})
      /\ m.pattern = IF c.pattern # None THEN c.pattern ELSE s.pattern
      /\ c.of = "string" => s.type = "string"
      /\ c.of = "number" => s.type \in {"integer", "number"}
  BY Merges
<1>. HIDE DEF m
<1>2. k \in Schema /\ CanonicalOf(k, m) /\ Canonical(k) = k
  BY <1>1, Canonicals, CanonicalSchemaTwice
<1>. HIDE DEF k
<1>3. /\ k.type = s.type /\ k.pattern = m.pattern
      /\ k.low = CanonicalBound(m.low) /\ k.high = CanonicalBound(m.high)
      /\ k.enum = {CanonicalValue(e) : e \in m.enum}
  BY <1>1, <1>2 DEF CanonicalOf
<1>4. /\ s.low \in Limit /\ s.high \in Limit /\ c.low \in Limit /\ c.high \in Limit
      /\ s.enum \in SUBSET Datum /\ c.enum \in SUBSET Datum /\ m.enum \in SUBSET Datum
  BY <1>1, Limits
<1>5. Tighter("Greater", c.low, k.low) = k.low
  <2>1. {CanonicalBound(c.low), CanonicalBound(s.low)} \subseteq BoundsOf(s) \cup BoundsOf(c)
    BY DEF BoundsOf
  <2>2. ~Mixed({CanonicalBound(c.low), CanonicalBound(s.low)})  BY <2>1, LessMixed
  <2>3. k.low = CanonicalBound(Tighter("Greater", c.low, s.low))  BY <1>1, <1>3
  <2>. QED  BY <1>4, <2>2, <2>3, TightOnce
<1>6. Tighter("Less", c.high, k.high) = k.high
  <2>1. {CanonicalBound(c.high), CanonicalBound(s.high)} \subseteq BoundsOf(s) \cup BoundsOf(c)
    BY DEF BoundsOf
  <2>2. ~Mixed({CanonicalBound(c.high), CanonicalBound(s.high)})  BY <2>1, LessMixed
  <2>3. k.high = CanonicalBound(Tighter("Less", c.high, s.high))  BY <1>1, <1>3
  <2>. QED  BY <1>4, <2>2, <2>3, TightOnce
<1>7. ASSUME c.enum # {}, NEW e \in k.enum PROVE \E f \in c.enum : ValuesEqual(f, e)
  <2>1. PICK x \in m.enum : e = CanonicalValue(x)  BY <1>3
  <2>2. x \in Datum /\ e \in Datum /\ Same(e, x)  BY <1>4, <2>1, CanonicalValues
  <2>3. PICK f \in c.enum : Same(f, x)
    <3>1. CASE s.enum = {}
      <4>1. x \in c.enum  BY <1>1, <1>7, <3>1 DEF Enums
      <4>. QED  BY <4>1, SameIsAnEquivalence
    <3>2. CASE s.enum # {}
      <4>1. x \in Common(s.enum, c.enum)  BY <1>1, <1>7, <3>2 DEF Enums
      <4>2. PICK f \in c.enum : ValuesEqual(f, x)  BY <4>1 DEF Common
      <4>3. f \in Datum  BY <1>4
      <4>. QED  BY <2>2, <4>2, <4>3, EqualsAreSame
    <3>. QED  BY <3>1, <3>2
  <2>4. Same(f, e)  BY <2>2, <2>3, SameIsAnEquivalence
  <2>5. f \in Datum  BY <1>4
  <2>. QED  BY <2>2, <2>4, <2>5, EqualsAreSame
<1>8. Enums(k.enum, c.enum) = k.enum
  <2>1. CASE c.enum = {}  BY <2>1 DEF Enums
  <2>2. CASE c.enum # {}
    <3>1. k.enum # {}  BY <1>1, <1>3, <2>2
    <3>2. Common(k.enum, c.enum) = k.enum  BY <1>7, <2>2 DEF Common
    <3>. QED  BY <2>2, <3>1, <3>2 DEF Enums
  <2>. QED  BY <2>1, <2>2
<1>9. (IF c.pattern # None THEN c.pattern ELSE k.pattern) = k.pattern  BY <1>1, <1>3
<1>10. Merged(k, c) = k
  <2>1. Merged(k, c) =
          [k EXCEPT !.pattern = IF c.pattern # None THEN c.pattern ELSE k.pattern,
                    !.low = Tighter("Greater", c.low, k.low),
                    !.high = Tighter("Less", c.high, k.high), !.enum = Enums(k.enum, c.enum)]
    BY DEF Merged, Enums, Common
  <2>2. [k EXCEPT !.pattern = k.pattern, !.low = k.low, !.high = k.high, !.enum = k.enum] = k
    BY <1>2 DEF Schema, ScalarSchema, ArraySchema
  <2>. QED  BY <1>5, <1>6, <1>8, <1>9, <2>1, <2>2
<1>11. k.pattern # None /\ c.pattern # None => k.pattern = c.pattern  BY <1>1, <1>3
<1>12. k.type # "unsupported"  BY <1>1 DEF Compiles, Scalars
<1>13. c.enum # {} => k.enum # {}  BY <1>1, <1>3
<1>14. Intersect(k, c) = k
  BY <1>1, <1>2, <1>3, <1>10, <1>11, <1>12, <1>13 DEF Intersect
<1>. QED  BY <1>1, <1>14

-----------------------------------------------------------------------------
(* A restriction: what is derived, and what is forwarded. *)

\* The rules of an exposure of version 2 or 3.
LEMMA Rules ==
  ASSUME NEW p, IsPolicy(p), ValidPolicy(p), p.version # 1
  PROVE  /\ DOMAIN p.rules \subseteq Names
         /\ \A n \in DOMAIN p.rules : ValidRule(p.rules[n])
         /\ \A n : /\ RuleFor(p, n).constraint \in Constraint
                   /\ RuleFor(p, n).how \in {"expose", "fixed", "omit"}
                   /\ RuleFor(p, n).how = "fixed" <=> n \in Ruled(p, "fixed")
                   /\ RuleFor(p, n).how # "expose" => RuleFor(p, n).required = FALSE
                   /\ n \notin DOMAIN p.rules => RuleFor(p, n).required = FALSE
         /\ \A n \in Ruled(p, "fixed") : p.rules[n].value \in Datum /\ n \in Names
<1>1. PICK names \in SUBSET Names : p \in PolicyOf(names)  BY DEF IsPolicy
<1>2. /\ p.rules \in [names -> RuleType] /\ p.unlisted \in BOOLEAN /\ p.version \in {2, 3}
  BY <1>1 DEF PolicyOf
<1>3. ValidExposure(p)  BY DEF ValidPolicy
<1>4. NoConstraint \in Constraint  BY DEF NoConstraint, Constraint
<1>5. \A n \in DOMAIN p.rules : ValidRule(p.rules[n]) /\ p.rules[n] \in RuleType
  BY <1>2, <1>3 DEF ValidExposure
<1>6. \A n \in DOMAIN p.rules :
        /\ p.rules[n].constraint \in Constraint /\ p.rules[n].how \in {"expose", "fixed", "omit"}
        /\ p.rules[n].value \in Datum \cup {None}
  BY <1>5 DEF RuleType
<1>7. \A n \in DOMAIN p.rules :
        /\ p.rules[n].how # "expose" => p.rules[n].required = FALSE
        /\ p.rules[n].how = "fixed" => p.rules[n].value # None
  <2>1. Rule("omit").required = FALSE  BY DEF Rule
  <2>2. \A v : [Rule("fixed") EXCEPT !.value = v].required = FALSE  BY DEF Rule
  <2>3. ASSUME NEW r, ValidRule(r)
        PROVE  (r.how # "expose" => r.required = FALSE) /\ (r.how = "fixed" => r.value # None)
    <3>1. CASE r.how = "fixed" /\ r = [Rule("fixed") EXCEPT !.value = r.value] /\ r.value # None
      BY <2>2, <3>1
    <3>2. CASE r = Rule("omit")
      <4>1. Rule("omit").how = "omit"  BY DEF Rule
      <4>. QED  BY <2>1, <3>2, <4>1
    <3>. QED  BY <2>3, <3>1, <3>2 DEF ValidRule
  <2>4. ASSUME NEW n \in DOMAIN p.rules
        PROVE  /\ p.rules[n].how # "expose" => p.rules[n].required = FALSE
               /\ p.rules[n].how = "fixed" => p.rules[n].value # None
    <3>1. ValidRule(p.rules[n])  BY <1>5
    <3>. QED  BY <2>3, <3>1
  <2>. QED  BY <2>4
<1>8. \A n : n \notin DOMAIN p.rules =>
        /\ RuleFor(p, n).constraint = NoConstraint
        /\ RuleFor(p, n).how \in {"expose", "omit"}
        /\ RuleFor(p, n).required = FALSE
  BY DEF RuleFor, Rule
<1>9. \A n : n \in DOMAIN p.rules => RuleFor(p, n) = p.rules[n]  BY DEF RuleFor
<1>10. \A n : n \in Ruled(p, "fixed") <=> n \in DOMAIN p.rules /\ p.rules[n].how = "fixed"
  BY DEF Ruled
<1>11. DOMAIN p.rules \subseteq Names  BY <1>2
<1>12. \A n : /\ RuleFor(p, n).constraint \in Constraint
              /\ RuleFor(p, n).how \in {"expose", "fixed", "omit"}
              /\ RuleFor(p, n).how = "fixed" <=> n \in Ruled(p, "fixed")
              /\ RuleFor(p, n).how # "expose" => RuleFor(p, n).required = FALSE
              /\ n \notin DOMAIN p.rules => RuleFor(p, n).required = FALSE
  <2>. TAKE n
  <2>1. CASE n \in DOMAIN p.rules  BY <2>1, <1>6, <1>7, <1>9, <1>10
  <2>2. CASE n \notin DOMAIN p.rules  BY <2>2, <1>4, <1>8, <1>10
  <2>. QED  BY <2>1, <2>2
<1>13. \A n \in Ruled(p, "fixed") : p.rules[n].value \in Datum /\ n \in Names
  BY <1>6, <1>7, <1>10, <1>11
<1>. QED  BY <1>5, <1>11, <1>12, <1>13

\* Those of version 2 list every property, and omit none.
LEMMA RulesV2 ==
  ASSUME NEW p, IsPolicy(p), ValidPolicy(p), p.version = 2
  PROVE  /\ p.unlisted = FALSE
         /\ \A n \in DOMAIN p.rules : RuleFor(p, n).how \in {"expose", "fixed"}
<1>1. PICK names \in SUBSET Names : p \in PolicyOf(names)  BY DEF IsPolicy
<1>2. p.unlisted \in BOOLEAN  BY <1>1 DEF PolicyOf
<1>3. p.unlisted = FALSE /\ \A n \in DOMAIN p.rules : p.rules[n].how # "omit"
  BY <1>2 DEF ValidPolicy, ValidExposure
<1>4. \A n \in DOMAIN p.rules : RuleFor(p, n) = p.rules[n]  BY DEF RuleFor
<1>5. \A n : RuleFor(p, n).how \in {"expose", "fixed", "omit"}
  <2>1. p.version # 1  OBVIOUS
  <2>. QED  BY <2>1, Rules
<1>. QED  BY <1>3, <1>4, <1>5

\* What a definition has.
LEMMA DefinitionHas ==
  ASSUME NEW d, IsDefinition(d)
  PROVE  /\ DOMAIN d.properties \subseteq Names /\ d.required \subseteq Names /\ d.open \in BOOLEAN
         /\ \A n \in DOMAIN d.properties : d.properties[n] \in Schema
  BY DEF IsDefinition, DefinitionOf

\* What an object has.
LEMMA ObjectHas ==
  ASSUME NEW v, IsObject(v)
  PROVE  DOMAIN v \subseteq Names /\ \A n \in DOMAIN v : v[n] \in Datum
  BY DEF IsObject

\* The public schema of a restriction.
DerivedFrom(p, d, s) ==
  /\ IsDefinition(s) /\ s.open = FALSE /\ s.required \subseteq DOMAIN s.properties
  /\ DOMAIN s.properties = {n \in DOMAIN d.properties : RuleFor(p, n).how = "expose"}
  /\ s.required = RequiredOf(p, d, DOMAIN s.properties)
  /\ \A n \in DOMAIN s.properties :
       /\ s.properties[n] = Intersect(d.properties[n], RuleFor(p, n).constraint)
       /\ s.properties[n] # None /\ s.properties[n] \in Schema
  /\ DefinitionCompiles(d) /\ DOMAIN p.rules \subseteq DOMAIN d.properties
  /\ \A n \in DOMAIN d.properties :
       ~ExposeConflicts(p, d, n) /\ ~FixedIsInvalid(p, d, n) /\ ~OmitsRequired(p, d, n)
\* A schema that is derived is as DerivedFrom says.
LEMMA Derived ==
  ASSUME NEW p, IsPolicy(p), ValidPolicy(p), p.version # 1, NEW d, IsDefinition(d),
         NEW s, s = DeriveV3(p, d), s # None
  PROVE  DerivedFrom(p, d, s)
<1>. DEFINE exposed == {n \in DOMAIN d.properties : RuleFor(p, n).how = "expose"}
            merged == [n \in exposed |-> Intersect(d.properties[n], RuleFor(p, n).constraint)]
<1>1. /\ s = [properties |-> merged, required |-> RequiredOf(p, d, exposed), open |-> FALSE]
      /\ DefinitionCompiles(d) /\ DOMAIN p.rules \subseteq DOMAIN d.properties
      /\ \A n \in DOMAIN d.properties :
           ~ExposeConflicts(p, d, n) /\ ~FixedIsInvalid(p, d, n) /\ ~OmitsRequired(p, d, n)
  BY DEF DeriveV3
<1>2. exposed \subseteq Names  BY DefinitionHas
<1>3. \A n \in exposed : merged[n] # None /\ merged[n] \in Schema
  <2>. TAKE n \in exposed
  <2>1. d.properties[n] \in Schema /\ RuleFor(p, n).constraint \in Constraint
    BY DefinitionHas, Rules
  <2>2. Intersect(d.properties[n], RuleFor(p, n).constraint) # None  BY <1>1 DEF ExposeConflicts
  <2>3. Intersect(d.properties[n], RuleFor(p, n).constraint) \in Schema
    BY <2>1, <2>2, Merges, Canonicals
  <2>. QED  BY <2>2, <2>3
<1>4. RequiredOf(p, d, exposed) \subseteq exposed  BY DEF RequiredOf
<1>5. s.properties = merged /\ s.required = RequiredOf(p, d, exposed) /\ s.open = FALSE
  BY <1>1
<1>6. DOMAIN merged = exposed  OBVIOUS
<1>7. merged \in [exposed -> Schema]  BY <1>3
<1>8. s \in DefinitionOf(exposed)  BY <1>1, <1>2, <1>4, <1>7 DEF DefinitionOf
<1>9. IsDefinition(s)  BY <1>2, <1>8 DEF IsDefinition
<1>10. \A n \in exposed : merged[n] = Intersect(d.properties[n], RuleFor(p, n).constraint)
  OBVIOUS
<1>. HIDE DEF merged
<1>. QED  BY <1>1, <1>3, <1>4, <1>5, <1>6, <1>9, <1>10 DEF DerivedFrom

\* What a restriction forwards is an object.
Forwarding(p, s, arguments, f) ==
  /\ IsObject(f) /\ f # None
  /\ DOMAIN f = (DOMAIN arguments \cap DOMAIN s.properties) \cup Ruled(p, "fixed")
  /\ \A n \in Ruled(p, "fixed") : f[n] = p.rules[n].value
  /\ \A n \in DOMAIN f \ Ruled(p, "fixed") : f[n] = arguments[n]
  /\ DOMAIN f \subseteq Names /\ \A n \in DOMAIN f : f[n] \in Datum
\* Of any arguments.
LEMMA Forwards ==
  ASSUME NEW p, IsPolicy(p), ValidPolicy(p), p.version # 1, NEW s, NEW arguments,
         IsObject(arguments), NEW f, f = WithFixed(p, s, arguments)
  PROVE  Forwarding(p, s, arguments, f)
<1>. DEFINE names == (DOMAIN arguments \cap DOMAIN s.properties) \cup Ruled(p, "fixed")
<1>1. f = [n \in names |-> IF n \in Ruled(p, "fixed") THEN p.rules[n].value ELSE arguments[n]]
  BY DEF WithFixed
<1>2. names \subseteq Names  BY Rules, ObjectHas
<1>3. \A n \in names : f[n] \in Datum
  <2>. TAKE n \in names
  <2>1. CASE n \in Ruled(p, "fixed")  BY <1>1, <2>1, Rules
  <2>2. CASE n \notin Ruled(p, "fixed")  BY <1>1, <2>2, ObjectHas
  <2>. QED  BY <2>1, <2>2
<1>4. f \in [names -> Datum]  BY <1>1, <1>3
<1>5. IsObject(f)  BY <1>2, <1>4 DEF IsObject
<1>. QED  BY <1>1, <1>2, <1>3, <1>5, DataAssumption DEF Forwarding

\* Numbers that are in order for a definition are so for each of its properties.
LEMMA InOrder ==
  ASSUME NEW p, NEW d, NEW f, ~ZeroWithFloat(p, d, f), NEW n \in Names,
         n \in DOMAIN d.properties, n \in DOMAIN f
  PROVE  /\ ~Mixed(BoundsOf(d.properties[n]) \cup BoundsOf(RuleFor(p, n).constraint) \cup {f[n]})
         /\ ~Mixed(BoundsOf(d.properties[n]) \cup BoundsOf(RuleFor(p, n).constraint))
         /\ ~Mixed(BoundsOf(d.properties[n]) \cup {f[n]})
         /\ ~Mixed(ItemLimits(d.properties[n], f[n]))
<1>1. ~Mixed(Compared(p, d, f, n)) /\ ~Mixed(ComparedItems(d, f, n))  BY DEF ZeroWithFloat
<1>2. Compared(p, d, f, n) =
        BoundsOf(d.properties[n]) \cup BoundsOf(RuleFor(p, n).constraint) \cup {f[n]}
  BY DEF Compared
<1>3. BoundsOf(d.properties[n]) \cup BoundsOf(RuleFor(p, n).constraint) \subseteq Compared(p, d, f, n)
  BY <1>2
<1>4. BoundsOf(d.properties[n]) \cup {f[n]} \subseteq Compared(p, d, f, n)
  BY <1>2
<1>5. ItemLimits(d.properties[n], f[n]) \subseteq ComparedItems(d, f, n)
  BY DEF ItemLimits, ComparedItems
<1>6. ~Mixed(BoundsOf(d.properties[n]) \cup BoundsOf(RuleFor(p, n).constraint))
  BY <1>1, <1>3, LessMixed
<1>7. ~Mixed(BoundsOf(d.properties[n]) \cup {f[n]})  BY <1>1, <1>4, LessMixed
<1>8. ~Mixed(ItemLimits(d.properties[n], f[n]))  BY <1>1, <1>5, LessMixed
<1>. QED  BY <1>1, <1>2, <1>6, <1>7, <1>8

\* What a restriction forwards, it allows and the upstream may accept.
LEMMA OnlyAllowed ==
  ASSUME NEW p, IsPolicy(p), ValidPolicy(p), p.version # 1, NEW d, IsDefinition(d),
         NEW s, s = DeriveV3(p, d), s # None,
         NEW arguments, IsObject(arguments), Accepts(s, arguments),
         NEW f, f = WithFixed(p, s, arguments), ~ZeroWithFloat(p, d, f)
  PROVE  Allowed(p, f) /\ MayAccept(d, f)
<1>1. /\ s.required = RequiredOf(p, d, DOMAIN s.properties)
      /\ DOMAIN s.properties = {n \in DOMAIN d.properties : RuleFor(p, n).how = "expose"}
      /\ \A n \in DOMAIN s.properties :
           /\ s.properties[n] = Intersect(d.properties[n], RuleFor(p, n).constraint)
           /\ s.properties[n] # None
      /\ DefinitionCompiles(d) /\ DOMAIN p.rules \subseteq DOMAIN d.properties
      /\ \A n \in DOMAIN d.properties :
           ~ExposeConflicts(p, d, n) /\ ~FixedIsInvalid(p, d, n) /\ ~OmitsRequired(p, d, n)
  <2>1. DerivedFrom(p, d, s)  BY Derived
  <2>. QED  BY <2>1 DEF DerivedFrom
<1>2. /\ s.required \subseteq DOMAIN arguments /\ DOMAIN arguments \subseteq DOMAIN s.properties
      /\ \A n \in DOMAIN arguments : Validates(s.properties[n], arguments[n])
  BY DEF Accepts
<1>3. /\ DOMAIN f = DOMAIN arguments \cup Ruled(p, "fixed")
      /\ \A n \in Ruled(p, "fixed") : f[n] = p.rules[n].value
      /\ \A n \in DOMAIN f \ Ruled(p, "fixed") : f[n] = arguments[n]
      /\ \A n \in DOMAIN f : f[n] \in Datum
      /\ DOMAIN f \subseteq Names
  <2>1. Forwarding(p, s, arguments, f)  BY Forwards
  <2>. QED  BY <1>2, <2>1 DEF Forwarding
<1>4. Ruled(p, "fixed") \subseteq DOMAIN p.rules  BY DEF Ruled
<1>5. DOMAIN f \subseteq DOMAIN d.properties  BY <1>1, <1>2, <1>3, <1>4
<1>6. \A n \in DOMAIN f :
        n \in Ruled(p, "fixed") \/ (n \in DOMAIN arguments /\ RuleFor(p, n).how = "expose")
  BY <1>1, <1>2, <1>3
<1>7. \A n \in Ruled(p, "fixed") : RuleFor(p, n).how = "fixed" /\ RuleFor(p, n) = p.rules[n]
  BY <1>4, Rules DEF RuleFor
<1>8. ASSUME NEW n \in DOMAIN f, RuleFor(p, n).how = "expose"
      PROVE  Meets(d.properties[n], f[n]) /\ MeetsBounds(RuleFor(p, n).constraint, f[n])
  <2>1. n \in DOMAIN arguments /\ n \in DOMAIN s.properties /\ f[n] = arguments[n]
    BY <1>2, <1>3, <1>6, <1>7, <1>8
  <2>2. Validates(Intersect(d.properties[n], RuleFor(p, n).constraint), f[n])
    BY <1>1, <1>2, <2>1
  <2>3. /\ d.properties[n] \in Schema /\ RuleFor(p, n).constraint \in Constraint
        /\ Intersect(d.properties[n], RuleFor(p, n).constraint) # None
    BY <1>1, <1>5, <2>1, DefinitionHas, Rules
  <2>4. /\ ~Mixed(BoundsOf(d.properties[n]) \cup BoundsOf(RuleFor(p, n).constraint) \cup {f[n]})
        /\ ~Mixed(ItemLimits(d.properties[n], f[n]))
    BY <1>3, <1>5, InOrder
  <2>. QED  BY <1>3, <2>2, <2>3, <2>4, Conjunction
<1>9. ASSUME NEW n \in Ruled(p, "fixed")
      PROVE  n \in DOMAIN f /\ f[n] = p.rules[n].value /\ Meets(d.properties[n], f[n])
  <2>1. n \in DOMAIN f /\ f[n] = p.rules[n].value /\ n \in DOMAIN d.properties
    BY <1>3, <1>5
  <2>2. Validates(d.properties[n], f[n])  BY <1>1, <1>7, <2>1 DEF FixedIsInvalid
  <2>3. d.properties[n] \in Schema  BY <2>1, DefinitionHas
  <2>4. /\ ~Mixed(BoundsOf(d.properties[n]) \cup {f[n]})
        /\ ~Mixed(ItemLimits(d.properties[n], f[n]))
    BY <1>3, <2>1, InOrder
  <2>. QED  BY <1>3, <2>1, <2>2, <2>3, <2>4, ValidatesIsMeets
<1>10. \A n \in DOMAIN p.rules : p.rules[n].required => n \in DOMAIN f
  <2>. TAKE n \in DOMAIN p.rules
  <2>. HAVE p.rules[n].required
  <2>1. RuleFor(p, n) = p.rules[n]  BY DEF RuleFor
  <2>2. RuleFor(p, n).how = "expose"  BY <2>1, Rules
  <2>3. n \in DOMAIN s.properties  BY <1>1, <2>2
  <2>4. n \in s.required  BY <1>1, <2>1, <2>3 DEF RequiredOf
  <2>. QED  BY <1>2, <1>3, <2>4
<1>11. Allowed(p, f)
  BY <1>3, <1>6, <1>7, <1>8, <1>9, <1>10 DEF Allowed
<1>12. d.required \subseteq DOMAIN f
  <2>. SUFFICES ASSUME NEW n \in d.required PROVE n \in DOMAIN f
    OBVIOUS
  <2>1. n \in DOMAIN d.properties  BY <1>1 DEF DefinitionCompiles
  <2>2. RuleFor(p, n).how # "omit"  BY <1>1, <2>1 DEF OmitsRequired
  <2>3. CASE RuleFor(p, n).how = "expose"
    <3>1. n \in DOMAIN s.properties  BY <1>1, <2>1, <2>3
    <3>2. n \in s.required  BY <1>1, <3>1 DEF RequiredOf
    <3>. QED  BY <1>2, <1>3, <3>2
  <2>4. CASE RuleFor(p, n).how = "fixed"  BY <1>3, <2>4, Rules
  <2>. QED  BY <2>2, <2>3, <2>4, Rules
<1>13. MayAccept(d, f)
  <2>1. ASSUME NEW n \in DOMAIN f PROVE Meets(d.properties[n], f[n])
    <3>1. CASE n \in Ruled(p, "fixed")  BY <1>9, <3>1
    <3>2. CASE n \notin Ruled(p, "fixed")  BY <1>6, <1>8, <3>2
    <3>. QED  BY <3>1, <3>2
  <2>. QED  BY <1>5, <1>12, <2>1 DEF MayAccept
<1>. QED  BY <1>11, <1>13

\* What it allows and the upstream may accept, of the exposed properties, it accepts; but for a
\* float where an integer is asked for.
LEMMA AllAllowed ==
  ASSUME NEW p, IsPolicy(p), ValidPolicy(p), p.version # 1, NEW d, IsDefinition(d),
         NEW s, s = DeriveV3(p, d), s # None,
         NEW arguments, IsObject(arguments), ~ZeroWithFloat(p, d, arguments),
         ~FloatForInteger(d, arguments),
         \A n \in DOMAIN arguments : n \in DOMAIN d.properties /\ RuleFor(p, n).how = "expose",
         NEW f, f = WithFixed(p, [properties |-> arguments], arguments),
         Allowed(p, f), MayAccept(d, f)
  PROVE  Accepts(s, arguments)
<1>1. DerivedFrom(p, d, s)  BY Derived
<1>2. Forwarding(p, [properties |-> arguments], arguments, f)  BY Forwards
<1>3. /\ DOMAIN f = DOMAIN arguments \cup Ruled(p, "fixed")
      /\ \A n \in DOMAIN f \ Ruled(p, "fixed") : f[n] = arguments[n]
  BY <1>2 DEF Forwarding
<1>4. DOMAIN arguments \subseteq DOMAIN s.properties  BY <1>1 DEF DerivedFrom
<1>5. \A n : RuleFor(p, n).how = "expose" => n \notin Ruled(p, "fixed")  BY Rules
<1>6. s.required \subseteq DOMAIN arguments
  <2>. SUFFICES ASSUME NEW n \in s.required PROVE n \in DOMAIN arguments
    OBVIOUS
  <2>1. /\ n \in DOMAIN s.properties /\ RuleFor(p, n).how = "expose"
        /\ n \in d.required \/ RuleFor(p, n).required
    BY <1>1 DEF DerivedFrom, RequiredOf
  <2>2. n \in DOMAIN f
    <3>1. CASE n \in d.required  BY <3>1 DEF MayAccept
    <3>2. CASE RuleFor(p, n).required
      <4>1. n \in DOMAIN p.rules  BY <3>2, Rules
      <4>2. p.rules[n].required  BY <3>2, <4>1 DEF RuleFor
      <4>. QED  BY <4>1, <4>2 DEF Allowed
    <3>. QED  BY <2>1, <3>1, <3>2
  <2>. QED  BY <1>3, <1>5, <2>1, <2>2
<1>7. ASSUME NEW n \in DOMAIN arguments
      PROVE  Validates(s.properties[n], arguments[n])
  <2>1. /\ n \in DOMAIN d.properties /\ RuleFor(p, n).how = "expose"
        /\ n \in DOMAIN f /\ f[n] = arguments[n]
    BY <1>3, <1>5
  <2>2. Meets(d.properties[n], arguments[n])  BY <2>1 DEF MayAccept
  <2>3. MeetsBounds(RuleFor(p, n).constraint, arguments[n])  BY <2>1 DEF Allowed
  <2>4. /\ n \in DOMAIN s.properties
        /\ s.properties[n] = Intersect(d.properties[n], RuleFor(p, n).constraint)
        /\ s.properties[n] # None
    BY <1>1, <1>4 DEF DerivedFrom
  <2>5. /\ d.properties[n] \in Schema /\ RuleFor(p, n).constraint \in Constraint
        /\ n \in Names /\ arguments[n] \in Datum
    BY <2>1, DefinitionHas, Rules, ObjectHas
  <2>6. /\ ~Mixed(BoundsOf(d.properties[n]) \cup BoundsOf(RuleFor(p, n).constraint)
                 \cup {arguments[n]})
        /\ ~Mixed(ItemLimits(d.properties[n], arguments[n]))
    BY <2>1, <2>5, InOrder
  <2>7. ~GivenFloat(d.properties[n], arguments[n])  BY <2>1 DEF FloatForInteger
  <2>. QED  BY <2>2, <2>3, <2>4, <2>5, <2>6, <2>7, Conjunction
<1>. QED  BY <1>4, <1>6, <1>7 DEF Accepts

\* Version 2 derives what version 3 does, of a definition with no other required property.
LEMMA DerivedV2 ==
  ASSUME NEW p, IsPolicy(p), ValidPolicy(p), p.version = 2, NEW d, IsDefinition(d),
         NEW s, s = DeriveV2(p, d), s # None
  PROVE  /\ s = DeriveV3(p, d) /\ DerivedFrom(p, d, s)
         /\ DOMAIN s.properties = Ruled(p, "expose") /\ s.required = Ruled(p, "expose")
<1>1. /\ s = DeriveV3(p, d) /\ Ruled(p, "expose") \subseteq d.required  BY DEF DeriveV2
<1>2. DerivedFrom(p, d, s)  BY <1>1, Derived
<1>3. \A n : RuleFor(p, n).how = "expose" <=> n \in Ruled(p, "expose")
  <2>1. p.unlisted = FALSE  BY RulesV2
  <2>. QED  BY <2>1 DEF RuleFor, Ruled, Rule
<1>4. Ruled(p, "expose") \subseteq DOMAIN d.properties  BY <1>2 DEF DerivedFrom, Ruled
<1>5. DOMAIN s.properties = Ruled(p, "expose")  BY <1>2, <1>3, <1>4 DEF DerivedFrom
<1>6. s.required = Ruled(p, "expose")  BY <1>1, <1>2, <1>5 DEF DerivedFrom, RequiredOf
<1>. QED  BY <1>1, <1>2, <1>5, <1>6

\* A call of version 2: enforcing the constraints once more lets nothing else through, and
\* rejects nothing if the numbers are compared in order.
LEMMA ResolvesV2 ==
  ASSUME NEW p, IsPolicy(p), ValidPolicy(p), p.version = 2, p.restricted,
         NEW d, IsDefinition(d), NEW s, s = DeriveV2(p, d), s # None,
         NEW arguments, IsObject(arguments)
  PROVE  /\ ResolveV2(p, s, arguments) # None =>
              Accepts(s, arguments) /\ ResolveV2(p, s, arguments) = WithFixed(p, s, arguments)
         /\ Accepts(s, arguments) /\ ~ZeroWithFloat(p, d, arguments) =>
              ResolveV2(p, s, arguments) = WithFixed(p, s, arguments)
<1>1. DerivedFrom(p, d, s) /\ DOMAIN s.properties = Ruled(p, "expose")  BY DerivedV2
<1>2. ASSUME Accepts(s, arguments), ~ZeroWithFloat(p, d, arguments), NEW n \in DOMAIN arguments
      PROVE  /\ Intersect(s.properties[n], p.rules[n].constraint) = s.properties[n]
             /\ s.properties[n] # None /\ Validates(s.properties[n], arguments[n])
  <2>1. n \in DOMAIN s.properties /\ Validates(s.properties[n], arguments[n])
    BY <1>2 DEF Accepts
  <2>2. n \in DOMAIN p.rules /\ p.rules[n] = RuleFor(p, n)
    BY <1>1, <2>1 DEF Ruled, RuleFor
  <2>3. /\ s.properties[n] = Intersect(d.properties[n], p.rules[n].constraint)
        /\ s.properties[n] # None /\ n \in DOMAIN d.properties
    BY <1>1, <2>1, <2>2 DEF DerivedFrom
  <2>4. d.properties[n] \in Schema /\ p.rules[n].constraint \in Constraint
    <3>1. p.version # 1  OBVIOUS
    <3>2. RuleFor(p, n).constraint \in Constraint  BY <3>1, Rules
    <3>. QED  BY <2>2, <2>3, <3>2, DefinitionHas
  <2>5. n \in Names  BY ObjectHas
  <2>6. ~Mixed(BoundsOf(d.properties[n]) \cup BoundsOf(p.rules[n].constraint))
    BY <1>2, <2>2, <2>3, <2>5, InOrder
  <2>. QED  BY <2>1, <2>3, <2>4, <2>6, Idempotent
<1>3. ResolveV2(p, s, arguments) # None =>
        Accepts(s, arguments) /\ ResolveV2(p, s, arguments) = WithFixed(p, s, arguments)
  BY DEF ResolveV2
<1>4. Accepts(s, arguments) /\ ~ZeroWithFloat(p, d, arguments) =>
        ResolveV2(p, s, arguments) = WithFixed(p, s, arguments)
  BY <1>1, <1>2 DEF ResolveV2
<1>. QED  BY <1>3, <1>4

\* A frozen schema that is not compatible with a definition: no call can meet both, but for a
\* float where an integer is asked for.
LEMMA Incompatible ==
  ASSUME NEW p, IsPolicy(p), ValidPolicy(p), p.version = 2, p.restricted,
         NEW d, IsDefinition(d), NEW s, s = DeriveV2(p, d), s # None,
         NEW arguments, IsObject(arguments),
         NEW f, f = ResolveV2(p, s, arguments), f # None,
         NEW e, IsDefinition(e), ~e.open, MayAccept(e, f), ~ZeroWithFloat(p, e, f),
         ~FloatForInteger(e, f)
  PROVE  Compatible(p, s, e)
<1>1. Accepts(s, arguments) /\ f = WithFixed(p, s, arguments)  BY ResolvesV2
<1>2. DOMAIN s.properties = Ruled(p, "expose") /\ s.required = Ruled(p, "expose")
  BY DerivedV2
<1>3. Forwarding(p, s, arguments, f)  BY <1>1, Forwards
<1>4. DOMAIN arguments = Ruled(p, "expose")  BY <1>1, <1>2 DEF Accepts
<1>5. DOMAIN f = DOMAIN p.rules
  <2>1. DOMAIN f = Ruled(p, "expose") \cup Ruled(p, "fixed")  BY <1>2, <1>3, <1>4 DEF Forwarding
  <2>2. \A n \in DOMAIN p.rules : p.rules[n].how \in {"expose", "fixed"}
    <3>. TAKE n \in DOMAIN p.rules
    <3>1. RuleFor(p, n).how \in {"expose", "fixed"}  BY RulesV2
    <3>. QED  BY <3>1 DEF RuleFor
  <2>. QED  BY <2>1, <2>2 DEF Ruled
<1>6. e.required \subseteq DOMAIN p.rules /\ DOMAIN p.rules \subseteq DOMAIN e.properties
  BY <1>5 DEF MayAccept
<1>7. ASSUME NEW n \in Ruled(p, "fixed"), Compiles(e.properties[n])
      PROVE  Validates(e.properties[n], p.rules[n].value)
  <2>1. n \in DOMAIN f /\ n \in DOMAIN e.properties  BY <1>5, <1>6 DEF Ruled
  <2>2. f[n] = p.rules[n].value /\ f[n] \in Datum /\ n \in Names
    BY <1>3, <2>1 DEF Forwarding
  <2>3. Meets(e.properties[n], f[n])  BY <2>1 DEF MayAccept
  <2>4. e.properties[n] \in Schema  BY <2>1, DefinitionHas
  <2>5. /\ ~Mixed(BoundsOf(e.properties[n]) \cup {f[n]})
        /\ ~Mixed(ItemLimits(e.properties[n], f[n]))
    BY <2>1, <2>2, InOrder
  <2>6. ~GivenFloat(e.properties[n], f[n])  BY <2>1 DEF FloatForInteger
  <2>. QED  BY <1>7, <2>2, <2>3, <2>4, <2>5, <2>6, ValidatesIsMeets
<1>. QED  BY <1>6, <1>7 DEF Compatible

-----------------------------------------------------------------------------
(* Flattening: the arguments of a program. *)

\* A set that has 0, and every successor of what it has, has every natural number.
LEMMA Induction ==
  ASSUME NEW T, 0 \in T, \A n \in Nat : n \in T => n + 1 \in T
  PROVE  Nat \subseteq T
<1>. DEFINE R == OpToRel(<, Nat)
<1>1. SUFFICES ASSUME Nat \ T # {} PROVE FALSE
  OBVIOUS
<1>2. \A x, y \in Nat : y < x => <<y, x>> \in R
  BY DEF OpToRel
<1>3. IsWellFoundedOn(R, Nat)  BY NatLessThanWellFounded
<1>. HIDE DEF R
<1>4. PICK x \in Nat \ T : \A y \in Nat \ T : ~(<<y, x>> \in R)
  BY <1>1, <1>3, WFMin
<1>5. x # 0 /\ x - 1 \in Nat  BY <1>4
<1>6. x - 1 \in T
  <2>1. <<x - 1, x>> \in R  BY <1>2, <1>5
  <2>. QED  BY <1>4, <1>5, <2>1
<1>7. (x - 1) + 1 = x  BY <1>5
<1>. QED  BY <1>4, <1>5, <1>6, <1>7

\* The flattening of a sequence of sequences, one sequence after another.
Flat(seqs, n) == CHOOSE g : g = [i \in 1 .. n |-> IF i = 1 THEN seqs[i] ELSE g[i - 1] \o seqs[i]]
\* There is such a function.
LEMMA FlatExists ==
  ASSUME NEW seqs, NEW n \in Nat
  PROVE  Flat(seqs, n) =
           [i \in 1 .. n |-> IF i = 1 THEN seqs[i] ELSE Flat(seqs, n)[i - 1] \o seqs[i]]
<1>. DEFINE Is(g, m) == g = [i \in 1 .. m |-> IF i = 1 THEN seqs[i] ELSE g[i - 1] \o seqs[i]]
            T == {m \in Nat : \E g : Is(g, m)}
<1>1. 0 \in T
  <2>1. Is(<<>>, 0)  OBVIOUS
  <2>. QED  BY <2>1
<1>2. \A m \in Nat : m \in T => m + 1 \in T
  <2>. SUFFICES ASSUME NEW m \in Nat, m \in T PROVE m + 1 \in T
    OBVIOUS
  <2>1. PICK g : Is(g, m)  OBVIOUS
  <2>. DEFINE h == [i \in 1 .. (m + 1) |-> IF i = 1 THEN seqs[i] ELSE g[i - 1] \o seqs[i]]
  <2>2. ASSUME NEW i \in 1 .. m PROVE h[i] = g[i]
    <3>1. i \in 1 .. (m + 1)  OBVIOUS
    <3>2. g[i] = IF i = 1 THEN seqs[i] ELSE g[i - 1] \o seqs[i]  BY <2>1
    <3>. QED  BY <3>1, <3>2
  <2>3. \A i \in 1 .. (m + 1) : i # 1 => i - 1 \in 1 .. m  OBVIOUS
  <2>4. \A i \in 1 .. (m + 1) : i # 1 => h[i - 1] = g[i - 1]  BY <2>2, <2>3
  <2>5. h = [i \in 1 .. (m + 1) |-> IF i = 1 THEN seqs[i] ELSE h[i - 1] \o seqs[i]]
    BY <2>4
  <2>. HIDE DEF h
  <2>6. Is(h, m + 1)  BY <2>5
  <2>7. m + 1 \in Nat  OBVIOUS
  <2>. HIDE DEF Is
  <2>. QED  BY <2>6, <2>7
<1>3. n \in T  BY <1>1, <1>2, Induction
<1>. QED  BY <1>3 DEF Flat

\* What the flattening of the arguments of a program ends with.
LEMMA FlattenIsFlat ==
  ASSUME NEW S, NEW seqs \in Seq(S), Len(seqs) # 0
  PROVE  Seqs!FlattenSeq(seqs) = Flat(seqs, Len(seqs))[Len(seqs)]
  BY DEF Seqs!FlattenSeq, Flat

\* What is flattened up to a sequence is what is up to the one before, and it.
LEMMA FlatStep ==
  ASSUME NEW seqs, NEW n \in Nat, NEW i \in 1 .. n
  PROVE  /\ i = 1 => Flat(seqs, n)[i] = seqs[i]
         /\ i # 1 => i - 1 \in 1 .. n /\ Flat(seqs, n)[i] = Flat(seqs, n)[i - 1] \o seqs[i]
<1>. DEFINE F == Flat(seqs, n)
<1>1. F = [j \in 1 .. n |-> IF j = 1 THEN seqs[j] ELSE F[j - 1] \o seqs[j]]  BY FlatExists
<1>. HIDE DEF F
<1>2. F[i] = IF i = 1 THEN seqs[i] ELSE F[i - 1] \o seqs[i]  BY <1>1
<1>3. i # 1 => i - 1 \in 1 .. n  OBVIOUS
<1>4. (i = 1 => F[i] = seqs[i]) /\ (i # 1 => F[i] = F[i - 1] \o seqs[i])  BY <1>2
<1>. QED  BY <1>3, <1>4 DEF F

\* It has elements of the sequences only.
LEMMA FlatHolds ==
  ASSUME NEW X, NEW seqs, NEW n \in Nat, \A j \in 1 .. n : seqs[j] \in Seq(X)
  PROVE  \A i \in 1 .. n : Flat(seqs, n)[i] \in Seq(X)
<1>. DEFINE F == Flat(seqs, n)
            T == {m \in Nat : m \in 1 .. n => F[m] \in Seq(X)}
<1>1. 0 \in T  OBVIOUS
<1>2. ASSUME NEW m \in Nat, m \in T, m + 1 \in 1 .. n PROVE F[m + 1] \in Seq(X)
  <2>1. CASE m = 0
    <3>1. 1 \in 1 .. n /\ m + 1 = 1  BY <1>2, <2>1
    <3>2. F[1] = seqs[1]  BY <3>1, FlatStep
    <3>. QED  BY <3>1, <3>2
  <2>2. CASE m # 0
    <3>0. m + 1 # 1  BY <2>2
    <3>1. F[m + 1] = F[(m + 1) - 1] \o seqs[m + 1]  BY <1>2, <3>0, FlatStep
    <3>2. F[m] \in Seq(X) /\ (m + 1) - 1 = m  BY <1>2, <2>2
    <3>3. seqs[m + 1] \in Seq(X)  BY <1>2
    <3>. HIDE DEF F
    <3>. QED  BY <3>1, <3>2, <3>3
  <2>. QED  BY <2>1, <2>2
<1>3. Nat \subseteq T
  <2>1. \A m \in Nat : m \in T => m + 1 \in T  BY <1>2
  <2>. HIDE DEF T
  <2>. QED  BY <1>1, <2>1, Induction
<1>. QED  BY <1>3

\* What is flattened later comes after.
Extended(seqs, n, k) ==
  /\ Len(Flat(seqs, n)[n]) >= Len(Flat(seqs, n)[k])
  /\ \A x \in 1 .. Len(Flat(seqs, n)[k]) : Flat(seqs, n)[n][x] = Flat(seqs, n)[k][x]
  /\ (\A j \in (k + 1) .. n : Len(seqs[j]) = 1) =>
       Len(Flat(seqs, n)[n]) + k = Len(Flat(seqs, n)[k]) + n
\* Whatever comes later.
LEMMA FlatExtends ==
  ASSUME NEW X, NEW seqs, NEW n \in Nat, \A j \in 1 .. n : seqs[j] \in Seq(X),
         NEW k \in 1 .. n
  PROVE  Extended(seqs, n, k)
<1>. DEFINE F == Flat(seqs, n)
            Later(m) == /\ Len(F[m]) >= Len(F[k])
                        /\ \A x \in 1 .. Len(F[k]) : F[m][x] = F[k][x]
                        /\ (\A j \in (k + 1) .. n : Len(seqs[j]) = 1) =>
                             Len(F[m]) + k = Len(F[k]) + m
            T == {m \in Nat : m \in k .. n => Later(m)}
<1>0. \A i \in 1 .. n : F[i] \in Seq(X)  BY FlatHolds
<1>1. ASSUME NEW i \in 1 .. n, i # 1 PROVE F[i] = F[i - 1] \o seqs[i]  BY <1>1, FlatStep
<1>. HIDE DEF F
<1>2. Later(k)
  <2>1. Len(F[k]) \in Nat  BY <1>0
  <2>. QED  BY <2>1
<1>3. 0 \in T  BY <1>2
<1>4. ASSUME NEW m \in Nat, m \in T, m + 1 \in k .. n PROVE Later(m + 1)
  <2>1. CASE m + 1 = k  BY <1>2, <2>1
  <2>2. CASE m >= k
    <3>1. m \in k .. n /\ m \in 1 .. n /\ m + 1 \in 1 .. n /\ m + 1 # 1 /\ (m + 1) - 1 = m
          /\ m + 1 \in (k + 1) .. n
      BY <1>4, <2>2
    <3>2. Later(m)  BY <1>4, <3>1
    <3>3. F[m + 1] = F[m] \o seqs[m + 1]  BY <1>1, <3>1
    <3>4. F[m] \in Seq(X) /\ F[k] \in Seq(X) /\ seqs[m + 1] \in Seq(X)  BY <1>0, <3>1
    <3>5. \A a, b \in Seq(X) :
            Len(a \o b) = Len(a) + Len(b) /\ \A x \in 1 .. Len(a) : (a \o b)[x] = a[x]
      OBVIOUS
    <3>6. Len(F[m + 1]) = Len(F[m]) + Len(seqs[m + 1])  BY <3>3, <3>4, <3>5
    <3>7. \A x \in 1 .. Len(F[m]) : F[m + 1][x] = F[m][x]
      <4>1. \A x \in 1 .. Len(F[m]) : (F[m] \o seqs[m + 1])[x] = F[m][x]  BY <3>4, <3>5
      <4>. QED  BY <3>3, <4>1
    <3>8. Len(F[m]) \in Nat /\ Len(F[k]) \in Nat /\ Len(seqs[m + 1]) \in Nat  BY <3>4
    <3>9. Len(F[m]) >= Len(F[k])  BY <3>2
    <3>10. Len(F[m + 1]) >= Len(F[k])
      <4>1. \A a, b, c \in Nat : a >= b => a + c >= b  OBVIOUS
      <4>. QED  BY <3>6, <3>8, <3>9, <4>1
    <3>11. ASSUME NEW x \in 1 .. Len(F[k]) PROVE F[m + 1][x] = F[k][x]
      <4>1. x \in 1 .. Len(F[m])  BY <3>8, <3>9
      <4>. QED  BY <3>2, <3>7, <4>1
    <3>12. ASSUME \A j \in (k + 1) .. n : Len(seqs[j]) = 1
           PROVE  Len(F[m + 1]) + k = Len(F[k]) + (m + 1)
      <4>1. Len(F[m]) + k = Len(F[k]) + m  BY <3>2, <3>12
      <4>2. Len(seqs[m + 1]) = 1  BY <3>1, <3>12
      <4>3. \A a, b, c, d \in Nat : a + d = b + c => (a + 1) + d = b + (c + 1)  OBVIOUS
      <4>4. Len(F[m + 1]) = Len(F[m]) + 1  BY <3>6, <4>2
      <4>5. m \in Nat /\ k \in Nat  OBVIOUS
      <4>6. (Len(F[m]) + 1) + k = Len(F[k]) + (m + 1)
        <5>1. ASSUME NEW a \in Nat, NEW b \in Nat, a + k = b + m PROVE (a + 1) + k = b + (m + 1)
          BY <4>3, <4>5, <5>1
        <5>. QED  BY <3>8, <4>1, <5>1
      <4>. QED  BY <4>4, <4>6
    <3>. QED  BY <3>10, <3>11, <3>12
  <2>3. m + 1 = k \/ m >= k  BY <1>4
  <2>. HIDE DEF Later
  <2>. QED  BY <2>1, <2>2, <2>3
<1>5. Nat \subseteq T
  <2>1. \A m \in Nat : m \in T => m + 1 \in T
    <3>. HIDE DEF Later
    <3>. QED  BY <1>4
  <2>. HIDE DEF T
  <2>. QED  BY <1>3, <2>1, Induction
<1>6. Later(n)
  <2>1. n \in T /\ n \in k .. n  BY <1>5
  <2>. HIDE DEF Later
  <2>. QED  BY <2>1
<1>. QED  BY <1>6 DEF F, Extended

\* Sequences of one element make as many elements.
LEMMA FlatOfOnes ==
  ASSUME NEW X, NEW seqs, NEW n \in Nat, \A j \in 1 .. n : seqs[j] \in Seq(X),
         NEW k \in 1 .. n, \A j \in 1 .. k : Len(seqs[j]) = 1
  PROVE  Len(Flat(seqs, n)[k]) = k
<1>. DEFINE F == Flat(seqs, n)
            T == {m \in Nat : m \in 1 .. k => Len(F[m]) = m}
<1>1. \A i \in 1 .. n : F[i] \in Seq(X)  BY FlatHolds
<1>2. ASSUME NEW i \in 1 .. n
      PROVE  (i = 1 => F[i] = seqs[i]) /\ (i # 1 => F[i] = F[i - 1] \o seqs[i])
  BY FlatStep
<1>. HIDE DEF F
<1>3. 0 \in T  OBVIOUS
<1>4. ASSUME NEW m \in Nat, m \in T, m + 1 \in 1 .. k PROVE Len(F[m + 1]) = m + 1
  <2>1. m + 1 \in 1 .. n /\ Len(seqs[m + 1]) = 1  BY <1>4
  <2>2. CASE m = 0
    <3>1. m + 1 = 1  BY <2>2
    <3>2. F[1] = seqs[1] /\ Len(seqs[1]) = 1  BY <1>2, <2>1, <3>1
    <3>. QED  BY <3>1, <3>2
  <2>3. CASE m # 0
    <3>1. m \in 1 .. k /\ m \in 1 .. n /\ m + 1 # 1 /\ (m + 1) - 1 = m  BY <1>4, <2>3
    <3>2. F[m + 1] = F[m] \o seqs[m + 1]  BY <1>2, <2>1, <3>1
    <3>3. F[m] \in Seq(X) /\ seqs[m + 1] \in Seq(X)  BY <1>1, <2>1, <3>1
    <3>4. Len(F[m]) = m  BY <1>4, <3>1
    <3>5. \A a, b \in Seq(X) : Len(a \o b) = Len(a) + Len(b)  OBVIOUS
    <3>6. Len(F[m + 1]) = Len(F[m]) + Len(seqs[m + 1])  BY <3>2, <3>3, <3>5
    <3>. QED  BY <2>1, <3>4, <3>6
  <2>. QED  BY <2>2, <2>3
<1>5. Nat \subseteq T
  <2>1. \A m \in Nat : m \in T => m + 1 \in T  BY <1>4
  <2>. HIDE DEF T
  <2>. QED  BY <1>3, <2>1, Induction
<1>6. Len(F[k]) = k  BY <1>5
<1>. QED  BY <1>6 DEF F

\* A sequence of one element ends what is flattened so far.
LEMMA FlatEnds ==
  ASSUME NEW X, NEW seqs, NEW n \in Nat, \A j \in 1 .. n : seqs[j] \in Seq(X),
         NEW k \in 1 .. n, Len(seqs[k]) = 1
  PROVE  /\ Len(Flat(seqs, n)[k]) \in Nat \ {0}
         /\ Flat(seqs, n)[k][Len(Flat(seqs, n)[k])] = seqs[k][1]
<1>. DEFINE F == Flat(seqs, n)
<1>1. \A i \in 1 .. n : F[i] \in Seq(X)  BY FlatHolds
<1>2. /\ k = 1 => F[k] = seqs[k]
      /\ k # 1 => k - 1 \in 1 .. n /\ F[k] = F[k - 1] \o seqs[k]
  BY FlatStep
<1>. HIDE DEF F
<1>3. Len(F[k]) \in Nat \ {0} /\ F[k][Len(F[k])] = seqs[k][1]
  <2>1. CASE k = 1  BY <1>2, <2>1
  <2>2. CASE k # 1
    <3>1. \A a, b \in Seq(X) : Len(b) = 1 =>
            Len(a \o b) \in Nat \ {0} /\ (a \o b)[Len(a \o b)] = b[1]
      <4>. TAKE a, b \in Seq(X)
      <4>. HAVE Len(b) = 1
      <4>0. Len(a \o b) = Len(a) + Len(b) /\ Len(a) \in Nat  BY ConcatProperties, LenProperties
      <4>1. Len(a \o b) = Len(a) + 1 /\ Len(a) \in Nat  BY <4>0
      <4>2. (a \o b)[Len(a) + 1] = b[1]  BY <4>1
      <4>. QED  BY <4>1, <4>2
    <3>2. k - 1 \in 1 .. n /\ F[k] = F[k - 1] \o seqs[k]  BY <1>2, <2>2
    <3>3. F[k - 1] \in Seq(X) /\ seqs[k] \in Seq(X)  BY <1>1, <3>2
    <3>. QED  BY <3>1, <3>2, <3>3
  <2>. QED  BY <2>1, <2>2
<1>. QED  BY <1>3 DEF F

\* A sequence is of what its elements are.
LEMMA SeqOf ==
  ASSUME NEW X, NEW s \in Seq(X), NEW Y, \A x \in DOMAIN s : s[x] \in Y
  PROVE  s \in Seq(Y)
<1>1. PICK n \in Nat : n = Len(s)  OBVIOUS
<1>2. s \in [1 .. n -> X]  BY <1>1, LenProperties
<1>3. s \in [1 .. n -> Y]  BY <1>2
<1>. QED  BY <1>3, SeqDef

\* Flattened are elements of the sequences; an element before which all sequences are of one
\* element, or after which all are, is at its own place.
Flattened(seqs, flat) ==
  /\ \A i \in DOMAIN flat : \E j \in DOMAIN seqs : \E x \in DOMAIN seqs[j] : flat[i] = seqs[j][x]
  /\ \A k \in DOMAIN seqs :
       /\ (\A j \in 1 .. k : Len(seqs[j]) = 1) => flat[k] = seqs[k][1]
       /\ (\A j \in k .. Len(seqs) : Len(seqs[j]) = 1) =>
            flat[Len(flat) - (Len(seqs) - k)] = seqs[k][1]
\* Of any sequence of sequences.
LEMMA Flattens ==
  ASSUME NEW X, NEW seqs \in Seq(Seq(X)), NEW flat, flat = Seqs!FlattenSeq(seqs)
  PROVE  flat \in Seq(X) /\ Flattened(seqs, flat)
<1>. DEFINE n == Len(seqs)
            F == Flat(seqs, n)
            Y == {v \in X : \E j \in DOMAIN seqs : \E x \in DOMAIN seqs[j] : v = seqs[j][x]}
<1>1. CASE n = 0
  <2>1. flat = seqs /\ DOMAIN seqs = {} /\ seqs = <<>>  BY <1>1 DEF Seqs!FlattenSeq
  <2>. QED  BY <2>1 DEF Flattened
<1>2. CASE n # 0
  <2>1. n \in Nat /\ DOMAIN seqs = 1 .. n /\ \A j \in 1 .. n : seqs[j] \in Seq(X)  OBVIOUS
  <2>2. n \in 1 .. n  BY <1>2, <2>1
  <2>3. flat = F[n]  BY <1>2, FlattenIsFlat
  <2>4. \A j \in 1 .. n : seqs[j] \in Seq(Y)
    <3>. TAKE j \in 1 .. n
    <3>1. seqs[j] \in Seq(X) /\ \A x \in DOMAIN seqs[j] : seqs[j][x] \in Y
      <4>1. seqs[j] \in Seq(X)  BY <2>1
      <4>2. \A x \in DOMAIN seqs[j] : seqs[j][x] \in X  BY <4>1
      <4>. QED  BY <2>1, <4>1, <4>2
    <3>. HIDE DEF Y
    <3>. QED  BY <3>1, SeqOf
  <2>5. flat \in Seq(Y) /\ flat \in Seq(X)  BY <2>1, <2>2, <2>3, <2>4, FlatHolds
  <2>6. \A i \in DOMAIN flat : flat[i] \in Y
    <3>. HIDE DEF Y
    <3>. QED  BY <2>5
  <2>. HIDE DEF n, F
  <2>9. ASSUME NEW k \in 1 .. n
        PROVE  /\ Len(F[n]) >= Len(F[k])
               /\ \A x \in 1 .. Len(F[k]) : F[n][x] = F[k][x]
               /\ (\A j \in (k + 1) .. n : Len(seqs[j]) = 1) => Len(F[n]) + k = Len(F[k]) + n
    <3>1. Extended(seqs, n, k)  BY <2>1, FlatExtends
    <3>. QED  BY <3>1 DEF Extended, F
  <2>7. ASSUME NEW k \in 1 .. n, \A j \in 1 .. k : Len(seqs[j]) = 1
        PROVE  flat[k] = seqs[k][1]
    <3>1. Len(F[k]) = k  BY <2>1, <2>7, FlatOfOnes DEF F
    <3>2. Len(F[k]) \in Nat \ {0} /\ F[k][Len(F[k])] = seqs[k][1]
      <4>1. Len(seqs[k]) = 1  BY <2>7
      <4>. QED  BY <2>1, <4>1, FlatEnds DEF F
    <3>3. \A x \in 1 .. Len(F[k]) : F[n][x] = F[k][x]  BY <2>9
    <3>4. k \in 1 .. Len(F[k]) /\ F[k][k] = seqs[k][1]  BY <3>1, <3>2
    <3>. QED  BY <2>3, <3>3, <3>4
  <2>8. ASSUME NEW k \in 1 .. n, \A j \in k .. n : Len(seqs[j]) = 1
        PROVE  flat[Len(flat) - (n - k)] = seqs[k][1]
    <3>1. Len(F[k]) \in Nat \ {0} /\ F[k][Len(F[k])] = seqs[k][1]
      <4>1. Len(seqs[k]) = 1  BY <2>8
      <4>. QED  BY <2>1, <4>1, FlatEnds DEF F
    <3>2. \A x \in 1 .. Len(F[k]) : F[n][x] = F[k][x]  BY <2>9
    <3>3. Len(F[n]) + k = Len(F[k]) + n
      <4>1. \A j \in (k + 1) .. n : Len(seqs[j]) = 1  BY <2>1, <2>8
      <4>. QED  BY <2>9, <4>1
    <3>4. Len(F[n]) - (n - k) = Len(F[k])
      <4>1. Len(F[n]) \in Nat  BY <2>3, <2>5
      <4>2. \A a, b, c, d \in Nat : a + d = b + c => a - (c - d) = b  OBVIOUS
      <4>. QED  BY <2>1, <3>1, <3>3, <4>1, <4>2
    <3>5. Len(F[k]) \in 1 .. Len(F[k])  BY <3>1
    <3>6. F[n][Len(F[k])] = seqs[k][1]  BY <3>1, <3>2, <3>5
    <3>. QED  BY <2>3, <3>4, <3>6
  <2>. QED  BY <2>1, <2>5, <2>6, <2>7, <2>8 DEF n, Flattened
<1>. QED  BY <1>1, <1>2

-----------------------------------------------------------------------------
(* A tool of version 1: the values of its bindings. *)

\* What the validation of its configuration says of it.
IsTool(p) ==
  /\ IsDefinition(p.schema) /\ p.schema.required = DOMAIN p.schema.properties
  /\ p.nodes \in Seq(Node) /\ p.invoke \in {"cli", "mcp"} /\ (p.invoke = "mcp" => p.target = "mcp")
  /\ \A k \in DOMAIN p.nodes : p.nodes[k] \in Node /\ BindingCompiles(p, p.nodes[k])
\* Of any tool.
LEMMA Tools ==
  ASSUME NEW p, IsPolicy(p), ValidPolicy(p), p.version = 1
  PROVE  IsTool(p) /\ p.restricted = FALSE
<1>1. PICK names \in SUBSET Names : p \in PolicyOf(names)  BY DEF IsPolicy
<1>2. /\ p.schema \in DefinitionOf(names) /\ p.nodes \in Seq(Node) /\ p.invoke \in {"cli", "mcp"}
      /\ p.restricted \in BOOLEAN
  BY <1>1 DEF PolicyOf
<1>3. ValidTool(p) /\ p.restricted = FALSE  BY <1>2 DEF ValidPolicy
<1>4. IsDefinition(p.schema)  BY <1>2 DEF IsDefinition
<1>5. \A k \in DOMAIN p.nodes : p.nodes[k] \in Node  BY <1>2
<1>. QED  BY <1>2, <1>3, <1>4, <1>5 DEF IsTool, ValidTool, StrictlyCompiles

\* An input that the schema accepts is there: the whole input, or a property of it.
LEMMA InputIsThere ==
  ASSUME NEW p, IsTool(p), NEW arguments, IsObject(arguments), Accepts(p.schema, arguments),
         NEW node \in Node, BindingCompiles(p, node), node.kind \in {"input", "each"}
  PROVE  \/ /\ node.of = <<>> /\ p.invoke = "mcp" /\ node.kind = "input"
            /\ ValueAt(node.of, arguments) = arguments
         \/ /\ node.of # <<>> /\ node.of[1] \in DOMAIN arguments
            /\ ValueAt(node.of, arguments) = arguments[node.of[1]]
            /\ arguments[node.of[1]] \in Datum
            /\ p.invoke = "cli" => (arguments[node.of[1]].kind = "array" <=> node.kind = "each")
<1>1. p.invoke \in {"cli", "mcp"} /\ p.schema.required = DOMAIN p.schema.properties  BY DEF IsTool
<1>2. /\ SchemaAt(p.schema, node.of) # None
      /\ p.invoke = "cli" /\ node.kind = "input" => SchemaAt(p.schema, node.of).type \in Scalars
      /\ node.kind = "each" => p.invoke = "cli" /\ SchemaAt(p.schema, node.of).type = "array"
  BY DEF BindingCompiles
<1>3. CASE node.of = <<>>
  <2>1. SchemaAt(p.schema, node.of) = [type |-> "object"]  BY <1>3 DEF SchemaAt
  <2>2. [type |-> "object"].type = "object"  OBVIOUS
  <2>3. p.invoke = "mcp" /\ node.kind = "input"  BY <1>1, <1>2, <2>1, <2>2 DEF Scalars
  <2>. QED  BY <1>3, <2>3 DEF ValueAt
<1>4. CASE node.of # <<>>
  <2>1. /\ node.of[1] \in DOMAIN p.schema.properties
        /\ SchemaAt(p.schema, node.of) = p.schema.properties[node.of[1]]
    BY <1>2, <1>4 DEF SchemaAt
  <2>2. node.of[1] \in DOMAIN arguments  BY <1>1, <2>1 DEF Accepts
  <2>3. Validates(p.schema.properties[node.of[1]], arguments[node.of[1]])
    BY <2>2 DEF Accepts
  <2>4. arguments[node.of[1]] \in Datum  BY <2>2, ObjectHas
  <2>5. TypeFits(p.schema.properties[node.of[1]].type, arguments[node.of[1]])
    BY <2>3 DEF Validates, ValidatesOne
  <2>6. p.invoke = "cli" /\ node.kind = "input" => arguments[node.of[1]].kind # "array"
    BY <1>2, <2>1, <2>5 DEF TypeFits, Scalars, Numeric
  <2>7. node.kind = "each" => arguments[node.of[1]].kind = "array"
    BY <1>2, <2>1, <2>5 DEF TypeFits
  <2>. QED  BY <1>4, <2>2, <2>4, <2>6, <2>7 DEF ValueAt
<1>. QED  BY <1>3, <1>4

\* The binding of an upstream argument has a value.
LEMMA McpResolves ==
  ASSUME NEW p, IsTool(p), p.invoke = "mcp", NEW arguments \in Arguments,
         Accepts(p.schema, arguments)
  PROVE  ResolveMcp(p, arguments) \notin {None, Panic}
<1>. DEFINE values == [k \in DOMAIN p.nodes |-> Bound(p.nodes[k], arguments)]
<1>1. IsObject(arguments) /\ arguments # None  BY DataAssumption
<1>2. ASSUME NEW k \in DOMAIN p.nodes
      PROVE  values[k] \in Datum \cup Arguments /\ values[k] # None
  <2>. DEFINE node == p.nodes[k]
  <2>1. node \in Node /\ BindingCompiles(p, node)  BY DEF IsTool
  <2>2. values[k] = Bound(node, arguments)  OBVIOUS
  <2>. HIDE DEF node
  <2>3. CASE node.kind = "literal"
    <3>1. node.of \in Datum /\ Bound(node, arguments) = CanonicalValue(node.of)
      BY <2>1, <2>3 DEF Node, Bound
    <3>. QED  BY <2>2, <3>1, CanonicalValues
  <2>4. CASE node.kind = "environment"
    <3>1. node.of \in DOMAIN Environment /\ Bound(node, arguments) = Environment[node.of]
      BY <2>1, <2>4 DEF Node, Bound
    <3>. QED  BY <2>2, <3>1, Data, DataAssumption
  <2>5. CASE node.kind \in {"input", "each"}
    <3>1. Bound(node, arguments) = ValueAt(node.of, arguments)  BY <2>5 DEF Bound
    <3>2. ValueAt(node.of, arguments) = arguments \/ ValueAt(node.of, arguments) \in Datum
      BY <1>1, <2>1, <2>5, InputIsThere
    <3>. QED  BY <1>1, <2>2, <3>1, <3>2, Data
  <2>. QED  BY <2>1, <2>3, <2>4, <2>5 DEF Node
<1>3. values \in Seq(Datum \cup Arguments)
  <2>1. PICK n \in Nat : DOMAIN p.nodes = 1 .. n  BY LenProperties DEF IsTool
  <2>2. values \in [1 .. n -> Datum \cup Arguments]  BY <1>2, <2>1
  <2>. QED  BY <2>2, SeqDef
<1>4. values # None /\ values # Panic  BY <1>3, DataAssumption
<1>5. ResolveMcp(p, arguments) = values
  <2>1. \A k \in DOMAIN values : values[k] # None  BY <1>2
  <2>. QED  BY <2>1 DEF ResolveMcp
<1>. QED  BY <1>4, <1>5

\* The text of a scalar is as long and matches what it does.
LEMMA ArgumentOf ==
  ASSUME NEW v \in Scalar
  PROVE  /\ Argument(v) \in Datum
         /\ Argument(v).size = v.size /\ Argument(v).matches = v.matches
  BY Zeros, Data DEF Argument

\* What a node of argv stands for, with an input that the schema accepts.
Stands(node, arguments) ==
  /\ Expanded(node, arguments) \in Seq(Datum)
  /\ node.kind # "each" =>
       /\ Len(Expanded(node, arguments)) = 1
       /\ AtItsPlace(node, Expanded(node, arguments)[1], arguments)
  /\ \A x \in DOMAIN Expanded(node, arguments) :
       Nul \in Expanded(node, arguments)[x].matches =>
         \E n \in DOMAIN arguments : HasNul(arguments[n])
\* A node of a tool stands for that, and its input is there.
LEMMA NodesStand ==
  ASSUME NEW p, IsTool(p), p.invoke = "cli", NEW arguments, IsObject(arguments),
         Accepts(p.schema, arguments), NEW node \in Node, BindingCompiles(p, node)
  PROVE  /\ Stands(node, arguments)
         /\ node.kind # "literal" => ValueAt(node.of, arguments) # None
<1>. DEFINE e == Expanded(node, arguments)
<1>1. node.kind # "environment"  BY DEF BindingCompiles
<1>2. CASE node.kind = "literal"
  <2>1. node.of \in Datum /\ node.of.kind = "string" /\ Nul \notin node.of.matches
    BY <1>2 DEF Node, BindingCompiles
  <2>2. e = <<node.of>>  BY <1>2 DEF Expanded
  <2>3. AtItsPlace(node, node.of, arguments)  BY <1>2 DEF AtItsPlace, Value
  <2>. HIDE DEF e
  <2>4. e \in Seq(Datum) /\ Len(e) = 1 /\ e[1] = node.of /\ DOMAIN e = {1}  BY <2>1, <2>2
  <2>. QED  BY <1>2, <2>1, <2>3, <2>4 DEF Stands, e
<1>3. CASE node.kind \in {"input", "each"}
  <2>. DEFINE v == arguments[node.of[1]]
  <2>1. /\ node.of[1] \in DOMAIN arguments /\ ValueAt(node.of, arguments) = v /\ v \in Datum
        /\ v.kind = "array" <=> node.kind = "each"
    BY <1>3, InputIsThere
  <2>2. ValueAt(node.of, arguments) # None  BY <2>1, Data
  <2>3. CASE node.kind = "input"
    <3>1. v \in Scalar  BY <2>1, <2>3, Data
    <3>2. e = <<Argument(v)>>  BY <2>1, <2>3 DEF Expanded
    <3>3. AtItsPlace(node, Argument(v), arguments)
      BY <2>3, <3>1, ArgumentOf DEF AtItsPlace, Value
    <3>4. Nul \in Argument(v).matches => HasNul(v)
      BY <2>1, <2>3, <3>1, ArgumentOf DEF HasNul
    <3>5. Argument(v) \in Datum  BY <3>1, ArgumentOf
    <3>. HIDE DEF e
    <3>6. e \in Seq(Datum) /\ Len(e) = 1 /\ e[1] = Argument(v) /\ DOMAIN e = {1}
      BY <3>2, <3>5
    <3>. QED  BY <2>1, <2>2, <3>3, <3>4, <3>6 DEF Stands, e
  <2>4. CASE node.kind = "each"
    <3>1. v.kind = "array" /\ v.items \in Seq(Scalar)  BY <2>1, <2>4, Data
    <3>2. e = [i \in DOMAIN v.items |-> Argument(v.items[i])]  BY <2>1, <2>4 DEF Expanded
    <3>3. \A i \in DOMAIN v.items : /\ Argument(v.items[i]) \in Datum
                                    /\ Argument(v.items[i]).matches = v.items[i].matches
      BY <3>1, ArgumentOf, Data, <2>1
    <3>. HIDE DEF e
    <3>4. e \in Seq(Datum)
      <4>1. PICK n \in Nat : DOMAIN v.items = 1 .. n  BY <3>1, LenProperties
      <4>2. e \in [1 .. n -> Datum]  BY <3>2, <3>3, <4>1
      <4>. QED  BY <4>2, SeqDef
    <3>5. \A x \in DOMAIN e : Nul \in e[x].matches => HasNul(v)
      BY <3>1, <3>2, <3>3 DEF HasNul
    <3>. QED  BY <2>1, <2>2, <2>4, <3>4, <3>5 DEF Stands, e
  <2>. QED  BY <1>3, <2>3, <2>4
<1>. QED  BY <1>1, <1>2, <1>3 DEF Node

\* A program gets its arguments at their places; or the input has a NUL, or it is no program.
LEMMA CliResolves ==
  ASSUME NEW p, IsTool(p), p.invoke = "cli", NEW arguments, IsObject(arguments),
         Accepts(p.schema, arguments), NEW r, r = ResolveCli(p, arguments)
  PROVE  /\ r \notin {None, Panic} => PlacesKept(p.nodes, r, arguments)
         /\ r \in {None, Panic} =>
              r = None /\ (p.target # "cli" \/ \E n \in DOMAIN arguments : HasNul(arguments[n]))
<1>. DEFINE seqs == [k \in DOMAIN p.nodes |-> Expanded(p.nodes[k], arguments)]
            argv == Seqs!FlattenSeq(seqs)
<1>1. ASSUME NEW k \in DOMAIN p.nodes
      PROVE  /\ Stands(p.nodes[k], arguments)
             /\ p.nodes[k].kind # "literal" => ValueAt(p.nodes[k].of, arguments) # None
  <2>1. p.nodes[k] \in Node /\ BindingCompiles(p, p.nodes[k])  BY DEF IsTool
  <2>. QED  BY <2>1, NodesStand
<1>2. p.target # "cli" => r = None  BY DEF ResolveCli
<1>3. p.target = "cli" =>
        r = IF \E i \in DOMAIN argv : Nul \in argv[i].matches THEN None ELSE argv
  <2>1. {k \in DOMAIN p.nodes : p.nodes[k].kind # "literal" /\
                                  ValueAt(p.nodes[k].of, arguments) = None} = {}
    BY <1>1
  <2>. QED  BY <2>1 DEF ResolveCli
<1>4. PICK n \in Nat : DOMAIN p.nodes = 1 .. n /\ Len(p.nodes) = n  BY LenProperties DEF IsTool
<1>5. \A k \in 1 .. n : seqs[k] = Expanded(p.nodes[k], arguments) /\ seqs[k] \in Seq(Datum)
  BY <1>1, <1>4 DEF Stands
<1>6. DOMAIN seqs = 1 .. n /\ seqs \in [1 .. n -> Seq(Datum)]  BY <1>4, <1>5
<1>. HIDE DEF seqs
<1>7. seqs \in Seq(Seq(Datum)) /\ Len(seqs) = n  BY <1>6, SeqDef
<1>8. argv \in Seq(Datum) /\ Flattened(seqs, argv)  BY <1>7, Flattens
<1>. HIDE DEF argv
<1>9. argv # None /\ argv # Panic
  <2>1. argv \in Seq(Datum \cup Arguments)  BY <1>8, SeqMonotonic
  <2>. QED  BY <2>1, DataAssumption
<1>10. ASSUME NEW i \in DOMAIN argv, Nul \in argv[i].matches
       PROVE  \E m \in DOMAIN arguments : HasNul(arguments[m])
  <2>1. PICK j \in 1 .. n : \E x \in DOMAIN seqs[j] : argv[i] = seqs[j][x]
    BY <1>6, <1>8 DEF Flattened
  <2>2. PICK x \in DOMAIN seqs[j] : argv[i] = seqs[j][x]  BY <2>1
  <2>3. Stands(p.nodes[j], arguments) /\ seqs[j] = Expanded(p.nodes[j], arguments)
    BY <1>1, <1>4, <1>5
  <2>. QED  BY <1>10, <2>2, <2>3 DEF Stands
<1>11. PlacesKept(p.nodes, argv, arguments)
  <2>1. ASSUME NEW j \in 1 .. n, p.nodes[j].kind # "each"
        PROVE  Len(seqs[j]) = 1 /\ AtItsPlace(p.nodes[j], seqs[j][1], arguments)
    BY <1>1, <1>4, <1>5, <2>1 DEF Stands
  <2>2. ASSUME NEW k \in 1 .. n, \A j \in 1 .. k : p.nodes[j].kind # "each"
        PROVE  AtItsPlace(p.nodes[k], argv[k], arguments)
    <3>1. \A j \in 1 .. k : j \in 1 .. n  OBVIOUS
    <3>2. \A j \in 1 .. k : Len(seqs[j]) = 1  BY <2>1, <2>2, <3>1
    <3>3. argv[k] = seqs[k][1]  BY <1>6, <1>8, <3>2 DEF Flattened
    <3>. QED  BY <2>1, <2>2, <3>3
  <2>3. ASSUME NEW k \in 1 .. n, \A j \in k .. n : p.nodes[j].kind # "each"
        PROVE  AtItsPlace(p.nodes[k], argv[Len(argv) - (n - k)], arguments)
    <3>1. \A j \in k .. n : j \in 1 .. n  OBVIOUS
    <3>2. \A j \in k .. n : Len(seqs[j]) = 1  BY <2>1, <2>3, <3>1
    <3>3. argv[Len(argv) - (n - k)] = seqs[k][1]  BY <1>6, <1>7, <1>8, <3>2 DEF Flattened
    <3>. QED  BY <2>1, <2>3, <3>3
  <2>. QED  BY <1>4, <2>2, <2>3 DEF PlacesKept
<1>. QED  BY <1>2, <1>3, <1>9, <1>10, <1>11

-----------------------------------------------------------------------------
(* The inductive invariant. *)

\* The public schema is the one that the version of the policy makes of a definition; a frozen
\* restriction is out of the catalog only when the last definition is not compatible with it.
PublicIsDerived ==
  /\ policy.version = 1 => public = policy.schema
  /\ policy.version # 1 /\ ~policy.restricted /\ public # None =>
       \E d \in Definitions : public = CanonicalDefinition(d)
  /\ policy.version # 1 /\ policy.restricted /\ public # None =>
       /\ origin \in Definitions
       /\ public = IF policy.version = 2 THEN DeriveV2(policy, origin) ELSE DeriveV3(policy, origin)
  /\ active => public # None
  /\ policy.version = 2 /\ policy.restricted /\ public # None /\ ~active =>
       known \in Definitions /\ ~Compatible(policy, public, known)

\* The last call was resolved with the policy and the public schema there are.
CallIsResolved ==
  \/ sent = NoCall
  \/ /\ active /\ sent.arguments \in Arguments
     /\ sent.forwarded = Resolve(policy, public, sent.arguments)

IInv ==
  /\ policy \in Policies /\ origin \in Definitions \cup {None} /\ known \in Definitions \cup {None}
  /\ active \in BOOLEAN
  /\ PublicIsDerived /\ CallIsResolved

\* A policy is of version 1, or an exposure.
LEMMA Policy ==
  ASSUME NEW p \in Policies
  PROVE  /\ IsPolicy(p) /\ ValidPolicy(p) /\ p.version \in {1, 2, 3}
         /\ p.version = 1 => IsTool(p) /\ p.restricted = FALSE
<1>1. IsPolicy(p) /\ ValidPolicy(p)  BY PolicyAssumption
<1>2. p.version \in {1, 2, 3}  BY <1>1 DEF ValidPolicy
<1>3. p.version = 1 => IsTool(p) /\ p.restricted = FALSE  BY <1>1, Tools
<1>. QED  BY <1>1, <1>2, <1>3

\* A tool of version 1 has a public schema.
LEMMA NoSchemaIsNone ==
  ASSUME NEW p \in Policies, p.version = 1
  PROVE  p.schema # None
<1>1. IsDefinition(p.schema)  BY Policy DEF IsTool
<1>. QED  BY <1>1, DataAssumption

\* The public schema of a proxy is a definition.
LEMMA CanonicalDefinitions ==
  ASSUME NEW d, IsDefinition(d)
  PROVE  IsDefinition(CanonicalDefinition(d))
<1>. DEFINE properties == [n \in DOMAIN d.properties |-> Canonical(d.properties[n])]
<1>1. PICK names \in SUBSET Names : d \in DefinitionOf(names)  BY DEF IsDefinition
<1>2. \A n \in DOMAIN d.properties : Canonical(d.properties[n]) \in Schema
  BY DefinitionHas, Canonicals
<1>3. DOMAIN d.properties = names  BY <1>1 DEF DefinitionOf
<1>4. properties \in [names -> Schema]  BY <1>2, <1>3
<1>5. CanonicalDefinition(d) = [d EXCEPT !.properties = properties]  BY DEF CanonicalDefinition
<1>. HIDE DEF properties
<1>6. CanonicalDefinition(d) \in DefinitionOf(names)  BY <1>1, <1>4, <1>5 DEF DefinitionOf
<1>. QED  BY <1>6 DEF IsDefinition

\* In every reachable state: it holds at first, and every step keeps it.
THEOREM Invariance == Spec => []IInv
<1>1. Init => IInv
  <2>. SUFFICES ASSUME Init PROVE IInv
    OBVIOUS
  <2>1. policy \in Policies /\ origin = None /\ known = None /\ sent = NoCall
        /\ public = (IF policy.version = 1 THEN policy.schema ELSE None)
        /\ active = (policy.version = 1)
    BY DEF Init
  <2>2. policy.version = 1 => public # None  BY <2>1, NoSchemaIsNone
  <2>. QED  BY <2>1, <2>2 DEF IInv, PublicIsDerived, CallIsResolved
<1>2. IInv /\ [Next]_vars => IInv'
  <2>. SUFFICES ASSUME IInv, [Next]_vars PROVE IInv'
    OBVIOUS
  <2>. USE DEF IInv
  <2>1. ASSUME NEW d \in Definitions, Discover(d) PROVE IInv'
    <3>1. /\ policy' = policy /\ known' = d /\ sent' = NoCall
          /\ Freeze(d) \/ Project(d)
      BY <2>1 DEF Discover
    <3>2. CallIsResolved'  BY <3>1 DEF CallIsResolved, NoCall
    <3>3. CASE Freeze(d)
      <4>1. policy.version = 2 /\ policy.restricted  BY <3>3 DEF Freeze
      <4>2. CASE public = None
        <5>1. public' = DeriveV2(policy, d) /\ origin' = d /\ active' = (public' # None)
          BY <3>3, <4>2 DEF Freeze
        <5>2. active' <=> public' # None  BY <5>1
        <5>3. policy'.version = 2 /\ policy'.restricted  BY <3>1, <4>1
        <5>4. public' = DeriveV2(policy', origin') /\ origin' \in Definitions  BY <3>1, <5>1
        <5>5. PublicIsDerived'  BY <5>2, <5>3, <5>4 DEF PublicIsDerived
        <5>. QED  BY <3>1, <3>2, <5>1, <5>5
      <4>3. CASE public # None
        <5>1. /\ active' = Compatible(policy, public, d)
              /\ public' = public /\ origin' = origin
          BY <3>3, <4>3 DEF Freeze
        <5>2. active' \in BOOLEAN  BY <5>1 DEF Compatible
        <5>3. ~active' => ~Compatible(policy, public, d)  BY <5>1
        <5>4. PublicIsDerived'  BY <3>1, <4>1, <4>3, <5>1, <5>3 DEF PublicIsDerived
        <5>. QED  BY <3>1, <3>2, <5>1, <5>2, <5>4
      <4>. QED  BY <4>2, <4>3
    <3>4. CASE Project(d)
      <4>1. /\ policy.version = 3 \/ (policy.version = 2 /\ ~policy.restricted)
            /\ public' = IF policy.restricted THEN DeriveV3(policy, d) ELSE CanonicalDefinition(d)
            /\ origin' = d /\ active' = (public' # None)
        BY <3>4 DEF Project
      <4>2. PublicIsDerived'
        <5>1. active' <=> public' # None  BY <4>1
        <5>2. policy'.version = 2 => ~policy'.restricted  BY <3>1, <4>1
        <5>3. /\ policy'.restricted => public' = DeriveV3(policy', origin')
              /\ ~policy'.restricted => public' = CanonicalDefinition(d)
              /\ origin' \in Definitions
          BY <3>1, <4>1
        <5>4. policy'.version = 3 \/ policy'.version = 2  BY <3>1, <4>1
        <5>. QED  BY <5>1, <5>2, <5>3, <5>4 DEF PublicIsDerived
      <4>. QED  BY <3>1, <3>2, <4>1, <4>2
    <3>. QED  BY <3>1, <3>3, <3>4
  <2>2. ASSUME NEW arguments \in Arguments, Call(arguments) PROVE IInv'
    <3>1. /\ active /\ UNCHANGED <<policy, origin, known, public, active>>
          /\ sent' = [arguments |-> arguments, forwarded |-> Resolve(policy, public, arguments)]
      BY <2>2 DEF Call
    <3>2. CallIsResolved'
      <4>1. sent'.arguments = arguments /\ sent'.forwarded = Resolve(policy, public, arguments)
        BY <3>1
      <4>. QED  BY <3>1, <4>1 DEF CallIsResolved
    <3>3. PublicIsDerived'  BY <3>1 DEF PublicIsDerived
    <3>. QED  BY <3>1, <3>2, <3>3
  <2>3. ASSUME UNCHANGED vars PROVE IInv'
    BY <2>3 DEF vars, PublicIsDerived, CallIsResolved, NoCall
  <2>. QED  BY <2>1, <2>2, <2>3 DEF Next
<1>. QED  BY <1>1, <1>2, PTL DEF Spec

\* The public schema of a restriction was derived from the definition of its origin.
LEMMA Origin ==
  ASSUME IInv, policy.restricted, public # None
  PROVE  /\ IsPolicy(policy) /\ ValidPolicy(policy) /\ policy.version \in {2, 3}
         /\ origin \in Definitions /\ IsDefinition(origin)
         /\ public = DeriveV3(policy, origin) /\ DerivedFrom(policy, origin, public)
         /\ policy.version = 2 => public = DeriveV2(policy, origin)
<1>1. /\ IsPolicy(policy) /\ ValidPolicy(policy) /\ policy.version \in {2, 3}
  BY Policy DEF IInv
<1>2. /\ origin \in Definitions
      /\ public = IF policy.version = 2 THEN DeriveV2(policy, origin) ELSE DeriveV3(policy, origin)
  BY <1>1 DEF IInv, PublicIsDerived
<1>3. IsDefinition(origin)  BY <1>2, DataAssumption
<1>4. public = DeriveV3(policy, origin)
  BY <1>1, <1>2, <1>3, DerivedV2
<1>5. policy.version # 1  BY <1>1
<1>6. DerivedFrom(policy, origin, public)  BY <1>1, <1>3, <1>4, <1>5, Derived
<1>. QED  BY <1>1, <1>2, <1>3, <1>4, <1>6

\* A call of a restriction forwards only what the public schema accepts, with the fixed values;
\* and all of that if the numbers are compared in order.
LEMMA RestrictedCall ==
  ASSUME NEW p, IsPolicy(p), ValidPolicy(p), p.version \in {2, 3}, p.restricted,
         NEW d, IsDefinition(d), NEW s, s # None, s = DeriveV3(p, d),
         p.version = 2 => s = DeriveV2(p, d), NEW arguments, IsObject(arguments)
  PROVE  /\ Resolve(p, s, arguments) # None =>
              Accepts(s, arguments) /\ Resolve(p, s, arguments) = WithFixed(p, s, arguments)
         /\ Accepts(s, arguments) /\ ~ZeroWithFloat(p, d, arguments) =>
              Resolve(p, s, arguments) = WithFixed(p, s, arguments)
<1>1. CASE p.version = 2
  <2>1. Resolve(p, s, arguments) = ResolveV2(p, s, arguments)  BY <1>1 DEF Resolve
  <2>. QED  BY <1>1, <2>1, ResolvesV2
<1>2. CASE p.version = 3
  BY <1>2 DEF Resolve, ResolveV3
<1>. QED  BY <1>1, <1>2

\* So did the last call.
LEMMA Calls ==
  ASSUME IInv, Restricted
  PROVE  /\ public # None /\ sent.arguments \in Arguments /\ IsObject(sent.arguments)
         /\ sent.forwarded # None =>
              /\ Accepts(public, sent.arguments)
              /\ sent.forwarded = WithFixed(policy, public, sent.arguments)
         /\ Accepts(public, sent.arguments) /\ ~ZeroWithFloat(policy, origin, sent.arguments) =>
              sent.forwarded = WithFixed(policy, public, sent.arguments)
<1>1. sent # NoCall  BY DEF Restricted, NoCall
<1>2. /\ active /\ sent.arguments \in Arguments
      /\ sent.forwarded = Resolve(policy, public, sent.arguments)
  BY <1>1 DEF IInv, CallIsResolved
<1>3. public # None  BY <1>2 DEF IInv, PublicIsDerived
<1>4. IsObject(sent.arguments)  BY <1>2, DataAssumption
<1>5. /\ IsPolicy(policy) /\ ValidPolicy(policy) /\ policy.version \in {2, 3}
      /\ IsDefinition(origin) /\ public = DeriveV3(policy, origin)
      /\ policy.version = 2 => public = DeriveV2(policy, origin)
  BY <1>3, Origin DEF Restricted
<1>. DEFINE a == sent.arguments
<1>6. /\ Resolve(policy, public, a) # None =>
           Accepts(public, a) /\ Resolve(policy, public, a) = WithFixed(policy, public, a)
      /\ Accepts(public, a) /\ ~ZeroWithFloat(policy, origin, a) =>
           Resolve(policy, public, a) = WithFixed(policy, public, a)
  BY <1>3, <1>4, <1>5, RestrictedCall DEF Restricted
<1>. QED  BY <1>2, <1>3, <1>4, <1>6

\* The variables are of their types.
THEOREM TypeCorrect == Spec => []TypeOK
<1>1. IInv => TypeOK
  <2>. SUFFICES ASSUME IInv PROVE TypeOK
    OBVIOUS
  <2>1. /\ IsPolicy(policy) /\ ValidPolicy(policy) /\ policy.version \in {1, 2, 3}
        /\ policy.version = 1 => IsTool(policy) /\ policy.restricted = FALSE
    BY Policy DEF IInv
  <2>2. public # None => /\ IsDefinition(public)
                         /\ policy.restricted => public.required \subseteq DOMAIN public.properties
    <3>1. CASE policy.version = 1
      BY <2>1, <3>1 DEF IInv, PublicIsDerived, IsTool
    <3>2. CASE policy.version # 1 /\ ~policy.restricted
      BY <3>2, DataAssumption, CanonicalDefinitions DEF IInv, PublicIsDerived
    <3>3. CASE policy.restricted
      BY <3>3, Origin DEF DerivedFrom
    <3>. QED  BY <3>1, <3>2, <3>3
  <2>3. sent.arguments \in Arguments \cup {None}
    BY DEF IInv, CallIsResolved, NoCall
  <2>4. ASSUME policy.version # 1 PROVE sent.forwarded = None \/ IsObject(sent.forwarded)
    <3>1. CASE sent = NoCall  BY <3>1 DEF NoCall
    <3>2. CASE sent # NoCall /\ policy.restricted
      <4>1. sent.arguments \in Arguments  BY <3>2 DEF IInv, CallIsResolved
      <4>2. sent.arguments # None  BY <4>1, DataAssumption
      <4>3. /\ IsObject(sent.arguments)
            /\ sent.forwarded # None =>
                 sent.forwarded = WithFixed(policy, public, sent.arguments)
        BY <3>2, <4>2, Calls DEF Restricted
      <4>4. Forwarding(policy, public, sent.arguments,
                       WithFixed(policy, public, sent.arguments))
        BY <2>1, <2>4, <4>3, Forwards
      <4>. QED  BY <4>3, <4>4 DEF Forwarding
    <3>3. CASE sent # NoCall /\ ~policy.restricted
      <4>1. /\ sent.arguments \in Arguments
            /\ sent.forwarded = Resolve(policy, public, sent.arguments)
        BY <3>3 DEF IInv, CallIsResolved
      <4>2. Resolve(policy, public, sent.arguments) = sent.arguments
        BY <2>1, <2>4, <3>3 DEF Resolve, ResolveV2, ResolveV3
      <4>. QED  BY <4>1, <4>2, DataAssumption
    <3>. QED  BY <3>1, <3>2, <3>3
  <2>5. /\ origin \in Definitions \cup {None} /\ known \in Definitions \cup {None}
        /\ active \in BOOLEAN
    BY DEF IInv
  <2>. QED  BY <2>1, <2>2, <2>3, <2>4, <2>5 DEF TypeOK
<1>. QED  BY <1>1, Invariance, PTL

\* A call of version 1.
LEMMA ToolCalls ==
  ASSUME IInv, policy.version = 1, sent.arguments # None
  PROVE  /\ public = policy.schema /\ IsTool(policy)
         /\ sent.arguments \in Arguments /\ IsObject(sent.arguments)
         /\ sent.forwarded = ResolveV1(policy, public, sent.arguments)
<1>1. sent # NoCall  BY DEF NoCall
<1>2. sent.arguments \in Arguments /\ sent.forwarded = Resolve(policy, public, sent.arguments)
  BY <1>1 DEF IInv, CallIsResolved
<1>3. Resolve(policy, public, sent.arguments) = ResolveV1(policy, public, sent.arguments)
  BY DEF Resolve
<1>4. public = policy.schema /\ IsTool(policy)  BY Policy DEF IInv, PublicIsDerived
<1>. QED  BY <1>2, <1>3, <1>4, DataAssumption

\* What a call forwards is what the administrator allowed and what the upstream may accept;
\* and the arguments of a program are at their places.
THEOREM Enforcement == Spec => []RestrictionEnforced
<1>1. IInv => RestrictionEnforced
  <2>. SUFFICES ASSUME IInv PROVE RestrictionEnforced
    OBVIOUS
  <2>1. ASSUME Forwarded, Sound
        PROVE  Allowed(policy, sent.forwarded) /\ MayAccept(origin, sent.forwarded)
    <3>1. Restricted /\ sent.forwarded # None /\ ~ZeroWithFloat(policy, origin, sent.forwarded)
      BY <2>1 DEF Forwarded, Sound
    <3>2. /\ public # None /\ IsObject(sent.arguments) /\ Accepts(public, sent.arguments)
          /\ sent.forwarded = WithFixed(policy, public, sent.arguments)
      BY <3>1, Calls
    <3>3. /\ IsPolicy(policy) /\ ValidPolicy(policy) /\ policy.version # 1
          /\ IsDefinition(origin) /\ public = DeriveV3(policy, origin)
      BY <3>1, <3>2, Origin DEF Restricted
    <3>. QED  BY <3>1, <3>2, <3>3, OnlyAllowed
  <2>2. ASSUME policy.version = 1, sent.forwarded \notin {None, Panic}, policy.invoke = "cli"
        PROVE  PlacesKept(policy.nodes, sent.forwarded, sent.arguments)
    <3>1. sent.arguments # None
      <4>1. sent # NoCall  BY <2>2 DEF NoCall
      <4>2. sent.arguments \in Arguments  BY <4>1 DEF IInv, CallIsResolved
      <4>. QED  BY <4>2, DataAssumption
    <3>2. /\ public = policy.schema /\ IsTool(policy) /\ IsObject(sent.arguments)
          /\ sent.forwarded = ResolveV1(policy, public, sent.arguments)
      BY <2>2, <3>1, ToolCalls
    <3>3. /\ Accepts(policy.schema, sent.arguments)
          /\ sent.forwarded = ResolveCli(policy, sent.arguments)
      BY <2>2, <3>2 DEF ResolveV1
    <3>. QED  BY <2>2, <3>2, <3>3, CliResolves
  <2>. QED  BY <2>1, <2>2 DEF RestrictionEnforced
<1>. QED  BY <1>1, Invariance, PTL

\* Nothing is rejected that the administrator allows and the upstream may accept, and no input
\* that the public schema of a tool accepts, but for a NUL or a target of another kind.
THEOREM Completeness == Spec => []NothingElseRejected
<1>1. IInv => NothingElseRejected
  <2>. SUFFICES ASSUME IInv PROVE NothingElseRejected
    OBVIOUS
  <2>1. ASSUME Restricted, sent.forwarded = None,
               ~ZeroWithFloat(policy, origin, sent.arguments),
               ~FloatForInteger(origin, sent.arguments),
               \A n \in DOMAIN sent.arguments :
                 n \in DOMAIN origin.properties /\ RuleFor(policy, n).how = "expose",
               NEW whole,
               whole = WithFixed(policy, [properties |-> sent.arguments], sent.arguments),
               Allowed(policy, whole), MayAccept(origin, whole)
        PROVE  FALSE
    <3>1. /\ public # None /\ IsObject(sent.arguments)
          /\ Accepts(public, sent.arguments) =>
               sent.forwarded = WithFixed(policy, public, sent.arguments)
      BY <2>1, Calls
    <3>2. /\ IsPolicy(policy) /\ ValidPolicy(policy) /\ policy.version # 1
          /\ IsDefinition(origin) /\ public = DeriveV3(policy, origin)
      BY <2>1, <3>1, Origin DEF Restricted
    <3>3. Accepts(public, sent.arguments)  BY <2>1, <3>1, <3>2, AllAllowed
    <3>4. Forwarding(policy, public, sent.arguments,
                     WithFixed(policy, public, sent.arguments))
      BY <3>1, <3>2, Forwards
    <3>. QED  BY <2>1, <3>1, <3>3, <3>4 DEF Forwarding
  <2>2. ASSUME policy.version = 1, sent.arguments # None, sent.forwarded \in {None, Panic},
               Accepts(public, sent.arguments)
        PROVE  sent.forwarded = None /\ policy.invoke = "cli" /\
                 (policy.target # "cli" \/
                    \E n \in DOMAIN sent.arguments : HasNul(sent.arguments[n]))
    <3>1. /\ public = policy.schema /\ IsTool(policy)
          /\ sent.arguments \in Arguments /\ IsObject(sent.arguments)
          /\ sent.forwarded = ResolveV1(policy, public, sent.arguments)
      BY <2>2, ToolCalls
    <3>2. CASE policy.invoke = "mcp"
      <4>1. sent.forwarded = ResolveMcp(policy, sent.arguments)  BY <2>2, <3>1, <3>2 DEF ResolveV1
      <4>. QED  BY <2>2, <3>1, <3>2, <4>1, McpResolves
    <3>3. CASE policy.invoke = "cli"
      <4>1. sent.forwarded = ResolveCli(policy, sent.arguments)  BY <2>2, <3>1, <3>3 DEF ResolveV1
      <4>. QED  BY <2>2, <3>1, <3>3, <4>1, CliResolves
    <3>. QED  BY <3>1, <3>2, <3>3 DEF IsTool
  <2>. QED  BY <2>1, <2>2 DEF NothingElseRejected
<1>. QED  BY <1>1, Invariance, PTL

\* A frozen restriction that left the catalog: no call of it can meet the definition that the
\* upstream has now.
THEOREM TombstoneFinal == Spec => []TombstoneIsDefinite
<1>1. IInv => TombstoneIsDefinite
  <2>. SUFFICES ASSUME IInv, policy.version = 2, policy.restricted, public # None, ~active,
                       ~known.open, NEW arguments \in Arguments,
                       NEW forwarded, forwarded = Resolve(policy, public, arguments),
                       forwarded # None, MayAccept(known, forwarded),
                       ~ZeroWithFloat(policy, known, forwarded),
                       ~FloatForInteger(known, forwarded)
                PROVE  FALSE
    BY DEF TombstoneIsDefinite
  <2>1. /\ IsPolicy(policy) /\ ValidPolicy(policy) /\ IsDefinition(origin)
        /\ public = DeriveV2(policy, origin)
    BY Origin
  <2>2. known \in Definitions /\ ~Compatible(policy, public, known)
    BY DEF IInv, PublicIsDerived
  <2>3. IsDefinition(known) /\ IsObject(arguments)  BY <2>2, DataAssumption
  <2>4. forwarded = ResolveV2(policy, public, arguments)  BY DEF Resolve
  <2>. QED  BY <2>1, <2>2, <2>3, <2>4, Incompatible
<1>. QED  BY <1>1, Invariance, PTL
=============================================================================
