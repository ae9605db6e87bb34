---------------------------- MODULE TrainRunsProofs ---------------------------
(***************************************************************************)
(* Proofs about runs that go on from one another's checkpoints, for any    *)
(* datasets, configuration files, commands and number of runs, and about   *)
(* the model a run builds, for any configuration that is accepted.         *)
(***************************************************************************)
EXTENDS TrainRuns, SumsProofs, FiniteSetTheorems

-----------------------------------------------------------------------------
(* What is encoded decodes to what it was                                  *)

IsFun(f) == f = [x \in DOMAIN f |-> f[x]]

LEMMA OnlyOne == \A x : Only({x}) = x
BY DEF Only

(* A JSON value has one field, and that is its kind.                       *)
LEMMA OfOne ==
  ASSUME NEW raw, NEW kind, DOMAIN raw = {kind}
  PROVE  /\ Kind(raw) = kind
         /\ \A kinds : Of(kinds, raw) = IF kind \in kinds THEN {raw[kind]} ELSE {}
<1>1. Kind(raw) = kind
  BY DEF Kind
<1> QED
  BY <1>1 DEF Of

LEMMA AllDecodedAs ==
  ASSUME NEW found, NEW f, IsFun(f), DOMAIN f = DOMAIN found,
         \A x \in DOMAIN found : found[x] = {f[x]}
  PROVE  AllDecoded(found) = {f}
<1>1. \A x \in DOMAIN found : found[x] # {} /\ Only(found[x]) = f[x]
  BY OnlyOne
<1>2. [x \in DOMAIN found |-> Only(found[x])] = f
  BY <1>1 DEF IsFun
<1> QED
  BY <1>1, <1>2 DEF AllDecoded

LEMMA DecodedNumber ==
  ASSUME NEW n
  PROVE  DecodedInt(Number(n)) = {n} /\ DecodedInt([float |-> n]) = {}
<1>1. PICK raw : raw = Number(n)
  OBVIOUS
<1>2. PICK real : real = [float |-> n]
  OBVIOUS
<1>3. DOMAIN raw = {"int"} /\ raw["int"] = n /\ DOMAIN real = {"float"}
  BY <1>1, <1>2 DEF Number
<1>4. /\ Of({"int", "digit"}, raw) = {n} /\ Of({"bool"}, raw) = {}
      /\ Of({"int", "digit"}, real) = {} /\ Of({"bool"}, real) = {}
  BY <1>3, OfOne
<1> QED
  BY <1>1, <1>2, <1>4 DEF DecodedInt

(* A feature: a type and a shape.                                          *)
IsFeature(f) ==
  /\ f = [type |-> f.type, shape |-> f.shape]
  /\ f.type \in FeatureTypes
  /\ IsFun(f.shape)

LEMMA ShapeDecodes ==
  ASSUME NEW shape, IsFun(shape), NEW list, list = [i \in DOMAIN shape |-> Number(shape[i])],
         NEW raw, raw = [list |-> list]
  PROVE  DecodedShape(raw) = {shape}
<1>1. PICK found : found = [i \in DOMAIN list |-> DecodedInt(list[i])]
  OBVIOUS
<1>2. DOMAIN found = DOMAIN shape /\ \A i \in DOMAIN found : found[i] = {shape[i]}
  BY <1>1, DecodedNumber
<1>3. AllDecoded(found) = {shape}
  BY <1>2, AllDecodedAs
<1>4. DOMAIN raw = {"list"} /\ raw["list"] = list
  OBVIOUS
<1>5. Of({"list"}, raw) = {list} /\ Of({"digit"}, raw) = {} /\ Of({"map"}, raw) = {}
  BY <1>4, OfOne
<1> DEFINE F(l) == AllDecoded([i \in DOMAIN l |-> DecodedInt(l[i])])
<1>6. {F(l) : l \in Of({"list"}, raw)} = {{shape}}
  <2>1. F(list) = {shape}
    BY <1>1, <1>3
  <2> HIDE DEF F
  <2> QED
    BY <2>1, <1>5
<1>7. {<<digit>> : digit \in Of({"digit"}, raw)} = {}
  BY <1>5
<1>8. {Nothing : map \in {m \in Of({"map"}, raw) : DOMAIN m = {}}} = {}
  BY <1>5
<1>9. DecodedShape(raw) = (UNION {{shape}}) \cup {} \cup {}
  BY <1>6, <1>7, <1>8 DEF DecodedShape
<1> QED
  BY <1>9

LEMMA FeatureDecodes ==
  ASSUME NEW f, IsFeature(f)
  PROVE  DecodedFeature(EncodedFeature(f)) = {f}
<1>1. PICK list : list = [i \in DOMAIN f.shape |-> Number(f.shape[i])]
  OBVIOUS
<1>2. PICK shape : shape = [list |-> list]
  OBVIOUS
<1>3. PICK type : type = [str |-> f.type]
  OBVIOUS
<1>4. PICK m : m = [type |-> type, shape |-> shape]
  OBVIOUS
<1>5. PICK raw : raw = [map |-> m]
  OBVIOUS
<1>6. EncodedFeature(f) = raw
  BY <1>1, <1>2, <1>3, <1>4, <1>5 DEF EncodedFeature
<1>7. DecodedShape(m.shape) = {f.shape}
  BY <1>1, <1>2, <1>4, ShapeDecodes DEF IsFeature
<1>8. /\ DOMAIN raw = {"map"} /\ raw["map"] = m /\ DOMAIN type = {"str"} /\ type["str"] = f.type
      /\ m.type = type /\ DOMAIN m = {"type", "shape"}
  BY <1>3, <1>4, <1>5
<1>9. Of({"map"}, raw) = {m} /\ Of({"str"}, m.type) = {f.type}
  BY <1>8, OfOne
<1>10. [type |-> m.type.str, shape |-> Only(DecodedShape(m.shape))] = f
  BY <1>7, <1>8, OnlyOne DEF IsFeature
<1>11. \E t \in FeatureTypes : t = f.type
  BY DEF IsFeature
<1>12. DecodedFeature(raw) =
        {[type |-> n.type.str, shape |-> Only(DecodedShape(n.shape))] : n \in {m}}
  BY <1>7, <1>8, <1>9, <1>11 DEF DecodedFeature
<1> QED
  BY <1>6, <1>10, <1>12

(* Values that documents can hold of a setting of this type.                *)
Types == {"int", "float", "bool", "text", "path", "texts", "modes", "features"}

TypedAs(type, value) ==
  /\ type \in {"texts", "modes", "features"} => IsFun(value)
  /\ type = "modes" => \A x \in DOMAIN value : value[x] \in Modes
  /\ type = "features" => \A x \in DOMAIN value : IsFeature(value[x])

LEMMA TextsDecode ==
  ASSUME NEW value, IsFun(value), NEW list, list = [i \in DOMAIN value |-> [str |-> value[i]]],
         NEW raw, raw = [list |-> list]
  PROVE  DecodedTexts(raw) = {value}
<1>1. DOMAIN raw = {"list"} /\ raw["list"] = list
  OBVIOUS
<1>2. Of({"list"}, raw) = {list}
  BY <1>1, OfOne
<1>3. ASSUME NEW i \in DOMAIN list PROVE TextOf(list[i]) = value[i]
  <2>1. PICK text : text = [str |-> value[i]]
    OBVIOUS
  <2>2. DOMAIN text = {"str"} /\ text.str = value[i]
    BY <2>1
  <2>3. Kind(text) = "str"
    BY <2>2, OfOne
  <2> QED
    BY <2>1, <2>2, <2>3 DEF TextOf
<1> DEFINE F(l) == [i \in DOMAIN l |-> TextOf(l[i])]
<1>4. F(list) = value
  BY <1>3 DEF IsFun
<1>5. DecodedTexts(raw) = {F(l) : l \in Of({"list"}, raw)}
  BY DEF DecodedTexts
<1> HIDE DEF F
<1> QED
  BY <1>2, <1>4, <1>5

LEMMA MapDecodes ==
  ASSUME NEW type \in {"modes", "features"}, NEW value, TypedAs(type, value),
         NEW raw, raw = EncodedAs(type, value)
  PROVE  DecodedMap(type, raw) = {value} /\ Kind(raw) = "map"
<1> DEFINE Entry(v) == IF type = "modes" THEN DecodedMode(v) ELSE DecodedFeature(v)
           Image(v) == IF type = "modes" THEN [str |-> v] ELSE EncodedFeature(v)
<1>1. PICK map : map = [name \in DOMAIN value |-> Image(value[name])]
  OBVIOUS
<1>2. raw = [map |-> map]
  BY <1>1 DEF EncodedAs
<1>3. DOMAIN raw = {"map"} /\ raw["map"] = map
  BY <1>2
<1>4. Of({"map"}, raw) = {map} /\ Of({"list"}, raw) = {} /\ Kind(raw) = "map"
  BY <1>3, OfOne
<1>5. ASSUME NEW name \in DOMAIN value PROVE Entry(map[name]) = {value[name]}
  <2>1. CASE type = "features"
    BY <1>1, <2>1, FeatureDecodes DEF TypedAs
  <2>2. CASE type = "modes"
    <3>1. PICK text : text = [str |-> value[name]]
      OBVIOUS
    <3>2. DOMAIN text = {"str"} /\ text["str"] = value[name]
      BY <3>1
    <3>3. Of({"str"}, text) = {value[name]}
      BY <3>2, OfOne
    <3>4. value[name] \in Modes /\ map[name] = text
      BY <1>1, <2>2, <3>1 DEF TypedAs
    <3> QED
      BY <2>2, <3>3, <3>4 DEF DecodedMode
  <2> QED
    BY <2>1, <2>2
<1>6. AllDecoded([name \in DOMAIN map |-> Entry(map[name])]) = {value}
  <2>1. PICK found : found = [name \in DOMAIN map |-> Entry(map[name])]
    OBVIOUS
  <2>2. DOMAIN found = DOMAIN value /\ \A name \in DOMAIN found : found[name] = {value[name]}
    BY <1>1, <1>5, <2>1
  <2>3. IsFun(value)
    BY DEF TypedAs
  <2> QED
    BY <2>1, <2>2, <2>3, AllDecodedAs
<1> DEFINE F(m) == AllDecoded([name \in DOMAIN m |-> Entry(m[name])])
           Pair(p) == Kind(p) = "list" /\ Len(p.list) = 2
           Lists == {l \in Of({"list"}, raw) : \A i \in DOMAIN l : Pair(l[i])}
           FromPairs(list, values) ==
             [n \in {TextOf(list[i].list[1]) : i \in DOMAIN list} |->
                values[Max({i \in DOMAIN list : TextOf(list[i].list[1]) = n})]]
           G(list) == {FromPairs(list, values) :
                         values \in AllDecoded([i \in DOMAIN list |-> Entry(list[i].list[2])])}
<1>7. DecodedMap(type, raw) = (UNION {F(m) : m \in Of({"map"}, raw)}) \cup (UNION {G(l) : l \in Lists})
  BY DEF DecodedMap
<1>8. F(map) = {value} /\ Lists = {}
  BY <1>4, <1>6
<1> HIDE DEF F, G, Lists
<1>9. {F(m) : m \in Of({"map"}, raw)} = {{value}} /\ {G(l) : l \in Lists} = {}
  BY <1>4, <1>8
<1> QED
  BY <1>4, <1>7, <1>9

LEMMA ValueDecodes ==
  ASSUME NEW type \in Types, NEW value, TypedAs(type, value), NEW raw, raw = EncodedAs(type, value)
  PROVE  DecodedAs(type, raw) = {value} /\ Kind(raw) # "null"
<1>1. CASE type = "int"
  <2>1. raw = Number(value)
    BY <1>1 DEF EncodedAs
  <2>2. DOMAIN raw = {"int"}
    BY <2>1 DEF Number
  <2>3. Kind(raw) = "int"
    BY <2>2, OfOne
  <2> QED
    BY <1>1, <2>1, <2>3, DecodedNumber DEF DecodedAs
<1>2. CASE type = "float"
  <2>1. raw = [float |-> value]
    BY <1>2 DEF EncodedAs
  <2>2. DOMAIN raw = {"float"} /\ raw["float"] = value
    BY <2>1
  <2>3. Kind(raw) = "float" /\ Of({"float"}, raw) = {value}
    BY <2>2, OfOne
  <2>4. DecodedInt(raw) = {}
    BY <2>1, DecodedNumber
  <2>5. DecodedFloat(raw) = {value}
    BY <2>3, <2>4 DEF DecodedFloat
  <2> QED
    BY <1>2, <2>3, <2>5 DEF DecodedAs
<1>3. CASE type = "bool"
  <2>1. DOMAIN raw = {"bool"} /\ raw["bool"] = value
    BY <1>3 DEF EncodedAs
  <2>2. Kind(raw) = "bool" /\ Of({"bool", "truth"}, raw) = {value}
    BY <2>1, OfOne
  <2> QED
    BY <1>3, <2>2 DEF DecodedAs, DecodedBool
<1>4. CASE type \in {"text", "path"}
  <2>1. DOMAIN raw = {"str"} /\ raw["str"] = value /\ raw.str = value
    BY <1>4 DEF EncodedAs
  <2>2. Kind(raw) = "str" /\ Of({"str"}, raw) = {value}
    BY <2>1, OfOne
  <2>3. TextOf(raw) = value
    BY <2>1, <2>2 DEF TextOf
  <2> QED
    BY <1>4, <2>2, <2>3 DEF DecodedAs
<1>5. CASE type = "texts"
  <2>1. PICK list : list = [i \in DOMAIN value |-> [str |-> value[i]]]
    OBVIOUS
  <2>2. raw = [list |-> list]
    BY <1>5, <2>1 DEF EncodedAs
  <2>3. DOMAIN raw = {"list"}
    BY <2>2
  <2>4. Kind(raw) = "list"
    BY <2>3, OfOne
  <2>5. DecodedTexts(raw) = {value}
    BY <1>5, <2>1, <2>2, TextsDecode DEF TypedAs
  <2> QED
    BY <1>5, <2>4, <2>5 DEF DecodedAs
<1>6. CASE type \in {"modes", "features"}
  BY <1>6, MapDecodes DEF DecodedAs
<1> QED
  BY <1>1, <1>2, <1>3, <1>4, <1>5, <1>6 DEF Types

LEMMA OverIs ==
  ASSUME NEW f, NEW g
  PROVE  /\ DOMAIN Over(f, g) = DOMAIN f \cup DOMAIN g
         /\ IsFun(Over(f, g))
         /\ \A x \in DOMAIN f : Over(f, g)[x] = f[x]
         /\ \A x \in DOMAIN g \ DOMAIN f : Over(f, g)[x] = g[x]
BY DEF Over, IsFun

LEMMA SettingTypes ==
  /\ \A name \in DOMAIN PolicyTypes : PolicyTypes[name] \in Types
  /\ "type" \notin DOMAIN PolicyTypes
  /\ Nullable \subseteq DOMAIN PolicyTypes
BY DEF PolicyTypes, Types, Nullable

(* What a policy that documents can hold has for a setting.                 *)
Settled(name, value) ==
  (name \in Nullable /\ value = Absent) \/ TypedAs(PolicyTypes[name], value)

WellFormed(policy) ==
  /\ IsFun(policy) /\ DOMAIN policy = DOMAIN PolicyTypes
  /\ \A name \in DOMAIN PolicyTypes : Settled(name, policy[name])

LEMMA FieldDecodes ==
  ASSUME NEW name \in DOMAIN PolicyTypes, NEW value, Settled(name, value),
         NEW document, name \in DOMAIN document, document[name] = EncodedField(name, value)
  PROVE  DecodedField(document, name) = {value}
<1>1. CASE name \in Nullable /\ value = Absent
  <2>1. PICK raw : raw = [null |-> 0]
    OBVIOUS
  <2>2. DOMAIN raw = {"null"}
    BY <2>1
  <2>3. Kind(raw) = "null"
    BY <2>2, OfOne
  <2>4. document[name] = raw
    BY <1>1, <2>1 DEF EncodedField
  <2> QED
    BY <1>1, <2>3, <2>4 DEF DecodedField
<1>2. CASE ~(name \in Nullable /\ value = Absent)
  <2>1. PolicyTypes[name] \in Types /\ TypedAs(PolicyTypes[name], value)
    BY <1>2, SettingTypes DEF Settled
  <2>2. PICK raw : raw = EncodedAs(PolicyTypes[name], value)
    OBVIOUS
  <2>3. DecodedAs(PolicyTypes[name], raw) = {value} /\ Kind(raw) # "null"
    BY <2>1, <2>2, ValueDecodes
  <2>4. document[name] = raw
    BY <1>2, <2>2 DEF EncodedField
  <2> QED
    BY <2>3, <2>4 DEF DecodedField
<1> QED
  BY <1>1, <1>2

(* What is written of a policy is read as that policy.                     *)
(* (encode_act_config against decode_act_config.)                          *)
THEOREM PolicyRoundTrip ==
  ASSUME NEW policy, WellFormed(policy), PolicyValid(policy)
  PROVE  Decoded(Encoded(policy)) = {policy}
<1>1. PICK fields : fields = [name \in DOMAIN policy |-> EncodedField(name, policy[name])]
  OBVIOUS
<1>2. PICK tag : tag = [type |-> [str |-> "act"]]
  OBVIOUS
<1>3. PICK m : m = Over(fields, tag)
  OBVIOUS
<1>4. PICK raw : raw = [map |-> m]
  OBVIOUS
<1>5. Encoded(policy) = raw
  BY <1>1, <1>2, <1>3, <1>4 DEF Encoded
<1>6. DOMAIN raw = {"map"} /\ raw["map"] = m
  BY <1>4
<1>7. Of({"map"}, raw) = {m}
  BY <1>6, OfOne
<1>8. DOMAIN fields = DOMAIN PolicyTypes /\ DOMAIN tag = {"type"} /\ tag["type"] = [str |-> "act"]
  BY <1>1, <1>2 DEF WellFormed
<1>9. /\ DOMAIN m = DOMAIN PolicyTypes \cup {"type"}
      /\ m["type"] = [str |-> "act"]
      /\ \A name \in DOMAIN PolicyTypes : m[name] = EncodedField(name, policy[name])
  <2>1. /\ DOMAIN m = DOMAIN fields \cup DOMAIN tag
        /\ \A x \in DOMAIN fields : m[x] = fields[x]
        /\ \A x \in DOMAIN tag \ DOMAIN fields : m[x] = tag[x]
    BY <1>3 DEF Over
  <2>2. \A name \in DOMAIN PolicyTypes : fields[name] = EncodedField(name, policy[name])
    BY <1>1, <1>8
  <2>3. "type" \in DOMAIN tag \ DOMAIN fields
    BY <1>8, SettingTypes
  <2> QED
    BY <1>8, <2>1, <2>2, <2>3
<1>10. \A name \in DOMAIN PolicyTypes : DecodedField(m, name) = {policy[name]}
  BY <1>9, FieldDecodes DEF WellFormed
<1> DEFINE Read(d) == AllDecoded([name \in DOMAIN PolicyTypes |-> DecodedField(d, name)])
           documents == {d \in Of({"map"}, raw) :
                           /\ "type" \in DOMAIN d /\ d.type = [str |-> "act"]
                           /\ DOMAIN d \subseteq DOMAIN PolicyTypes \cup {"type"}}
<1>11. Read(m) = {policy}
  <2>1. PICK found : found = [name \in DOMAIN PolicyTypes |-> DecodedField(m, name)]
    OBVIOUS
  <2>2. DOMAIN found = DOMAIN policy /\ \A name \in DOMAIN found : found[name] = {policy[name]}
    BY <1>10, <2>1 DEF WellFormed
  <2>3. AllDecoded(found) = {policy}
    BY <2>2, AllDecodedAs DEF WellFormed
  <2> QED
    BY <2>1, <2>3
<1>12. documents = {m}
  <2>1. m.type = m["type"]
    OBVIOUS
  <2> QED
    BY <1>7, <1>9, <2>1
<1>13. Decoded(raw) = {p \in UNION {Read(d) : d \in documents} : PolicyValid(p)}
  BY DEF Decoded
<1> HIDE DEF Read, documents
<1>14. {Read(d) : d \in documents} = {{policy}}
  BY <1>11, <1>12
<1>15. UNION {{policy}} = {policy}
  OBVIOUS
<1> QED
  BY <1>5, <1>13, <1>14, <1>15

-----------------------------------------------------------------------------
(* What is decoded has the types of a policy                               *)

LEMMA MaxIn ==
  ASSUME NEW n \in Nat, NEW S \in SUBSET (1..n), S # {}
  PROVE  Max(S) \in S
<1> DEFINE T == {n - i : i \in S}
<1>1. T \in SUBSET Nat /\ T # {}
  <2>1. ASSUME NEW i \in S PROVE n - i \in Nat
    <3>1. i \in 1..n
      OBVIOUS
    <3> QED
      BY <3>1
  <2>2. PICK i : i \in S
    OBVIOUS
  <2>3. n - i \in T
    BY <2>2
  <2> QED
    BY <2>1, <2>3
<1>2. PICK t \in T : \A u \in T : t <= u
  <2> HIDE DEF T
  <2> QED
    BY <1>1, LeastExists
<1>3. \E i \in S : t = n - i
  BY t \in T
<1>4. PICK i \in S : t = n - i
  BY <1>3
<1>5. \A j \in S : i >= j
  <2>1. ASSUME NEW j \in S PROVE i >= j
    <3>1. n - j \in T /\ j \in Int /\ i \in Int
      OBVIOUS
    <3>2. t <= n - j
      BY <1>2, <3>1
    <3> QED
      BY <1>4, <3>1, <3>2
  <2> QED
    BY <2>1
<1> QED
  BY <1>5 DEF Max

LEMMA OnlyIn == \A set : set # {} => Only(set) \in set
BY DEF Only

LEMMA AllDecodedIs ==
  ASSUME NEW found, NEW f, f \in AllDecoded(found)
  PROVE  IsFun(f) /\ DOMAIN f = DOMAIN found /\ \A x \in DOMAIN found : f[x] \in found[x]
<1>1. \A x \in DOMAIN found : found[x] # {}
  BY DEF AllDecoded
<1>2. f = [x \in DOMAIN found |-> Only(found[x])]
  BY <1>1 DEF AllDecoded
<1> QED
  BY <1>1, <1>2, OnlyIn DEF IsFun

LEMMA OfIs ==
  ASSUME NEW kind, NEW raw, NEW x, x \in Of({kind}, raw)
  PROVE  Kind(raw) = kind /\ x = raw[kind]
BY DEF Of

LEMMA ShapesAreFunctions ==
  ASSUME NEW raw, NEW shape, shape \in DecodedShape(raw)
  PROVE  IsFun(shape)
<1>1. CASE \E l \in Of({"list"}, raw) : shape \in AllDecoded([i \in DOMAIN l |-> DecodedInt(l[i])])
  BY <1>1, AllDecodedIs
<1>2. CASE \E digit \in Of({"digit"}, raw) : shape = <<digit>>
  BY <1>2 DEF IsFun
<1>3. CASE shape = Nothing
  BY <1>3 DEF IsFun, Nothing
<1> QED
  BY <1>1, <1>2, <1>3 DEF DecodedShape

LEMMA FeaturesAreFeatures ==
  ASSUME NEW raw, NEW f, f \in DecodedFeature(raw)
  PROVE  IsFeature(f)
<1>1. PICK m : /\ Of({"str"}, m.type) \cap FeatureTypes # {}
               /\ DecodedShape(m.shape) # {}
               /\ f = [type |-> m.type.str, shape |-> Only(DecodedShape(m.shape))]
  BY DEF DecodedFeature
<1>2. PICK t : t \in Of({"str"}, m.type) /\ t \in FeatureTypes
  BY <1>1
<1>3. t = m.type.str
  <2>1. PICK type : type = m.type
    OBVIOUS
  <2>2. t = type["str"]
    BY <1>2, <2>1, OfIs
  <2> QED
    BY <2>1, <2>2
<1>4. IsFun(Only(DecodedShape(m.shape)))
  BY <1>1, OnlyIn, ShapesAreFunctions
<1> QED
  BY <1>1, <1>2, <1>3, <1>4 DEF IsFeature

LEMMA MapsTyped ==
  ASSUME NEW type \in {"modes", "features"}, NEW raw, NEW value, value \in DecodedMap(type, raw),
         \A list \in Of({"list"}, raw) : IsArray(list)
  PROVE  TypedAs(type, value)
<1> DEFINE Entry(v) == IF type = "modes" THEN DecodedMode(v) ELSE DecodedFeature(v)
           Pair(p) == Kind(p) = "list" /\ Len(p.list) = 2
           FromPairs(list, values) ==
             [n \in {TextOf(list[i].list[1]) : i \in DOMAIN list} |->
                values[Max({i \in DOMAIN list : TextOf(list[i].list[1]) = n})]]
<1>1. ASSUME IsFun(value), \A x \in DOMAIN value : \E v : value[x] \in Entry(v)
      PROVE  TypedAs(type, value)
  <2>1. CASE type = "modes"
    BY <1>1, <2>1 DEF TypedAs, DecodedMode
  <2>2. CASE type = "features"
    BY <1>1, <2>2, FeaturesAreFeatures DEF TypedAs
  <2> QED
    BY <2>1, <2>2
<1>2. CASE \E m \in Of({"map"}, raw) : value \in AllDecoded([name \in DOMAIN m |-> Entry(m[name])])
  <2>1. PICK m : value \in AllDecoded([name \in DOMAIN m |-> Entry(m[name])])
    BY <1>2
  <2>2. PICK found : found = [name \in DOMAIN m |-> Entry(m[name])]
    OBVIOUS
  <2>3. IsFun(value) /\ DOMAIN value = DOMAIN found /\ \A x \in DOMAIN found : value[x] \in found[x]
    BY <2>1, <2>2, AllDecodedIs
  <2>4. \A x \in DOMAIN found : found[x] = Entry(m[x])
    BY <2>2
  <2> HIDE DEF Entry
  <2>5. \A x \in DOMAIN value : \E v : value[x] \in Entry(v)
    BY <2>3, <2>4
  <2> QED
    BY <1>1, <2>3, <2>5
<1>3. CASE \E list \in Of({"list"}, raw) :
             \E values \in AllDecoded([i \in DOMAIN list |-> Entry(list[i].list[2])]) :
               value = FromPairs(list, values)
  <2>1. PICK list \in Of({"list"}, raw) :
               \E values \in AllDecoded([i \in DOMAIN list |-> Entry(list[i].list[2])]) :
                 value = FromPairs(list, values)
    BY <1>3
  <2>2. PICK values \in AllDecoded([i \in DOMAIN list |-> Entry(list[i].list[2])]) :
               value = FromPairs(list, values)
    BY <2>1
  <2>3. PICK found : found = [i \in DOMAIN list |-> Entry(list[i].list[2])]
    OBVIOUS
  <2>4. DOMAIN values = DOMAIN found /\ \A i \in DOMAIN found : values[i] \in found[i]
    BY <2>2, <2>3, AllDecodedIs
  <2>5. DOMAIN found = DOMAIN list /\ \A i \in DOMAIN list : found[i] = Entry(list[i].list[2])
    BY <2>3
  <2>6. Len(list) \in Nat /\ DOMAIN list = 1..Len(list)
    BY DEF IsArray
  <2>7. ASSUME NEW n \in {TextOf(list[i].list[1]) : i \in DOMAIN list}
        PROVE  Max({i \in DOMAIN list : TextOf(list[i].list[1]) = n}) \in DOMAIN list
    <3>1. PICK S : S = {i \in DOMAIN list : TextOf(list[i].list[1]) = n}
      OBVIOUS
    <3>2. S \in SUBSET (1..Len(list)) /\ S # {}
      BY <2>6, <3>1
    <3>3. Max(S) \in S
      BY <2>6, <3>2, MaxIn
    <3> QED
      BY <3>1, <3>3
  <2> DEFINE At(n) == Max({i \in DOMAIN list : TextOf(list[i].list[1]) = n})
             Names == {TextOf(list[i].list[1]) : i \in DOMAIN list}
  <2>8. value = [n \in Names |-> values[At(n)]]
    BY <2>2
  <2>9. \A n \in Names : At(n) \in DOMAIN list
    BY <2>7
  <2> HIDE DEF Entry, At, Names
  <2>10. IsFun(value)
    BY <2>8 DEF IsFun
  <2>11. \A x \in DOMAIN value : \E v : value[x] \in Entry(v)
    BY <2>4, <2>5, <2>8, <2>9
  <2> QED
    BY <1>1, <2>10, <2>11
<1>4. \/ \E m \in Of({"map"}, raw) : value \in AllDecoded([name \in DOMAIN m |-> Entry(m[name])])
      \/ \E list \in {l \in Of({"list"}, raw) : \A i \in DOMAIN l : Pair(l[i])} :
           \E values \in AllDecoded([i \in DOMAIN list |-> Entry(list[i].list[2])]) :
             value = FromPairs(list, values)
  <2> DEFINE Objects == {AllDecoded([name \in DOMAIN m |-> Entry(m[name])]) : m \in Of({"map"}, raw)}
             Pairs(l) == {FromPairs(l, values) :
                            values \in AllDecoded([i \in DOMAIN l |-> Entry(l[i].list[2])])}
             Lists == {Pairs(l) : l \in {x \in Of({"list"}, raw) : \A i \in DOMAIN x : Pair(x[i])}}
  <2>1. value \in (UNION Objects) \cup (UNION Lists)
    BY DEF DecodedMap
  <2> HIDE DEF Entry, Pair, FromPairs
  <2>2. value \in UNION Objects => \E m \in Of({"map"}, raw) :
                                     value \in AllDecoded([name \in DOMAIN m |-> Entry(m[name])])
    OBVIOUS
  <2> HIDE DEF Pairs
  <2>3. value \in UNION Lists => \E l \in {x \in Of({"list"}, raw) : \A i \in DOMAIN x : Pair(x[i])} :
                                   value \in Pairs(l)
    OBVIOUS
  <2> QED
    BY <2>1, <2>2, <2>3 DEF Pairs
<1> QED
  BY <1>2, <1>3, <1>4

LEMMA ValuesTyped ==
  ASSUME NEW type \in Types, NEW raw, NEW value, value \in DecodedAs(type, raw),
         \A list \in Of({"list"}, raw) : IsArray(list)
  PROVE  TypedAs(type, value)
<1>1. CASE type \in {"modes", "features"}
  BY <1>1, MapsTyped DEF DecodedAs
<1>2. CASE type = "texts"
  <2>1. value \in DecodedTexts(raw)
    BY <1>2 DEF DecodedAs
  <2>2. IsFun(value)
    BY <2>1 DEF DecodedTexts, IsFun
  <2> QED
    BY <1>2, <2>2 DEF TypedAs
<1>3. CASE type \notin {"modes", "features", "texts"}
  BY <1>3 DEF TypedAs
<1> QED
  BY <1>1, <1>2, <1>3

LEMMA DefaultTyped == WellFormed(DefaultPolicy)
<1>1. IsFun(DefaultPolicy) /\ DOMAIN DefaultPolicy = DOMAIN PolicyTypes
  BY DEF IsFun, DefaultPolicy, PolicyTypes
<1>2. ASSUME NEW name \in DOMAIN PolicyTypes
      PROVE  Settled(name, DefaultPolicy[name])
  <2>1. CASE name = "normalization_mapping"
    <3>1. DefaultPolicy[name] = [type \in {"VISUAL", "STATE", "ACTION"} |-> "MEAN_STD"]
          /\ PolicyTypes[name] = "modes"
      BY <2>1 DEF DefaultPolicy, PolicyTypes
    <3> QED
      BY <3>1 DEF Settled, TypedAs, IsFun, Modes
  <2>2. CASE name \in {"input_features", "output_features"}
    <3>1. DefaultPolicy[name] = Nothing /\ PolicyTypes[name] = "features" /\ DOMAIN Nothing = {}
      BY <2>2 DEF DefaultPolicy, PolicyTypes, Nothing
    <3>2. IsFun(Nothing)
      BY DEF IsFun, Nothing
    <3> QED
      BY <3>1, <3>2 DEF Settled, TypedAs
  <2>3. CASE name = "tags"
    BY <2>3 DEF Settled, Nullable, DefaultPolicy
  <2>4. CASE name \notin {"normalization_mapping", "input_features", "output_features", "tags"}
    <3>1. PolicyTypes[name] \notin {"texts", "modes", "features"}
      BY <2>4 DEF PolicyTypes
    <3> QED
      BY <3>1 DEF Settled, TypedAs
  <2> QED
    BY <2>1, <2>2, <2>3, <2>4
<1> QED
  BY <1>1, <1>2 DEF WellFormed

(* What is decoded of a document is a policy that documents can hold.       *)
LEMMA DecodedFits ==
  ASSUME NEW raw, HoldsArrays(raw), NEW policy, policy \in Decoded(raw)
  PROVE  WellFormed(policy) /\ PolicyValid(policy)
<1>1. PICK m \in Of({"map"}, raw) :
             policy \in AllDecoded([name \in DOMAIN PolicyTypes |-> DecodedField(m, name)])
  BY DEF Decoded
<1>2. PolicyValid(policy)
  BY DEF Decoded
<1>3. PICK found : found = [name \in DOMAIN PolicyTypes |-> DecodedField(m, name)]
  OBVIOUS
<1>4. /\ IsFun(policy) /\ DOMAIN policy = DOMAIN found
      /\ \A x \in DOMAIN found : policy[x] \in found[x]
  BY <1>1, <1>3, AllDecodedIs
<1>5. ASSUME NEW name \in DOMAIN PolicyTypes PROVE Settled(name, policy[name])
  <2>1. policy[name] \in DecodedField(m, name)
    BY <1>3, <1>4
  <2>2. CASE name \notin DOMAIN m
    BY <2>1, <2>2, DefaultTyped DEF DecodedField, WellFormed
  <2>3. CASE name \in DOMAIN m /\ name \in Nullable /\ Kind(m[name]) = "null"
    BY <2>1, <2>3 DEF DecodedField, Settled
  <2>4. CASE name \in DOMAIN m /\ ~(name \in Nullable /\ Kind(m[name]) = "null")
    <3>1. policy[name] \in DecodedAs(PolicyTypes[name], m[name])
      BY <2>1, <2>4 DEF DecodedField
    <3>2. \A list \in Of({"list"}, m[name]) : IsArray(list)
      BY <1>1, <2>4 DEF HoldsArrays
    <3>3. PICK value, rawValue, type :
            value = policy[name] /\ rawValue = m[name] /\ type = PolicyTypes[name]
      OBVIOUS
    <3>4. TypedAs(type, value)
      BY <3>1, <3>2, <3>3, SettingTypes, ValuesTyped
    <3> QED
      BY <3>3, <3>4 DEF Settled
  <2> QED
    BY <2>2, <2>3, <2>4
<1> QED
  BY <1>2, <1>3, <1>4, <1>5 DEF WellFormed

(* Flags, too, have these types.                                           *)
LEMMA FlagTyped ==
  ASSUME NEW name \in DOMAIN PolicyFlags, NEW raw, NEW value,
         value \in FlagValues(name, PolicyFlags[name], raw),
         \A list \in Of({"list"}, raw) : IsArray(list)
  PROVE  Settled(name, value)
<1>1. /\ name \in DOMAIN PolicyTypes /\ PolicyFlags[name] = PolicyTypes[name]
      /\ PolicyTypes[name] \in Types /\ PolicyTypes[name] # "features"
      /\ name # "seed"
  <2>1. "seed" \notin DOMAIN PolicyTypes
    BY DEF PolicyTypes
  <2> QED
    BY <2>1, SettingTypes DEF PolicyFlags
<1>2. CASE name = "replace_final_stride_with_dilation"
  <2>1. PolicyTypes[name] = "int"
    BY <1>2 DEF PolicyTypes
  <2> QED
    BY <2>1 DEF Settled, TypedAs
<1>3. CASE name # "replace_final_stride_with_dilation" /\ name \in Nullable /\ Kind(raw) = "null"
  BY <1>1, <1>3 DEF FlagValues, Settled
<1>4. CASE name # "replace_final_stride_with_dilation" /\ ~(name \in Nullable /\ Kind(raw) = "null")
  <2>1. value \in ReadFlag(PolicyTypes[name], raw)
    BY <1>1, <1>4 DEF FlagValues
  <2>2. CASE PolicyTypes[name] = "modes"
    <3>1. PICK type : type = "modes"
      OBVIOUS
    <3>2. value \in DecodedMap(type, raw)
      BY <2>1, <2>2, <3>1 DEF ReadFlag
    <3>3. TypedAs(type, value)
      BY <3>1, <3>2, MapsTyped
    <3> QED
      BY <2>2, <3>1, <3>3 DEF Settled
  <2>3. CASE PolicyTypes[name] = "texts"
    <3>1. IsFun(value)
      BY <2>1, <2>3 DEF ReadFlag, IsFun
    <3> QED
      BY <2>3, <3>1 DEF Settled, TypedAs
  <2>4. CASE PolicyTypes[name] \notin {"modes", "texts"}
    BY <1>1, <2>4 DEF Settled, TypedAs
  <2> QED
    BY <2>2, <2>3, <2>4
<1> QED
  BY <1>2, <1>3, <1>4

LEMMA OverriddenTyped ==
  ASSUME NEW policy, WellFormed(policy), NEW flags, FlagsFit(flags, PolicyFlags),
         HoldsArrays([map |-> flags])
  PROVE  WellFormed(PolicyOverridden(policy, Values(flags, PolicyFlags)))
<1> DEFINE given == Values(flags, PolicyFlags)
           new == PolicyOverridden(policy, given)
<1>1. PICK raw : raw = [map |-> flags]
  OBVIOUS
<1>2. DOMAIN raw = {"map"} /\ raw["map"] = flags
  BY <1>1
<1>3. Of({"map"}, raw) = {flags}
  BY <1>2, OfOne
<1>4. \A name \in DOMAIN flags : \A list \in Of({"list"}, flags[name]) : IsArray(list)
  BY <1>1, <1>3 DEF HoldsArrays
<1>5. DOMAIN given = DOMAIN flags
  BY DEF Values
<1>6. ASSUME NEW name \in DOMAIN flags PROVE Settled(name, given[name])
  <2>1. PICK raws, value : raws = flags[name] /\ value = given[name]
    OBVIOUS
  <2>2. name \in DOMAIN PolicyFlags /\ FlagValues(name, PolicyFlags[name], raws) # {}
    BY <2>1 DEF FlagsFit
  <2>3. value = Only(FlagValues(name, PolicyFlags[name], raws))
    BY <2>1 DEF Values
  <2>4. value \in FlagValues(name, PolicyFlags[name], raws)
    BY <2>2, <2>3, OnlyIn
  <2> QED
    BY <1>4, <2>1, <2>2, <2>4, FlagTyped
<1>7. IsFun(new) /\ DOMAIN new = DOMAIN PolicyTypes
  BY DEF PolicyOverridden, IsFun, WellFormed
<1>8. ASSUME NEW name \in DOMAIN PolicyTypes PROVE Settled(name, new[name])
  <2> HIDE DEF given
  <2>0. name \in DOMAIN policy
    BY DEF WellFormed
  <2>1. CASE name \notin DOMAIN given \/ name = "replace_final_stride_with_dilation"
    <3>1. new[name] = policy[name]
      BY <2>0, <2>1 DEF PolicyOverridden
    <3> QED
      BY <3>1 DEF WellFormed
  <2>2. CASE name \in DOMAIN given /\ name = "normalization_mapping"
    <3>1. new[name] = Over(given[name], policy[name])
      BY <2>0, <2>2 DEF PolicyOverridden
    <3>2. PolicyTypes[name] = "modes" /\ name \notin Nullable
      BY <2>2 DEF PolicyTypes, Nullable
    <3>3. PICK f, g, h : f = given[name] /\ g = policy[name] /\ h = Over(f, g)
      OBVIOUS
    <3>4. TypedAs("modes", f) /\ TypedAs("modes", g)
      BY <1>5, <1>6, <2>2, <3>2, <3>3 DEF WellFormed, Settled
    <3>5. TypedAs("modes", h)
      BY <3>3, <3>4 DEF TypedAs, Over, IsFun
    <3> QED
      BY <3>1, <3>2, <3>3, <3>5 DEF Settled
  <2>3. CASE /\ name \in DOMAIN given
             /\ name \notin {"normalization_mapping", "replace_final_stride_with_dilation"}
    <3>1. new[name] = given[name]
      BY <2>0, <2>3 DEF PolicyOverridden
    <3> QED
      BY <1>5, <1>6, <2>3, <3>1
  <2> QED
    BY <2>1, <2>2, <2>3
<1> QED
  BY <1>7, <1>8 DEF WellFormed

-----------------------------------------------------------------------------
(* The invariant                                                           *)

(* What a run asks for, as its document can hold it.                       *)
RunTypedAs(type, value) ==
  /\ type \in {"map", "integers"} => IsFun(value)
  /\ type = "natural" => value \in 0..MaxNatural
  /\ type = "integers" => \A i \in DOMAIN value : value[i] \in -MaxNatural..MaxNatural

RunSettled(name, value) ==
  (name \in Optional /\ value = Absent) \/ RunTypedAs(RunTypes[name], value)

TypedConfig(c) ==
  /\ IsFun(c) /\ DOMAIN c = DOMAIN RunTypes \cup {"policy", "resume", "checkpoint"}
  /\ WellFormed(c.policy)
  /\ \A name \in DOMAIN RunTypes : RunSettled(name, c[name])

ConfigFits(c, checkpoints) ==
  /\ TypedConfig(c) /\ Valid(c)
  /\ c.resume => /\ c.checkpoint \in DOMAIN checkpoints
                 /\ c.policy.pretrained_path = c.checkpoint

(* A session of that run: its features, mapping and statistics are those   *)
(* of the dataset alone, or come with the weights.                         *)
SessionFields ==
  {"policy", "rename", "stats", "cameras", "normalizer", "weights", "optimizer", "groups",
   "rng", "step"}

OfDatasetAlone(c, s) ==
  /\ s.rename = Nothing
  /\ s.stats = Datasets[c.root].stats
  /\ s.cameras = DatasetCameras(c, Datasets[c.root])

SessionFits(c, s) ==
  /\ c.root \in DOMAIN Datasets
  /\ IsFun(s) /\ DOMAIN s = SessionFields /\ DOMAIN s.weights = {"built", "trained"}
  /\ WellFormed(s.policy) /\ PolicyValid(s.policy) /\ SeesSomething(s.policy)
  /\ s.policy.output_features = Outputs(Datasets[c.root])
  /\ Action \in DOMAIN Features(s.policy.output_features)
  /\ IsFun(s.stats)
  /\ s.normalizer = Normalizer(s.policy, s.stats)
  /\ OfDatasetAlone(c, s) \/ s.cameras = SavedCameras(s.policy, s.stats)
  /\ s.groups = <<c.policy.optimizer_lr, c.policy.optimizer_lr_backbone>>
  /\ c.rename_map # Nothing => s.rename = c.rename_map

(* ... which goes on from a checkpoint when it was given one.              *)
GoesOn(c, s, checkpoints) ==
  LET path == c.policy.pretrained_path
  IN path # Absent =>
       /\ path \in DOMAIN checkpoints
       /\ s.stats \in RenamedStats(checkpoints[path].stats, s.rename)
       /\ s.cameras = SavedCameras(s.policy, s.stats)
       /\ s.weights.trained \in {checkpoints[path].weights.trained,
                                 Normalizations(s, Datasets[c.root])}

(* A checkpoint is of a session that has trained.                          *)
SavedFits(checkpoint) ==
  LET c == checkpoint.by.config
      s == checkpoint.by.session
  IN /\ checkpoint = Checkpoint(c, s)
     /\ TypedConfig(c) /\ Valid(c)
     /\ SessionFits(c, s)
     /\ KindsFit(s, Datasets[c.root])
     /\ s.weights.trained = Normalizations(s, Datasets[c.root])

RunInv ==
  /\ \A place \in DOMAIN saved : SavedFits(saved[place])
  /\ \A dir \in DOMAIN last : last[dir] \in DOMAIN saved
  /\ config # Absent => ConfigFits(config, saved)
  /\ session # Absent =>
       config # Absent /\ SessionFits(config, session) /\ GoesOn(config, session, saved)

-----------------------------------------------------------------------------
(* A run's document is read as the run                                     *)

RunKinds == {"text", "integers", "bool", "map", "natural", "int", "float"}

LEMMA RunSettings ==
  /\ \A name \in DOMAIN RunTypes : RunTypes[name] \in RunKinds
  /\ "policy" \notin DOMAIN RunTypes /\ "dataset" \notin DOMAIN RunTypes
  /\ "resume" \notin DOMAIN RunTypes /\ "checkpoint" \notin DOMAIN RunTypes
  /\ Optional \subseteq DOMAIN RunTypes /\ Required \subseteq DOMAIN RunTypes \cup {"policy"}
  /\ Optional \cap Required = {}
  /\ DatasetSettings \subseteq DOMAIN RunTypes
  /\ RunTypes["seed"] = "natural" /\ RunTypes["episodes"] = "integers"
BY DEF RunTypes, RunKinds, Optional, Required, DatasetSettings

LEMMA SettingDecodes ==
  ASSUME NEW name \in DOMAIN RunTypes, NEW value, RunSettled(name, value),
         ~(name \in Optional /\ value = Absent),
         NEW raw, raw = EncodedSetting(name, value)
  PROVE  ReadField(RunTypes[name], raw) = {value} /\ Kind(raw) # "null"
<1>0. PICK type : type = RunTypes[name]
  OBVIOUS
<1>a. type \in RunKinds /\ RunTypedAs(type, value)
  BY <1>0, RunSettings DEF RunSettled
<1>1. CASE type \in {"int", "natural"}
  <2>1. raw = Number(value)
    BY <1>0, <1>1 DEF EncodedSetting
  <2>2. DOMAIN raw = {"int"} /\ raw["int"] = value
    BY <2>1 DEF Number
  <2>3. Kind(raw) = "int" /\ Of({"int"}, raw) = {value}
    BY <2>2, OfOne
  <2>4. CASE type = "int"
    BY <1>0, <2>3, <2>4 DEF ReadField, ReadFlag
  <2>5. CASE type = "natural"
    BY <1>0, <1>a, <2>3, <2>5 DEF ReadField, ReadFlag, NaturalOf, RunTypedAs
  <2> QED
    BY <1>0, <1>1, <2>3, <2>4, <2>5
<1>2. CASE type = "bool"
  <2>1. DOMAIN raw = {"bool"} /\ raw["bool"] = value
    BY <1>0, <1>2 DEF EncodedSetting
  <2>2. Kind(raw) = "bool" /\ Of({"bool"}, raw) = {value}
    BY <2>1, OfOne
  <2> QED
    BY <1>0, <1>2, <2>2 DEF ReadField, ReadFlag
<1>3. CASE type = "float"
  <2>1. DOMAIN raw = {"float"} /\ raw["float"] = value
    BY <1>0, <1>3 DEF EncodedSetting
  <2>2. Kind(raw) = "float" /\ Of({"float"}, raw) = {value}
    BY <2>1, OfOne
  <2> QED
    BY <1>0, <1>3, <2>2 DEF ReadField
<1>4. CASE type = "text"
  <2>1. DOMAIN raw = {"str"} /\ raw["str"] = value /\ raw.str = value
    BY <1>0, <1>4 DEF EncodedSetting
  <2>2. Kind(raw) = "str"
    BY <2>1, OfOne
  <2>3. TextOf(raw) = value
    BY <2>1, <2>2 DEF TextOf
  <2> QED
    BY <1>0, <1>4, <2>2, <2>3 DEF ReadField, Strings
<1>5. CASE type = "map"
  <2>1. PICK map : map = [n \in DOMAIN value |-> [str |-> value[n]]]
    OBVIOUS
  <2>2. raw = [map |-> map]
    BY <1>0, <1>5, <2>1 DEF EncodedSetting
  <2>3. DOMAIN raw = {"map"} /\ raw["map"] = map
    BY <2>2
  <2>4. Kind(raw) = "map" /\ Of({"map"}, raw) = {map}
    BY <2>3, OfOne
  <2>5. ASSUME NEW n \in DOMAIN map PROVE Kind(map[n]) = "str" /\ TextOf(map[n]) = value[n]
    <3>1. PICK text : text = [str |-> value[n]]
      OBVIOUS
    <3>2. DOMAIN text = {"str"} /\ text.str = value[n] /\ map[n] = text
      BY <2>1, <3>1
    <3>3. Kind(text) = "str"
      BY <3>2, OfOne
    <3> QED
      BY <3>2, <3>3 DEF TextOf
  <2> DEFINE F(m) == [n \in DOMAIN m |-> TextOf(m[n])]
             Good(m) == \A n \in DOMAIN m : Kind(m[n]) \in Strings
  <2>6. F(map) = value
    BY <1>a, <1>5, <2>1, <2>5 DEF RunTypedAs, IsFun
  <2>7. Good(map)
    BY <2>5 DEF Strings
  <2>8. StringMap(raw) = {F(m) : m \in {m \in Of({"map"}, raw) : Good(m)}}
    BY DEF StringMap
  <2> HIDE DEF F, Good
  <2>9. StringMap(raw) = {value}
    BY <2>4, <2>6, <2>7, <2>8
  <2> QED
    BY <1>0, <1>5, <2>4, <2>9 DEF ReadField, ReadFlag
<1>6. CASE type = "integers"
  <2>1. PICK list : list = [i \in DOMAIN value |-> Number(value[i])]
    OBVIOUS
  <2>2. raw = [list |-> list]
    BY <1>0, <1>6, <2>1 DEF EncodedSetting
  <2>3. DOMAIN raw = {"list"} /\ raw["list"] = list
    BY <2>2
  <2>4. Kind(raw) = "list" /\ Of({"list"}, raw) = {list}
    BY <2>3, OfOne
  <2>5. ASSUME NEW i \in DOMAIN list
        PROVE  list[i].int = value[i] /\ Of({"int"}, list[i]) \cap (-MaxNatural..MaxNatural) # {}
    <3>1. PICK number : number = Number(value[i])
      OBVIOUS
    <3>2. DOMAIN number = {"int"} /\ number["int"] = value[i] /\ number.int = value[i]
          /\ list[i] = number
      BY <2>1, <3>1 DEF Number
    <3>3. Of({"int"}, number) = {value[i]}
      BY <3>2, OfOne
    <3>4. value[i] \in -MaxNatural..MaxNatural
      BY <1>a, <1>6, <2>1 DEF RunTypedAs
    <3> QED
      BY <3>2, <3>3, <3>4
  <2> DEFINE F(l) == [i \in DOMAIN l |-> l[i].int]
             Good(l) == \A i \in DOMAIN l : Of({"int"}, l[i]) \cap (-MaxNatural..MaxNatural) # {}
  <2>6. F(list) = value
    BY <1>a, <1>6, <2>1, <2>5 DEF RunTypedAs, IsFun
  <2>7. Good(list)
    BY <2>5
  <2>8. IntegersOf(raw) = {F(l) : l \in {l \in Of({"list"}, raw) : Good(l)}}
    BY DEF IntegersOf
  <2> HIDE DEF F, Good
  <2>9. IntegersOf(raw) = {value}
    BY <2>4, <2>6, <2>7, <2>8
  <2> QED
    BY <1>0, <1>6, <2>4, <2>9 DEF ReadField, ReadFlag
<1> QED
  BY <1>a, <1>1, <1>2, <1>3, <1>4, <1>5, <1>6 DEF RunKinds

(* The settings that are in the document of a run.                         *)
Told(c) == {name \in DOMAIN RunTypes : ~(name \in Optional /\ c[name] = Absent)}

LEMMA JsonFields ==
  ASSUME NEW c, \A name \in DOMAIN RunTypes : RunSettled(name, c[name]),
         NEW fields, fields = Fields(ToJson(c))
  PROVE  /\ DOMAIN fields = Told(c) \cup {"policy"}
         /\ fields["policy"] = Encoded(c.policy)
         /\ \A name \in Told(c) : fields[name] = EncodedSetting(name, c[name])
<1>1. PICK settings : settings = [name \in DOMAIN RunTypes |-> EncodedSetting(name, c[name])]
  OBVIOUS
<1>2. PICK d : d = OfDataset(settings)
  OBVIOUS
<1>3. PICK head : head = [dataset |-> [map |-> d], policy |-> Encoded(c.policy)]
  OBVIOUS
<1>4. PICK tail : tail = OfRun(settings)
  OBVIOUS
<1>5. PICK m : m = Over(head, tail)
  OBVIOUS
<1>6. PICK document : document = [map |-> m]
  OBVIOUS
<1>7. ToJson(c) = document
  BY <1>1, <1>2, <1>3, <1>4, <1>5, <1>6 DEF ToJson
<1>8. DOMAIN document = {"map"} /\ document.map = m
  BY <1>6
<1>9. Kind(document) = "map"
  BY <1>8, OfOne
<1>10. DOMAIN d = DatasetSettings /\ \A name \in DatasetSettings : d[name] = settings[name]
  BY <1>1, <1>2, RunSettings DEF OfDataset
<1>11. /\ DOMAIN tail = DOMAIN RunTypes \ DatasetSettings
       /\ \A name \in DOMAIN RunTypes \ DatasetSettings : tail[name] = settings[name]
  BY <1>1, <1>4 DEF OfRun
<1>12. /\ DOMAIN m = {"dataset", "policy"} \cup (DOMAIN RunTypes \ DatasetSettings)
       /\ m["dataset"] = [map |-> d] /\ m["policy"] = Encoded(c.policy)
       /\ \A name \in DOMAIN RunTypes \ DatasetSettings : m[name] = settings[name]
  <2>1. /\ DOMAIN head = {"dataset", "policy"}
        /\ head["dataset"] = [map |-> d] /\ head["policy"] = Encoded(c.policy)
    BY <1>3
  <2> QED
    BY <1>5, <1>11, <2>1, RunSettings DEF Over
<1>13. PICK nested : nested = [map |-> d]
  OBVIOUS
<1>14. DOMAIN nested = {"map"} /\ nested.map = d /\ m.dataset = nested
  BY <1>12, <1>13
<1>15. Kind(m.dataset) = "map" /\ m.dataset.map = d
  <2>1. Kind(nested) = "map"
    BY <1>14, OfOne
  <2> QED
    BY <1>14, <2>1
<1>16. \A name \in DOMAIN RunTypes :
         name \in Told(c) <=> (name \notin Optional \/ Kind(settings[name]) # "null")
  <2>1. ASSUME NEW name \in Told(c) PROVE Kind(settings[name]) # "null"
    <3>1. PICK value, raw : value = c[name] /\ raw = EncodedSetting(name, value)
      OBVIOUS
    <3>2. Kind(raw) # "null"
      BY <3>1, SettingDecodes DEF Told
    <3> QED
      BY <1>1, <3>1, <3>2 DEF Told
  <2>2. ASSUME NEW name \in DOMAIN RunTypes, name \notin Told(c)
        PROVE  name \in Optional /\ Kind(settings[name]) = "null"
    <3>1. PICK raw : raw = [null |-> 0]
      OBVIOUS
    <3>2. DOMAIN raw = {"null"}
      BY <3>1
    <3>3. Kind(raw) = "null"
      BY <3>2, OfOne
    <3>4. name \in Optional /\ c[name] = Absent
      BY <2>2 DEF Told
    <3>5. settings[name] = raw
      BY <1>1, <3>1, <3>4 DEF EncodedSetting
    <3> QED
      BY <3>3, <3>4, <3>5
  <2> QED
    BY <2>1, <2>2
<1> DEFINE Set(x) == {name \in DOMAIN x : name \notin Optional \/ Kind(x[name]) # "null"}
           Given(x) == [name \in Set(x) \cap (DOMAIN RunTypes \cup {"policy"}) |-> x[name]]
<1>17. PICK g : g = Given(d)
  OBVIOUS
<1>18. PICK h : h = Given(m)
  OBVIOUS
<1>19. /\ DOMAIN g = Told(c) \cap DatasetSettings
       /\ \A name \in DOMAIN g : g[name] = EncodedSetting(name, c[name])
  <2>1. DOMAIN g = Set(d) \cap (DOMAIN RunTypes \cup {"policy"})
        /\ \A name \in DOMAIN g : g[name] = d[name]
    BY <1>17
  <2>2. Set(d) = {name \in DatasetSettings : name \notin Optional \/ Kind(settings[name]) # "null"}
    BY <1>10
  <2> HIDE DEF Set
  <2>3. Set(d) = Told(c) \cap DatasetSettings
    BY <1>16, <2>2, RunSettings
  <2> QED
    BY <1>1, <1>10, <2>1, <2>3, RunSettings DEF Told
<1>20. /\ DOMAIN h = (Told(c) \ DatasetSettings) \cup {"policy"}
       /\ h["policy"] = Encoded(c.policy)
       /\ \A name \in DOMAIN h \ {"policy"} : h[name] = EncodedSetting(name, c[name])
  <2>1. DOMAIN h = Set(m) \cap (DOMAIN RunTypes \cup {"policy"})
        /\ \A name \in DOMAIN h : h[name] = m[name]
    BY <1>18
  <2>2. \A name \in DOMAIN m : name \in Set(m) <=> (name \notin Optional \/ Kind(m[name]) # "null")
    OBVIOUS
  <2>3. Set(m) \subseteq DOMAIN m
    OBVIOUS
  <2> HIDE DEF Set
  <2>4. Set(m) \cap (DOMAIN RunTypes \cup {"policy"}) = (Told(c) \ DatasetSettings) \cup {"policy"}
    <3>1. "policy" \in Set(m)
      BY <1>12, <2>2, RunSettings
    <3>2. \A name \in DOMAIN RunTypes \ DatasetSettings : name \in Set(m) <=> name \in Told(c)
      BY <1>12, <1>16, <2>2
    <3>3. \A name \in DatasetSettings : name \notin DOMAIN m
      BY <1>12 DEF DatasetSettings
    <3>4. Told(c) \subseteq DOMAIN RunTypes
      BY DEF Told
    <3> QED
      BY <2>3, <3>1, <3>2, <3>3, <3>4
  <2> QED
    BY <1>1, <1>12, <2>1, <2>4 DEF Told
<1>21. fields = Over(OfDataset(g), OfRun(h))
  <2>1. Kind(document) = "map" /\ "dataset" \in DOMAIN document.map
        /\ Kind(document.map.dataset) = "map" /\ document.map.dataset.map = d
    BY <1>8, <1>9, <1>12, <1>15
  <2>2. Fields(document) = Over(OfDataset(Given(document.map.dataset.map)), OfRun(Given(document.map)))
    BY <2>1 DEF Fields
  <2> HIDE DEF Given
  <2> QED
    BY <1>7, <1>8, <1>17, <1>18, <2>1, <2>2
<1>22. /\ DOMAIN OfDataset(g) = Told(c) \cap DatasetSettings
       /\ \A name \in DOMAIN OfDataset(g) : OfDataset(g)[name] = EncodedSetting(name, c[name])
  BY <1>19 DEF OfDataset
<1>23. /\ DOMAIN OfRun(h) = (Told(c) \ DatasetSettings) \cup {"policy"}
       /\ OfRun(h)["policy"] = Encoded(c.policy)
       /\ \A name \in DOMAIN OfRun(h) \ {"policy"} : OfRun(h)[name] = EncodedSetting(name, c[name])
  BY <1>20, RunSettings DEF OfRun
<1>24. PICK a, b : a = OfDataset(g) /\ b = OfRun(h)
  OBVIOUS
<1>25. "policy" \notin DatasetSettings /\ "policy" \notin Told(c)
  BY RunSettings DEF Told
<1> QED
  BY <1>21, <1>22, <1>23, <1>24, <1>25 DEF Over

(* The document of a run says all of it but that it resumes.  (to_json     *)
(* against from_config_document.)                                          *)
AsWritten(c) == [c EXCEPT !.resume = FALSE, !.checkpoint = Absent]

(* The train_config.json of a valid run is accepted, and read in one way:  *)
(* as the run itself, except that it resumes nothing. (to_json against     *)
(* from_config_document.)                                                  *)
THEOREM ConfigRoundTrip ==
  ASSUME NEW c, TypedConfig(c), PolicyValid(c.policy)
  PROVE  FromFile(ToJson(c)) = {AsWritten(c)}
<1>1. PICK document : document = ToJson(c)
  OBVIOUS
<1>2. PICK fields : fields = Fields(document)
  OBVIOUS
<1>3. /\ DOMAIN fields = Told(c) \cup {"policy"}
      /\ fields["policy"] = Encoded(c.policy)
      /\ \A name \in Told(c) : fields[name] = EncodedSetting(name, c[name])
  BY <1>1, <1>2, JsonFields DEF TypedConfig
<1>4. Required \subseteq DOMAIN fields
  BY <1>3, RunSettings DEF Told
<1>5. "policy" \notin Told(c) /\ Told(c) \subseteq DOMAIN RunTypes
  BY RunSettings DEF Told
<1>6. PICK given : given = [name \in Told(c) |-> c[name]]
  OBVIOUS
<1>7. AllDecoded([name \in DOMAIN fields \ {"policy"} |-> ReadField(RunTypes[name], fields[name])])
        = {given}
  <2>1. PICK found : found = [name \in DOMAIN fields \ {"policy"} |->
                                ReadField(RunTypes[name], fields[name])]
    OBVIOUS
  <2>2. ASSUME NEW name \in Told(c) PROVE found[name] = {given[name]}
    <3>1. PICK value, raw : value = c[name] /\ raw = EncodedSetting(name, value)
      OBVIOUS
    <3>2. RunSettled(name, value) /\ ~(name \in Optional /\ value = Absent) /\ name \in DOMAIN RunTypes
      BY <3>1 DEF TypedConfig, Told
    <3>3. ReadField(RunTypes[name], raw) = {value}
      BY <3>1, <3>2, SettingDecodes
    <3> QED
      BY <1>3, <1>5, <1>6, <2>1, <3>1, <3>3
  <2>3. DOMAIN found = DOMAIN given /\ IsFun(given) /\ DOMAIN given = Told(c)
    BY <1>3, <1>5, <1>6, <2>1 DEF IsFun
  <2>4. AllDecoded(found) = {given}
    BY <2>2, <2>3, AllDecodedAs
  <2> QED
    BY <2>1, <2>4
<1>8. Decoded(fields.policy) = {c.policy}
  BY <1>3, PolicyRoundTrip DEF TypedConfig
<1> DEFINE Rest(p) == Over([policy |-> p], [NewConfig EXCEPT !.seed = Absent])
<1>9. Over(given, Rest(c.policy)) = AsWritten(c)
  <2>1. PICK new : new = [NewConfig EXCEPT !.seed = Absent]
    OBVIOUS
  <2>2. PICK head, rest : head = [policy |-> c.policy] /\ rest = Over(head, new)
    OBVIOUS
  <2>3. /\ DOMAIN new = DOMAIN NewConfig
        /\ new["seed"] = Absent /\ new["episodes"] = Absent
        /\ new["resume"] = FALSE /\ new["checkpoint"] = Absent
    BY <2>1 DEF NewConfig
  <2>4. DOMAIN head = {"policy"} /\ head["policy"] = c.policy
    BY <2>2
  <2>5. "policy" \notin DOMAIN NewConfig /\ {"seed", "episodes", "resume", "checkpoint"} \subseteq DOMAIN NewConfig
    BY DEF NewConfig
  <2>6. /\ DOMAIN rest = DOMAIN NewConfig \cup {"policy"} /\ rest["policy"] = c.policy
        /\ rest["seed"] = Absent /\ rest["episodes"] = Absent
        /\ rest["resume"] = FALSE /\ rest["checkpoint"] = Absent
    BY <2>2, <2>3, <2>4, <2>5 DEF Over
  <2>7. DOMAIN NewConfig \cup Told(c) = DOMAIN RunTypes \cup {"resume", "checkpoint"}
    <3>1. DOMAIN NewConfig = (DOMAIN RunTypes \ {"root", "output_dir"}) \cup {"resume", "checkpoint"}
      BY DEF NewConfig, RunTypes
    <3>2. {"root", "output_dir"} \subseteq Told(c)
      BY DEF Told, RunTypes, Optional
    <3> QED
      BY <1>5, <3>1, <3>2
  <2>8. PICK all : all = Over(given, rest)
    OBVIOUS
  <2>9. /\ IsFun(all) /\ DOMAIN all = Told(c) \cup DOMAIN rest
        /\ \A name \in Told(c) : all[name] = c[name]
        /\ \A name \in DOMAIN rest \ Told(c) : all[name] = rest[name]
    BY <1>6, <2>8 DEF Over, IsFun
  <2>10. PICK w : w = AsWritten(c)
    OBVIOUS
  <2>11. /\ IsFun(w) /\ DOMAIN w = DOMAIN RunTypes \cup {"policy", "resume", "checkpoint"}
         /\ w["resume"] = FALSE /\ w["checkpoint"] = Absent /\ w["policy"] = c.policy
         /\ \A name \in DOMAIN RunTypes : w[name] = c[name]
    BY <2>10, RunSettings DEF AsWritten, TypedConfig, IsFun
  <2>12. DOMAIN all = DOMAIN w
    BY <2>6, <2>7, <2>9, <2>11
  <2>13. ASSUME NEW name \in DOMAIN w PROVE all[name] = w[name]
    <3>1. CASE name \in Told(c)
      BY <1>5, <2>9, <2>11, <3>1
    <3>2. CASE name \in DOMAIN RunTypes \ Told(c)
      <4>1. name \in Optional /\ c[name] = Absent
        BY <3>2 DEF Told
      <4>2. rest[name] = Absent
        BY <2>6, <4>1 DEF Optional
      <4> QED
        BY <2>9, <2>11, <2>12, <3>2, <4>1, <4>2
    <3>3. CASE name \in {"policy", "resume", "checkpoint"}
      <4>1. name \notin Told(c)
        BY <1>5, <3>3, RunSettings
      <4> QED
        BY <2>5, <2>6, <2>9, <2>11, <3>3, <4>1
    <3> QED
      BY <2>11, <3>1, <3>2, <3>3
  <2>14. all = w
    BY <2>9, <2>11, <2>12, <2>13 DEF IsFun
  <2> QED
    BY <2>1, <2>2, <2>8, <2>10, <2>14
<1>10. FromFile(document) = FromFields(fields)
  BY <1>2, <1>4 DEF FromFile
<1> DEFINE All(g, p) == Over(g, Rest(p))
           Settings == AllDecoded([name \in DOMAIN fields \ {"policy"} |->
                                     ReadField(RunTypes[name], fields[name])])
<1>11. FromFields(fields) = {All(g, p) : g \in Settings, p \in Decoded(fields.policy)}
  BY DEF FromFields
<1>12. Settings = {given} /\ All(given, c.policy) = AsWritten(c)
  BY <1>7, <1>9
<1> HIDE DEF All, Settings
<1>13. \A x : x \in FromFields(fields) <=> x = All(given, c.policy)
  BY <1>8, <1>11, <1>12
<1>14. FromFields(fields) = {AsWritten(c)}
  BY <1>12, <1>13
<1> QED
  BY <1>1, <1>10, <1>14

-----------------------------------------------------------------------------
(* What a command asks for is typed                                        *)

LEMMA ReadTyped ==
  ASSUME NEW type \in RunKinds, NEW raw, NEW value, value \in ReadFlag(type, raw)
  PROVE  RunTypedAs(type, value)
<1>1. CASE type = "map"
  <2>1. value \in StringMap(raw)
    BY <1>1 DEF ReadFlag
  <2>2. IsFun(value)
    BY <2>1 DEF StringMap, IsFun
  <2> QED
    BY <1>1, <2>2 DEF RunTypedAs
<1>2. CASE type = "integers"
  <2>1. value \in IntegersOf(raw)
    BY <1>2 DEF ReadFlag
  <2>2. PICK l : /\ value = [i \in DOMAIN l |-> l[i].int]
                 /\ \A i \in DOMAIN l : Of({"int"}, l[i]) \cap (-MaxNatural..MaxNatural) # {}
    BY <2>1 DEF IntegersOf
  <2>3. ASSUME NEW i \in DOMAIN l PROVE value[i] \in -MaxNatural..MaxNatural
    <3>1. PICK number : number = l[i]
      OBVIOUS
    <3>2. PICK n \in -MaxNatural..MaxNatural : n \in Of({"int"}, number)
      BY <2>2, <3>1
    <3>3. n = number["int"]
      BY <3>2, OfIs
    <3>4. number.int = number["int"]
      OBVIOUS
    <3> QED
      BY <2>2, <3>1, <3>2, <3>3, <3>4
  <2>4. IsFun(value) /\ DOMAIN value = DOMAIN l
    BY <2>2 DEF IsFun
  <2> QED
    BY <1>2, <2>3, <2>4 DEF RunTypedAs
<1>3. CASE type = "natural"
  <2>1. value \in 0..MaxNatural
    BY <1>3 DEF ReadFlag, NaturalOf
  <2> QED
    BY <1>3, <2>1 DEF RunTypedAs
<1>4. CASE type \notin {"map", "integers", "natural"}
  BY <1>4 DEF RunTypedAs
<1> QED
  BY <1>1, <1>2, <1>3, <1>4

LEMMA ReadFieldTyped ==
  ASSUME NEW type \in RunKinds, NEW raw, NEW value, value \in ReadField(type, raw)
  PROVE  RunTypedAs(type, value)
<1>1. CASE type \in {"float", "text"}
  BY <1>1 DEF RunTypedAs
<1>2. CASE type \notin {"float", "text"}
  <2>1. value \in ReadFlag(type, raw)
    BY <1>2 DEF ReadField
  <2> QED
    BY <2>1, ReadTyped
<1> QED
  BY <1>1, <1>2

LEMMA NewConfigTyped ==
  /\ DOMAIN NewConfig = (DOMAIN RunTypes \ {"root", "output_dir"}) \cup {"resume", "checkpoint"}
  /\ \A name \in DOMAIN RunTypes \ {"root", "output_dir"} : RunSettled(name, NewConfig[name])
  /\ RunSettled("root", Absent) /\ RunSettled("output_dir", Absent) /\ RunSettled("seed", Absent)
  /\ NewConfig.resume = FALSE
<1>1. DOMAIN NewConfig = (DOMAIN RunTypes \ {"root", "output_dir"}) \cup {"resume", "checkpoint"}
  BY DEF NewConfig, RunTypes
<1>2. RunSettled("root", Absent) /\ RunSettled("output_dir", Absent) /\ RunSettled("seed", Absent)
  BY DEF RunSettled, RunTypedAs, RunTypes, Optional
<1>3. ASSUME NEW name \in DOMAIN RunTypes \ {"root", "output_dir"}
      PROVE  RunSettled(name, NewConfig[name])
  <2>1. CASE name = "episodes"
    BY <2>1 DEF NewConfig, RunSettled, Optional
  <2>2. CASE name = "rename_map"
    <3>1. NewConfig[name] = Nothing /\ RunTypes[name] = "map"
      BY <2>2 DEF NewConfig, RunTypes
    <3> QED
      BY <3>1 DEF RunSettled, RunTypedAs, IsFun, Nothing
  <2>3. CASE name \in {"seed", "batch_size", "steps", "num_workers"}
    <3>1. NewConfig[name] \in {0, 8, 1000, 100000} /\ RunTypes[name] = "natural"
      BY <2>3 DEF NewConfig, RunTypes
    <3>2. MaxNatural \in Nat /\ MaxNatural >= 100000
      BY RunAssumption
    <3>3. NewConfig[name] \in 0..MaxNatural
      BY <3>1, <3>2
    <3> QED
      BY <3>1, <3>3 DEF RunSettled, RunTypedAs
  <2>4. CASE name \notin {"episodes", "rename_map", "seed", "batch_size", "steps", "num_workers"}
    <3>1. RunTypes[name] \notin {"map", "integers", "natural"}
      BY <2>4 DEF RunTypes
    <3> QED
      BY <3>1 DEF RunSettled, RunTypedAs
  <2> QED
    BY <2>1, <2>2, <2>3, <2>4
<1>4. NewConfig.resume = FALSE
  BY DEF NewConfig
<1> QED
  BY <1>1, <1>2, <1>3, <1>4

LEMMA FileTyped ==
  ASSUME NEW document, NEW c, c \in FromFile(document),
         "policy" \in DOMAIN Fields(document) => HoldsArrays(Fields(document).policy)
  PROVE  TypedConfig(c) /\ c.resume = FALSE
<1>1. PICK fields : fields = Fields(document)
  OBVIOUS
<1>2. Required \subseteq DOMAIN fields /\ c \in FromFields(fields)
  BY <1>1 DEF FromFile
<1>3. PICK found : found = [name \in DOMAIN fields \ {"policy"} |->
                              ReadField(RunTypes[name], fields[name])]
  OBVIOUS
<1>4. PICK given \in AllDecoded(found), policy \in Decoded(fields.policy) :
             c = Over(given, Over([policy |-> policy], [NewConfig EXCEPT !.seed = Absent]))
  <2> DEFINE fresh == [NewConfig EXCEPT !.seed = Absent]
             Made(g, p) == Over(g, Over([policy |-> p], fresh))
  <2> HIDE DEF fresh
  <2>1. FromFields(fields) = {Made(g, p) : g \in AllDecoded(found), p \in Decoded(fields.policy)}
    BY <1>3 DEF FromFields, fresh
  <2> HIDE DEF Made
  <2>2. \E g \in AllDecoded(found), p \in Decoded(fields.policy) : c = Made(g, p)
    BY <1>2, <2>1
  <2> QED
    BY <2>2 DEF Made, fresh
<1>5. DOMAIN given = DOMAIN found /\ \A x \in DOMAIN found : given[x] \in found[x]
  BY AllDecodedIs
<1>6. DOMAIN fields \subseteq DOMAIN RunTypes \cup {"policy"}
  <2> DEFINE Set(x) == {name \in DOMAIN x : name \notin Optional \/ Kind(x[name]) # "null"}
             Given(x) == [name \in Set(x) \cap (DOMAIN RunTypes \cup {"policy"}) |-> x[name]]
  <2>1. \A x : DOMAIN Given(x) \subseteq DOMAIN RunTypes \cup {"policy"}
    OBVIOUS
  <2>2. \A f : DOMAIN OfDataset(f) \subseteq DOMAIN f /\ DOMAIN OfRun(f) \subseteq DOMAIN f
    BY DEF OfDataset, OfRun
  <2>3. \/ fields = Over(OfDataset(Given(document.map.dataset.map)), OfRun(Given(document.map)))
        \/ fields = Nothing
    BY <1>1 DEF Fields
  <2> HIDE DEF Given
  <2>4. CASE fields = Over(OfDataset(Given(document.map.dataset.map)), OfRun(Given(document.map)))
    <3>1. PICK f, g : f = OfDataset(Given(document.map.dataset.map)) /\ g = OfRun(Given(document.map))
      OBVIOUS
    <3>2. DOMAIN fields = DOMAIN f \cup DOMAIN g
      BY <2>4, <3>1 DEF Over
    <3> QED
      BY <2>1, <2>2, <3>1, <3>2
  <2>5. CASE fields = Nothing
    BY <2>5 DEF Nothing
  <2> QED
    BY <2>3, <2>4, <2>5
<1>7. WellFormed(policy)
  <2>1. PICK raw : raw = fields.policy
    OBVIOUS
  <2>2. HoldsArrays(raw)
    BY <1>1, <1>2, <2>1 DEF Required
  <2> QED
    BY <2>1, <2>2, DecodedFits
<1>8. \A name \in DOMAIN given : name \in DOMAIN RunTypes /\ RunSettled(name, given[name])
  <2>1. ASSUME NEW name \in DOMAIN given
        PROVE  name \in DOMAIN RunTypes /\ RunSettled(name, given[name])
    <3>1. name \in DOMAIN RunTypes
      BY <1>3, <1>5, <1>6
    <3>2. PICK type, raw, value : type = RunTypes[name] /\ raw = fields[name] /\ value = given[name]
      OBVIOUS
    <3>3. type \in RunKinds /\ value \in ReadField(type, raw)
      BY <1>3, <1>5, <3>1, <3>2, RunSettings
    <3>4. RunTypedAs(type, value)
      BY <3>3, ReadFieldTyped
    <3> QED
      BY <3>1, <3>2, <3>4 DEF RunSettled
  <2> QED
    BY <2>1
<1>9. {"root", "output_dir"} \subseteq DOMAIN given
  BY <1>2, <1>3, <1>5 DEF Required
<1>10. PICK new, head, rest : /\ new = [NewConfig EXCEPT !.seed = Absent]
                              /\ head = [policy |-> policy]
                              /\ rest = Over(head, new)
  OBVIOUS
<1>11. /\ DOMAIN new = (DOMAIN RunTypes \ {"root", "output_dir"}) \cup {"resume", "checkpoint"}
       /\ \A name \in DOMAIN RunTypes \ {"root", "output_dir"} : RunSettled(name, new[name])
       /\ new["resume"] = FALSE
  BY <1>10, NewConfigTyped, RunSettings
<1>12. /\ DOMAIN rest = DOMAIN new \cup {"policy"} /\ rest["policy"] = policy
       /\ \A name \in DOMAIN new : rest[name] = new[name]
  <2>1. DOMAIN head = {"policy"} /\ head["policy"] = policy /\ "policy" \notin DOMAIN new
    BY <1>10, <1>11, RunSettings
  <2> QED
    BY <1>10, <2>1 DEF Over
<1>13. /\ IsFun(c) /\ DOMAIN c = DOMAIN given \cup DOMAIN rest
       /\ \A name \in DOMAIN given : c[name] = given[name]
       /\ \A name \in DOMAIN rest \ DOMAIN given : c[name] = rest[name]
  BY <1>4, <1>10 DEF Over, IsFun
<1>14. DOMAIN c = DOMAIN RunTypes \cup {"policy", "resume", "checkpoint"}
  BY <1>8, <1>9, <1>11, <1>12, <1>13
<1>15. c["policy"] = policy /\ c["resume"] = FALSE
  BY <1>8, <1>11, <1>12, <1>13, RunSettings
<1>16. \A name \in DOMAIN RunTypes : RunSettled(name, c[name])
  BY <1>8, <1>9, <1>11, <1>12, <1>13
<1> QED
  BY <1>7, <1>13, <1>14, <1>15, <1>16 DEF TypedConfig

(* What flags cannot change.                                               *)
LEMMA ConfigOverridden ==
  ASSUME NEW c, TypedConfig(c), NEW command \in Commands,
         FlagsFit(command.flags, RunTypes), FlagsFit(command.policyFlags, PolicyFlags),
         NEW new, new = Overridden(c, command)
  PROVE  /\ TypedConfig(new)
         /\ new.resume = c.resume /\ new.checkpoint = c.checkpoint
         /\ new.policy.pretrained_path = c.policy.pretrained_path
<1>1. PICK given : given = Values(command.flags, RunTypes)
  OBVIOUS
<1>2. PICK all : all = Over(given, c)
  OBVIOUS
<1>3. DOMAIN given = DOMAIN command.flags /\ DOMAIN given \subseteq DOMAIN RunTypes
  BY <1>1 DEF Values, FlagsFit
<1>4. ASSUME NEW name \in DOMAIN given PROVE RunSettled(name, given[name])
  <2>1. PICK type, raw, value :
          type = RunTypes[name] /\ raw = command.flags[name] /\ value = given[name]
    OBVIOUS
  <2>2. name \in DOMAIN RunTypes /\ FlagValues(name, type, raw) # {}
    BY <1>3, <2>1 DEF FlagsFit
  <2>3. value = Only(FlagValues(name, type, raw))
    BY <1>1, <1>3, <2>1 DEF Values
  <2>4. value \in FlagValues(name, type, raw)
    BY <2>2, <2>3, OnlyIn
  <2>5. name # "replace_final_stride_with_dilation" /\ name \notin Nullable
    BY <2>2 DEF RunTypes, Nullable
  <2>6. CASE name = "seed" /\ Kind(raw) = "null"
    <3>1. value = Absent
      BY <2>4, <2>5, <2>6 DEF FlagValues
    <3> QED
      BY <2>1, <2>6, <3>1 DEF RunSettled, Optional
  <2>7. CASE ~(name = "seed" /\ Kind(raw) = "null")
    <3>1. value \in ReadFlag(type, raw)
      BY <2>4, <2>5, <2>7 DEF FlagValues
    <3>2. RunTypedAs(type, value)
      BY <2>1, <2>2, <3>1, ReadTyped, RunSettings
    <3> QED
      BY <2>1, <3>2 DEF RunSettled
  <2> QED
    BY <2>6, <2>7
<1>5. /\ IsFun(all) /\ DOMAIN all = DOMAIN c
      /\ \A name \in DOMAIN given : all[name] = given[name]
      /\ \A name \in DOMAIN c \ DOMAIN given : all[name] = c[name]
  BY <1>2, <1>3 DEF Over, IsFun, TypedConfig
<1>6. PICK policy : policy = PolicyOverridden(c.policy, Values(command.policyFlags, PolicyFlags))
  OBVIOUS
<1>7. all.policy = c.policy /\ "policy" \in DOMAIN all
  BY <1>3, <1>5, RunSettings DEF TypedConfig
<1>8. new = [all EXCEPT !["policy"] = policy]
  BY <1>1, <1>2, <1>6, <1>7 DEF Overridden
<1>9. /\ IsFun(new) /\ DOMAIN new = DOMAIN c /\ new["policy"] = policy
      /\ \A name \in DOMAIN c \ {"policy"} : new[name] = all[name]
  BY <1>5, <1>7, <1>8 DEF IsFun
<1>10. WellFormed(policy)
  <2>1. HoldsArrays([map |-> command.policyFlags])
    BY RunAssumption
  <2> QED
    BY <1>6, <2>1, OverriddenTyped DEF TypedConfig
<1>11. policy.pretrained_path = c.policy.pretrained_path
  <2>1. PICK flags : flags = Values(command.policyFlags, PolicyFlags)
    OBVIOUS
  <2>2. DOMAIN flags \subseteq DOMAIN PolicyFlags
    BY <2>1 DEF Values, FlagsFit
  <2>3. "pretrained_path" \notin DOMAIN PolicyFlags /\ "pretrained_path" \in DOMAIN PolicyTypes
    BY DEF PolicyFlags, PolicyTypes
  <2>4. "pretrained_path" \in DOMAIN c.policy
    BY <2>3 DEF TypedConfig, WellFormed
  <2> QED
    BY <1>6, <2>1, <2>2, <2>3, <2>4 DEF PolicyOverridden
<1>12. ASSUME NEW name \in DOMAIN RunTypes PROVE RunSettled(name, new[name])
  <2>1. name # "policy" /\ name \in DOMAIN c
    BY RunSettings DEF TypedConfig
  <2> QED
    BY <1>4, <1>5, <1>9, <2>1 DEF TypedConfig
<1>13. new["resume"] = c["resume"] /\ new["checkpoint"] = c["checkpoint"]
  BY <1>3, <1>5, <1>9, RunSettings DEF TypedConfig
<1> QED
  BY <1>9, <1>10, <1>11, <1>12, <1>13 DEF TypedConfig

LEMMA FlagStart ==
  ASSUME NEW policy, WellFormed(policy),
         NEW c, c = Over([policy |-> policy, root |-> Absent, output_dir |-> Absent], NewConfig)
  PROVE  TypedConfig(c) /\ c.resume = FALSE
<1>1. PICK head : head = [policy |-> policy, root |-> Absent, output_dir |-> Absent]
  OBVIOUS
<1>2. /\ DOMAIN head = {"policy", "root", "output_dir"}
      /\ head["policy"] = policy /\ head["root"] = Absent /\ head["output_dir"] = Absent
  BY <1>1
<1>3. /\ IsFun(c) /\ DOMAIN c = DOMAIN head \cup DOMAIN NewConfig
      /\ \A name \in DOMAIN head : c[name] = head[name]
      /\ \A name \in DOMAIN NewConfig \ DOMAIN head : c[name] = NewConfig[name]
  BY <1>1 DEF Over, IsFun
<1>4. {"root", "output_dir"} \subseteq DOMAIN RunTypes
  BY DEF RunTypes
<1>5. DOMAIN c = DOMAIN RunTypes \cup {"policy", "resume", "checkpoint"}
  BY <1>2, <1>3, <1>4, NewConfigTyped
<1>6. \A name \in DOMAIN RunTypes : RunSettled(name, c[name])
  BY <1>2, <1>3, <1>4, NewConfigTyped, RunSettings
<1>7. c["resume"] = FALSE
  BY <1>2, <1>3, NewConfigTyped
<1>8. c["policy"] = policy
  BY <1>2, <1>3
<1> QED
  BY <1>3, <1>5, <1>6, <1>7, <1>8 DEF TypedConfig

LEMMA CommandLineTyped == WellFormed(CommandLinePolicy)
<1>1. PICK p : p = CommandLinePolicy
  OBVIOUS
<1>2. DOMAIN DefaultPolicy = DOMAIN PolicyTypes /\ \A name \in DOMAIN PolicyTypes : Settled(name, DefaultPolicy[name])
  BY DefaultTyped DEF WellFormed
<1>3. /\ IsFun(p) /\ DOMAIN p = DOMAIN PolicyTypes
      /\ \A name \in DOMAIN PolicyTypes \ {"device", "push_to_hub"} : p[name] = DefaultPolicy[name]
  BY <1>1, <1>2 DEF CommandLinePolicy, IsFun
<1>4. \A name \in {"device", "push_to_hub"} : \A value : Settled(name, value)
  BY DEF Settled, TypedAs, PolicyTypes
<1>5. \A name \in DOMAIN PolicyTypes : Settled(name, p[name])
  BY <1>2, <1>3, <1>4
<1> QED
  BY <1>1, <1>3, <1>5 DEF WellFormed

LEMMA WithPathTyped ==
  ASSUME NEW policy, WellFormed(policy), NEW path
  PROVE  WellFormed(WithPath(policy, path)) /\ WithPath(policy, path).pretrained_path = path
<1>1. PICK p : p = WithPath(policy, path)
  OBVIOUS
<1>2. "pretrained_path" \in DOMAIN PolicyTypes
  BY DEF PolicyTypes
<1>3. /\ IsFun(p) /\ DOMAIN p = DOMAIN PolicyTypes /\ p["pretrained_path"] = path
      /\ \A name \in DOMAIN PolicyTypes \ {"pretrained_path"} : p[name] = policy[name]
  BY <1>1, <1>2 DEF WithPath, IsFun, WellFormed
<1>4. Settled("pretrained_path", path)
  BY DEF Settled, TypedAs, PolicyTypes
<1>5. \A name \in DOMAIN PolicyTypes : Settled(name, p[name])
  BY <1>3, <1>4 DEF WellFormed
<1> QED
  BY <1>1, <1>3, <1>5 DEF WellFormed

-----------------------------------------------------------------------------
(* What a checkpoint says                                                  *)

LEMMA SavedSays ==
  ASSUME NEW checkpoint, SavedFits(checkpoint),
         NEW c, c = checkpoint.by.config, NEW s, s = checkpoint.by.session
  PROVE  /\ FromFile(checkpoint.config) = {AsWritten(c)}
         /\ Decoded(checkpoint.policy) = {s.policy}
         /\ SavedMap(checkpoint.preprocessor) = s.rename
         /\ checkpoint.stats = SavedStats(s)
         /\ checkpoint.weights = s.weights /\ checkpoint.optimizer = s.optimizer
         /\ checkpoint.rng = s.rng /\ checkpoint.step = s.step
         /\ TypedConfig(c) /\ Valid(c) /\ SessionFits(c, s)
         /\ KindsFit(s, Datasets[c.root])
         /\ s.weights.trained = Normalizations(s, Datasets[c.root])
<1>1. /\ checkpoint = Checkpoint(c, s)
      /\ TypedConfig(c) /\ Valid(c) /\ SessionFits(c, s)
      /\ KindsFit(s, Datasets[c.root])
      /\ s.weights.trained = Normalizations(s, Datasets[c.root])
  BY DEF SavedFits
<1>2. /\ checkpoint.policy = Encoded(s.policy) /\ checkpoint.config = ToJson(c)
      /\ checkpoint.preprocessor = Preprocessor(s.policy, s.rename)
      /\ checkpoint.stats = SavedStats(s)
      /\ checkpoint.weights = s.weights /\ checkpoint.optimizer = s.optimizer
      /\ checkpoint.rng = s.rng /\ checkpoint.step = s.step
  BY <1>1 DEF Checkpoint
<1>3. FromFile(checkpoint.config) = {AsWritten(c)}
  BY <1>1, <1>2, ConfigRoundTrip DEF Valid
<1>4. Decoded(checkpoint.policy) = {s.policy}
  <2>1. PICK policy : policy = s.policy
    OBVIOUS
  <2>2. Decoded(Encoded(policy)) = {policy}
    BY <1>1, <2>1, PolicyRoundTrip DEF SessionFits
  <2> QED
    BY <1>2, <2>1, <2>2
<1>5. SavedMap(checkpoint.preprocessor) = s.rename
  <2>1. PICK document : document = Preprocessor(s.policy, s.rename)
    OBVIOUS
  <2>2. PICK settings, first : /\ settings = [rename_map |-> s.rename]
                               /\ first = Step(PreprocessorSteps[1], settings, Absent)
    OBVIOUS
  <2>3. first.config = settings /\ settings.rename_map = s.rename
    BY <2>2 DEF Step
  <2>4. document.steps[1] = first
    BY <2>1, <2>2 DEF Preprocessor
  <2> QED
    BY <1>2, <2>1, <2>3, <2>4 DEF SavedMap
<1> QED
  BY <1>1, <1>2, <1>3, <1>4, <1>5

LEMMA AsWrittenTyped ==
  ASSUME NEW c, TypedConfig(c), NEW w, w = AsWritten(c)
  PROVE  /\ TypedConfig(w) /\ w.resume = FALSE /\ w.policy = c.policy
         /\ \A name \in DOMAIN RunTypes : w[name] = c[name]
<1>1. /\ IsFun(w) /\ DOMAIN w = DOMAIN c /\ w["resume"] = FALSE /\ w["policy"] = c["policy"]
      /\ \A name \in DOMAIN RunTypes : w[name] = c[name]
  BY RunSettings DEF AsWritten, TypedConfig, IsFun
<1> QED
  BY <1>1 DEF TypedConfig

LEMMA ResumedPolicyIs ==
  ASSUME NEW own, WellFormed(own), NEW resolved, WellFormed(resolved), NEW place,
         NEW p, p = ResumedPolicy(own, resolved, place)
  PROVE  /\ WellFormed(p) /\ p.pretrained_path = place
         /\ p.input_features \in {own.input_features, resolved.input_features}
         /\ Features(own.input_features) = Nothing => p.input_features = resolved.input_features
         /\ \A name \in DOMAIN PolicyTypes \ {"input_features", "output_features", "pretrained_path"} :
              p[name] = own[name]
<1>1. {"input_features", "output_features", "pretrained_path"} \subseteq DOMAIN PolicyTypes
  BY DEF PolicyTypes
<1>2. /\ IsFun(p) /\ DOMAIN p = DOMAIN PolicyTypes
      /\ p["pretrained_path"] = place
      /\ p["input_features"] \in {own["input_features"], resolved["input_features"]}
      /\ p["output_features"] \in {own["output_features"], resolved["output_features"]}
      /\ \A name \in DOMAIN PolicyTypes \ {"input_features", "output_features", "pretrained_path"} :
           p[name] = own[name]
  BY <1>1 DEF ResumedPolicy, IsFun, WellFormed
<1>3. Features(own.input_features) = Nothing => p["input_features"] = resolved["input_features"]
  BY <1>1 DEF ResumedPolicy, WellFormed
<1>4. Settled("pretrained_path", place)
  BY DEF Settled, TypedAs, PolicyTypes
<1>5. \A name \in DOMAIN PolicyTypes : Settled(name, p[name])
  BY <1>2, <1>4 DEF WellFormed
<1> QED
  BY <1>2, <1>3, <1>5 DEF WellFormed

Resumes(c, by, place) ==
  /\ TypedConfig(c)
  /\ c.resume = TRUE /\ c.checkpoint = place /\ c.policy.pretrained_path = place
  /\ c.policy = ResumedPolicy(by.config.policy, by.session.policy, place)
  /\ \A name \in DOMAIN RunTypes : c[name] = by.config[name]

LEMMA ResumedIs ==
  ASSUME NEW checkpoints, NEW place, SavedFits(checkpoints[place]),
         NEW c, c \in FromCheckpoint(checkpoints, place),
         NEW by, by = checkpoints[place].by
  PROVE  Resumes(c, by, place)
<1>1. /\ FromFile(checkpoints[place].config) = {AsWritten(by.config)}
      /\ Decoded(checkpoints[place].policy) = {by.session.policy}
      /\ TypedConfig(by.config) /\ SessionFits(by.config, by.session)
  <2>1. PICK checkpoint, own, s :
          checkpoint = checkpoints[place] /\ own = by.config /\ s = by.session
    OBVIOUS
  <2>2. /\ FromFile(checkpoint.config) = {AsWritten(own)}
        /\ Decoded(checkpoint.policy) = {s.policy}
        /\ TypedConfig(own) /\ SessionFits(own, s)
    BY <2>1, SavedSays
  <2> QED
    BY <2>1, <2>2
<1>2. PICK w, resolved : w = AsWritten(by.config) /\ resolved = by.session.policy
  OBVIOUS
<1>3. c = ResumedFrom(w, resolved, place)
  BY <1>1, <1>2 DEF FromCheckpoint
<1>4. /\ TypedConfig(w) /\ w.policy = by.config.policy
      /\ \A name \in DOMAIN RunTypes : w[name] = by.config[name]
  <2>1. PICK own : own = by.config
    OBVIOUS
  <2>2. TypedConfig(own) /\ w = AsWritten(own)
    BY <1>1, <1>2, <2>1
  <2>3. /\ TypedConfig(w) /\ w.policy = own.policy
        /\ \A name \in DOMAIN RunTypes : w[name] = own[name]
    BY <2>2, AsWrittenTyped
  <2> QED
    BY <2>1, <2>3
<1>5. PICK policy : policy = ResumedPolicy(w.policy, resolved, place)
  OBVIOUS
<1>6. c = [w EXCEPT !["policy"] = policy, !["resume"] = TRUE, !["checkpoint"] = place]
  BY <1>3, <1>5 DEF ResumedFrom
<1>7. WellFormed(policy) /\ policy.pretrained_path = place
  <2>1. PICK own : own = w.policy
    OBVIOUS
  <2>2. WellFormed(own) /\ WellFormed(resolved)
    BY <1>1, <1>2, <1>4, <2>1 DEF TypedConfig, SessionFits
  <2> QED
    BY <1>5, <2>1, <2>2, ResumedPolicyIs
<1>8. /\ IsFun(c) /\ DOMAIN c = DOMAIN w
      /\ c["policy"] = policy /\ c["resume"] = TRUE /\ c["checkpoint"] = place
      /\ \A name \in DOMAIN RunTypes : c[name] = w[name]
  BY <1>4, <1>6, RunSettings DEF TypedConfig, IsFun
<1>9. TypedConfig(c)
  BY <1>4, <1>7, <1>8 DEF TypedConfig
<1> QED
  BY <1>2, <1>4, <1>5, <1>7, <1>8, <1>9 DEF Resumes

-----------------------------------------------------------------------------
(* A run begins with a configuration that fits                             *)

LEMMA NoDocument == FromFile([null |-> 0]) = {}
<1>1. PICK raw : raw = [null |-> 0]
  OBVIOUS
<1>2. DOMAIN raw = {"null"}
  BY <1>1
<1>3. Kind(raw) = "null"
  BY <1>2, OfOne
<1>4. Fields(raw) = Nothing
  BY <1>3 DEF Fields
<1>5. "root" \notin DOMAIN Fields(raw)
  BY <1>4 DEF Nothing
<1> QED
  BY <1>1, <1>5 DEF FromFile, Required

LEMMA DocumentTyped ==
  ASSUME \A place \in DOMAIN saved : SavedFits(saved[place]),
         NEW path, NEW c \in FromFile(Document(path, saved))
  PROVE  TypedConfig(c) /\ c.resume = FALSE
<1>1. CASE path.form = "document" /\ path.place \in DOMAIN saved
  <2>1. PICK checkpoint, own, s : /\ checkpoint = saved[path.place]
                                  /\ own = checkpoint.by.config /\ s = checkpoint.by.session
    OBVIOUS
  <2>2. FromFile(checkpoint.config) = {AsWritten(own)} /\ TypedConfig(own)
    BY <1>1, <2>1, SavedSays
  <2>3. c = AsWritten(own)
    BY <1>1, <2>1, <2>2 DEF Document
  <2> QED
    BY <2>2, <2>3, AsWrittenTyped
<1>2. CASE path.form = "file" /\ path.place \in DOMAIN Files
  <2>1. PICK document : document = Files[path.place]
    OBVIOUS
  <2>2. c \in FromFile(document)
    BY <1>2, <2>1 DEF Document
  <2>3. "policy" \in DOMAIN Fields(document) => HoldsArrays(Fields(document).policy)
    BY <1>2, <2>1, RunAssumption
  <2> QED
    BY <2>2, <2>3, FileTyped
<1>3. CASE /\ ~(path.form = "document" /\ path.place \in DOMAIN saved)
           /\ ~(path.form = "file" /\ path.place \in DOMAIN Files)
  BY <1>3, NoDocument DEF Document
<1> QED
  BY <1>1, <1>2, <1>3

LEMMA PathPolicyTyped ==
  ASSUME \A place \in DOMAIN saved : SavedFits(saved[place]),
         NEW command, NEW policy \in PathPolicy(command, saved)
  PROVE  WellFormed(policy)
<1>1. CASE command.path = Absent
  BY <1>1, CommandLineTyped DEF PathPolicy
<1>2. CASE command.path # Absent
  <2>0. PICK path \in DOMAIN saved : policy \in {WithPath(p, path) : p \in Decoded(saved[path].policy)}
    BY <1>2 DEF PathPolicy
  <2>1. PICK own \in Decoded(saved[path].policy) : policy = WithPath(own, path)
    BY <2>0
  <2>2. PICK checkpoint, c, s : checkpoint = saved[path] /\ c = checkpoint.by.config
                                /\ s = checkpoint.by.session
    OBVIOUS
  <2>3. own = s.policy /\ SessionFits(c, s)
    <3>1. SavedFits(checkpoint) /\ own \in Decoded(checkpoint.policy)
      BY <2>1, <2>2
    <3>2. Decoded(checkpoint.policy) = {s.policy} /\ SessionFits(c, s)
      BY <2>2, <3>1, SavedSays
    <3> QED
      BY <3>1, <3>2
  <2>4. WellFormed(own)
    BY <2>3 DEF SessionFits
  <2> QED
    BY <2>1, <2>4, WithPathTyped
<1> QED
  BY <1>1, <1>2

LEMMA BegunFits ==
  ASSUME \A place \in DOMAIN saved : SavedFits(saved[place]),
         \A dir \in DOMAIN last : last[dir] \in DOMAIN saved,
         NEW command \in Commands, NEW c \in Begun(command)
  PROVE  ConfigFits(c, saved)
<1>1. c \in Parsed(command, saved, last) /\ Valid(c)
  BY DEF Begun
<1>2. FlagsFit(command.flags, RunTypes) /\ FlagsFit(command.policyFlags, PolicyFlags)
  BY <1>1 DEF Parsed
<1>3. CASE c \in ResumeOverridden(command, saved, last)
  <2>1. PICK own \in ResumeConfig(command, saved, last) : c = Overridden(own, command)
    BY <1>3 DEF ResumeOverridden
  <2>2. PICK place \in Resolve(command.config, saved, last) : own \in FromCheckpoint(saved, place)
    BY <2>1 DEF ResumeConfig
  <2>3. place \in DOMAIN saved
    BY <2>2 DEF Resolve
  <2>4. PICK by : by = saved[place].by
    OBVIOUS
  <2>5. /\ TypedConfig(own) /\ own.resume = TRUE /\ own.checkpoint = place
        /\ own.policy.pretrained_path = place
    <3>1. PICK checkpoints : checkpoints = saved
      OBVIOUS
    <3>2. SavedFits(checkpoints[place]) /\ own \in FromCheckpoint(checkpoints, place)
      BY <2>2, <2>3, <3>1
    <3>3. by = checkpoints[place].by
      BY <2>4, <3>1
    <3>4. Resumes(own, by, place)
      BY <3>2, <3>3, ResumedIs
    <3> QED
      BY <3>4 DEF Resumes
  <2>6. /\ TypedConfig(c) /\ c.checkpoint = place /\ c.policy.pretrained_path = place
    BY <1>2, <2>1, <2>5, ConfigOverridden
  <2> QED
    BY <1>1, <2>3, <2>6 DEF ConfigFits
<1>4. CASE c \in FileConfig(command, saved)
  <2>1. PICK own \in FromFile(Document(command.config, saved)) : c = Overridden(own, command)
    BY <1>4 DEF FileConfig
  <2>2. TypedConfig(own) /\ own.resume = FALSE
    <3>1. PICK path : path = command.config
      OBVIOUS
    <3> QED
      BY <2>1, <3>1, DocumentTyped
  <2>3. TypedConfig(c) /\ c.resume = FALSE
    BY <1>2, <2>1, <2>2, ConfigOverridden
  <2> QED
    BY <1>1, <2>3 DEF ConfigFits
<1>5. CASE c \in FlagConfig(command, saved)
  <2>1. PICK policy \in PathPolicy(command, saved) :
          c = Overridden(Over([policy |-> policy, root |-> Absent, output_dir |-> Absent], NewConfig),
                         command)
    BY <1>5 DEF FlagConfig
  <2>2. PICK own : own = Over([policy |-> policy, root |-> Absent, output_dir |-> Absent], NewConfig)
    OBVIOUS
  <2>3. TypedConfig(own) /\ own.resume = FALSE
    BY <2>1, <2>2, PathPolicyTyped, FlagStart
  <2>4. TypedConfig(c) /\ c.resume = FALSE
    BY <1>2, <2>1, <2>2, <2>3, ConfigOverridden
  <2> QED
    BY <1>1, <2>4 DEF ConfigFits
<1> QED
  BY <1>1, <1>3, <1>4, <1>5 DEF Parsed

-----------------------------------------------------------------------------
(* What feeds an input                                                     *)

(* The last of some features is one of them.                               *)
LEMMA LastOfIn ==
  ASSUME NEW data, DatasetFits(data), NEW names \in SUBSET DOMAIN data.features, names # {}
  PROVE  LastOf(data, names) \in names
<1>1. IsArray(data.order) /\ Range(data.order) = DOMAIN data.features
  BY DEF DatasetFits
<1>2. Len(data.order) \in Nat /\ DOMAIN data.order = 1..Len(data.order)
  BY <1>1 DEF IsArray
<1>3. PICK places : places = {i \in DOMAIN data.order : data.order[i] \in names}
  OBVIOUS
<1>4. places # {}
  <2>1. Range(data.order) = {data.order[i] : i \in DOMAIN data.order}
    BY DEF Range
  <2>2. PICK n \in names : n \in Range(data.order)
    BY <1>1
  <2>3. \E i \in DOMAIN data.order : data.order[i] = n
    BY <2>1, <2>2
  <2> QED
    BY <1>3, <2>3
<1>5. Max(places) \in places
  BY <1>2, <1>3, <1>4, MaxIn
<1> QED
  BY <1>3, <1>5 DEF LastOf

LEMMA FedFromIs ==
  ASSUME NEW data, DatasetFits(data), NEW map, NEW name,
         NEW from, from = FedFrom(data, map, name)
  PROVE  /\ (\A n \in DOMAIN data.features : RenamedKey(map, n) # name) => from = Absent
         /\ (\E n \in DOMAIN data.features : RenamedKey(map, n) = name) =>
              from \in DOMAIN data.features /\ RenamedKey(map, from) = name
<1>1. PICK all : all = {n \in DOMAIN data.features : RenamedKey(map, n) = name}
  OBVIOUS
<1>2. PICK cameras : cameras = {n \in all : data.features[n].type = "VISUAL"}
  OBVIOUS
<1>3. from = CASE all = {} -> Absent
               [] all # {} /\ cameras = {} -> LastOf(data, all)
               [] OTHER -> LastOf(data, cameras)
  BY <1>1, <1>2 DEF FedFrom
<1>4. CASE all = {}
  <2>1. from = Absent
    BY <1>3, <1>4
  <2> QED
    BY <1>1, <1>4, <2>1
<1>5. CASE all # {} /\ cameras = {}
  <2>1. from = LastOf(data, all)
    BY <1>3, <1>5
  <2>2. from \in all
    BY <1>1, <1>5, <2>1, LastOfIn
  <2> QED
    BY <1>1, <2>2
<1>6. CASE cameras # {}
  <2>1. from = LastOf(data, cameras)
    BY <1>2, <1>3, <1>6
  <2>2. from \in cameras
    BY <1>1, <1>2, <1>6, <2>1, LastOfIn
  <2> QED
    BY <1>1, <1>2, <2>2
<1> QED
  BY <1>4, <1>5, <1>6

(* Where nothing is renamed a feature feeds the input of its name.         *)
LEMMA FedByItself ==
  ASSUME NEW data, DatasetFits(data), NEW name,
         NEW from, from = FedFrom(data, Nothing, name), from # Absent
  PROVE  from = name /\ name \in DOMAIN data.features
<1>1. \A n : RenamedKey(Nothing, n) = n
  BY DEF RenamedKey, Nothing
<1>2. PICK map : map = Nothing
  OBVIOUS
<1>3. from = FedFrom(data, map, name)
  BY <1>2
<1>4. \E n \in DOMAIN data.features : RenamedKey(map, n) = name
  BY <1>3, FedFromIs
<1>5. from \in DOMAIN data.features /\ RenamedKey(map, from) = name
  BY <1>3, <1>4, FedFromIs
<1> QED
  BY <1>1, <1>2, <1>5

LEMMA InputsTyped ==
  ASSUME NEW c, TypedConfig(c), NEW data, DatasetFits(data), NEW map,
         NEW inputs, inputs = Inputs(c, data, map)
  PROVE  TypedAs("features", inputs)
<1>1. PICK declared : declared = Features(c.policy.input_features)
  OBVIOUS
<1>2. IsFun(declared) /\ \A x \in DOMAIN declared : IsFeature(declared[x])
  <2>1. "input_features" \in DOMAIN PolicyTypes /\ PolicyTypes["input_features"] = "features"
    BY DEF PolicyTypes
  <2>2. Settled("input_features", c.policy["input_features"])
    BY <2>1 DEF TypedConfig, WellFormed
  <2>3. CASE c.policy.input_features = Absent
    <3>1. declared = Nothing
      BY <1>1, <2>3 DEF Features
    <3> QED
      BY <3>1 DEF Nothing, IsFun
  <2>4. CASE c.policy.input_features # Absent
    <3>1. declared = c.policy["input_features"]
      BY <1>1, <2>4 DEF Features
    <3>2. TypedAs("features", declared)
      BY <2>1, <2>2, <2>4, <3>1 DEF Settled
    <3> QED
      BY <3>2 DEF TypedAs
  <2> QED
    BY <2>3, <2>4
<1>3. PICK own : own = DOMAIN data.features \ Actions(data)
  OBVIOUS
<1>4. PICK names : names = {RenamedKey(map, n) : n \in own}
  OBVIOUS
<1>5. PICK renamed : renamed =
        [name \in names |-> data.features[LastOf(data, {n \in own : RenamedKey(map, n) = name})]]
  OBVIOUS
<1>6. ASSUME NEW name \in names PROVE IsFeature(renamed[name])
  <2>1. PICK named : named = {n \in own : RenamedKey(map, n) = name}
    OBVIOUS
  <2>2. PICK from : from = LastOf(data, named)
    OBVIOUS
  <2>3. from \in DOMAIN data.features
    <3>1. named \in SUBSET DOMAIN data.features /\ named # {}
      BY <1>3, <1>4, <2>1
    <3> QED
      BY <2>2, <3>1, LastOfIn
  <2>4. PICK f : f = data.features[from]
    OBVIOUS
  <2>5. /\ f = [type |-> f.type, shape |-> f.shape] /\ f.type \in FeatureTypes
        /\ f.shape = [i \in DOMAIN f.shape |-> f.shape[i]]
    BY <2>3, <2>4 DEF DatasetFits
  <2>6. IsFeature(f)
    BY <2>5 DEF IsFeature, IsFun
  <2> QED
    BY <1>5, <2>1, <2>2, <2>4, <2>6
<1>7. PICK kept : kept = Restricted(declared, Visual(declared))
  OBVIOUS
<1>8. IsFun(kept) /\ \A x \in DOMAIN kept : IsFeature(kept[x])
  <2>1. /\ IsFun(kept) /\ DOMAIN kept \subseteq DOMAIN declared
        /\ \A x \in DOMAIN kept : kept[x] = declared[x]
    BY <1>7 DEF Restricted, IsFun
  <2> QED
    BY <1>2, <2>1
<1>9. inputs = IF c.policy.pretrained_path # Absent /\ declared # Nothing
               THEN declared ELSE Over(kept, renamed)
  BY <1>1, <1>3, <1>4, <1>5, <1>7 DEF Inputs
<1>10. CASE inputs = declared
  BY <1>2, <1>10 DEF TypedAs
<1>11. CASE inputs = Over(kept, renamed)
  <2>1. /\ IsFun(inputs) /\ DOMAIN inputs = DOMAIN kept \cup DOMAIN renamed
        /\ \A x \in DOMAIN kept : inputs[x] = kept[x]
        /\ \A x \in DOMAIN renamed \ DOMAIN kept : inputs[x] = renamed[x]
    BY <1>11 DEF Over, IsFun
  <2>2. DOMAIN renamed = names
    BY <1>5
  <2>3. \A x \in DOMAIN inputs : IsFeature(inputs[x])
    BY <1>6, <1>8, <2>1, <2>2
  <2> QED
    BY <2>1, <2>3 DEF TypedAs
<1> QED
  BY <1>9, <1>10, <1>11

(* The outputs are the dataset's actions.                                  *)
LEMMA OutputsTyped ==
  ASSUME NEW data, DatasetFits(data)
  PROVE  TypedAs("features", Outputs(data))
<1>1. PICK outputs : outputs = Outputs(data)
  OBVIOUS
<1>2. /\ IsFun(outputs) /\ DOMAIN outputs \subseteq DOMAIN data.features
      /\ \A name \in DOMAIN outputs : outputs[name] = data.features[name]
  BY <1>1 DEF Outputs, Restricted, IsFun
<1>3. ASSUME NEW name \in DOMAIN outputs PROVE IsFeature(outputs[name])
  <2>1. PICK f : f = data.features[name]
    OBVIOUS
  <2>2. /\ f = [type |-> f.type, shape |-> f.shape] /\ f.type \in FeatureTypes
        /\ f.shape = [i \in DOMAIN f.shape |-> f.shape[i]]
    BY <1>2, <2>1 DEF DatasetFits
  <2> QED
    BY <1>2, <2>1, <2>2 DEF IsFeature, IsFun
<1> QED
  BY <1>1, <1>2, <1>3 DEF TypedAs

LEMMA ResolvedIs ==
  ASSUME NEW c, TypedConfig(c), NEW data, DatasetFits(data), NEW map,
         NEW p, p = Resolved(c, data, map)
  PROVE  /\ WellFormed(p)
         /\ p.input_features = Inputs(c, data, map) /\ p.output_features = Outputs(data)
         /\ \A name \in DOMAIN PolicyTypes \ {"input_features", "output_features"} :
              p[name] = c.policy[name]
<1>1. PICK own, inputs, outputs : /\ own = c.policy
                                  /\ inputs = Inputs(c, data, map) /\ outputs = Outputs(data)
  OBVIOUS
<1>2. /\ {"input_features", "output_features"} \subseteq DOMAIN PolicyTypes
      /\ PolicyTypes["input_features"] = "features" /\ PolicyTypes["output_features"] = "features"
  BY DEF PolicyTypes
<1>3. WellFormed(own)
  BY <1>1 DEF TypedConfig
<1>4. p = [own EXCEPT !["input_features"] = inputs, !["output_features"] = outputs]
  BY <1>1 DEF Resolved
<1>5. /\ IsFun(p) /\ DOMAIN p = DOMAIN PolicyTypes
      /\ p["input_features"] = inputs /\ p["output_features"] = outputs
      /\ \A name \in DOMAIN PolicyTypes \ {"input_features", "output_features"} :
           p[name] = own[name]
  BY <1>2, <1>3, <1>4 DEF IsFun, WellFormed
<1>6. TypedAs("features", inputs) /\ TypedAs("features", outputs)
  BY <1>1, InputsTyped, OutputsTyped
<1>7. \A name \in DOMAIN PolicyTypes : Settled(name, p[name])
  BY <1>2, <1>3, <1>5, <1>6 DEF WellFormed, Settled
<1> QED
  BY <1>1, <1>5, <1>7 DEF WellFormed

(* What a session starts with.                                             *)
LEMMA SessionIs ==
  ASSUME NEW c, NEW policy, NEW map, NEW stats, NEW cameras, NEW weights,
         NEW s, s = Session(c, policy, map, stats, cameras, weights)
  PROVE  /\ IsFun(s) /\ DOMAIN s = SessionFields
         /\ s.policy = policy /\ s.rename = map /\ s.stats = stats /\ s.cameras = cameras
         /\ s.normalizer = Normalizer(policy, stats) /\ s.weights = weights
         /\ s.groups = <<policy.optimizer_lr, policy.optimizer_lr_backbone>>
         /\ s.optimizer = [built |-> policy, steps |-> 0] /\ s.step = 0
<1>1. PICK normalizer, optimizer, groups, rng :
        /\ normalizer = Normalizer(policy, stats)
        /\ optimizer = [built |-> policy, steps |-> 0]
        /\ groups = <<policy.optimizer_lr, policy.optimizer_lr_backbone>>
        /\ rng = [seed |-> IF c.seed = Absent THEN 0 ELSE c.seed, drawn |-> 0]
  OBVIOUS
<1>2. s = [policy |-> policy, rename |-> map, stats |-> stats, cameras |-> cameras,
           normalizer |-> normalizer, weights |-> weights, optimizer |-> optimizer,
           groups |-> groups, rng |-> rng, step |-> 0]
  BY <1>1 DEF Session
<1> QED
  BY <1>1, <1>2 DEF IsFun, SessionFields

(* ... and what else it has when it goes on.                               *)
LEMMA RestoredIs ==
  ASSUME NEW s, IsFun(s), DOMAIN s = SessionFields, NEW checkpoint,
         NEW r, r = Restored(s, checkpoint)
  PROVE  /\ IsFun(r) /\ DOMAIN r = SessionFields
         /\ r.weights = checkpoint.weights /\ r.optimizer = checkpoint.optimizer
         /\ r.rng = checkpoint.rng /\ r.step = checkpoint.step
         /\ \A name \in SessionFields \ {"weights", "optimizer", "rng", "step"} : r[name] = s[name]
<1>1. PICK weights, optimizer, rng, step :
        /\ weights = checkpoint.weights /\ optimizer = checkpoint.optimizer
        /\ rng = checkpoint.rng /\ step = checkpoint.step
  OBVIOUS
<1>2. r = [s EXCEPT !["weights"] = weights, !["optimizer"] = optimizer,
                    !["rng"] = rng, !["step"] = step]
  BY <1>1 DEF Restored
<1> QED
  BY <1>1, <1>2 DEF IsFun, SessionFields

-----------------------------------------------------------------------------
(* A session opens with what fits                                          *)

(* ... with these features, this mapping, this policy.                     *)
OpensWith(c, checkpoints, s, data, map, policy) ==
  LET path == c.policy.pretrained_path
  IN /\ ~Refuses(c, checkpoints)
     /\ c.root \in DOMAIN Datasets
     /\ path # Absent => path \in DOMAIN checkpoints
     /\ PolicyValid(policy) /\ SeesSomething(policy) /\ ModelFits(policy)
     /\ NormalizerFits(policy, s.stats)
     /\ IsFun(s) /\ DOMAIN s = SessionFields
     /\ s.policy = policy /\ s.rename = map
     /\ s.normalizer = Normalizer(policy, s.stats)
     /\ s.groups = <<policy.optimizer_lr, policy.optimizer_lr_backbone>>
     /\ path = Absent => s.stats = data.stats /\ s.cameras = DatasetCameras(c, data)
     /\ path # Absent => /\ s.stats \in RenamedStats(checkpoints[path].stats, map)
                         /\ s.cameras = SavedCameras(policy, s.stats)
     /\ c.resume => /\ s.weights = checkpoints[c.checkpoint].weights
                    /\ s.optimizer = checkpoints[c.checkpoint].optimizer
                    /\ s.rng = checkpoints[c.checkpoint].rng
                    /\ s.step = checkpoints[c.checkpoint].step
     /\ ~c.resume => /\ s.weights = Weights(c, policy, checkpoints)
                     /\ s.optimizer = [built |-> policy, steps |-> 0]
                     /\ s.step = 0

LEMMA SessionsAre ==
  ASSUME NEW c, NEW checkpoints, NEW s \in Sessions(c, checkpoints),
         NEW data, data = Datasets[c.root],
         NEW map, map = UsedMap(c, checkpoints), NEW policy, policy = Resolved(c, data, map)
  PROVE  OpensWith(c, checkpoints, s, data, map, policy)
<1>0. PICK path : path = c.policy.pretrained_path
  OBVIOUS
<1>1. ~Refuses(c, checkpoints)
  BY DEF Sessions
<1>2. /\ c.root \in DOMAIN Datasets
      /\ path # Absent => path \in DOMAIN checkpoints
      /\ PolicyValid(policy) /\ SeesSomething(policy) /\ ModelFits(policy)
  BY <1>0, <1>1 DEF Refuses
<1>3. PICK with \in Statistics(c, policy, map, checkpoints) :
             s = Opened(c, policy, map, with, checkpoints) /\ NormalizerFits(policy, with.stats)
  BY <1>1 DEF Sessions
<1>4. PICK stats, cameras, weights : /\ stats = with.stats /\ cameras = with.cameras
                                     /\ weights = Weights(c, policy, checkpoints)
  OBVIOUS
<1>5. PICK new : new = Session(c, policy, map, stats, cameras, weights)
  OBVIOUS
<1>6. /\ IsFun(new) /\ DOMAIN new = SessionFields
      /\ new.policy = policy /\ new.rename = map /\ new.stats = stats /\ new.cameras = cameras
      /\ new.normalizer = Normalizer(policy, stats) /\ new.weights = weights
      /\ new.groups = <<policy.optimizer_lr, policy.optimizer_lr_backbone>>
      /\ new.optimizer = [built |-> policy, steps |-> 0] /\ new.step = 0
  BY <1>5, SessionIs
<1>7. s = IF c.resume THEN Restored(new, checkpoints[c.checkpoint]) ELSE new
  BY <1>3, <1>4, <1>5 DEF Opened
<1>8. /\ path = Absent => stats = data.stats /\ cameras = DatasetCameras(c, data)
      /\ path # Absent => /\ stats \in RenamedStats(checkpoints[path].stats, map)
                          /\ cameras = SavedCameras(policy, stats)
  <2>1. CASE path = Absent
    BY <1>0, <1>3, <1>4, <2>1 DEF Statistics
  <2>2. CASE path # Absent
    <3>1. PICK found \in RenamedStats(checkpoints[path].stats, map) :
                 with = [stats |-> found, cameras |-> SavedCameras(policy, found)]
      BY <1>0, <1>3, <2>2 DEF Statistics
    <3> QED
      BY <1>4, <2>2, <3>1
  <2> QED
    BY <2>1, <2>2
<1>9. CASE c.resume
  <2>1. PICK checkpoint : checkpoint = checkpoints[c.checkpoint]
    OBVIOUS
  <2>2. s = Restored(new, checkpoint)
    BY <1>7, <1>9, <2>1
  <2>3. /\ IsFun(s) /\ DOMAIN s = SessionFields
        /\ s.weights = checkpoint.weights /\ s.optimizer = checkpoint.optimizer
        /\ s.rng = checkpoint.rng /\ s.step = checkpoint.step
        /\ \A name \in SessionFields \ {"weights", "optimizer", "rng", "step"} : s[name] = new[name]
    BY <1>6, <2>2, RestoredIs
  <2>4. /\ s.policy = new.policy /\ s.rename = new.rename /\ s.stats = new.stats
        /\ s.cameras = new.cameras /\ s.normalizer = new.normalizer /\ s.groups = new.groups
    BY <2>3 DEF SessionFields
  <2> QED
    BY <1>0, <1>1, <1>2, <1>3, <1>4, <1>6, <1>8, <1>9, <2>1, <2>3, <2>4 DEF OpensWith
<1>10. CASE ~c.resume
  <2>1. s = new
    BY <1>7, <1>10
  <2> QED
    BY <1>0, <1>1, <1>2, <1>3, <1>4, <1>6, <1>8, <1>10, <2>1 DEF OpensWith
<1> QED
  BY <1>9, <1>10

LEMMA SessionsFit ==
  ASSUME NEW checkpoints, \A place \in DOMAIN checkpoints : SavedFits(checkpoints[place]),
         NEW c, ConfigFits(c, checkpoints), NEW s \in Sessions(c, checkpoints)
  PROVE  SessionFits(c, s) /\ GoesOn(c, s, checkpoints)
<1>1. PICK data, path : data = Datasets[c.root] /\ path = c.policy.pretrained_path
  OBVIOUS
<1>2. PICK map : map = UsedMap(c, checkpoints)
  OBVIOUS
<1>3. PICK policy : policy = Resolved(c, data, map)
  OBVIOUS
<1>4. /\ c.root \in DOMAIN Datasets
      /\ path # Absent => path \in DOMAIN checkpoints
      /\ PolicyValid(policy) /\ SeesSomething(policy) /\ ModelFits(policy)
      /\ IsFun(s) /\ DOMAIN s = SessionFields
      /\ s.policy = policy /\ s.rename = map
      /\ s.normalizer = Normalizer(policy, s.stats)
      /\ s.groups = <<policy.optimizer_lr, policy.optimizer_lr_backbone>>
      /\ path = Absent => s.stats = data.stats /\ s.cameras = DatasetCameras(c, data)
      /\ path # Absent => /\ s.stats \in RenamedStats(checkpoints[path].stats, map)
                          /\ s.cameras = SavedCameras(policy, s.stats)
      /\ c.resume => s.weights = checkpoints[c.checkpoint].weights
      /\ ~c.resume => s.weights = Weights(c, policy, checkpoints)
  <2>1. OpensWith(c, checkpoints, s, data, map, policy)
    BY <1>1, <1>2, <1>3, SessionsAre
  <2> QED
    BY <1>1, <2>1 DEF OpensWith
<1>5. TypedConfig(c) /\ Valid(c)
  BY DEF ConfigFits
<1>6. DatasetFits(data)
  BY <1>1, <1>4, RunAssumption
<1>7. /\ WellFormed(policy) /\ policy.output_features = Outputs(data)
      /\ policy.optimizer_lr = c.policy.optimizer_lr
      /\ policy.optimizer_lr_backbone = c.policy.optimizer_lr_backbone
  <2>1. /\ WellFormed(policy) /\ policy.output_features = Outputs(data)
        /\ \A name \in DOMAIN PolicyTypes \ {"input_features", "output_features"} :
             policy[name] = c.policy[name]
    BY <1>3, <1>5, <1>6, ResolvedIs
  <2>2. {"optimizer_lr", "optimizer_lr_backbone"}
          \subseteq DOMAIN PolicyTypes \ {"input_features", "output_features"}
    BY DEF PolicyTypes
  <2>3. /\ policy["optimizer_lr"] = c.policy["optimizer_lr"]
        /\ policy["optimizer_lr_backbone"] = c.policy["optimizer_lr_backbone"]
    BY <2>1, <2>2
  <2> QED
    BY <2>1, <2>3
<1>8. Action \in DOMAIN Features(policy.output_features)
  BY <1>4 DEF ModelFits, ShapeFits
<1>17. IsFun(s.stats)
  <2>1. CASE path = Absent
    BY <1>4, <1>6, <2>1 DEF DatasetFits, IsFun
  <2>2. CASE path # Absent
    <3>1. PICK old : old = checkpoints[path].stats
      OBVIOUS
    <3>2. s.stats \in RenamedStats(old, map)
      BY <1>4, <2>2, <3>1
    <3> QED
      BY <3>2 DEF RenamedStats, IsFun
  <2> QED
    BY <2>1, <2>2
<1>9. map = IF c.rename_map # Nothing THEN c.rename_map
            ELSE IF path # Absent THEN SavedMap(checkpoints[path].preprocessor) ELSE Nothing
  BY <1>1, <1>2 DEF UsedMap
<1>10. path = Absent => map = Nothing
  BY <1>1, <1>5, <1>9 DEF Valid
<1>11. c.resume => path # Absent /\ path = c.checkpoint
  BY <1>1, <1>5 DEF ConfigFits, Valid
<1>12. path # Absent => s.weights = checkpoints[path].weights
  BY <1>1, <1>4, <1>11 DEF Weights
<1>13. DOMAIN s.weights = {"built", "trained"}
  <2>1. CASE path = Absent
    <3>1. s.weights = [built |-> policy, trained |-> Absent]
      BY <1>1, <1>4, <1>11, <2>1 DEF Weights
    <3> QED
      BY <3>1
  <2>2. CASE path # Absent
    <3>1. PICK checkpoint, by, session0 :
            checkpoint = checkpoints[path] /\ by = checkpoint.by.config
            /\ session0 = checkpoint.by.session
      OBVIOUS
    <3>2. SavedFits(checkpoint)
      BY <1>4, <2>2, <3>1
    <3>3. checkpoint.weights = session0.weights /\ SessionFits(by, session0)
      BY <3>1, <3>2, SavedSays
    <3> QED
      BY <1>12, <2>2, <3>1, <3>3 DEF SessionFits
  <2> QED
    BY <2>1, <2>2
<1>14. OfDatasetAlone(c, s) \/ s.cameras = SavedCameras(s.policy, s.stats)
  BY <1>1, <1>4, <1>10 DEF OfDatasetAlone
<1>15. SessionFits(c, s)
  <2>1. s.groups = <<c.policy.optimizer_lr, c.policy.optimizer_lr_backbone>>
    BY <1>4, <1>7
  <2>2. c.rename_map # Nothing => s.rename = c.rename_map
    BY <1>4, <1>9
  <2> QED
    BY <1>1, <1>4, <1>7, <1>8, <1>13, <1>14, <1>17, <2>1, <2>2 DEF SessionFits
<1>16. GoesOn(c, s, checkpoints)
  BY <1>1, <1>4, <1>12 DEF GoesOn
<1> QED
  BY <1>15, <1>16

-----------------------------------------------------------------------------
(* The invariant is one                                                    *)

(* What a training step changes of a session, and what it leaves.          *)
LEMMA TrainedIs ==
  ASSUME NEW s, s = session, IsFun(s), DOMAIN s = SessionFields,
         DOMAIN s.weights = {"built", "trained"},
         NEW data, data = Datasets[config.root], NEW t, t = Trained
  PROVE  /\ IsFun(t) /\ DOMAIN t = SessionFields
         /\ DOMAIN t.weights = {"built", "trained"}
         /\ t.weights.trained = Normalizations(s, data)
         /\ t.policy = s.policy /\ t.rename = s.rename /\ t.stats = s.stats
         /\ t.cameras = s.cameras /\ t.normalizer = s.normalizer /\ t.groups = s.groups
<1>1. PICK trained : trained = Normalizations(s, data)
  OBVIOUS
<1>2. PICK weights, optimizer, rng, step :
        /\ weights = [s.weights EXCEPT !["trained"] = trained]
        /\ optimizer = [s.optimizer EXCEPT !["steps"] = @ + 1]
        /\ rng = [s.rng EXCEPT !["drawn"] = @ + 1]
        /\ step = s.step + 1
  OBVIOUS
<1>3. t = [s EXCEPT !["step"] = step, !["weights"] = weights,
                    !["optimizer"] = optimizer, !["rng"] = rng]
  BY <1>1, <1>2 DEF Trained, SessionFields
<1>4. DOMAIN weights = {"built", "trained"} /\ weights.trained = trained
  BY <1>2
<1>5. /\ IsFun(t) /\ DOMAIN t = SessionFields /\ t["weights"] = weights
      /\ \A name \in SessionFields \ {"step", "weights", "optimizer", "rng"} : t[name] = s[name]
  <2>1. IsFun(t) /\ DOMAIN t = DOMAIN s
    BY <1>3 DEF IsFun
  <2>2. {"step", "weights", "optimizer", "rng"} \subseteq DOMAIN s
    BY DEF SessionFields
  <2>3. t["weights"] = weights
    BY <1>3, <2>2
  <2>4. \A name \in DOMAIN s \ {"step", "weights", "optimizer", "rng"} : t[name] = s[name]
    BY <1>3
  <2> QED
    BY <2>1, <2>3, <2>4
<1>6. {"policy", "rename", "stats", "cameras", "normalizer", "groups"}
        \subseteq SessionFields \ {"step", "weights", "optimizer", "rng"}
  BY DEF SessionFields
<1>7. /\ t["policy"] = s["policy"] /\ t["rename"] = s["rename"] /\ t["stats"] = s["stats"]
      /\ t["cameras"] = s["cameras"] /\ t["normalizer"] = s["normalizer"]
      /\ t["groups"] = s["groups"]
  BY <1>5, <1>6
<1> QED
  BY <1>1, <1>4, <1>5, <1>7

(* How inputs are normalized does not depend on how far a session is.      *)
LEMMA AlikeNormalized ==
  ASSUME NEW s, NEW t, NEW data,
         t.policy = s.policy, t.rename = s.rename, t.cameras = s.cameras,
         t.normalizer = s.normalizer
  PROVE  /\ Normalizations(t, data) = Normalizations(s, data)
         /\ KindsFit(s, data) => KindsFit(t, data)
<1>1. Fed(t, data) = Fed(s, data)
  BY DEF Fed
<1>2. \A name : NormalizationOf(t, data, name) = NormalizationOf(s, data, name)
  BY DEF NormalizationOf
<1>3. Normalizations(t, data) = Normalizations(s, data)
  BY <1>1, <1>2 DEF Normalizations
<1>4. KindsFit(s, data) => KindsFit(t, data)
  BY <1>1 DEF KindsFit
<1> QED
  BY <1>3, <1>4

LEMMA TrainedFits ==
  ASSUME NEW s, s = session, NEW c, c = config, SessionFits(c, s),
         NEW t, t = Trained
  PROVE  /\ SessionFits(c, t)
         /\ t.weights.trained = Normalizations(t, Datasets[c.root])
         /\ KindsFit(s, Datasets[c.root]) => KindsFit(t, Datasets[c.root])
         /\ \A checkpoints : GoesOn(c, s, checkpoints) => GoesOn(c, t, checkpoints)
<1>1. PICK data : data = Datasets[c.root]
  OBVIOUS
<1>2. /\ IsFun(s) /\ DOMAIN s = SessionFields /\ DOMAIN s.weights = {"built", "trained"}
  BY DEF SessionFits
<1>3. /\ IsFun(t) /\ DOMAIN t = SessionFields
      /\ DOMAIN t.weights = {"built", "trained"}
      /\ t.weights.trained = Normalizations(s, data)
      /\ t.policy = s.policy /\ t.rename = s.rename /\ t.stats = s.stats
      /\ t.cameras = s.cameras /\ t.normalizer = s.normalizer /\ t.groups = s.groups
  BY <1>1, <1>2, TrainedIs
<1>4. /\ Normalizations(t, data) = Normalizations(s, data)
      /\ KindsFit(s, data) => KindsFit(t, data)
  BY <1>3, AlikeNormalized
<1>5. SessionFits(c, t)
  BY <1>3 DEF SessionFits, OfDatasetAlone
<1>6. ASSUME NEW checkpoints, GoesOn(c, s, checkpoints) PROVE GoesOn(c, t, checkpoints)
  BY <1>1, <1>3, <1>4, <1>6 DEF GoesOn
<1> QED
  BY <1>1, <1>3, <1>4, <1>5, <1>6

LEMMA CheckpointFits ==
  ASSUME NEW c, TypedConfig(c), Valid(c), NEW s, SessionFits(c, s),
         KindsFit(s, Datasets[c.root]), s.weights.trained = Normalizations(s, Datasets[c.root]),
         NEW checkpoint, checkpoint = Checkpoint(c, s)
  PROVE  SavedFits(checkpoint)
<1>1. checkpoint.by = [config |-> c, session |-> s]
  BY DEF Checkpoint
<1>2. checkpoint.by.config = c /\ checkpoint.by.session = s
  BY <1>1
<1> QED
  BY <1>2 DEF SavedFits

LEMMA Initially == RunInit => RunInv
BY DEF RunInit, RunInv

LEMMA StartKeeps ==
  ASSUME RunInv, NEW command \in Commands, Start(command)
  PROVE  RunInv'
<1>1. UNCHANGED <<saved, last, session>> /\ config = Absent
  BY DEF Start
<1>2. session = Absent
  BY <1>1 DEF RunInv
<1>3. CASE \E c \in Begun(command) : config' = c
  <2>1. PICK c \in Begun(command) : config' = c
    BY <1>3
  <2>2. ConfigFits(c, saved)
    BY <2>1, BegunFits DEF RunInv
  <2> QED
    BY <1>1, <1>2, <2>1, <2>2 DEF RunInv
<1>4. CASE UNCHANGED config
  BY <1>1, <1>2, <1>4 DEF RunInv
<1> QED
  BY <1>3, <1>4 DEF Start

LEMMA OpenKeeps ==
  ASSUME RunInv, Open
  PROVE  RunInv'
<1>1. UNCHANGED <<saved, last>> /\ config # Absent /\ session = Absent
  BY DEF Open
<1>2. CASE \E s \in Sessions(config, saved) : session' = s /\ UNCHANGED config
  <2>1. PICK s \in Sessions(config, saved) : session' = s /\ UNCHANGED config
    BY <1>2
  <2>2. SessionFits(config, s) /\ GoesOn(config, s, saved)
    <3>1. PICK c, checkpoints : c = config /\ checkpoints = saved
      OBVIOUS
    <3>2. ConfigFits(c, checkpoints) /\ s \in Sessions(c, checkpoints)
      BY <1>1, <2>1, <3>1 DEF RunInv
    <3>3. \A place \in DOMAIN checkpoints : SavedFits(checkpoints[place])
      BY <3>1 DEF RunInv
    <3>4. SessionFits(c, s) /\ GoesOn(c, s, checkpoints)
      BY <3>2, <3>3, SessionsFit
    <3> QED
      BY <3>1, <3>4
  <2> QED
    BY <1>1, <2>1, <2>2 DEF RunInv
<1>3. CASE config' = Absent /\ UNCHANGED session
  BY <1>1, <1>3 DEF RunInv
<1> QED
  BY <1>2, <1>3 DEF Open

LEMMA EndKeeps ==
  ASSUME RunInv, End
  PROVE  RunInv'
BY DEF RunInv, End

LEMMA TrainStepKeeps ==
  ASSUME RunInv, TrainStep
  PROVE  RunInv'
<1>1. session # Absent /\ BatchFits
  BY DEF TrainStep
<1>2. /\ config # Absent /\ ConfigFits(config, saved)
      /\ SessionFits(config, session) /\ GoesOn(config, session, saved)
  BY <1>1 DEF RunInv
<1>3. PICK c, s, t : c = config /\ s = session /\ t = Trained
  OBVIOUS
<1>4. /\ SessionFits(c, t)
      /\ t.weights.trained = Normalizations(t, Datasets[c.root])
      /\ KindsFit(s, Datasets[c.root]) => KindsFit(t, Datasets[c.root])
      /\ \A checkpoints : GoesOn(c, s, checkpoints) => GoesOn(c, t, checkpoints)
  BY <1>2, <1>3, TrainedFits
<1>5. KindsFit(t, Datasets[c.root]) /\ GoesOn(c, t, saved)
  BY <1>1, <1>2, <1>3, <1>4 DEF BatchFits
<1>6. PICK place : place = <<config.output_dir, session.step + 1>>
  OBVIOUS
<1>7. CASE ~ShouldSave(config, session.step + 1)
  <2>1. session' = t /\ UNCHANGED <<saved, last, config, commands>>
    BY <1>3, <1>7 DEF TrainStep
  <2> QED
    BY <1>2, <1>3, <1>4, <1>5, <2>1 DEF RunInv
<1>8. CASE ShouldSave(config, session.step + 1) /\ place \in DOMAIN saved
  BY <1>6, <1>8, EndKeeps DEF TrainStep
<1>9. CASE ShouldSave(config, session.step + 1) /\ place \notin DOMAIN saved
  <2>1. /\ session' = t
        /\ saved' = Over([p \in {place} |-> Checkpoint(c, t)], saved)
        /\ last' = Over([dir \in {config.output_dir} |-> place], last)
        /\ UNCHANGED <<config, commands>>
    BY <1>3, <1>6, <1>9 DEF TrainStep
  <2>2. PICK checkpoint : checkpoint = Checkpoint(c, t)
    OBVIOUS
  <2>3. /\ DOMAIN saved' = {place} \cup DOMAIN saved
        /\ saved'[place] = checkpoint
        /\ \A p \in DOMAIN saved : saved'[p] = saved[p]
    BY <1>9, <2>1, <2>2 DEF Over
  <2>4. /\ DOMAIN last' = {config.output_dir} \cup DOMAIN last
        /\ last'[config.output_dir] = place
        /\ \A dir \in DOMAIN last \ {config.output_dir} : last'[dir] = last[dir]
    BY <2>1 DEF Over
  <2>5. SavedFits(checkpoint)
    BY <1>2, <1>3, <1>4, <1>5, <2>2, CheckpointFits DEF ConfigFits
  <2>6. \A p \in DOMAIN saved' : SavedFits(saved'[p])
    BY <2>3, <2>5 DEF RunInv
  <2>7. \A dir \in DOMAIN last' : last'[dir] \in DOMAIN saved'
    BY <2>3, <2>4 DEF RunInv
  <2>8. PICK now : now = saved'
    OBVIOUS
  <2>9. DOMAIN saved \subseteq DOMAIN now /\ \A p \in DOMAIN saved : now[p] = saved[p]
    BY <2>3, <2>8
  <2>10. ConfigFits(c, now)
    BY <1>2, <1>3, <2>9 DEF ConfigFits
  <2>11. GoesOn(c, t, now)
    BY <1>5, <2>9 DEF GoesOn
  <2> QED
    BY <1>2, <1>3, <1>4, <2>1, <2>6, <2>7, <2>8, <2>10, <2>11 DEF RunInv
<1> QED
  BY <1>7, <1>8, <1>9

LEMMA RunInvKept == RunInv /\ [RunNext]_runVars => RunInv'
<1> SUFFICES ASSUME RunInv, [RunNext]_runVars PROVE RunInv'
  OBVIOUS
<1>1. CASE \E command \in Commands : Start(command)
  BY <1>1, StartKeeps
<1>2. CASE Open
  BY <1>2, OpenKeeps
<1>3. CASE TrainStep
  BY <1>3, TrainStepKeeps
<1>4. CASE StepFails \/ Finish \/ Kill
  BY <1>4, EndKeeps DEF StepFails, Finish, Kill
<1>5. CASE UNCHANGED runVars
  BY <1>5 DEF runVars, RunInv
<1> QED
  BY <1>1, <1>2, <1>3, <1>4, <1>5 DEF RunNext

(* Whatever is saved is of a valid run whose session trained on a dataset  *)
(* that fits its model, and whatever goes on goes on from what is saved.   *)
(* (parse, TrainSession::new and restore, write_checkpoint_contents.)      *)
THEOREM RunInvariance == RunSpec => []RunInv
<1>1. RunInit => RunInv
  BY Initially
<1>2. RunInv /\ [RunNext]_runVars => RunInv'
  BY RunInvKept
<1> QED
  BY <1>1, <1>2, PTL DEF RunSpec

-----------------------------------------------------------------------------
(* What a mapping names                                                    *)

(* A feature that alone is renamed to an input feeds it.                   *)
LEMMA AloneFeeds ==
  ASSUME NEW data, DatasetFits(data), NEW map, NEW name \in DOMAIN data.features,
         NEW target, RenamedKey(map, name) = target,
         \A other \in DOMAIN data.features \ {name} : RenamedKey(map, other) # target
  PROVE  FedFrom(data, map, target) = name
<1>1. PICK from : from = FedFrom(data, map, target)
  OBVIOUS
<1>2. from \in DOMAIN data.features /\ RenamedKey(map, from) = target
  BY <1>1, FedFromIs
<1> QED
  BY <1>1, <1>2

(* A feature that a mapping names feeds the input it is mapped to, unless  *)
(* another is renamed to the same.  (rename_policy_features,               *)
(* rename_observation_batch.)                                              *)
THEOREM MappingIsHonoured == RunSpec => []MappingHonoured
<1>1. ASSUME RunInv PROVE MappingHonoured
  <2> SUFFICES ASSUME session # Absent,
                      NEW data, data = Datasets[config.root], NEW map, map = session.rename,
                      NEW name \in DOMAIN data.features \cap DOMAIN map, name # Action,
                      \A other \in DOMAIN data.features \ {name} :
                        RenamedKey(map, other) # map[name]
               PROVE  FedFrom(data, map, map[name]) = name
    BY DEF MappingHonoured, RenamedKey
  <2>1. DatasetFits(data)
    BY <1>1, RunAssumption DEF RunInv, SessionFits
  <2>2. PICK target : target = map[name]
    OBVIOUS
  <2>3. RenamedKey(map, name) = target
    BY <2>2 DEF RenamedKey
  <2> QED
    BY <2>1, <2>2, <2>3, AloneFeeds
<1> QED
  BY <1>1, RunInvariance, PTL

-----------------------------------------------------------------------------
(* What the statistics of a checkpoint normalize                           *)

(* How an input is normalized that has these statistics or none.           *)
Given(policy, stats, name) ==
  IF name \in Cameras(policy)
  THEN IF name \in DOMAIN stats THEN [of |-> stats[name].of, mode |-> "MEAN_STD"] ELSE Absent
  ELSE LET normalizer == Normalizer(policy, stats)
       IN IF name \in DOMAIN normalizer THEN normalizer[name] ELSE Absent

(* Statistics that no mapping renames are read as they are.                *)
LEMMA StatsRead ==
  ASSUME NEW stats, IsFun(stats), NEW map, ~MapMeetsStats(map, stats)
  PROVE  RenamedStats(stats, map) = {stats}
<1> DEFINE Target(name) == IF name \in DOMAIN map THEN map[name] ELSE name
           targets == {Target(name) : name \in DOMAIN stats}
           picks == {p \in [targets -> DOMAIN stats] : \A name \in targets : Target(p[name]) = name}
           As(p) == [name \in targets |-> stats[p[name]]]
<1>1. \A name \in DOMAIN stats : Target(name) = name
  BY DEF MapMeetsStats
<1>2. RenamedStats(stats, map) = {As(p) : p \in picks}
  BY DEF RenamedStats
<1> HIDE DEF Target
<1>3. targets = DOMAIN stats
  BY <1>1
<1>4. ASSUME NEW p \in picks PROVE As(p) = stats
  <2>1. \A name \in DOMAIN stats : p[name] = name
    BY <1>1, <1>3
  <2> QED
    BY <1>3, <2>1 DEF IsFun
<1>5. [name \in DOMAIN stats |-> name] \in picks
  BY <1>1, <1>3
<1> HIDE DEF As, picks
<1> QED
  BY <1>2, <1>4, <1>5

(* What a pass looks up and is no camera may be normalized.                *)
LEMMA FedIsScalar ==
  ASSUME NEW data, DatasetFits(data), NEW policy,
         policy.output_features = Outputs(data),
         Action \in DOMAIN Features(policy.output_features),
         NEW name \in Consumed(policy, TRUE), name \notin Cameras(policy)
  PROVE  name \in DOMAIN Scalars(policy)
<1>1. PICK inputs, outputs : /\ inputs = Features(policy.input_features)
                             /\ outputs = Features(policy.output_features)
  OBVIOUS
<1>2. PICK all : all = Over(outputs, inputs)
  OBVIOUS
<1>3. /\ DOMAIN all = DOMAIN outputs \cup DOMAIN inputs
      /\ \A n \in DOMAIN outputs : all[n] = outputs[n]
      /\ \A n \in DOMAIN inputs \ DOMAIN outputs : all[n] = inputs[n]
  BY <1>2 DEF Over
<1>4. outputs = Outputs(data)
  BY <1>1 DEF Features, Nothing
<1>5. Action \in DOMAIN outputs /\ \A n \in DOMAIN outputs : outputs[n].type = "ACTION"
  BY <1>1, <1>4 DEF Outputs, Actions, Restricted
<1>6. name \in DOMAIN all /\ all[name].type # "VISUAL"
  <2>1. CASE name \in DOMAIN outputs
    BY <1>3, <1>5, <2>1
  <2>2. CASE name \notin DOMAIN outputs
    <3>1. Width(inputs, name) > 0
      BY <1>1, <1>5, <2>2 DEF Consumed
    <3>2. name \in DOMAIN inputs
      BY <3>1 DEF Width
    <3>3. inputs[name].type # "VISUAL"
      BY <1>1, <3>2 DEF Cameras, Visual
    <3> QED
      BY <1>3, <2>2, <3>2, <3>3
  <2> QED
    BY <2>1, <2>2
<1> QED
  BY <1>1, <1>2, <1>6 DEF Scalars, Restricted, Visual

(* A session with a checkpoint's statistics normalizes with them.          *)
LEMMA LoadedGiven ==
  ASSUME NEW data, DatasetFits(data), NEW s, NEW stats, s.stats = stats,
         s.cameras = SavedCameras(s.policy, stats), s.normalizer = Normalizer(s.policy, stats),
         ~MapMeetsStats(s.rename, stats), NEW name \in Fed(s, data)
  PROVE  NormalizationOf(s, data, name) = Given(s.policy, stats, name)
<1>1. PICK from, cameras, map, policy : /\ from = FedFrom(data, s.rename, name)
                                        /\ cameras = s.cameras /\ map = s.rename
                                        /\ policy = s.policy
  OBVIOUS
<1>2. /\ DOMAIN cameras = DOMAIN stats \cap Cameras(policy)
      /\ \A n \in DOMAIN cameras : cameras[n] = stats[n]
  BY <1>1 DEF SavedCameras, Restricted
<1>3. from \in DOMAIN cameras => from = name
  <2> SUFFICES ASSUME from \in DOMAIN cameras, from # name PROVE FALSE
    OBVIOUS
  <2>1. from # Absent /\ from = FedFrom(data, map, name)
    BY <1>1 DEF Fed
  <2>2. RenamedKey(map, from) = name
    BY <2>1, FedFromIs
  <2>3. from \in DOMAIN map /\ map[from] # from
    BY <2>2 DEF RenamedKey
  <2> QED
    BY <1>1, <1>2, <2>3 DEF MapMeetsStats
<1>4. CASE name \in Cameras(policy)
  <2>1. CASE name \in DOMAIN stats
    <3>1. NormalizationOf(s, data, name) = [of |-> cameras[name].of, mode |-> "MEAN_STD"]
      BY <1>1, <1>2, <1>4, <2>1 DEF NormalizationOf
    <3> QED
      BY <1>1, <1>2, <1>4, <2>1, <3>1 DEF Given
  <2>2. CASE name \notin DOMAIN stats
    <3>1. name \notin DOMAIN cameras /\ from \notin DOMAIN cameras
      BY <1>2, <1>3, <2>2
    <3>2. NormalizationOf(s, data, name) = Absent
      BY <1>1, <1>4, <3>1 DEF NormalizationOf
    <3> QED
      BY <1>1, <1>4, <2>2, <3>2 DEF Given
  <2> QED
    BY <2>1, <2>2
<1>5. CASE name \notin Cameras(policy)
  BY <1>1, <1>5 DEF NormalizationOf, Given
<1> QED
  BY <1>4, <1>5

(* A session whose statistics are the dataset's normalizes with those it   *)
(* saves.                                                                  *)
LEMMA AloneGiven ==
  ASSUME NEW c, NEW s, SessionFits(c, s), OfDatasetAlone(c, s),
         NEW data, data = Datasets[c.root], KindsFit(s, data),
         NEW stats, stats = SavedStats(s), NEW name \in Fed(s, data)
  PROVE  NormalizationOf(s, data, name) = Given(s.policy, stats, name)
<1>1. DatasetFits(data)
  BY RunAssumption DEF SessionFits
<1>2. PICK cameras, own, policy : cameras = s.cameras /\ own = s.stats /\ policy = s.policy
  OBVIOUS
<1>3. own = data.stats /\ cameras = DatasetCameras(c, data)
  BY <1>2 DEF OfDatasetAlone
<1>4. /\ DOMAIN stats = DOMAIN cameras \cup DOMAIN own
      /\ \A n \in DOMAIN cameras : stats[n] = cameras[n]
      /\ \A n \in DOMAIN own \ DOMAIN cameras : stats[n] = own[n]
  BY <1>2 DEF SavedStats, Over
<1>5. FedFrom(data, s.rename, name) = name /\ name \in DOMAIN data.features
  <2>1. PICK from : from = FedFrom(data, Nothing, name)
    OBVIOUS
  <2>2. from # Absent /\ from = FedFrom(data, s.rename, name)
    BY <2>1 DEF Fed, OfDatasetAlone
  <2> QED
    BY <1>1, <2>1, <2>2, FedByItself
<1>6. DOMAIN cameras \subseteq Visual(data.features)
  BY <1>3 DEF DatasetCameras
<1>7. DOMAIN own \cap Visual(data.features) = {}
  BY <1>1, <1>3 DEF DatasetFits
<1>8. name \in Cameras(policy) <=> name \in Visual(data.features)
  <2>1. IF name \in Cameras(policy)
        THEN data.features[name] = policy.input_features[name]
        ELSE data.features[name].type # "VISUAL"
    BY <1>2, <1>5 DEF KindsFit
  <2>2. CASE name \in Cameras(policy)
    <3>1. PICK declared : declared = policy.input_features
      OBVIOUS
    <3>2. name \in Visual(Features(declared))
      BY <2>2, <3>1 DEF Cameras
    <3>3. declared[name].type = "VISUAL"
      BY <3>2 DEF Visual, Features, Nothing
    <3> QED
      BY <1>5, <2>1, <2>2, <3>1, <3>3 DEF Visual
  <2>3. CASE name \notin Cameras(policy)
    BY <2>1, <2>3 DEF Visual
  <2> QED
    BY <2>2, <2>3
<1>9. CASE name \in Cameras(policy)
  <2>1. name \notin DOMAIN own
    BY <1>7, <1>8, <1>9
  <2>2. CASE name \in DOMAIN cameras
    <3>1. NormalizationOf(s, data, name) = [of |-> cameras[name].of, mode |-> "MEAN_STD"]
      BY <1>2, <1>9, <2>2 DEF NormalizationOf
    <3> QED
      BY <1>2, <1>4, <1>9, <2>2, <3>1 DEF Given
  <2>3. CASE name \notin DOMAIN cameras
    <3>1. NormalizationOf(s, data, name) = Absent
      BY <1>2, <1>5, <1>9, <2>3 DEF NormalizationOf
    <3> QED
      BY <1>2, <1>4, <1>9, <2>1, <2>3, <3>1 DEF Given
  <2> QED
    BY <2>2, <2>3
<1>10. CASE name \notin Cameras(policy)
  <2>1. name \notin DOMAIN cameras
    BY <1>6, <1>8, <1>10
  <2>2. PICK old, new : old = Normalizer(policy, own) /\ new = Normalizer(policy, stats)
    OBVIOUS
  <2>3. s.normalizer = old
    BY <1>2, <2>2 DEF SessionFits
  <2>4. /\ name \in DOMAIN old <=> name \in DOMAIN new
        /\ name \in DOMAIN old => old[name] = new[name]
    <3>1. /\ DOMAIN old = Normalized(policy, own) /\ DOMAIN new = Normalized(policy, stats)
          /\ \A n \in DOMAIN old :
               old[n] = [of |-> own[n].of, mode |-> Mode(policy, Scalars(policy)[n])]
          /\ \A n \in DOMAIN new :
               new[n] = [of |-> stats[n].of, mode |-> Mode(policy, Scalars(policy)[n])]
      BY <2>2 DEF Normalizer
    <3>2. name \in Normalized(policy, own) <=> name \in Normalized(policy, stats)
      BY <1>4, <2>1 DEF Normalized
    <3>3. name \in Normalized(policy, own) => stats[name] = own[name]
      BY <1>4, <2>1 DEF Normalized
    <3> QED
      BY <3>1, <3>2, <3>3
  <2>5. NormalizationOf(s, data, name) = IF name \in DOMAIN old THEN old[name] ELSE Absent
    BY <1>2, <1>10, <2>3 DEF NormalizationOf
  <2>6. Given(policy, stats, name) = IF name \in DOMAIN new THEN new[name] ELSE Absent
    BY <1>10, <2>2 DEF Given
  <2> QED
    BY <1>2, <2>4, <2>5, <2>6
<1> QED
  BY <1>2, <1>9, <1>10

(* What was saved was trained with the statistics saved with it.           *)
LEMMA SavedGiven ==
  ASSUME NEW checkpoint, SavedFits(checkpoint),
         ~MapMeetsStats(SavedMap(checkpoint.preprocessor), checkpoint.stats),
         NEW c, c = checkpoint.by.config, NEW s, s = checkpoint.by.session,
         NEW data, data = Datasets[c.root]
  PROVE  /\ DOMAIN checkpoint.weights.trained = Fed(s, data)
         /\ \A name \in Fed(s, data) :
              checkpoint.weights.trained[name] = Given(s.policy, checkpoint.stats, name)
<1>1. PICK stats : stats = checkpoint.stats
  OBVIOUS
<1>2. /\ stats = SavedStats(s) /\ ~MapMeetsStats(s.rename, stats)
      /\ SessionFits(c, s) /\ KindsFit(s, data)
      /\ checkpoint.weights.trained = Normalizations(s, data)
  BY <1>1, SavedSays
<1>3. DatasetFits(data)
  BY <1>2, RunAssumption DEF SessionFits
<1>4. ASSUME NEW name \in Fed(s, data)
      PROVE  NormalizationOf(s, data, name) = Given(s.policy, stats, name)
  <2>1. CASE OfDatasetAlone(c, s)
    BY <1>2, <2>1, AloneGiven
  <2>2. CASE s.cameras = SavedCameras(s.policy, s.stats)
    <3>1. PICK own : own = s.stats
      OBVIOUS
    <3>2. stats = own
      <4>1. IsFun(own)
        BY <1>2, <3>1 DEF SessionFits
      <4>2. stats = Over(Restricted(own, Cameras(s.policy)), own)
        BY <1>2, <2>2, <3>1 DEF SavedStats, SavedCameras
      <4> QED
        BY <4>1, <4>2 DEF Over, Restricted, IsFun
    <3>3. s.normalizer = Normalizer(s.policy, stats)
      BY <1>2, <3>1, <3>2 DEF SessionFits
    <3> QED
      BY <1>2, <1>3, <2>2, <3>1, <3>2, <3>3, LoadedGiven
  <2> QED
    BY <1>2, <2>1, <2>2 DEF SessionFits
<1> QED
  BY <1>1, <1>2, <1>4 DEF Normalizations

LEMMA ReadAsTrained ==
  ASSUME NEW checkpoint, SavedFits(checkpoint),
         ~MapMeetsStats(SavedMap(checkpoint.preprocessor), checkpoint.stats)
  PROVE  AsTrained(checkpoint)
<1>1. PICK c, s, stats : /\ c = checkpoint.by.config /\ s = checkpoint.by.session
                         /\ stats = checkpoint.stats
  OBVIOUS
<1>2. PICK data, policy, map : /\ data = Datasets[c.root] /\ policy = s.policy
                               /\ map = SavedMap(checkpoint.preprocessor)
  OBVIOUS
<1>3. /\ Decoded(checkpoint.policy) = {policy} /\ map = s.rename
      /\ stats = SavedStats(s)
  BY <1>1, <1>2, SavedSays
<1>4. RenamedStats(stats, map) = {stats}
  <2>1. IsFun(stats)
    BY <1>3 DEF SavedStats, Over, IsFun
  <2> QED
    BY <1>1, <1>2, <2>1, StatsRead
<1>5. /\ DOMAIN checkpoint.weights.trained = Fed(s, data)
      /\ \A name \in Fed(s, data) :
           checkpoint.weights.trained[name] = Given(policy, stats, name)
  BY <1>1, <1>2, SavedGiven
<1>6. ASSUME NEW name \in Fed(s, data)
      PROVE  \/ Deployed(checkpoint, policy, stats)[name] = Given(policy, stats, name)
             \/ ImageNetInstead(checkpoint, policy, stats, name)
  <2>1. name \in Consumed(policy, TRUE)
    BY <1>2 DEF Fed
  <2>2. PICK deployed, normalizer : /\ deployed = Deployed(checkpoint, policy, stats)
                                    /\ normalizer = Normalizer(policy, stats)
    OBVIOUS
  <2>3. deployed[name] = IF name \in Cameras(policy) THEN DeployedCamera(checkpoint, stats, name)
                         ELSE IF name \in DOMAIN normalizer THEN normalizer[name] ELSE Absent
    BY <2>1, <2>2 DEF Deployed
  <2>4. CASE name \in Cameras(policy) /\ name \in DOMAIN stats
    <3>1. DeployedCamera(checkpoint, stats, name) = [of |-> stats[name].of, mode |-> "MEAN_STD"]
      BY <2>4 DEF DeployedCamera
    <3> QED
      BY <2>2, <2>3, <2>4, <3>1 DEF Given
  <2>5. CASE name \in Cameras(policy) /\ name \notin DOMAIN stats
    <3>1. CASE AsksForImageNet(checkpoint.config)
      BY <2>5, <3>1 DEF ImageNetInstead
    <3>2. CASE ~AsksForImageNet(checkpoint.config)
      <4>1. DeployedCamera(checkpoint, stats, name) = Absent
        BY <2>5, <3>2 DEF DeployedCamera
      <4> QED
        BY <2>2, <2>3, <2>5, <4>1 DEF Given
    <3> QED
      BY <3>1, <3>2
  <2>6. CASE name \notin Cameras(policy)
    BY <2>2, <2>3, <2>6 DEF Given
  <2> QED
    BY <2>4, <2>5, <2>6
<1>7. PICK trained : trained = checkpoint.weights.trained
  OBVIOUS
<1>8. \A name \in DOMAIN trained :
        \/ Deployed(checkpoint, policy, stats)[name] = trained[name]
        \/ ImageNetInstead(checkpoint, policy, stats, name)
  BY <1>5, <1>6, <1>7
<1> QED
  BY <1>1, <1>2, <1>3, <1>4, <1>7, <1>8 DEF AsTrained

(* A deployed policy is given inputs normalized as those of the last       *)
(* training step were, but for cameras that get ImageNet's statistics and  *)
(* mappings from names that statistics have.  (load_checkpoint,            *)
(* load_camera_normalization against next_batch.)                          *)
THEOREM DeploymentIsAsTrained == RunSpec => []DeployedAsTrained
<1>1. ASSUME RunInv PROVE DeployedAsTrained
  <2> SUFFICES ASSUME NEW place \in DOMAIN saved,
                      ~MapMeetsStats(SavedMap(saved[place].preprocessor), saved[place].stats)
               PROVE  AsTrained(saved[place])
    BY DEF DeployedAsTrained
  <2>1. PICK checkpoint : checkpoint = saved[place]
    OBVIOUS
  <2>2. SavedFits(checkpoint)
    BY <1>1, <2>1 DEF RunInv
  <2> QED
    BY <2>1, <2>2, ReadAsTrained
<1> QED
  BY <1>1, RunInvariance, PTL

(* Of what they ask alike two policies are given the same.                 *)
LEMMA GivenAlike ==
  ASSUME NEW policy, NEW other, NEW stats, NEW name,
         name \in Cameras(policy) \/ name \in DOMAIN Scalars(policy),
         name \in Cameras(other) \/ name \in DOMAIN Scalars(other),
         AskAlike(policy, other, name)
  PROVE  Given(policy, stats, name) = Given(other, stats, name)
<1>1. CASE name \in Cameras(policy)
  BY <1>1 DEF Given, AskAlike
<1>2. CASE name \notin Cameras(policy)
  <2>1. /\ name \notin Cameras(other)
        /\ name \in DOMAIN Scalars(policy) /\ name \in DOMAIN Scalars(other)
        /\ Mode(policy, Scalars(policy)[name]) = Mode(other, Scalars(other)[name])
    BY <1>2 DEF AskAlike
  <2>2. PICK n, m : n = Normalizer(policy, stats) /\ m = Normalizer(other, stats)
    OBVIOUS
  <2>3. /\ DOMAIN n = Normalized(policy, stats) /\ DOMAIN m = Normalized(other, stats)
        /\ \A x \in DOMAIN n : n[x] = [of |-> stats[x].of, mode |-> Mode(policy, Scalars(policy)[x])]
        /\ \A x \in DOMAIN m : m[x] = [of |-> stats[x].of, mode |-> Mode(other, Scalars(other)[x])]
    BY <2>2 DEF Normalizer
  <2>4. name \in DOMAIN n <=> name \in DOMAIN m
    BY <2>1, <2>3 DEF Normalized
  <2>5. name \in DOMAIN n => n[name] = m[name]
    BY <2>1, <2>3, <2>4
  <2> QED
    BY <1>2, <2>1, <2>2, <2>4, <2>5 DEF Given
<1> QED
  BY <1>1, <1>2

LEMMA NormalizedAsBefore ==
  ASSUME RunInv, session # Absent, NEW path, path = config.policy.pretrained_path,
         path # Absent, NEW checkpoint, checkpoint = saved[path],
         ~MapMeetsStats(session.rename, checkpoint.stats),
         ~MapMeetsStats(SavedMap(checkpoint.preprocessor), checkpoint.stats),
         session.weights.trained = checkpoint.weights.trained
  PROVE  Kept(checkpoint)
<1>1. PICK c, s, stats : c = config /\ s = session /\ stats = checkpoint.stats
  OBVIOUS
<1>2. PICK data : data = Datasets[c.root]
  OBVIOUS
<1>3. /\ SessionFits(c, s) /\ GoesOn(c, s, saved)
      /\ path \in DOMAIN saved /\ SavedFits(checkpoint)
  BY <1>1 DEF RunInv, GoesOn
<1>4. PICK by, t : by = checkpoint.by.config /\ t = checkpoint.by.session
  OBVIOUS
<1>5. PICK old : old = Datasets[by.root]
  OBVIOUS
<1>6. /\ Decoded(checkpoint.policy) = {t.policy} /\ SessionFits(by, t)
      /\ stats = SavedStats(t)
  <2>1. SavedFits(checkpoint)
    BY <1>3
  <2>2. Decoded(checkpoint.policy) = {t.policy}
    BY <1>4, <2>1, SavedSays
  <2>3. SessionFits(by, t)
    BY <1>4, <2>1, SavedSays
  <2>4. checkpoint.stats = SavedStats(t)
    BY <1>4, <2>1, SavedSays
  <2> QED
    BY <1>1, <2>2, <2>3, <2>4
<1>7. DatasetFits(data) /\ DatasetFits(old)
  BY <1>2, <1>3, <1>5, <1>6, RunAssumption DEF SessionFits
<1>8. /\ s.stats = stats /\ s.cameras = SavedCameras(s.policy, stats)
      /\ s.normalizer = Normalizer(s.policy, stats)
  <2>1. IsFun(stats)
    BY <1>6 DEF SavedStats, Over, IsFun
  <2>2. RenamedStats(stats, s.rename) = {stats}
    BY <1>1, <2>1, StatsRead
  <2>3. s.stats \in RenamedStats(stats, s.rename) /\ s.cameras = SavedCameras(s.policy, s.stats)
    BY <1>1, <1>3 DEF GoesOn
  <2> QED
    BY <1>3, <2>2, <2>3 DEF SessionFits
<1>9. ASSUME NEW name \in Fed(s, data)
      PROVE  /\ NormalizationOf(s, data, name) = Given(s.policy, stats, name)
             /\ name \in Cameras(s.policy) \/ name \in DOMAIN Scalars(s.policy)
  <2>1. NormalizationOf(s, data, name) = Given(s.policy, stats, name)
    BY <1>1, <1>7, <1>8, LoadedGiven
  <2>2. PICK policy : policy = s.policy
    OBVIOUS
  <2>3. /\ policy.output_features = Outputs(data)
        /\ Action \in DOMAIN Features(policy.output_features)
        /\ name \in Consumed(policy, TRUE)
    BY <1>2, <1>3, <2>2 DEF SessionFits, Fed
  <2> QED
    BY <1>7, <2>1, <2>2, <2>3, FedIsScalar
<1>10. /\ DOMAIN checkpoint.weights.trained = Fed(t, old)
       /\ \A name \in Fed(t, old) :
            checkpoint.weights.trained[name] = Given(t.policy, stats, name)
  BY <1>1, <1>3, <1>4, <1>5, SavedGiven
<1>11. ASSUME NEW name \in Fed(t, old)
       PROVE  name \in Cameras(t.policy) \/ name \in DOMAIN Scalars(t.policy)
  <2>1. PICK policy : policy = t.policy
    OBVIOUS
  <2>2. /\ policy.output_features = Outputs(old)
        /\ Action \in DOMAIN Features(policy.output_features)
        /\ name \in Consumed(policy, TRUE)
    BY <1>5, <1>6, <2>1 DEF SessionFits, Fed
  <2> QED
    BY <1>7, <2>1, <2>2, FedIsScalar
<1>12. PICK now, before : now = Normalizations(s, data) /\ before = checkpoint.weights.trained
  OBVIOUS
<1>13. ASSUME NEW name \in DOMAIN now \cap DOMAIN before, AskAlike(s.policy, t.policy, name)
       PROVE  now[name] = before[name]
  <2>1. name \in Fed(s, data) /\ name \in Fed(t, old)
    BY <1>10, <1>12 DEF Normalizations
  <2>2. now[name] = Given(s.policy, stats, name)
    BY <1>9, <1>12, <2>1 DEF Normalizations
  <2>3. before[name] = Given(t.policy, stats, name)
    BY <1>10, <1>12, <2>1
  <2>4. PICK policy, other : policy = s.policy /\ other = t.policy
    OBVIOUS
  <2>5. Given(policy, stats, name) = Given(other, stats, name)
    BY <1>9, <1>11, <1>13, <2>1, <2>4, GivenAlike
  <2> QED
    BY <2>2, <2>3, <2>4, <2>5
<1> QED
  BY <1>1, <1>2, <1>6, <1>12, <1>13 DEF Kept

(* Loaded weights are given inputs normalized with the statistics they     *)
(* were trained with, on whatever dataset and under whatever names and     *)
(* settings they are trained further, unless another mode is asked for;    *)
(* but for mappings from names that statistics have.                       *)
(* (load_with_rename_map, camera_normalizations_for_input_images.)         *)
THEOREM NormalizationIsKept == RunSpec => []NormalizationKept
<1>1. ASSUME RunInv PROVE NormalizationKept
  <2> SUFFICES ASSUME session # Absent, NEW path, path = config.policy.pretrained_path,
                      path # Absent, NEW checkpoint, checkpoint = saved[path],
                      ~MapMeetsStats(session.rename, checkpoint.stats),
                      ~MapMeetsStats(SavedMap(checkpoint.preprocessor), checkpoint.stats)
               PROVE  Kept(checkpoint)
    BY DEF NormalizationKept
  <2>1. GoesOn(config, session, saved)
    BY <1>1 DEF RunInv
  <2>2. CASE session.weights.trained = checkpoint.weights.trained
    BY <1>1, <2>2, NormalizedAsBefore
  <2>3. CASE session.weights.trained = Normalizations(session, Datasets[config.root])
    BY <2>3 DEF Kept
  <2> QED
    BY <2>1, <2>2, <2>3 DEF GoesOn
<1> QED
  BY <1>1, RunInvariance, PTL

-----------------------------------------------------------------------------
(* A resumed run goes on as it was                                         *)

(* What a document says of a run is what the run asks for.                 *)
LEMMA JsonAlike ==
  ASSUME NEW c, NEW d, c.policy = d.policy, \A name \in DOMAIN RunTypes : c[name] = d[name]
  PROVE  ToJson(c) = ToJson(d)
<1>1. PICK settings : settings = [name \in DOMAIN RunTypes |-> EncodedSetting(name, c[name])]
  OBVIOUS
<1>2. settings = [name \in DOMAIN RunTypes |-> EncodedSetting(name, d[name])]
  BY <1>1
<1>3. PICK policy : policy = Encoded(c.policy)
  OBVIOUS
<1>4. ToJson(c) = [map |-> Over([dataset |-> [map |-> OfDataset(settings)], policy |-> policy],
                                OfRun(settings))]
  BY <1>1, <1>3 DEF ToJson
<1>5. ToJson(d) = [map |-> Over([dataset |-> [map |-> OfDataset(settings)], policy |-> policy],
                                OfRun(settings))]
  BY <1>2, <1>3 DEF ToJson
<1> QED
  BY <1>4, <1>5

(* The settings of a run but for its features and where its weights are    *)
(* from.                                                                   *)
Settings(c) ==
  [[[c EXCEPT !.policy.pretrained_path = Absent] EXCEPT !.policy.input_features = Nothing]
     EXCEPT !.policy.output_features = Nothing]

LEMMA SettingsAlike ==
  ASSUME NEW c, TypedConfig(c), NEW d, TypedConfig(d),
         \A name \in DOMAIN RunTypes : c[name] = d[name],
         \A name \in DOMAIN PolicyTypes \ {"input_features", "output_features", "pretrained_path"} :
           c.policy[name] = d.policy[name]
  PROVE  ToJson(Settings(c)) = ToJson(Settings(d))
<1> DEFINE Bare(policy) == [[[policy EXCEPT !["pretrained_path"] = Absent]
                               EXCEPT !["input_features"] = Nothing]
                               EXCEPT !["output_features"] = Nothing]
<1>1. ASSUME NEW x, TypedConfig(x)
      PROVE  /\ Settings(x).policy = Bare(x.policy)
             /\ \A name \in DOMAIN RunTypes : Settings(x)[name] = x[name]
  <2>1. PICK policy : policy = x.policy
    OBVIOUS
  <2>2. /\ IsFun(x) /\ "policy" \in DOMAIN x /\ "policy" \notin DOMAIN RunTypes
        /\ DOMAIN RunTypes \subseteq DOMAIN x
    BY <1>1, RunSettings DEF TypedConfig
  <2>3. PICK p, q, r : /\ p = [policy EXCEPT !["pretrained_path"] = Absent]
                       /\ q = [p EXCEPT !["input_features"] = Nothing]
                       /\ r = [q EXCEPT !["output_features"] = Nothing]
    OBVIOUS
  <2>4. PICK y, z : /\ y = [x EXCEPT !["policy"] = p] /\ z = [y EXCEPT !["policy"] = q]
    OBVIOUS
  <2>5. y["policy"] = p /\ z["policy"] = q /\ DOMAIN y = DOMAIN x /\ DOMAIN z = DOMAIN x
    BY <2>2, <2>4
  <2>6. y = [x EXCEPT !.policy.pretrained_path = Absent]
    BY <2>1, <2>2, <2>3, <2>4
  <2>7. z = [y EXCEPT !.policy.input_features = Nothing]
    BY <2>3, <2>4, <2>5
  <2>8. Settings(x) = [z EXCEPT !.policy.output_features = Nothing]
    BY <2>6, <2>7 DEF Settings
  <2>9. Settings(x) = [z EXCEPT !["policy"] = r]
    BY <2>3, <2>5, <2>8
  <2>10. /\ Settings(x)["policy"] = r
         /\ \A name \in DOMAIN RunTypes : Settings(x)[name] = x[name]
    BY <2>2, <2>4, <2>5, <2>9
  <2> QED
    BY <2>1, <2>3, <2>10
<1>2. PICK p, q : p = c.policy /\ q = d.policy
  OBVIOUS
<1>3. /\ IsFun(p) /\ IsFun(q) /\ DOMAIN p = DOMAIN PolicyTypes /\ DOMAIN q = DOMAIN PolicyTypes
  BY <1>2 DEF TypedConfig, WellFormed
<1>4. \A name \in DOMAIN PolicyTypes \ {"input_features", "output_features", "pretrained_path"} :
        p[name] = q[name]
  BY <1>2
<1>5. Bare(p) = Bare(q)
  <2>1. \A name \in DOMAIN PolicyTypes : Bare(p)[name] = Bare(q)[name]
    BY <1>3, <1>4
  <2>2. /\ Bare(p) = [name \in DOMAIN PolicyTypes |-> Bare(p)[name]]
        /\ Bare(q) = [name \in DOMAIN PolicyTypes |-> Bare(q)[name]]
    BY <1>3 DEF IsFun
  <2> HIDE DEF Bare
  <2> QED
    BY <2>1, <2>2
<1> HIDE DEF Bare
<1>6. PICK x, y : x = Settings(c) /\ y = Settings(d)
  OBVIOUS
<1>7. x.policy = y.policy /\ \A name \in DOMAIN RunTypes : x[name] = y[name]
  BY <1>1, <1>2, <1>5, <1>6
<1> QED
  BY <1>6, <1>7, JsonAlike

(* The model that is built again for a checkpoint.                         *)
Rebuilt(c, by, place, data, map, policy) ==
  /\ Resumes(c, by, place)
  /\ c.root \in DOMAIN Datasets /\ c.root = by.config.root
  /\ map = by.session.rename
  /\ WellFormed(policy)
  /\ ~DeclaredOthers(saved[place]) =>
       policy.input_features = by.session.policy.input_features
  /\ policy.output_features = by.session.policy.output_features
  /\ \A name \in DOMAIN PolicyTypes \ {"input_features", "output_features", "pretrained_path"} :
       policy[name] = by.config.policy[name]

LEMMA RebuiltAt ==
  ASSUME RunInv, NEW place \in DOMAIN saved, place # Absent, NEW by, by = saved[place].by,
         NEW c \in FromCheckpoint(saved, place), NEW data, data = Datasets[c.root],
         NEW map, map = UsedMap(c, saved), NEW policy, policy = Resolved(c, data, map)
  PROVE  Rebuilt(c, by, place, data, map, policy)
<1>1. PICK checkpoint, d, t : /\ checkpoint = saved[place]
                              /\ d = by.config /\ t = by.session
  OBVIOUS
<1>2. SavedFits(checkpoint)
  BY <1>1 DEF RunInv
<1>3. /\ FromFile(checkpoint.config) = {AsWritten(d)}
      /\ Decoded(checkpoint.policy) = {t.policy}
      /\ SavedMap(checkpoint.preprocessor) = t.rename
      /\ checkpoint.weights = t.weights /\ checkpoint.optimizer = t.optimizer
      /\ checkpoint.rng = t.rng /\ checkpoint.step = t.step
      /\ TypedConfig(d) /\ SessionFits(d, t)
  <2>1. d = checkpoint.by.config /\ t = checkpoint.by.session
    BY <1>1
  <2>2. FromFile(checkpoint.config) = {AsWritten(d)}
    BY <1>2, <2>1, SavedSays
  <2>3. Decoded(checkpoint.policy) = {t.policy}
    BY <1>2, <2>1, SavedSays
  <2>4. /\ SavedMap(checkpoint.preprocessor) = t.rename
        /\ checkpoint.weights = t.weights /\ checkpoint.optimizer = t.optimizer
        /\ checkpoint.rng = t.rng /\ checkpoint.step = t.step
        /\ TypedConfig(d) /\ SessionFits(d, t)
    BY <1>2, <2>1, SavedSays
  <2> QED
    BY <2>2, <2>3, <2>4
<1>4. Resumes(c, by, place)
  <2>1. PICK checkpoints : checkpoints = saved
    OBVIOUS
  <2>2. SavedFits(checkpoints[place]) /\ by = checkpoints[place].by
        /\ c \in FromCheckpoint(checkpoints, place)
    BY <1>1, <1>2, <2>1
  <2> QED
    BY <2>2, ResumedIs
<1>5. PICK own, resolved, p : /\ own = d.policy /\ resolved = t.policy /\ p = c.policy
  OBVIOUS
<1>6. /\ TypedConfig(c) /\ c.resume = TRUE /\ c.checkpoint = place
      /\ c.root = d.root /\ p.pretrained_path = place /\ p = ResumedPolicy(own, resolved, place)
      /\ c.rename_map = d.rename_map
  BY <1>1, <1>4, <1>5, RunSettings DEF Resumes, RunTypes
<1>7. /\ WellFormed(p)
      /\ p.input_features \in {own.input_features, resolved.input_features}
      /\ Features(own.input_features) = Nothing => p.input_features = resolved.input_features
      /\ \A name \in DOMAIN PolicyTypes \ {"input_features", "output_features", "pretrained_path"} :
           p[name] = own[name]
  <2>1. WellFormed(own) /\ WellFormed(resolved)
    BY <1>3, <1>5 DEF TypedConfig, SessionFits
  <2> QED
    BY <1>6, <2>1, ResumedPolicyIs
<1>8. c.root \in DOMAIN Datasets /\ DatasetFits(data)
  BY <1>3, <1>6, RunAssumption DEF SessionFits
<1>9. map = t.rename
  <2>1. map = IF c.rename_map # Nothing THEN c.rename_map ELSE SavedMap(checkpoint.preprocessor)
    BY <1>1, <1>5, <1>6, <1>8 DEF UsedMap
  <2>2. c.rename_map # Nothing => t.rename = c.rename_map
    BY <1>3, <1>6 DEF SessionFits
  <2> QED
    BY <1>3, <2>1, <2>2
<1>10. /\ WellFormed(policy)
       /\ policy.input_features = Inputs(c, data, map) /\ policy.output_features = Outputs(data)
       /\ \A name \in DOMAIN PolicyTypes \ {"input_features", "output_features"} :
            policy[name] = c.policy[name]
  BY <1>6, <1>8, ResolvedIs
<1>11. t.policy.output_features = Outputs(data)
  BY <1>3, <1>6 DEF SessionFits
<1>12. ASSUME ~DeclaredOthers(checkpoint)
       PROVE  policy.input_features = resolved.input_features
  <2>1. PICK declared, found, kept : /\ declared = own.input_features
                                     /\ found = resolved.input_features
                                     /\ kept = p.input_features
    OBVIOUS
  <2>2. Features(declared) \in {Nothing, found}
    <3>1. PICK written : written = AsWritten(d)
      OBVIOUS
    <3>2. written.policy = own
      BY <1>3, <1>5, <3>1, AsWrittenTyped
    <3>3. written \in FromFile(checkpoint.config) /\ resolved \in Decoded(checkpoint.policy)
      BY <1>3, <1>5, <3>1
    <3>4. Features(written.policy.input_features) \in {Nothing, resolved.input_features}
      BY <1>12, <3>3 DEF DeclaredOthers
    <3> QED
      BY <2>1, <3>2, <3>4
  <2>3. Features(found) # Nothing
    <3>1. SeesSomething(resolved)
      BY <1>3, <1>5 DEF SessionFits
    <3> QED
      BY <2>1, <3>1 DEF SeesSomething, Nothing
  <2>4. kept = found
    <3>1. kept \in {declared, found} /\ (Features(declared) = Nothing => kept = found)
      BY <1>7, <2>1
    <3> QED
      BY <2>2, <3>1 DEF Features
  <2>5. Features(found) = found
    BY <2>3 DEF Features
  <2>6. policy.input_features = Inputs(c, data, map)
    BY <1>10
  <2>7. Inputs(c, data, map) = found
    <3>1. Features(c.policy.input_features) = found /\ c.policy.pretrained_path # Absent
      BY <1>5, <1>6, <2>1, <2>4, <2>5
    <3> QED
      BY <2>3, <2>5, <3>1 DEF Inputs
  <2> QED
    BY <2>1, <2>6, <2>7
<1>13. \A name \in DOMAIN PolicyTypes \ {"input_features", "output_features", "pretrained_path"} :
         policy[name] = d.policy[name]
  BY <1>5, <1>7, <1>10
<1> QED
  BY <1>1, <1>4, <1>5, <1>6, <1>8, <1>9, <1>10, <1>11, <1>12, <1>13 DEF Rebuilt

LEMMA ContinuesAt ==
  ASSUME RunInv, NEW place \in DOMAIN saved, NEW by, by = saved[place].by,
         NEW c \in FromCheckpoint(saved, place), Valid(c), NEW s \in Sessions(c, saved)
  PROVE  /\ s.weights = by.session.weights /\ s.optimizer = by.session.optimizer
         /\ s.rng = by.session.rng /\ s.step = by.session.step
         /\ s.groups = by.session.groups
         /\ s.rename = by.session.rename
         /\ ~DeclaredOthers(saved[place]) =>
              s.policy.input_features = by.session.policy.input_features
<1>1. PICK checkpoint, d, t : /\ checkpoint = saved[place]
                              /\ d = by.config /\ t = by.session
  OBVIOUS
<1>2. SavedFits(checkpoint)
  BY <1>1 DEF RunInv
<1>3. /\ FromFile(checkpoint.config) = {AsWritten(d)}
      /\ Decoded(checkpoint.policy) = {t.policy}
      /\ SavedMap(checkpoint.preprocessor) = t.rename
      /\ checkpoint.weights = t.weights /\ checkpoint.optimizer = t.optimizer
      /\ checkpoint.rng = t.rng /\ checkpoint.step = t.step
      /\ TypedConfig(d) /\ SessionFits(d, t)
  <2>1. d = checkpoint.by.config /\ t = checkpoint.by.session
    BY <1>1
  <2>2. FromFile(checkpoint.config) = {AsWritten(d)}
    BY <1>2, <2>1, SavedSays
  <2>3. Decoded(checkpoint.policy) = {t.policy}
    BY <1>2, <2>1, SavedSays
  <2>4. /\ SavedMap(checkpoint.preprocessor) = t.rename
        /\ checkpoint.weights = t.weights /\ checkpoint.optimizer = t.optimizer
        /\ checkpoint.rng = t.rng /\ checkpoint.step = t.step
        /\ TypedConfig(d) /\ SessionFits(d, t)
    BY <1>2, <2>1, SavedSays
  <2> QED
    BY <2>2, <2>3, <2>4
<1>4. Resumes(c, by, place)
  <2>1. PICK checkpoints : checkpoints = saved
    OBVIOUS
  <2>2. SavedFits(checkpoints[place]) /\ by = checkpoints[place].by
        /\ c \in FromCheckpoint(checkpoints, place)
    BY <1>1, <1>2, <2>1
  <2> QED
    BY <2>2, ResumedIs
<1>5. PICK own, resolved, p : /\ own = d.policy /\ resolved = t.policy /\ p = c.policy
  OBVIOUS
<1>6. /\ TypedConfig(c) /\ c.resume = TRUE /\ c.checkpoint = place /\ place # Absent
      /\ p.pretrained_path = place /\ p = ResumedPolicy(own, resolved, place)
      /\ c.rename_map = d.rename_map
  BY <1>1, <1>4, <1>5, RunSettings DEF Resumes, Valid, RunTypes
<1>7. /\ WellFormed(p)
      /\ p.input_features \in {own.input_features, resolved.input_features}
      /\ Features(own.input_features) = Nothing => p.input_features = resolved.input_features
      /\ \A name \in DOMAIN PolicyTypes \ {"input_features", "output_features", "pretrained_path"} :
           p[name] = own[name]
  <2>1. WellFormed(own) /\ WellFormed(resolved)
    BY <1>3, <1>5 DEF TypedConfig, SessionFits
  <2> QED
    BY <1>6, <2>1, ResumedPolicyIs
<1>8. PICK data, map : data = Datasets[c.root] /\ map = UsedMap(c, saved)
  OBVIOUS
<1>9. PICK policy : policy = Resolved(c, data, map)
  OBVIOUS
<1>10. /\ c.root \in DOMAIN Datasets
       /\ s.policy = policy /\ s.rename = map
       /\ s.weights = checkpoint.weights /\ s.optimizer = checkpoint.optimizer
       /\ s.rng = checkpoint.rng /\ s.step = checkpoint.step
  <2>1. PICK checkpoints, path : checkpoints = saved /\ path = c.policy.pretrained_path
    OBVIOUS
  <2>2. s \in Sessions(c, checkpoints) /\ map = UsedMap(c, checkpoints) /\ c.resume
    BY <1>6, <1>8, <2>1
  <2>3. OpensWith(c, checkpoints, s, data, map, policy)
    BY <1>8, <1>9, <2>2, SessionsAre
  <2> QED
    BY <1>1, <1>6, <2>1, <2>2, <2>3 DEF OpensWith
<1>11. s.groups = t.groups
  <2>1. s.groups = <<c.policy.optimizer_lr, c.policy.optimizer_lr_backbone>>
    <3>1. PICK checkpoints : checkpoints = saved
      OBVIOUS
    <3>2. ConfigFits(c, checkpoints) /\ s \in Sessions(c, checkpoints)
      BY <1>5, <1>6, <3>1 DEF ConfigFits
    <3>3. \A at \in DOMAIN checkpoints : SavedFits(checkpoints[at])
      BY <3>1 DEF RunInv
    <3>4. SessionFits(c, s)
      BY <3>2, <3>3, SessionsFit
    <3> QED
      BY <3>4 DEF SessionFits
  <2>2. t.groups = <<own.optimizer_lr, own.optimizer_lr_backbone>>
    BY <1>3, <1>5 DEF SessionFits
  <2>3. {"optimizer_lr", "optimizer_lr_backbone"}
          \subseteq DOMAIN PolicyTypes \ {"input_features", "output_features", "pretrained_path"}
    BY DEF PolicyTypes
  <2>4. /\ p["optimizer_lr"] = own["optimizer_lr"]
        /\ p["optimizer_lr_backbone"] = own["optimizer_lr_backbone"]
    BY <1>7, <2>3
  <2> QED
    BY <1>5, <2>1, <2>2, <2>4
<1>12. Rebuilt(c, by, place, data, map, policy)
  BY <1>6, <1>8, <1>9, RebuiltAt
<1>13. /\ map = t.rename
       /\ ~DeclaredOthers(checkpoint) => policy.input_features = resolved.input_features
  BY <1>1, <1>5, <1>12 DEF Rebuilt
<1> QED
  BY <1>1, <1>3, <1>5, <1>10, <1>11, <1>13

-----------------------------------------------------------------------------
(* The settings that decide which model is built, and its normalizer       *)

ModelSettings ==
  {"input_features", "output_features", "vision_backbone", "pretrained_backbone_weights",
   "replace_final_stride_with_dilation", "n_heads", "dim_model", "dim_feedforward", "pre_norm",
   "use_vae", "n_vae_encoder_layers", "n_encoder_layers", "latent_dim", "chunk_size",
   "feedforward_activation", "optimizer_lr", "optimizer_lr_backbone", "normalization_mapping"}

Alike(p, q) == \A name \in ModelSettings : p[name] = q[name]

LEMMA LayerAlike ==
  ASSUME NEW p, NEW q, p.dim_model = q.dim_model, p.dim_feedforward = q.dim_feedforward, 
         NEW of, NEW at, NEW attentions, NEW norms
  PROVE  Layer(of, at, p, attentions, norms) = Layer(of, at, q, attentions, norms)
BY DEF Layer

LEMMA EncoderAlike ==
  ASSUME NEW p, NEW q, p.dim_model = q.dim_model, p.dim_feedforward = q.dim_feedforward, p.pre_norm = q.pre_norm,
         NEW of, NEW count
  PROVE  EncoderLayers(of, count, p) = EncoderLayers(of, count, q)
<1> DEFINE L(policy, i) == Layer(of, <<i>>, policy, {"self_attn"}, {"norm1", "norm2"})
<1>1. \A i : L(p, i) = L(q, i)
  BY LayerAlike
<1> HIDE DEF L
<1>2. EncoderLayers(of, count, p) = (UNION {L(p, i) : i \in 1..count}) \cup IF p.pre_norm THEN Norm(of, <<>>, "norm", p.dim_model) ELSE {}
  BY DEF EncoderLayers, L
<1>3. EncoderLayers(of, count, q) = (UNION {L(q, i) : i \in 1..count}) \cup IF q.pre_norm THEN Norm(of, <<>>, "norm", q.dim_model) ELSE {}
  BY DEF EncoderLayers, L
<1> QED BY <1>1, <1>2, <1>3

LEMMA VaeAlike ==
  ASSUME NEW p, NEW q, p.dim_model = q.dim_model, p.dim_feedforward = q.dim_feedforward, p.pre_norm = q.pre_norm,
   p.input_features = q.input_features, p.output_features = q.output_features, p.latent_dim = q.latent_dim, 
   p.n_vae_encoder_layers = q.n_vae_encoder_layers
  PROVE  Vae(p) = Vae(q)
<1>1. \A count : EncoderLayers("vae", count, p) = EncoderLayers("vae", count, q)
  BY EncoderAlike
<1> QED BY <1>1 DEF Vae

LEMMA CamerasAlike ==
  ASSUME NEW p, NEW q, Alike(p, q)
  PROVE  Cameras(p) = Cameras(q)
<1>1. p["input_features"] = q["input_features"]
  BY DEF Alike, ModelSettings
<1> QED
  BY <1>1 DEF Cameras

LEMMA ParametersAlike ==
  ASSUME NEW p, NEW q, Alike(p, q)
  PROVE  Parameters(p) = Parameters(q) /\ Buffers(p) = Buffers(q)
<1>1. /\ p["dim_model"] = q["dim_model"] /\ p["dim_feedforward"] = q["dim_feedforward"]
      /\ p["pre_norm"] = q["pre_norm"] /\ p["input_features"] = q["input_features"]
      /\ p["output_features"] = q["output_features"] /\ p["latent_dim"] = q["latent_dim"]
      /\ p["n_vae_encoder_layers"] = q["n_vae_encoder_layers"]
      /\ p["n_encoder_layers"] = q["n_encoder_layers"] /\ p["use_vae"] = q["use_vae"]
      /\ p["chunk_size"] = q["chunk_size"] /\ p["vision_backbone"] = q["vision_backbone"]
  BY DEF Alike, ModelSettings
<1>2. Vae(p) = Vae(q)
  BY <1>1, VaeAlike
<1>3. EncoderLayers("encoder", p.n_encoder_layers, p) = EncoderLayers("encoder", q.n_encoder_layers, q)
  BY <1>1, EncoderAlike
<1>4. DecoderLayers(p) = DecoderLayers(q)
  BY <1>1, LayerAlike DEF DecoderLayers
<1>5. Cameras(p) = Cameras(q)
  BY CamerasAlike
<1>6. Parameters(p) = Parameters(q)
  <2> DEFINE Input(name, dim, inputs) ==
               IF Width(inputs, name) > 0
               THEN Linear("model", <<>>, name, dim, Width(inputs, name)) ELSE {}
             Tokens(inputs) == 1 + Cardinality(DOMAIN inputs \cap {"state", "environment"})
             All(vae, encoder, decoder, dim, inputs, latent, width, chunk, cameras, backbone) ==
               vae \cup encoder \cup decoder
                 \cup Input("state", dim, inputs) \cup Input("environment", dim, inputs)
                 \cup Linear("model", <<>>, "latent", dim, latent)
                 \cup Linear("model", <<>>, "action_head", width, dim)
                 \cup {Tensor("model", <<>>, "encoder_positions", "weight", <<Tokens(inputs), dim>>),
                       Tensor("model", <<>>, "decoder_positions", "weight", <<chunk, dim>>)}
                 \cup (IF cameras = {} THEN {}
                       ELSE Backbone(backbone) \cup Linear("model", <<>>, "image", dim, 512))
             Built(policy) ==
               All(IF policy.use_vae THEN Vae(policy) ELSE {},
                   EncoderLayers("encoder", policy.n_encoder_layers, policy),
                   DecoderLayers(policy), policy.dim_model, Features(policy.input_features),
                   policy.latent_dim, Width(policy.output_features, Action), policy.chunk_size,
                   Cameras(policy), policy.vision_backbone)
  <2>1. Parameters(p) = Built(p) /\ Parameters(q) = Built(q)
    BY DEF Parameters
  <2> HIDE DEF All
  <2>2. Built(p) = Built(q)
    BY <1>1, <1>2, <1>3, <1>4, <1>5
  <2> QED
    BY <2>1, <2>2
<1>7. VaeTokens(p) = VaeTokens(q)
  BY <1>1 DEF VaeTokens
<1>8. Buffers(p) = Buffers(q)
  <2> DEFINE Saved(parameters, use, tokens, dim) ==
               {Tensor("backbone", t.at, t.name, part, <<t.shape[1]>>) :
                  t \in {t \in parameters : t.of = "backbone"},
                  part \in {"scale", "shift", "mean", "var"}}
                 \cup (IF use
                       THEN {Tensor("model", <<>>, "vae_positions", "table", <<1, tokens, dim>>)}
                       ELSE {})
  <2>1. /\ Buffers(p) = Saved(Parameters(p), p.use_vae, VaeTokens(p), p.dim_model)
        /\ Buffers(q) = Saved(Parameters(q), q.use_vae, VaeTokens(q), q.dim_model)
    BY DEF Buffers
  <2> HIDE DEF Saved
  <2> QED
    BY <1>1, <1>6, <1>7, <2>1
<1> QED
  BY <1>6, <1>8

LEMMA ModelAlike ==
  ASSUME NEW p, NEW q, Alike(p, q), ModelFits(p)
  PROVE  ModelFits(q)
<1>1. /\ p["dim_model"] = q["dim_model"] /\ p["n_heads"] = q["n_heads"]
      /\ p["input_features"] = q["input_features"] /\ p["output_features"] = q["output_features"]
      /\ p["vision_backbone"] = q["vision_backbone"]
      /\ p["pretrained_backbone_weights"] = q["pretrained_backbone_weights"]
      /\ p["replace_final_stride_with_dilation"] = q["replace_final_stride_with_dilation"]
      /\ p["feedforward_activation"] = q["feedforward_activation"]
  BY DEF Alike, ModelSettings
<1>2. CamerasFit(q)
  BY <1>1, CamerasAlike DEF ModelFits, ShapeFits, CamerasFit
<1>3. ShapeFits(q)
  BY <1>1, <1>2, CamerasAlike DEF ModelFits, ShapeFits
<1>4. Affordable(Parameters(q) \cup Buffers(q))
  BY ParametersAlike DEF ModelFits
<1> QED
  BY <1>1, <1>3, <1>4 DEF ModelFits

LEMMA NormalizedAlike ==
  ASSUME NEW p, NEW q, Alike(p, q), NEW stats
  PROVE  /\ Scalars(p) = Scalars(q)
         /\ Normalized(p, stats) = Normalized(q, stats)
         /\ NormalizerFits(p, stats) => NormalizerFits(q, stats)
<1>1. /\ p["input_features"] = q["input_features"] /\ p["output_features"] = q["output_features"]
      /\ p["normalization_mapping"] = q["normalization_mapping"]
  BY DEF Alike, ModelSettings
<1>2. Scalars(p) = Scalars(q)
  BY <1>1 DEF Scalars
<1>3. \A feature : Mode(p, feature) = Mode(q, feature)
  BY <1>1 DEF Mode
<1>4. Normalized(p, stats) = Normalized(q, stats)
  BY <1>2, <1>3 DEF Normalized
<1>5. NormalizerFits(p, stats) => NormalizerFits(q, stats)
  BY <1>2, <1>3, <1>4 DEF NormalizerFits
<1> QED
  BY <1>2, <1>4, <1>5

(* AdamW::new takes whatever groups there are.                             *)
LEMMA GroupsAlwaysFit ==
  ASSUME NEW policy
  PROVE  GroupsFit(Groups(policy), policy)
<1>1. PICK all, rest, backbone : /\ all = Parameters(policy)
                        /\ rest = {t \in all : t.of # "backbone"}
                        /\ backbone = {t \in all : t.of = "backbone"}
  OBVIOUS
<1>2. PICK g, h : /\ g = [params |-> rest, lr |-> policy.optimizer_lr]
                  /\ h = [params |-> backbone, lr |-> policy.optimizer_lr_backbone]
  OBVIOUS
<1>3. Groups(policy) = {g, h}
  BY <1>1, <1>2 DEF Groups
<1>4. g.params = rest /\ h.params = backbone
  BY <1>2
<1>5. rest \cup backbone = all /\ rest \cap backbone = {}
  BY <1>1
<1>6. UNION {x.params : x \in {g, h}} = all
  BY <1>4, <1>5
<1> QED
  BY <1>1, <1>3, <1>4, <1>5, <1>6 DEF GroupsFit

-----------------------------------------------------------------------------
(* What lets a run be resumed                                              *)

Resumable(c, s) ==
  /\ c.output_dir \in OutputDirs
  /\ c.episodes # Absent => Range(c.episodes) \subseteq Datasets[c.root].episodes
  /\ s.step \in Nat /\ s.optimizer.steps \in Nat /\ DOMAIN s.optimizer = {"built", "steps"}
  /\ \A name \in DOMAIN PolicyTypes \ {"input_features", "output_features"} :
       s.policy[name] = c.policy[name]
  /\ ModelFits(s.policy)
  /\ WeightsFit(s.weights, s.policy)
  /\ Parameters(s.optimizer.built) = Parameters(s.policy)
  /\ NormalizerFits(s.policy, s.stats)
  /\ OfDatasetAlone(c, s) => DOMAIN s.cameras \cap DOMAIN Scalars(s.policy) = {}

SavedResumable(checkpoint) ==
  /\ Resumable(checkpoint.by.config, checkpoint.by.session)
  /\ checkpoint.by.session.optimizer.steps > 0

ResumeInv ==
  /\ RunInv
  /\ \A place \in DOMAIN saved : place \in OutputDirs \X Nat /\ SavedResumable(saved[place])
  /\ config # Absent => config.output_dir \in OutputDirs
  /\ session # Absent => Resumable(config, session)

(* Where a run writes is what its command or its file named.               *)
LEMMA DirectoryOverridden ==
  ASSUME NEW c, TypedConfig(c), NEW command \in Commands,
         FlagsFit(command.flags, RunTypes),
         NEW new, new = Overridden(c, command)
  PROVE  new.output_dir \in OutputDirs \cup {c.output_dir}
<1>1. PICK given : given = Values(command.flags, RunTypes)
  OBVIOUS
<1>2. PICK all : all = Over(given, c)
  OBVIOUS
<1>3. DOMAIN given = DOMAIN command.flags /\ DOMAIN given \subseteq DOMAIN RunTypes
  BY <1>1 DEF Values, FlagsFit
<1>4. "output_dir" \in DOMAIN RunTypes /\ RunTypes["output_dir"] = "text"
  BY DEF RunTypes
<1>5. PICK policy : policy = PolicyOverridden(all.policy, Values(command.policyFlags, PolicyFlags))
  OBVIOUS
<1>6. new = [all EXCEPT !["policy"] = policy]
  BY <1>1, <1>2, <1>5 DEF Overridden
<1>7. "output_dir" \in DOMAIN c /\ "output_dir" \in DOMAIN all /\ "policy" \in DOMAIN all
  BY <1>2, <1>4 DEF Over, TypedConfig
<1>8. new["output_dir"] = all["output_dir"]
  BY <1>6, <1>7
<1>9. CASE "output_dir" \in DOMAIN given
  <2>1. all["output_dir"] = given["output_dir"]
    BY <1>2, <1>9 DEF Over
  <2>2. given["output_dir"] = Only(FlagValues("output_dir", "text", command.flags["output_dir"]))
    BY <1>1, <1>3, <1>4, <1>9 DEF Values
  <2>3. given["output_dir"] \in OutputDirs
    BY <1>3, <1>9, <2>2 DEF OutputDirs
  <2> QED
    BY <1>8, <2>1, <2>3
<1>10. CASE "output_dir" \notin DOMAIN given
  BY <1>2, <1>7, <1>8, <1>10 DEF Over
<1> QED
  BY <1>9, <1>10

LEMMA BegunPlaced ==
  ASSUME RunInv, \A place \in DOMAIN saved : saved[place].by.config.output_dir \in OutputDirs,
         NEW command \in Commands, NEW c \in Begun(command)
  PROVE  c.output_dir \in OutputDirs
<1>1. c \in Parsed(command, saved, last)
  BY DEF Begun
<1>2. FlagsFit(command.flags, RunTypes) /\ FlagsFit(command.policyFlags, PolicyFlags)
  BY <1>1 DEF Parsed
<1>3. "output_dir" \in DOMAIN RunTypes /\ RunTypes["output_dir"] = "text"
  BY DEF RunTypes
<1>4. CASE c \in ResumeOverridden(command, saved, last)
  <2>1. PICK own \in ResumeConfig(command, saved, last) : c = Overridden(own, command)
    BY <1>4 DEF ResumeOverridden
  <2>2. PICK place \in Resolve(command.config, saved, last) : own \in FromCheckpoint(saved, place)
    BY <2>1 DEF ResumeConfig
  <2>3. place \in DOMAIN saved
    BY <2>2 DEF Resolve, RunInv
  <2>4. PICK checkpoints, by, d : /\ checkpoints = saved /\ by = checkpoints[place].by
                                  /\ d = by.config
    OBVIOUS
  <2>5. SavedFits(checkpoints[place]) /\ own \in FromCheckpoint(checkpoints, place)
    BY <2>2, <2>3, <2>4 DEF RunInv
  <2>6. Resumes(own, by, place)
    BY <2>4, <2>5, ResumedIs
  <2>7. TypedConfig(own) /\ own["output_dir"] = d["output_dir"]
    BY <1>3, <2>4, <2>6 DEF Resumes
  <2>8. d.output_dir \in OutputDirs
    BY <2>3, <2>4
  <2> QED
    BY <1>2, <2>1, <2>7, <2>8, DirectoryOverridden
<1>5. CASE c \in FileConfig(command, saved)
  <2>1. PICK path : path = command.config
    OBVIOUS
  <2>2. PICK own \in FromFile(Document(path, saved)) : c = Overridden(own, command)
    BY <1>5, <2>1 DEF FileConfig
  <2>3. TypedConfig(own)
    BY <2>2, DocumentTyped DEF RunInv
  <2>4. own.output_dir \in OutputDirs
    <3>1. CASE path.form = "document" /\ path.place \in DOMAIN saved
      <4>1. PICK checkpoint, d : checkpoint = saved[path.place] /\ d = checkpoint.by.config
        OBVIOUS
      <4>2. SavedFits(checkpoint)
        BY <3>1, <4>1 DEF RunInv
      <4>3. FromFile(checkpoint.config) = {AsWritten(d)} /\ TypedConfig(d)
        BY <4>1, <4>2, SavedSays
      <4>4. own = AsWritten(d)
        BY <2>2, <3>1, <4>1, <4>3 DEF Document
      <4>5. own["output_dir"] = d["output_dir"]
        BY <1>3, <4>3, <4>4, AsWrittenTyped
      <4>6. d.output_dir \in OutputDirs
        BY <3>1, <4>1
      <4> QED
        BY <4>5, <4>6
    <3>2. CASE path.form = "file" /\ path.place \in DOMAIN Files
      <4>1. own \in FromFile(Files[path.place])
        BY <2>2, <3>2 DEF Document
      <4> QED
        BY <3>2, <4>1 DEF OutputDirs
    <3>3. CASE /\ ~(path.form = "document" /\ path.place \in DOMAIN saved)
               /\ ~(path.form = "file" /\ path.place \in DOMAIN Files)
      BY <2>2, <3>3, NoDocument DEF Document
    <3> QED
      BY <3>1, <3>2, <3>3
  <2> QED
    BY <1>2, <2>2, <2>3, <2>4, DirectoryOverridden
<1>6. CASE c \in FlagConfig(command, saved)
  <2>1. PICK policy \in PathPolicy(command, saved) :
          c = Overridden(Over([policy |-> policy, root |-> Absent, output_dir |-> Absent], NewConfig),
                         command)
    BY <1>6 DEF FlagConfig
  <2>2. "output_dir" \in DOMAIN command.flags
    BY <1>6 DEF FlagConfig
  <2>3. PICK own, given : /\ own = Over([policy |-> policy, root |-> Absent, output_dir |-> Absent],
                                        NewConfig)
                          /\ given = Values(command.flags, RunTypes)
    OBVIOUS
  <2>4. PICK all : all = Over(given, own)
    OBVIOUS
  <2>5. PICK rest : rest = PolicyOverridden(all.policy, Values(command.policyFlags, PolicyFlags))
    OBVIOUS
  <2>6. c = [all EXCEPT !["policy"] = rest]
    BY <2>1, <2>3, <2>4, <2>5 DEF Overridden
  <2>7. DOMAIN given = DOMAIN command.flags /\ "output_dir" \in DOMAIN all
    BY <2>2, <2>3, <2>4 DEF Values, Over
  <2>8. c["output_dir"] = all["output_dir"]
    BY <2>6, <2>7
  <2>9. all["output_dir"] = given["output_dir"]
    BY <2>2, <2>4, <2>7 DEF Over
  <2>10. given["output_dir"] = Only(FlagValues("output_dir", "text", command.flags["output_dir"]))
    BY <1>3, <2>2, <2>3 DEF Values
  <2> QED
    BY <2>2, <2>8, <2>9, <2>10 DEF OutputDirs
<1> QED
  BY <1>1, <1>4, <1>5, <1>6 DEF Parsed

(* The dataset's cameras are the policy's when it goes on from nothing.    *)
LEMMA CamerasAreNoScalars ==
  ASSUME NEW c, NEW data, DatasetFits(data), NEW path, path = c.policy.pretrained_path,
         path = Absent, NEW policy, policy.input_features = Inputs(c, data, Nothing),
         policy.output_features = Outputs(data), SeesSomething(policy)
  PROVE  Visual(data.features) \cap DOMAIN Scalars(policy) = {}
<1> SUFFICES ASSUME NEW name \in Visual(data.features), name \in DOMAIN Scalars(policy)
             PROVE  FALSE
  OBVIOUS
<1>1. name \in DOMAIN data.features /\ data.features[name].type = "VISUAL"
  BY DEF Visual
<1>2. name \notin Actions(data)
  BY <1>1 DEF Actions
<1>3. PICK inputs, outputs : /\ inputs = Features(policy.input_features)
                             /\ outputs = Features(policy.output_features)
  OBVIOUS
<1>4. inputs = Inputs(c, data, Nothing)
  BY <1>3 DEF SeesSomething, Features, Nothing
<1>5. DOMAIN outputs \subseteq Actions(data)
  BY <1>3 DEF Features, Nothing, Outputs, Restricted
<1>6. PICK declared, own : /\ declared = Features(c.policy.input_features)
                           /\ own = DOMAIN data.features \ Actions(data)
  OBVIOUS
<1>7. PICK map : map = Nothing
  OBVIOUS
<1>8. \A n : RenamedKey(map, n) = n
  BY <1>7 DEF RenamedKey, Nothing
<1>9. PICK names : names = {RenamedKey(map, n) : n \in own}
  OBVIOUS
<1>10. PICK kept, renamed :
         /\ kept = Restricted(declared, Visual(declared))
         /\ renamed = [n \in names |->
                         data.features[LastOf(data, {m \in own : RenamedKey(map, m) = n})]]
  OBVIOUS
<1>11. inputs = Over(kept, renamed)
  BY <1>4, <1>6, <1>7, <1>9, <1>10 DEF Inputs
<1>12. name \in names /\ renamed[name] = data.features[name]
  <2>1. name \in own /\ name \in names
    BY <1>1, <1>2, <1>6, <1>8, <1>9
  <2>2. {m \in own : RenamedKey(map, m) = name} = {name}
    BY <1>8, <2>1
  <2>3. LastOf(data, {name}) = name
    <3>1. {name} \in SUBSET DOMAIN data.features /\ {name} # {}
      BY <1>1
    <3>2. LastOf(data, {name}) \in {name}
      BY <3>1, LastOfIn
    <3> QED
      BY <3>2
  <2> QED
    BY <1>10, <2>1, <2>2, <2>3
<1>13. name \in DOMAIN inputs /\ inputs[name].type = "VISUAL"
  <2>1. CASE name \in DOMAIN kept
    BY <1>10, <1>11, <2>1 DEF Over, Restricted, Visual
  <2>2. CASE name \notin DOMAIN kept
    <3>1. name \in DOMAIN renamed /\ renamed[name] = data.features[name]
      BY <1>10, <1>12
    <3> QED
      BY <1>1, <1>11, <2>2, <3>1 DEF Over
  <2> QED
    BY <2>1, <2>2
<1>14. PICK all : all = Over(outputs, inputs)
  OBVIOUS
<1>15. name \in DOMAIN all /\ all[name] = inputs[name]
  BY <1>2, <1>5, <1>13, <1>14 DEF Over
<1>16. name \notin DOMAIN Restricted(all, DOMAIN all \ Visual(all))
  BY <1>13, <1>15 DEF Restricted, Visual
<1> QED
  BY <1>3, <1>14, <1>16 DEF Scalars

LEMMA SessionsResumable ==
  ASSUME NEW checkpoints,
         \A place \in DOMAIN checkpoints :
           SavedFits(checkpoints[place]) /\ SavedResumable(checkpoints[place]),
         NEW c, ConfigFits(c, checkpoints), c.output_dir \in OutputDirs,
         NEW s \in Sessions(c, checkpoints)
  PROVE  Resumable(c, s)
<1>1. PICK data, path : data = Datasets[c.root] /\ path = c.policy.pretrained_path
  OBVIOUS
<1>2. PICK map : map = UsedMap(c, checkpoints)
  OBVIOUS
<1>3. PICK policy : policy = Resolved(c, data, map)
  OBVIOUS
<1>4. OpensWith(c, checkpoints, s, data, map, policy)
  BY <1>1, <1>2, <1>3, SessionsAre
<1>5. /\ TypedConfig(c) /\ Valid(c) /\ c.root \in DOMAIN Datasets /\ s.policy = policy
      /\ ModelFits(policy) /\ SeesSomething(policy) /\ NormalizerFits(policy, s.stats)
  BY <1>4 DEF ConfigFits, OpensWith
<1>6. c.resume => path # Absent /\ path = c.checkpoint /\ path \in DOMAIN checkpoints
  BY <1>1 DEF ConfigFits, Valid
<1>7. DatasetFits(data)
  BY <1>1, <1>5, RunAssumption
<1>8. /\ policy.input_features = Inputs(c, data, map) /\ policy.output_features = Outputs(data)
      /\ \A name \in DOMAIN PolicyTypes \ {"input_features", "output_features"} :
           policy[name] = c.policy[name]
  BY <1>3, <1>5, <1>7, ResolvedIs
<1>9. c.episodes # Absent => Range(c.episodes) \subseteq data.episodes
  BY <1>1, <1>4 DEF OpensWith, Refuses
<1>10. /\ s.step \in Nat /\ s.optimizer.steps \in Nat /\ DOMAIN s.optimizer = {"built", "steps"}
       /\ Parameters(s.optimizer.built) = Parameters(policy)
  <2>1. CASE c.resume
    <3>1. PICK checkpoint, d, t : /\ checkpoint = checkpoints[path]
                                  /\ d = checkpoint.by.config /\ t = checkpoint.by.session
      OBVIOUS
    <3>2. SavedFits(checkpoint) /\ SavedResumable(checkpoint)
      BY <1>6, <2>1, <3>1
    <3>3. checkpoint.optimizer = t.optimizer /\ checkpoint.step = t.step
      BY <3>1, <3>2, SavedSays
    <3>4. s.optimizer = t.optimizer /\ s.step = t.step
      BY <1>4, <1>6, <2>1, <3>1, <3>3 DEF OpensWith
    <3>5. /\ t.step \in Nat /\ t.optimizer.steps \in Nat /\ t.optimizer.steps > 0
          /\ DOMAIN t.optimizer = {"built", "steps"}
      BY <3>1, <3>2 DEF SavedResumable, Resumable
    <3>6. OptimizerFits(checkpoint.optimizer, policy)
      <4>1. ~Refuses(c, checkpoints)
        BY <1>4 DEF OpensWith
      <4>2. OptimizerFits(checkpoints[c.checkpoint].optimizer, policy)
        BY <1>1, <1>2, <1>3, <2>1, <4>1 DEF Refuses
      <4> QED
        BY <1>6, <2>1, <3>1, <4>2
    <3> QED
      BY <3>3, <3>4, <3>5, <3>6 DEF OptimizerFits
  <2>2. CASE ~c.resume
    <3>1. s.optimizer = [built |-> policy, steps |-> 0] /\ s.step = 0
      BY <1>4, <2>2 DEF OpensWith
    <3> QED
      BY <3>1
  <2> QED
    BY <2>1, <2>2
<1>11. WeightsFit(s.weights, policy)
  <2>1. CASE path = Absent
    <3>1. s.weights = [built |-> policy, trained |-> Absent]
      BY <1>1, <1>4, <1>6, <2>1 DEF OpensWith, Weights
    <3> QED
      BY <3>1 DEF WeightsFit
  <2>2. CASE path # Absent
    <3>1. s.weights = checkpoints[path].weights
      BY <1>1, <1>4, <1>6, <2>2 DEF OpensWith, Weights
    <3> QED
      BY <1>1, <1>2, <1>3, <1>4, <2>2, <3>1 DEF OpensWith, Refuses
  <2> QED
    BY <2>1, <2>2
<1>12. ASSUME OfDatasetAlone(c, s)
       PROVE  DOMAIN s.cameras \cap DOMAIN Scalars(policy) = {}
  <2>1. DOMAIN s.cameras \subseteq Visual(data.features) /\ s.stats = data.stats
    BY <1>1, <1>12 DEF OfDatasetAlone, DatasetCameras
  <2>2. CASE path = Absent
    <3>1. map = Nothing
      <4>1. c.rename_map # Nothing => path # Absent
        BY <1>1, <1>5 DEF Valid
      <4>2. map = IF c.rename_map # Nothing THEN c.rename_map
                  ELSE IF path # Absent THEN SavedMap(checkpoints[path].preprocessor)
                  ELSE Nothing
        BY <1>1, <1>2 DEF UsedMap
      <4> QED
        BY <2>2, <4>1, <4>2
    <3>2. Visual(data.features) \cap DOMAIN Scalars(policy) = {}
      <4>1. /\ policy.input_features = Inputs(c, data, Nothing)
            /\ policy.output_features = Outputs(data) /\ SeesSomething(policy)
        BY <1>5, <1>8, <3>1
      <4> QED
        BY <1>1, <1>7, <2>2, <4>1, CamerasAreNoScalars
    <3> QED
      BY <2>1, <3>2
  <2>3. CASE path # Absent
    <3>1. DOMAIN s.cameras \subseteq DOMAIN s.stats
      BY <1>1, <1>4, <2>3 DEF OpensWith, SavedCameras, Restricted
    <3>2. DOMAIN data.stats \cap Visual(data.features) = {}
      BY <1>7 DEF DatasetFits
    <3> QED
      BY <2>1, <3>1, <3>2
  <2> QED
    BY <2>2, <2>3
<1> QED
  BY <1>1, <1>5, <1>8, <1>9, <1>10, <1>11, <1>12 DEF Resumable

LEMMA TrainedOn ==
  ASSUME NEW s, s = session, IsFun(s), DOMAIN s = SessionFields,
         DOMAIN s.weights = {"built", "trained"}, DOMAIN s.optimizer = {"built", "steps"},
         NEW t, t = Trained
  PROVE  /\ t.step = s.step + 1
         /\ t.weights.built = s.weights.built
         /\ DOMAIN t.optimizer = {"built", "steps"}
         /\ t.optimizer.built = s.optimizer.built
         /\ t.optimizer.steps = s.optimizer.steps + 1
<1>1. PICK trained : trained = Normalizations(s, Datasets[config.root])
  OBVIOUS
<1>2. PICK weights, optimizer, rng, step :
        /\ weights = [s.weights EXCEPT !["trained"] = trained]
        /\ optimizer = [s.optimizer EXCEPT !["steps"] = @ + 1]
        /\ rng = [s.rng EXCEPT !["drawn"] = @ + 1]
        /\ step = s.step + 1
  OBVIOUS
<1>3. t = [s EXCEPT !["step"] = step, !["weights"] = weights,
                    !["optimizer"] = optimizer, !["rng"] = rng]
  BY <1>1, <1>2 DEF Trained, SessionFields
<1>4. weights.built = s.weights.built
  BY <1>2
<1>5. /\ DOMAIN optimizer = {"built", "steps"} /\ optimizer.built = s.optimizer.built
      /\ optimizer.steps = s.optimizer.steps + 1
  BY <1>2
<1>6. {"step", "weights", "optimizer", "rng"} \subseteq DOMAIN s
  BY DEF SessionFields
<1>7. t["step"] = step /\ t["weights"] = weights /\ t["optimizer"] = optimizer
  BY <1>3, <1>6
<1> QED
  BY <1>2, <1>4, <1>5, <1>7

LEMMA TrainedResumable ==
  ASSUME NEW s, s = session, NEW c, c = config, SessionFits(c, s), Resumable(c, s),
         NEW t, t = Trained
  PROVE  Resumable(c, t) /\ t.optimizer.steps > 0
<1>1. PICK data : data = Datasets[c.root]
  OBVIOUS
<1>2. /\ IsFun(s) /\ DOMAIN s = SessionFields /\ DOMAIN s.weights = {"built", "trained"}
      /\ DOMAIN s.optimizer = {"built", "steps"}
  BY DEF SessionFits, Resumable
<1>3. /\ t.policy = s.policy /\ t.rename = s.rename /\ t.stats = s.stats
      /\ t.cameras = s.cameras
  BY <1>1, <1>2, TrainedIs
<1>4. /\ t.step = s.step + 1
      /\ t.weights.built = s.weights.built
      /\ DOMAIN t.optimizer = {"built", "steps"}
      /\ t.optimizer.built = s.optimizer.built
      /\ t.optimizer.steps = s.optimizer.steps + 1
  BY <1>2, TrainedOn
<1>5. /\ s.step \in Nat /\ s.optimizer.steps \in Nat
  BY DEF Resumable
<1>6. t.step \in Nat /\ t.optimizer.steps \in Nat /\ t.optimizer.steps > 0
  BY <1>4, <1>5
<1>7. WeightsFit(t.weights, t.policy)
  BY <1>3, <1>4 DEF Resumable, WeightsFit
<1>8. OfDatasetAlone(c, t) => OfDatasetAlone(c, s)
  BY <1>3 DEF OfDatasetAlone
<1> QED
  BY <1>3, <1>4, <1>6, <1>7, <1>8 DEF Resumable

(* The new parts of the invariant.                                         *)
LEMMA PlacesKept ==
  ASSUME ResumeInv, RunNext
  PROVE  ResumeInv'
<1>1. RunInv /\ RunInv'
  BY RunInvKept DEF ResumeInv
<1>2. CASE \E command \in Commands : Start(command)
  <2>1. PICK command \in Commands : Start(command)
    BY <1>2
  <2>2. UNCHANGED <<saved, last, session>> /\ config = Absent /\ session = Absent
    BY <1>1, <2>1 DEF Start, RunInv
  <2>3. CASE \E c \in Begun(command) : config' = c
    <3>1. PICK c \in Begun(command) : config' = c
      BY <2>3
    <3>2. \A place \in DOMAIN saved : saved[place].by.config.output_dir \in OutputDirs
      BY DEF ResumeInv, SavedResumable, Resumable
    <3>3. c.output_dir \in OutputDirs
      BY <1>1, <3>1, <3>2, BegunPlaced
    <3> QED
      BY <1>1, <2>2, <3>1, <3>3 DEF ResumeInv
  <2>4. CASE UNCHANGED config
    BY <1>1, <2>2, <2>4 DEF ResumeInv
  <2> QED
    BY <2>1, <2>3, <2>4 DEF Start
<1>3. CASE Open
  <2>1. UNCHANGED <<saved, last>> /\ config # Absent /\ session = Absent
    BY <1>3 DEF Open
  <2>2. CASE \E s \in Sessions(config, saved) : session' = s /\ UNCHANGED config
    <3>1. PICK s \in Sessions(config, saved) : session' = s /\ UNCHANGED config
      BY <2>2
    <3>2. Resumable(config, s)
      <4>1. PICK c, checkpoints : c = config /\ checkpoints = saved
        OBVIOUS
      <4>2. ConfigFits(c, checkpoints) /\ c.output_dir \in OutputDirs /\ s \in Sessions(c, checkpoints)
        BY <1>1, <2>1, <3>1, <4>1 DEF ResumeInv, RunInv
      <4>3. \A place \in DOMAIN checkpoints :
              SavedFits(checkpoints[place]) /\ SavedResumable(checkpoints[place])
        BY <1>1, <4>1 DEF ResumeInv, RunInv
      <4>4. Resumable(c, s)
        BY <4>2, <4>3, SessionsResumable
      <4> QED
        BY <4>1, <4>4
    <3> QED
      BY <1>1, <2>1, <3>1, <3>2 DEF ResumeInv
  <2>3. CASE config' = Absent /\ UNCHANGED session
    BY <1>1, <2>1, <2>3 DEF ResumeInv
  <2> QED
    BY <1>3, <2>2, <2>3 DEF Open
<1>4. CASE End
  BY <1>1, <1>4 DEF ResumeInv, End
<1>5. CASE TrainStep
  <2>1. session # Absent
    BY <1>5 DEF TrainStep
  <2>2. config # Absent /\ SessionFits(config, session) /\ Resumable(config, session)
    BY <1>1, <2>1 DEF ResumeInv, RunInv
  <2>3. PICK c, s, t : c = config /\ s = session /\ t = Trained
    OBVIOUS
  <2>4. Resumable(c, t) /\ t.optimizer.steps > 0
    BY <2>2, <2>3, TrainedResumable
  <2>5. PICK place : place = <<config.output_dir, session.step + 1>>
    OBVIOUS
  <2>6. CASE ~ShouldSave(config, session.step + 1)
    <3>1. session' = t /\ UNCHANGED <<saved, last, config, commands>>
      BY <1>5, <2>3, <2>6 DEF TrainStep
    <3> QED
      BY <1>1, <2>3, <2>4, <3>1 DEF ResumeInv
  <2>7. CASE ShouldSave(config, session.step + 1) /\ place \in DOMAIN saved
    BY <1>4, <1>5, <2>5, <2>7 DEF TrainStep
  <2>8. CASE ShouldSave(config, session.step + 1) /\ place \notin DOMAIN saved
    <3>1. /\ session' = t /\ UNCHANGED <<config, commands>>
          /\ saved' = Over([p \in {place} |-> Checkpoint(c, t)], saved)
      BY <1>5, <2>3, <2>5, <2>8 DEF TrainStep
    <3>2. PICK checkpoint : checkpoint = Checkpoint(c, t)
      OBVIOUS
    <3>3. /\ DOMAIN saved' = {place} \cup DOMAIN saved
          /\ saved'[place] = checkpoint
          /\ \A p \in DOMAIN saved : saved'[p] = saved[p]
      BY <2>8, <3>1, <3>2 DEF Over
    <3>4. checkpoint.by = [config |-> c, session |-> t]
      BY <3>2 DEF Checkpoint
    <3>5. checkpoint.by.config = c /\ checkpoint.by.session = t
      BY <3>4
    <3>6. SavedResumable(checkpoint)
      BY <2>4, <3>5 DEF SavedResumable
    <3>7. place \in OutputDirs \X Nat
      BY <2>2, <2>5 DEF Resumable
    <3>8. \A p \in DOMAIN saved' : p \in OutputDirs \X Nat /\ SavedResumable(saved'[p])
      BY <3>3, <3>6, <3>7 DEF ResumeInv
    <3> QED
      BY <1>1, <2>2, <2>3, <2>4, <3>1, <3>8 DEF ResumeInv
  <2> QED
    BY <2>6, <2>7, <2>8
<1> QED
  BY <1>2, <1>3, <1>4, <1>5 DEF RunNext, StepFails, Finish, Kill

LEMMA ResumeInvariance == RunSpec => []ResumeInv
<1>1. RunInit => ResumeInv
  BY Initially DEF RunInit, ResumeInv
<1>2. ResumeInv /\ [RunNext]_runVars => ResumeInv'
  <2>1. ASSUME ResumeInv, UNCHANGED runVars PROVE ResumeInv'
    <3>1. RunInv'
      BY <2>1, RunInvKept DEF ResumeInv
    <3> QED
      BY <2>1, <3>1 DEF ResumeInv, runVars
  <2> QED
    BY <2>1, PlacesKept
<1> QED
  BY <1>1, <1>2, PTL DEF RunSpec

-----------------------------------------------------------------------------
(* What is saved can be resumed                                            *)

LEMMA StepIs ==
  ASSUME NEW name, NEW settings, NEW state, NEW step, step = Step(name, settings, state)
  PROVE  step.registry_name = name /\ step.state_file = state
BY DEF Step

LEMMA ProcessorsAlwaysFit ==
  ASSUME NEW c, NEW s, NEW checkpoint, checkpoint = Checkpoint(c, s), Readable(checkpoint.stats)
  PROVE  ProcessorsFit(checkpoint)
<1>1. PICK pre, post : /\ pre = Preprocessor(s.policy, s.rename)
                       /\ post = Postprocessor(s.policy)
  OBVIOUS
<1>2. checkpoint.preprocessor = pre /\ checkpoint.postprocessor = post
  BY <1>1 DEF Checkpoint
<1>3. PICK stepA, stepB, stepD, stepE, stepF, stepG :
        /\ stepA = PreprocessorSteps[1] /\ stepB = PreprocessorSteps[2]
        /\ stepD = PreprocessorSteps[3] /\ stepE = PreprocessorSteps[4]
        /\ stepF = PostprocessorSteps[1] /\ stepG = PostprocessorSteps[2]
  OBVIOUS
<1>4. PICK mapping, device, in, out :
        /\ mapping = [rename_map |-> s.rename] /\ device = Device(s.policy)
        /\ in = NormalizationConfig(s.policy, Over(s.policy.output_features, s.policy.input_features))
        /\ out = NormalizationConfig(s.policy, s.policy.output_features)
  OBVIOUS
<1>5. PICK a, b, d, e : /\ a = Step(stepA, mapping, Absent) /\ b = Step(stepB, <<>>, Absent)
                        /\ d = Step(stepD, device, Absent) /\ e = Step(stepE, in, "normalizer_state")
  OBVIOUS
<1>6. pre = [name |-> "policy_preprocessor", steps |-> <<a, b, d, e>>]
  BY <1>1, <1>3, <1>4, <1>5 DEF Preprocessor
<1>7. /\ a.registry_name = PreprocessorSteps[1] /\ a.state_file = Absent
      /\ b.registry_name = PreprocessorSteps[2] /\ b.state_file = Absent
      /\ d.registry_name = PreprocessorSteps[3] /\ d.state_file = Absent
      /\ e.registry_name = PreprocessorSteps[4] /\ e.state_file = "normalizer_state"
  <2>1. a.registry_name = stepA /\ a.state_file = Absent
    BY <1>5, StepIs
  <2>2. b.registry_name = stepB /\ b.state_file = Absent
    BY <1>5, StepIs
  <2>3. d.registry_name = stepD /\ d.state_file = Absent
    BY <1>5, StepIs
  <2>4. e.registry_name = stepE /\ e.state_file = "normalizer_state"
    BY <1>5, StepIs
  <2> QED
    BY <1>3, <2>1, <2>2, <2>3, <2>4
<1>8. PipelineFits(pre, "policy_preprocessor", PreprocessorSteps, 4, "normalizer_state")
  <2>1. PICK steps : steps = <<a, b, d, e>>
    OBVIOUS
  <2>2. pre.name = "policy_preprocessor" /\ pre.steps = steps
    BY <1>6, <2>1
  <2>3. Len(steps) = 4 /\ steps[1] = a /\ steps[2] = b /\ steps[3] = d /\ steps[4] = e
    BY <2>1
  <2>4. Len(PreprocessorSteps) = 4 /\ DOMAIN PreprocessorSteps = {1, 2, 3, 4}
    BY DEF PreprocessorSteps
  <2>5. \A i \in {1, 2, 3, 4} :
          /\ steps[i].registry_name = PreprocessorSteps[i]
          /\ steps[i].state_file = IF i = 4 THEN "normalizer_state" ELSE Absent
    BY <1>7, <2>3
  <2>6. /\ pre.name = "policy_preprocessor" /\ Len(pre.steps) = Len(PreprocessorSteps)
        /\ \A i \in DOMAIN PreprocessorSteps :
             /\ pre.steps[i].registry_name = PreprocessorSteps[i]
             /\ pre.steps[i].state_file = IF i = 4 THEN "normalizer_state" ELSE Absent
    BY <2>2, <2>3, <2>4, <2>5
  <2> QED
    BY <2>6 DEF PipelineFits
<1>9. PICK f, g : f = Step(stepF, out, "unnormalizer_state") /\ g = Step(stepG, device, Absent)
  OBVIOUS
<1>10. post = [name |-> "policy_postprocessor", steps |-> <<f, g>>]
  BY <1>1, <1>3, <1>4, <1>9 DEF Postprocessor
<1>11. /\ f.registry_name = PostprocessorSteps[1] /\ f.state_file = "unnormalizer_state"
       /\ g.registry_name = PostprocessorSteps[2] /\ g.state_file = Absent
  <2>1. f.registry_name = stepF /\ f.state_file = "unnormalizer_state"
    BY <1>9, StepIs
  <2>2. g.registry_name = stepG /\ g.state_file = Absent
    BY <1>9, StepIs
  <2> QED
    BY <1>3, <2>1, <2>2
<1>12. PipelineFits(post, "policy_postprocessor", PostprocessorSteps, 1, "unnormalizer_state")
  <2>1. PICK steps : steps = <<f, g>>
    OBVIOUS
  <2>2. post.name = "policy_postprocessor" /\ post.steps = steps
    BY <1>10, <2>1
  <2>3. Len(steps) = 2 /\ steps[1] = f /\ steps[2] = g
    BY <2>1
  <2>4. Len(PostprocessorSteps) = 2 /\ DOMAIN PostprocessorSteps = {1, 2}
    BY DEF PostprocessorSteps
  <2>5. \A i \in {1, 2} :
          /\ steps[i].registry_name = PostprocessorSteps[i]
          /\ steps[i].state_file = IF i = 1 THEN "unnormalizer_state" ELSE Absent
    BY <1>11, <2>3
  <2>6. /\ post.name = "policy_postprocessor" /\ Len(post.steps) = Len(PostprocessorSteps)
        /\ \A i \in DOMAIN PostprocessorSteps :
             /\ post.steps[i].registry_name = PostprocessorSteps[i]
             /\ post.steps[i].state_file = IF i = 1 THEN "unnormalizer_state" ELSE Absent
    BY <2>2, <2>3, <2>4, <2>5
  <2> QED
    BY <2>6 DEF PipelineFits
<1> QED
  BY <1>2, <1>8, <1>12 DEF ProcessorsFit

(* A configuration that was accepted is accepted again.                    *)
LEMMA ValidAgain ==
  ASSUME NEW by, NEW place, place # Absent, NEW c, Resumes(c, by, place),
         NEW d, d = by.config, Valid(d), TypedConfig(d), WellFormed(by.session.policy)
  PROVE  Valid(c)
<1>1. PICK own, resolved, p : own = d.policy /\ resolved = by.session.policy /\ p = c.policy
  OBVIOUS
<1>2. \A name \in DOMAIN PolicyTypes \ {"input_features", "output_features", "pretrained_path"} :
        p[name] = own[name]
  <2>1. WellFormed(own) /\ WellFormed(resolved) /\ p = ResumedPolicy(own, resolved, place)
    BY <1>1 DEF TypedConfig, Resumes
  <2> QED
    BY <2>1, ResumedPolicyIs
<1>3. /\ \A name \in DOMAIN RunTypes : c[name] = d[name]
      /\ c.resume = TRUE /\ c.checkpoint = place /\ p.pretrained_path = place
  BY <1>1 DEF Resumes
<1>4. {"vision_backbone", "temporal_ensemble_coeff", "n_action_steps", "chunk_size", "n_obs_steps",
       "dropout", "optimizer_lr", "optimizer_lr_backbone", "device", "use_amp", "push_to_hub",
       "n_vae_encoder_layers"}
        \subseteq DOMAIN PolicyTypes \ {"input_features", "output_features", "pretrained_path"}
  BY DEF PolicyTypes
<1>5. /\ p["vision_backbone"] = own["vision_backbone"]
      /\ p["temporal_ensemble_coeff"] = own["temporal_ensemble_coeff"]
      /\ p["n_action_steps"] = own["n_action_steps"] /\ p["chunk_size"] = own["chunk_size"]
      /\ p["n_obs_steps"] = own["n_obs_steps"]
  BY <1>2, <1>4
<1>6. /\ p["dropout"] = own["dropout"] /\ p["optimizer_lr"] = own["optimizer_lr"]
      /\ p["optimizer_lr_backbone"] = own["optimizer_lr_backbone"]
      /\ p["device"] = own["device"] /\ p["use_amp"] = own["use_amp"]
      /\ p["push_to_hub"] = own["push_to_hub"]
  BY <1>2, <1>4
<1>7. {"tolerance_s", "num_workers", "batch_size", "steps", "use_preset", "rename_map", "episodes"}
        \subseteq DOMAIN RunTypes
  BY DEF RunTypes
<1>8. /\ c["tolerance_s"] = d["tolerance_s"] /\ c["num_workers"] = d["num_workers"]
      /\ c["batch_size"] = d["batch_size"] /\ c["steps"] = d["steps"]
      /\ c["use_preset"] = d["use_preset"] /\ c["rename_map"] = d["rename_map"]
      /\ c["episodes"] = d["episodes"]
  BY <1>3, <1>7
<1>9. /\ PolicyValid(own) /\ NumbersFit(d) /\ d.num_workers = 0 /\ d.batch_size \in 1..MaxBatch
      /\ d.steps \in 1..MaxSteps /\ DimensionsFit(own) /\ DeviceKnown(own.device)
      /\ ~own.use_amp /\ d.use_preset /\ ~own.push_to_hub /\ EpisodesNamed(d.episodes)
  BY <1>1 DEF Valid
<1>10. PolicyValid(p)
  BY <1>5, <1>9 DEF PolicyValid
<1>11. NumbersFit(c)
  <2>1. /\ own.dropout \in 0..999 /\ own.optimizer_lr > 0 /\ own.optimizer_lr_backbone >= 0
        /\ d.tolerance_s >= 0
    <3>1. NumbersFit(d)
      BY <1>9
    <3> QED
      BY <1>1, <3>1 DEF NumbersFit
  <2>2. /\ p.dropout \in 0..999 /\ p.optimizer_lr > 0 /\ p.optimizer_lr_backbone >= 0
        /\ c.tolerance_s >= 0
    BY <1>6, <1>8, <2>1
  <2> QED
    BY <1>1, <2>2 DEF NumbersFit
<1>12. DimensionsFit(p)
  <2>1. \A name \in DOMAIN Limits \cap DOMAIN PolicyTypes : p[name] = own[name]
    <3>1. {"input_features", "output_features", "pretrained_path"}
            \cap (DOMAIN Limits \cap DOMAIN PolicyTypes) = {}
      <4>1. /\ PolicyTypes["input_features"] # "int" /\ PolicyTypes["output_features"] # "int"
            /\ PolicyTypes["pretrained_path"] # "int"
        BY DEF PolicyTypes
      <4> QED
        BY <4>1, RunAssumption
    <3> QED
      BY <1>2, <3>1
  <2> QED
    BY <1>9, <2>1 DEF DimensionsFit
<1> QED
  BY <1>1, <1>3, <1>6, <1>8, <1>9, <1>10, <1>11, <1>12 DEF Valid

(* What a checkpoint's model is built from is what a resumed run builds    *)
(* its model from.                                                         *)
LEMMA BuiltAlike ==
  ASSUME ResumeInv, NEW place \in DOMAIN saved, place # Absent, ~DeclaredOthers(saved[place]),
         NEW by, by = saved[place].by, NEW t, t = by.session,
         NEW c \in FromCheckpoint(saved, place), NEW data, data = Datasets[c.root],
         NEW map, map = UsedMap(c, saved), NEW policy, policy = Resolved(c, data, map)
  PROVE  /\ Rebuilt(c, by, place, data, map, policy)
         /\ Alike(t.policy, policy) /\ PolicyValid(policy)
<1>1. Rebuilt(c, by, place, data, map, policy)
  BY RebuiltAt DEF ResumeInv
<1>2. PICK d, own, trained : d = by.config /\ own = d.policy /\ trained = t.policy
  OBVIOUS
<1>3. SavedFits(saved[place]) /\ SavedResumable(saved[place])
  BY DEF ResumeInv, RunInv
<1>4. \A name \in DOMAIN PolicyTypes \ {"input_features", "output_features"} :
        trained[name] = own[name]
  <2>1. Resumable(d, t)
    BY <1>2, <1>3 DEF SavedResumable
  <2> QED
    BY <1>2, <2>1 DEF Resumable
<1>5. /\ policy["input_features"] = trained["input_features"]
      /\ policy["output_features"] = trained["output_features"]
      /\ \A name \in DOMAIN PolicyTypes \ {"input_features", "output_features", "pretrained_path"} :
           policy[name] = own[name]
  BY <1>1, <1>2 DEF Rebuilt
<1>6. ModelSettings \subseteq DOMAIN PolicyTypes \ {"pretrained_path"}
  BY DEF ModelSettings, PolicyTypes
<1>7. Alike(trained, policy)
  BY <1>4, <1>5, <1>6 DEF Alike
<1>8. PolicyValid(policy)
  <2>1. PolicyValid(own)
    <3>1. Valid(d)
      BY <1>2, <1>3 DEF SavedFits
    <3> QED
      BY <1>2, <3>1 DEF Valid
  <2>2. {"vision_backbone", "temporal_ensemble_coeff", "n_action_steps", "chunk_size", "n_obs_steps"}
          \subseteq DOMAIN PolicyTypes \ {"input_features", "output_features", "pretrained_path"}
    BY DEF PolicyTypes
  <2>3. /\ policy["vision_backbone"] = own["vision_backbone"]
        /\ policy["temporal_ensemble_coeff"] = own["temporal_ensemble_coeff"]
        /\ policy["n_action_steps"] = own["n_action_steps"]
        /\ policy["chunk_size"] = own["chunk_size"]
        /\ policy["n_obs_steps"] = own["n_obs_steps"]
    BY <1>5, <2>2
  <2> QED
    BY <2>1, <2>3 DEF PolicyValid
<1> QED
  BY <1>1, <1>2, <1>7, <1>8

LEMMA GivenTheSame ==
  ASSUME NEW p, NEW q, Alike(p, q), NEW stats, NEW name
  PROVE  Given(p, stats, name) = Given(q, stats, name)
<1>1. Cameras(p) = Cameras(q)
  BY CamerasAlike
<1>2. Scalars(p) = Scalars(q) /\ Normalized(p, stats) = Normalized(q, stats)
  BY NormalizedAlike
<1>3. \A feature : Mode(p, feature) = Mode(q, feature)
  <2>1. p["normalization_mapping"] = q["normalization_mapping"]
    BY DEF Alike, ModelSettings
  <2> QED
    BY <2>1 DEF Mode
<1>4. Normalizer(p, stats) = Normalizer(q, stats)
  BY <1>2, <1>3 DEF Normalizer
<1> QED
  BY <1>1, <1>4 DEF Given

(* A resumed session gives the model its inputs normalized as they were.   *)
LEMMA NormalizedAgain ==
  ASSUME ResumeInv, NEW place \in DOMAIN saved, place # Absent, ~DeclaredOthers(saved[place]),
         NEW by, by = saved[place].by,
         NEW c \in FromCheckpoint(saved, place), Valid(c), NEW s \in Sessions(c, saved),
         ~MapMeetsStats(s.rename, saved[place].stats)
  PROVE  Normalizations(s, Datasets[c.root]) = by.session.weights.trained
<1>1. PICK checkpoint, data, map :
        checkpoint = saved[place] /\ data = Datasets[c.root] /\ map = UsedMap(c, saved)
  OBVIOUS
<1>2. PICK d, t, policy, stats : /\ d = by.config /\ t = by.session
                                 /\ policy = Resolved(c, data, map) /\ stats = checkpoint.stats
  OBVIOUS
<1>3. PICK checkpoints, path, trained :
        checkpoints = saved /\ path = c.policy.pretrained_path /\ trained = t.policy
  OBVIOUS
<1>4. Rebuilt(c, by, place, data, map, policy) /\ Alike(trained, policy)
  BY <1>1, <1>2, <1>3, BuiltAlike
<1>5. /\ TypedConfig(c) /\ c.resume = TRUE /\ c.checkpoint = place /\ path = place
      /\ c.root = d.root /\ map = t.rename
  <2>1. Resumes(c, by, place) /\ c.root = d.root /\ map = t.rename
    BY <1>2, <1>4 DEF Rebuilt
  <2> QED
    BY <1>3, <2>1 DEF Resumes
<1>6. SavedFits(checkpoint)
  BY <1>1 DEF ResumeInv, RunInv
<1>7. /\ SessionFits(d, t) /\ KindsFit(t, data) /\ t.weights.trained = Normalizations(t, data)
      /\ SavedMap(checkpoint.preprocessor) = t.rename /\ stats = SavedStats(t)
      /\ checkpoint.weights = t.weights
  <2>1. d = checkpoint.by.config /\ t = checkpoint.by.session
    BY <1>1, <1>2
  <2>2. SessionFits(d, t) /\ KindsFit(t, data) /\ t.weights.trained = Normalizations(t, data)
    BY <1>1, <1>5, <1>6, <2>1 DEF SavedFits
  <2>3. SavedMap(checkpoint.preprocessor) = t.rename /\ checkpoint.stats = SavedStats(t)
    BY <1>6, <2>1, SavedSays
  <2>4. checkpoint.weights = t.weights
    BY <1>6, <2>1, SavedSays
  <2> QED
    BY <1>2, <2>2, <2>3, <2>4
<1>8. DatasetFits(data)
  BY <1>1, <1>5, <1>7, RunAssumption DEF SessionFits
<1>9. /\ SessionFits(c, s) /\ GoesOn(c, s, checkpoints)
      /\ s.policy = policy /\ s.rename = map
  <2>1. ConfigFits(c, checkpoints) /\ s \in Sessions(c, checkpoints)
    BY <1>3, <1>5 DEF ConfigFits
  <2>2. \A at \in DOMAIN checkpoints : SavedFits(checkpoints[at])
    BY <1>3 DEF ResumeInv, RunInv
  <2>3. SessionFits(c, s) /\ GoesOn(c, s, checkpoints)
    BY <2>1, <2>2, SessionsFit
  <2>4. map = UsedMap(c, checkpoints)
    BY <1>1, <1>3
  <2>5. OpensWith(c, checkpoints, s, data, map, policy)
    BY <1>1, <1>2, <2>1, <2>4, SessionsAre
  <2> QED
    BY <2>3, <2>5 DEF OpensWith
<1>10. /\ s.stats = stats /\ s.cameras = SavedCameras(policy, stats)
       /\ s.normalizer = Normalizer(policy, stats)
  <2>1. IsFun(stats)
    BY <1>7 DEF SavedStats, Over, IsFun
  <2>2. ~MapMeetsStats(s.rename, stats)
    BY <1>1, <1>2
  <2>3. RenamedStats(stats, s.rename) = {stats}
    BY <2>1, <2>2, StatsRead
  <2>4. path # Absent /\ stats = checkpoints[path].stats
    BY <1>1, <1>2, <1>3, <1>5
  <2>5. s.stats \in RenamedStats(stats, s.rename) /\ s.cameras = SavedCameras(s.policy, s.stats)
    BY <1>3, <1>9, <2>4 DEF GoesOn
  <2> QED
    BY <1>9, <2>3, <2>5 DEF SessionFits
<1>11. Fed(s, data) = Fed(t, data)
  <2>1. policy["input_features"] = trained["input_features"]
    BY <1>4 DEF Alike, ModelSettings
  <2>2. Consumed(policy, TRUE) = Consumed(trained, TRUE)
    BY <2>1 DEF Consumed, Cameras
  <2> QED
    BY <1>3, <1>5, <1>9, <2>2 DEF Fed
<1>12. ASSUME NEW name \in Fed(s, data)
       PROVE  NormalizationOf(s, data, name) = Given(policy, stats, name)
  <2>1. ~MapMeetsStats(s.rename, stats)
    BY <1>1, <1>2
  <2> QED
    BY <1>8, <1>9, <1>10, <2>1, LoadedGiven
<1>13. PICK before : before = checkpoint.weights.trained
  OBVIOUS
<1>14. ASSUME NEW name \in Fed(t, data)
       PROVE  before[name] = Given(trained, stats, name)
  <2>1. ~MapMeetsStats(SavedMap(checkpoint.preprocessor), checkpoint.stats)
    BY <1>1, <1>2, <1>5, <1>7, <1>9
  <2>2. d = checkpoint.by.config /\ t = checkpoint.by.session /\ data = Datasets[d.root]
    BY <1>1, <1>2, <1>5
  <2> QED
    BY <1>2, <1>3, <1>6, <1>13, <2>1, <2>2, SavedGiven
<1>15. before = [name \in Fed(t, data) |-> before[name]]
  BY <1>7, <1>13 DEF Normalizations
<1>16. \A name \in Fed(s, data) : NormalizationOf(s, data, name) = before[name]
  <2> SUFFICES ASSUME NEW name \in Fed(s, data)
               PROVE  NormalizationOf(s, data, name) = before[name]
    OBVIOUS
  <2>1. Given(trained, stats, name) = Given(policy, stats, name)
    BY <1>4, GivenTheSame
  <2> QED
    BY <1>11, <1>12, <1>14, <2>1
<1>17. Normalizations(s, data) = before
  BY <1>11, <1>15, <1>16 DEF Normalizations
<1> QED
  BY <1>1, <1>2, <1>7, <1>13, <1>17

(* A run resumed from a checkpoint goes on as it would have without the    *)
(* interruption: with its settings, features, mapping, weights, optimizer, *)
(* random numbers and step, its inputs normalized as before.               *)
(* (write_checkpoint_contents against restore.)                            *)
THEOREM ResumedRunContinues == RunSpec => []ResumeContinues
<1>1. ASSUME ResumeInv PROVE ResumeContinues
  <2> SUFFICES ASSUME NEW place \in DOMAIN saved, NEW by, by = saved[place].by,
                      NEW c \in FromCheckpoint(saved, place)
               PROVE  /\ ToJson(Settings(c)) = ToJson(Settings(by.config))
                      /\ \A s \in Sessions(c, saved) :
                           /\ s.weights = by.session.weights /\ s.optimizer = by.session.optimizer
                           /\ s.rng = by.session.rng /\ s.step = by.session.step
                           /\ s.groups = by.session.groups
                           /\ s.rename = by.session.rename
                           /\ ~DeclaredOthers(saved[place]) =>
                                s.policy.input_features = by.session.policy.input_features
                           /\ (/\ ~DeclaredOthers(saved[place])
                               /\ ~MapMeetsStats(s.rename, saved[place].stats)) =>
                                Normalizations(s, Datasets[c.root]) = by.session.weights.trained
    BY DEF ResumeContinues, Settings
  <2>1. ToJson(Settings(c)) = ToJson(Settings(by.config))
    <3>1. PICK checkpoints, checkpoint, d, t : /\ checkpoints = saved /\ checkpoint = saved[place]
                                               /\ d = by.config /\ t = by.session
      OBVIOUS
    <3>2. SavedFits(checkpoint)
      BY <1>1, <3>1 DEF ResumeInv, RunInv
    <3>3. TypedConfig(d) /\ SessionFits(d, t)
      BY <3>1, <3>2, SavedSays
    <3>4. Resumes(c, by, place)
      BY <3>1, <3>2, ResumedIs
    <3>5. PICK own, resolved, p : own = d.policy /\ resolved = t.policy /\ p = c.policy
      OBVIOUS
    <3>6. p = ResumedPolicy(own, resolved, place) /\ WellFormed(own) /\ WellFormed(resolved)
      BY <3>1, <3>3, <3>4, <3>5 DEF Resumes, TypedConfig, SessionFits
    <3>7. \A name \in DOMAIN PolicyTypes \ {"input_features", "output_features", "pretrained_path"} :
            p[name] = own[name]
      BY <3>6, ResumedPolicyIs
    <3>8. TypedConfig(c) /\ \A name \in DOMAIN RunTypes : c[name] = d[name]
      BY <3>1, <3>4 DEF Resumes
    <3>9. ToJson(Settings(c)) = ToJson(Settings(d))
      BY <3>3, <3>5, <3>7, <3>8, SettingsAlike
    <3> QED
      BY <3>1, <3>9
  <2>2. Valid(c)
    <3>1. PICK checkpoints, checkpoint, d : /\ checkpoints = saved /\ checkpoint = saved[place]
                                            /\ d = by.config
      OBVIOUS
    <3>2. SavedFits(checkpoint) /\ place # Absent
      BY <1>1, <3>1, RunAssumption DEF ResumeInv, RunInv
    <3>3. TypedConfig(d) /\ Valid(d) /\ WellFormed(by.session.policy)
      BY <3>1, <3>2 DEF SavedFits, SessionFits
    <3>4. Resumes(c, by, place)
      BY <3>1, <3>2, ResumedIs
    <3> QED
      BY <3>1, <3>2, <3>3, <3>4, ValidAgain
  <2>3. RunInv
    BY <1>1 DEF ResumeInv
  <2>4. place # Absent
    BY <1>1, RunAssumption DEF ResumeInv
  <2> SUFFICES ASSUME NEW s \in Sessions(c, saved)
               PROVE  /\ s.weights = by.session.weights /\ s.optimizer = by.session.optimizer
                      /\ s.rng = by.session.rng /\ s.step = by.session.step
                      /\ s.groups = by.session.groups
                      /\ s.rename = by.session.rename
                      /\ ~DeclaredOthers(saved[place]) =>
                           s.policy.input_features = by.session.policy.input_features
                      /\ (/\ ~DeclaredOthers(saved[place])
                          /\ ~MapMeetsStats(s.rename, saved[place].stats)) =>
                           Normalizations(s, Datasets[c.root]) = by.session.weights.trained
    BY <2>1
  <2>5. /\ s.weights = by.session.weights /\ s.optimizer = by.session.optimizer
        /\ s.rng = by.session.rng /\ s.step = by.session.step
        /\ s.groups = by.session.groups
        /\ s.rename = by.session.rename
        /\ ~DeclaredOthers(saved[place]) =>
             s.policy.input_features = by.session.policy.input_features
    BY <2>2, <2>3, ContinuesAt
  <2>6. (~DeclaredOthers(saved[place]) /\ ~MapMeetsStats(s.rename, saved[place].stats)) =>
          Normalizations(s, Datasets[c.root]) = by.session.weights.trained
    BY <1>1, <2>2, <2>4, NormalizedAgain
  <2> QED
    BY <2>5, <2>6
<1> QED
  BY <1>1, ResumeInvariance, PTL

(* Nothing that TrainSession::new and restore look at is refused.          *)
LEMMA NotRefused ==
  ASSUME ResumeInv, NEW place \in DOMAIN saved, place # Absent, ~DeclaredOthers(saved[place]),
         Readable(saved[place].stats), NEW c \in FromCheckpoint(saved, place)
  PROVE  ~Refuses(c, saved)
<1>1. PICK checkpoint, by, data, map :
        /\ checkpoint = saved[place] /\ by = saved[place].by
        /\ data = Datasets[c.root] /\ map = UsedMap(c, saved)
  OBVIOUS
<1>2. PICK d, t, policy : d = by.config /\ t = by.session /\ policy = Resolved(c, data, map)
  OBVIOUS
<1>3. PICK trained : trained = t.policy
  OBVIOUS
<1>4. /\ Rebuilt(c, by, place, data, map, policy)
      /\ Alike(trained, policy) /\ PolicyValid(policy)
  BY <1>1, <1>2, <1>3, BuiltAlike
<1>5. /\ c.resume = TRUE /\ c.checkpoint = place /\ c.policy.pretrained_path = place
      /\ c.root \in DOMAIN Datasets /\ c.root = d.root /\ c.episodes = d.episodes
  <2>1. Resumes(c, by, place) /\ c.root \in DOMAIN Datasets
    BY <1>4 DEF Rebuilt
  <2>2. {"root", "episodes"} \subseteq DOMAIN RunTypes
    BY DEF RunTypes
  <2>3. c["root"] = d["root"] /\ c["episodes"] = d["episodes"]
    BY <1>2, <2>1, <2>2 DEF Resumes
  <2> QED
    BY <2>1, <2>3 DEF Resumes
<1>6. SavedFits(checkpoint) /\ SavedResumable(checkpoint)
  BY <1>1 DEF ResumeInv, RunInv
<1>7. /\ Resumable(d, t) /\ checkpoint = Checkpoint(d, t) /\ SessionFits(d, t)
      /\ checkpoint.weights = t.weights /\ checkpoint.optimizer = t.optimizer
  <2>1. d = checkpoint.by.config /\ t = checkpoint.by.session
    BY <1>1, <1>2
  <2>2. Resumable(d, t)
    BY <1>6, <2>1 DEF SavedResumable
  <2>3. checkpoint = Checkpoint(d, t) /\ SessionFits(d, t)
    BY <1>6, <2>1 DEF SavedFits
  <2>4. checkpoint.weights = t.weights /\ checkpoint.optimizer = t.optimizer
    BY <1>6, <2>1, SavedSays
  <2> QED
    BY <2>2, <2>3, <2>4
<1>8. c.episodes # Absent => Range(c.episodes) \subseteq data.episodes
  BY <1>1, <1>5, <1>7 DEF Resumable
<1>9. SeesSomething(policy)
  <2>1. SeesSomething(trained)
    BY <1>3, <1>7 DEF SessionFits
  <2>2. policy["input_features"] = trained["input_features"]
    BY <1>4 DEF Alike, ModelSettings
  <2> QED
    BY <2>1, <2>2 DEF SeesSomething
<1>10. ModelFits(policy)
  <2>1. ModelFits(trained)
    BY <1>3, <1>7 DEF Resumable
  <2> QED
    BY <1>4, <2>1, ModelAlike
<1>11. GroupsFit(Groups(policy), policy)
  BY GroupsAlwaysFit
<1>12. ProcessorsFit(checkpoint)
  BY <1>1, <1>7, ProcessorsAlwaysFit
<1>13. Parameters(trained) = Parameters(policy) /\ Buffers(trained) = Buffers(policy)
  BY <1>4, ParametersAlike
<1>14. WeightsFit(checkpoint.weights, policy)
  <2>1. WeightsFit(t.weights, trained)
    BY <1>3, <1>7 DEF Resumable
  <2> QED
    BY <1>7, <1>13, <2>1 DEF WeightsFit
<1>15. OptimizerFits(checkpoint.optimizer, policy)
  <2>1. Parameters(t.optimizer.built) = Parameters(trained)
    BY <1>3, <1>7 DEF Resumable
  <2> QED
    BY <1>7, <1>13, <2>1 DEF OptimizerFits
<1>16. PICK path, checkpoints : path = c.policy.pretrained_path /\ checkpoints = saved
  OBVIOUS
<1>17. /\ path = place /\ path \in DOMAIN checkpoints /\ checkpoints[path] = checkpoint
       /\ checkpoints[c.checkpoint] = checkpoint
  BY <1>1, <1>5, <1>16
<1>18. ~Refuses(c, checkpoints)
  BY <1>1, <1>2, <1>4, <1>5, <1>8, <1>9, <1>10, <1>11, <1>12, <1>14, <1>15, <1>16, <1>17
     DEF Refuses
<1> QED
  BY <1>16, <1>18

(* The normalizer takes what was saved: what it had, and cameras it does   *)
(* not look at.                                                            *)
LEMMA StatisticsFit ==
  ASSUME NEW d, NEW t, SessionFits(d, t), Resumable(d, t), NEW stats, stats = SavedStats(t)
  PROVE  NormalizerFits(t.policy, stats) /\ IsFun(stats)
<1>1. PICK own, cameras, policy : own = t.stats /\ cameras = t.cameras /\ policy = t.policy
  OBVIOUS
<1>2. /\ IsFun(own) /\ NormalizerFits(policy, own) /\ stats = Over(cameras, own)
      /\ OfDatasetAlone(d, t) => DOMAIN cameras \cap DOMAIN Scalars(policy) = {}
      /\ OfDatasetAlone(d, t) \/ cameras = SavedCameras(policy, own)
  <2>1. /\ IsFun(own) /\ stats = Over(cameras, own)
        /\ OfDatasetAlone(d, t) \/ cameras = SavedCameras(policy, own)
    BY <1>1 DEF SessionFits, SavedStats
  <2>2. /\ NormalizerFits(policy, own)
        /\ OfDatasetAlone(d, t) => DOMAIN cameras \cap DOMAIN Scalars(policy) = {}
    BY <1>1 DEF Resumable
  <2> QED
    BY <2>1, <2>2
<1>3. IsFun(stats)
  BY <1>2 DEF Over, IsFun
<1>4. CASE cameras = SavedCameras(policy, own)
  <2>1. stats = Over(Restricted(own, Cameras(policy)), own)
    BY <1>2, <1>4 DEF SavedCameras
  <2>2. stats = own
    BY <1>2, <2>1 DEF Over, Restricted, IsFun
  <2> QED
    BY <1>1, <1>2, <1>3, <2>2
<1>5. CASE DOMAIN cameras \cap DOMAIN Scalars(policy) = {}
  <2>1. PICK scalars : scalars = Scalars(policy)
    OBVIOUS
  <2>2. /\ DOMAIN stats = DOMAIN cameras \cup DOMAIN own
        /\ \A name \in DOMAIN own \ DOMAIN cameras : stats[name] = own[name]
    BY <1>2 DEF Over
  <2>3. \A name \in DOMAIN scalars :
          /\ name \in DOMAIN stats <=> name \in DOMAIN own
          /\ name \in DOMAIN stats => stats[name] = own[name]
    BY <1>5, <2>1, <2>2
  <2>4. Normalized(policy, stats) = Normalized(policy, own)
    BY <2>1, <2>3 DEF Normalized
  <2>5. Normalized(policy, own) \subseteq DOMAIN scalars \cap DOMAIN own
    BY <2>1 DEF Normalized
  <2>6. NormalizerFits(policy, stats)
    BY <1>2, <2>1, <2>3, <2>4, <2>5 DEF NormalizerFits
  <2> QED
    BY <1>1, <1>3, <2>6
<1> QED
  BY <1>2, <1>4, <1>5

(* The statistics a resumed run reads are those that were saved.           *)
With(policy, stats) == [stats |-> stats, cameras |-> SavedCameras(policy, stats)]

LEMMA ResumesAt ==
  ASSUME ResumeInv, NEW place \in DOMAIN saved, Readable(saved[place].stats),
         ~DeclaredOthers(saved[place]),
         ~MapMeetsStats(SavedMap(saved[place].preprocessor), saved[place].stats)
  PROVE  \E c \in FromCheckpoint(saved, place) :
           Valid(c) /\ ~OpenMayFail(c, saved) /\ Sessions(c, saved) # {}
<1>1. PICK checkpoint, by : checkpoint = saved[place] /\ by = saved[place].by
  OBVIOUS
<1>2. PICK d, t, stats : /\ d = by.config /\ t = by.session
                         /\ stats = checkpoint.stats
  OBVIOUS
<1>3. place # Absent
  BY RunAssumption DEF ResumeInv
<1>4. SavedFits(checkpoint) /\ SavedResumable(checkpoint)
  BY <1>1 DEF ResumeInv, RunInv
<1>5. /\ d = checkpoint.by.config /\ t = checkpoint.by.session
  BY <1>1, <1>2
<1>6. /\ FromFile(checkpoint.config) = {AsWritten(d)} /\ Decoded(checkpoint.policy) = {t.policy}
      /\ SavedMap(checkpoint.preprocessor) = t.rename /\ stats = SavedStats(t)
  <2>1. FromFile(checkpoint.config) = {AsWritten(d)}
    BY <1>4, <1>5, SavedSays
  <2>2. Decoded(checkpoint.policy) = {t.policy}
    BY <1>4, <1>5, SavedSays
  <2>3. SavedMap(checkpoint.preprocessor) = t.rename /\ checkpoint.stats = SavedStats(t)
    BY <1>4, <1>5, SavedSays
  <2> QED
    BY <1>2, <2>1, <2>2, <2>3
<1>7. TypedConfig(d) /\ Valid(d) /\ SessionFits(d, t) /\ Resumable(d, t)
  BY <1>4, <1>5 DEF SavedFits, SavedResumable
<1>8. PICK c : c \in FromCheckpoint(saved, place)
  BY <1>1, <1>6 DEF FromCheckpoint
<1>9. PICK data, map : data = Datasets[c.root] /\ map = UsedMap(c, saved)
  OBVIOUS
<1>10. PICK policy : policy = Resolved(c, data, map)
  OBVIOUS
<1>11. /\ Rebuilt(c, by, place, data, map, policy)
       /\ Alike(t.policy, policy)
  BY <1>1, <1>2, <1>3, <1>8, <1>9, <1>10, BuiltAlike
<1>12. Resumes(c, by, place) /\ map = t.rename
  BY <1>2, <1>11 DEF Rebuilt
<1>13. Valid(c)
  <2>1. WellFormed(by.session.policy)
    BY <1>2, <1>7 DEF SessionFits
  <2> QED
    BY <1>2, <1>3, <1>7, <1>12, <2>1, ValidAgain
<1>14. ~Refuses(c, saved)
  BY <1>1, <1>3, <1>8, NotRefused
<1>15. NormalizerFits(policy, stats) /\ IsFun(stats)
  <2>1. NormalizerFits(t.policy, stats) /\ IsFun(stats)
    BY <1>6, <1>7, StatisticsFit
  <2>2. PICK trained : trained = t.policy
    OBVIOUS
  <2> QED
    BY <1>11, <2>1, <2>2, NormalizedAlike
<1>16. PICK checkpoints, path : checkpoints = saved /\ path = c.policy.pretrained_path
  OBVIOUS
<1>17. path # Absent /\ stats = checkpoints[path].stats /\ ~MapMeetsStats(map, stats)
  BY <1>1, <1>2, <1>3, <1>6, <1>12, <1>16 DEF Resumes
<1>18. PICK with : with = With(policy, stats)
  OBVIOUS
<1>19. Statistics(c, policy, map, checkpoints) = {with}
  <2>1. path = c.policy.pretrained_path /\ path # Absent
    BY <1>16, <1>17
  <2>2. stats = checkpoints[path].stats /\ IsFun(stats) /\ ~MapMeetsStats(map, stats)
    BY <1>15, <1>17
  <2>3. RenamedStats(stats, map) = {stats}
    BY <2>2, StatsRead
  <2>4. Statistics(c, policy, map, checkpoints)
          = {With(policy, x) : x \in RenamedStats(checkpoints[path].stats, map)}
    BY <2>1 DEF Statistics, With
  <2>5. Statistics(c, policy, map, checkpoints) = {With(policy, x) : x \in {stats}}
    BY <2>2, <2>3, <2>4
  <2> QED
    BY <1>18, <2>5
<1>20. with.stats = stats
  BY <1>18 DEF With
<1>21. /\ map = UsedMap(c, checkpoints) /\ policy = Resolved(c, Datasets[c.root], map)
       /\ ~Refuses(c, checkpoints)
  BY <1>9, <1>10, <1>14, <1>16
<1>22. ~OpenMayFail(c, checkpoints)
  BY <1>15, <1>19, <1>20, <1>21 DEF OpenMayFail
<1>23. Opened(c, policy, map, with, checkpoints) \in Sessions(c, checkpoints)
  <2>1. PICK fit : fit = {w \in Statistics(c, policy, map, checkpoints) : NormalizerFits(policy, w.stats)}
    OBVIOUS
  <2>2. with \in fit
    BY <1>15, <1>19, <1>20, <2>1
  <2>3. Sessions(c, checkpoints) = {Opened(c, policy, map, w, checkpoints) : w \in fit}
    BY <1>21, <2>1 DEF Sessions
  <2> QED
    BY <2>2, <2>3
<1> QED
  BY <1>8, <1>13, <1>16, <1>22, <1>23

(* Whatever commands, files and datasets led to a checkpoint, the run can  *)
(* be resumed from it: its document is accepted, its statistics are read   *)
(* and fit, its weights and its optimizer are those of the model that is   *)
(* built.  (write_checkpoint_contents against from_checkpoint_dir, load,   *)
(* load_with_rename_map and load_state_tensors.)                           *)
THEOREM SavedRunResumes == RunSpec => []SavedResumes
<1>1. ResumeInv => SavedResumes
  BY ResumesAt DEF SavedResumes
<1> QED
  BY <1>1, ResumeInvariance, PTL

-----------------------------------------------------------------------------
(* Tuples                                                                  *)

(* Tuples are equal when what they hold is.                                *)
LEMMA SameTwo ==
  ASSUME NEW S, NEW s \in Seq(S), NEW t \in Seq(S), Len(s) = 2, Len(t) = 2,
         s[1] = t[1], s[2] = t[2]
  PROVE  s = t
<1>1. \A i \in 1..Len(s) : s[i] = t[i]
  OBVIOUS
<1> QED
  BY <1>1, SeqEqual

LEMMA SameThree ==
  ASSUME NEW S, NEW s \in Seq(S), NEW t \in Seq(S), Len(s) = 3, Len(t) = 3,
         s[1] = t[1], s[2] = t[2], s[3] = t[3]
  PROVE  s = t
<1>1. \A i \in 1..Len(s) : s[i] = t[i]
  OBVIOUS
<1> QED
  BY <1>1, SeqEqual

(* What the operators on sequences make of tuples, of whatever values.     *)
LEMMA Two ==
  ASSUME NEW a, NEW b, NEW x, x = <<a, b>>
  PROVE  Len(x) = 2 /\ x # <<>> /\ Last(x) = b /\ Front(x) = <<a>>
<1>0. PICK S : a \in S /\ b \in S
  <2>1. \E S : S = {a, b}
    OBVIOUS
  <2> QED
    BY <2>1
<1> DEFINE two == <<a, b>>
           one == <<a>>
<1>1. /\ two \in Seq(S) /\ Len(two) = 2 /\ two[1] = a /\ two[2] = b
      /\ one \in Seq(S) /\ Len(one) = 1 /\ one[1] = a
  BY <1>0
<1>2. two # <<>>
  BY <1>0
<1> HIDE DEF two, one
<1>3. Last(two) = b
  BY <1>1 DEF Last
<1>4. Front(two) = SubSeq(two, 1, 1)
  BY <1>1 DEF Front
<1>5. /\ SubSeq(two, 1, 1) \in Seq(S) /\ Len(SubSeq(two, 1, 1)) = 1
      /\ SubSeq(two, 1, 1)[1] = two[1]
  BY <1>1, SubSeqProperties, Z3
<1>6. Front(two) = one
  BY <1>1, <1>4, <1>5, SeqEqual
<1> QED
  BY <1>1, <1>2, <1>3, <1>6 DEF two, one

LEMMA Three ==
  ASSUME NEW a, NEW b, NEW c, NEW x, x = <<a, b, c>>
  PROVE  Len(x) = 3 /\ x # <<>> /\ Last(x) = c /\ Front(x) = <<a, b>> /\ Tail(x) = <<b, c>>
<1>0. PICK S : a \in S /\ b \in S /\ c \in S
  <2>1. \E S : S = {a, b, c}
    OBVIOUS
  <2> QED
    BY <2>1
<1> DEFINE three == <<a, b, c>>
           left == <<a, b>>
           right == <<b, c>>
<1>1. /\ three \in Seq(S) /\ Len(three) = 3 /\ three[1] = a /\ three[2] = b /\ three[3] = c
      /\ left \in Seq(S) /\ Len(left) = 2 /\ left[1] = a /\ left[2] = b
      /\ right \in Seq(S) /\ Len(right) = 2 /\ right[1] = b /\ right[2] = c
  BY <1>0
<1>2. three # <<>>
  BY <1>0
<1> HIDE DEF three, left, right
<1>3. Last(three) = c
  BY <1>1 DEF Last
<1>4. Front(three) = SubSeq(three, 1, 2)
  BY <1>1 DEF Front
<1>5. /\ SubSeq(three, 1, 2) \in Seq(S) /\ Len(SubSeq(three, 1, 2)) = 2
      /\ SubSeq(three, 1, 2)[1] = three[1] /\ SubSeq(three, 1, 2)[2] = three[2]
  <2>1. \A i \in 1..2 : three[i] \in S
    BY <1>1
  <2>2. /\ SubSeq(three, 1, 2) \in Seq(S) /\ Len(SubSeq(three, 1, 2)) = 2
        /\ \A i \in 1..2 : SubSeq(three, 1, 2)[i] = three[1 + i - 1]
    BY <2>1, SubSeqProperties, Z3
  <2> QED
    BY <2>2
<1>6. Front(three) = left
  BY <1>1, <1>4, <1>5, SameTwo
<1>7. PICK tail : tail = Tail(three)
  OBVIOUS
<1>8. /\ tail \in Seq(S) /\ Len(tail) = Len(three) - 1
      /\ \A i \in 1..Len(tail) : tail[i] = three[i + 1]
  BY ONLY <1>1, <1>2, <1>7, HeadTailProperties, Zenon
<1>9. Len(tail) = 2 /\ tail[1] = three[2] /\ tail[2] = three[3]
  BY <1>1, <1>8
<1>10. tail = right
  BY <1>1, <1>8, <1>9, SameTwo
<1> QED
  BY <1>1, <1>2, <1>3, <1>6, <1>7, <1>10 DEF three, left, right

LEMMA OneAndOne ==
  ASSUME NEW a, NEW b, NEW x, x = <<a>>, NEW y, y = <<b>>
  PROVE  x \o y = <<a, b>>
<1>0. PICK S : a \in S /\ b \in S
  <2>1. \E S : S = {a, b}
    OBVIOUS
  <2> QED
    BY <2>1
<1> DEFINE l == <<a>>
           r == <<b>>
           all == <<a, b>>
<1>1. /\ l \in Seq(S) /\ Len(l) = 1 /\ l[1] = a /\ r \in Seq(S) /\ Len(r) = 1 /\ r[1] = b
      /\ all \in Seq(S) /\ Len(all) = 2 /\ all[1] = a /\ all[2] = b
  BY <1>0
<1> HIDE DEF l, r, all
<1>2. PICK both : both = l \o r
  BY <1>0
<1>3. /\ both \in Seq(S) /\ Len(both) = Len(l) + Len(r)
      /\ \A i \in 1..(Len(l) + Len(r)) : both[i] = IF i <= Len(l) THEN l[i] ELSE r[i - Len(l)]
  BY <1>1, <1>2, ConcatProperties, Zenon
<1>4. Len(both) = 2 /\ both[1] = a /\ both[2] = b
  BY <1>1, <1>3
<1>5. both = all
  BY <1>1, <1>3, <1>4, SameTwo
<1> QED
  BY <1>2, <1>5 DEF l, r, all

LEMMA OneThenTwo ==
  ASSUME NEW a, NEW b, NEW c, NEW x, x = <<a>>, NEW y, y = <<b, c>>
  PROVE  x \o y = <<a, b, c>>
<1>0. PICK S : a \in S /\ b \in S /\ c \in S
  <2>1. \E S : S = {a, b, c}
    OBVIOUS
  <2> QED
    BY <2>1
<1> DEFINE all == <<a, b, c>>
<1>1. all \in Seq(S) /\ Len(all) = 3 /\ all[1] = a /\ all[2] = b /\ all[3] = c
  BY <1>0
<1>2. /\ x \in Seq(S) /\ Len(x) = 1 /\ x[1] = a
      /\ y \in Seq(S) /\ Len(y) = 2 /\ y[1] = b /\ y[2] = c
  BY <1>0
<1> HIDE DEF all
<1>3. PICK both : both = x \o y
  BY <1>0
<1>4. /\ both \in Seq(S) /\ Len(both) = Len(x) + Len(y)
      /\ \A i \in 1..(Len(x) + Len(y)) :
           both[i] = IF i <= Len(x) THEN x[i] ELSE y[i - Len(x)]
  BY ONLY <1>2, <1>3, ConcatProperties, Zenon
<1>5. Len(both) = 3 /\ both[1] = a /\ both[2] = b /\ both[3] = c
  BY <1>2, <1>4
<1>6. both = all
  BY <1>1, <1>4, <1>5, SameThree
<1> QED
  BY <1>3, <1>6 DEF all

LEMMA TwoThenOne ==
  ASSUME NEW a, NEW b, NEW c, NEW x, x = <<a, b>>, NEW y, y = <<c>>
  PROVE  x \o y = <<a, b, c>>
<1>0. PICK S : a \in S /\ b \in S /\ c \in S
  <2>1. \E S : S = {a, b, c}
    OBVIOUS
  <2> QED
    BY <2>1
<1> DEFINE all == <<a, b, c>>
<1>1. all \in Seq(S) /\ Len(all) = 3 /\ all[1] = a /\ all[2] = b /\ all[3] = c
  BY <1>0
<1>2. /\ x \in Seq(S) /\ Len(x) = 2 /\ x[1] = a /\ x[2] = b
      /\ y \in Seq(S) /\ Len(y) = 1 /\ y[1] = c
  BY <1>0
<1> HIDE DEF all
<1>3. PICK both : both = x \o y
  BY <1>0
<1>4. /\ both \in Seq(S) /\ Len(both) = Len(x) + Len(y)
      /\ \A i \in 1..(Len(x) + Len(y)) :
           both[i] = IF i <= Len(x) THEN x[i] ELSE y[i - Len(x)]
  BY ONLY <1>2, <1>3, ConcatProperties, Zenon
<1>5. Len(both) = 3 /\ both[1] = a /\ both[2] = b /\ both[3] = c
  BY <1>2, <1>4
<1>6. both = all
  BY <1>1, <1>4, <1>5, SameThree
<1> QED
  BY <1>3, <1>6 DEF all

-----------------------------------------------------------------------------
(* The tensors of a model by name: what the forward pass looks up          *)

(* In `tensors` there is one by this name, and it has this shape.          *)
Known(tensors, of, at, name, part, shape) ==
  /\ \E t \in tensors : t.of = of /\ t.at = at /\ t.name = name /\ t.part = part
  /\ \A t \in tensors :
       t.of = of /\ t.at = at /\ t.name = name /\ t.part = part => t.shape = shape

(* What the forward pass looks up is the shape that is known.              *)
LEMMA KnownShape ==
  ASSUME NEW tensors, NEW of, NEW at, NEW name, NEW part, NEW shape,
         Known(tensors, of, at, name, part, shape)
  PROVE  Shape(tensors, of, at, name, part) = shape
BY DEF Known, Shape

(* The tensors of an operation, and their shapes.                          *)
LEMMA TensorIs ==
  ASSUME NEW of, NEW at, NEW name, NEW part, NEW shape,
         NEW t, t = Tensor(of, at, name, part, shape)
  PROVE  t.of = of /\ t.at = at /\ t.name = name /\ t.part = part /\ t.shape = shape
BY DEF Tensor

LEMMA AttentionIs ==
  ASSUME NEW of, NEW at, NEW name, NEW dim
  PROVE  /\ \A t \in Attention(of, at, name, dim) :
              /\ t.of = of /\ t.at = at /\ t.name = name
              /\ t.part \in {"in_proj_weight", "in_proj_bias", "out_proj_weight", "out_proj_bias"}
              /\ t.part = "in_proj_weight" => t.shape = <<3 * dim, dim>>
              /\ t.part = "out_proj_weight" => t.shape = <<dim, dim>>
         /\ \A part \in {"in_proj_weight", "out_proj_weight"} :
              \E t \in Attention(of, at, name, dim) : t.part = part
<1>1. PICK a, b, c, d :
        /\ a = Tensor(of, at, name, "in_proj_weight", <<3 * dim, dim>>)
        /\ b = Tensor(of, at, name, "in_proj_bias", <<3 * dim>>)
        /\ c = Tensor(of, at, name, "out_proj_weight", <<dim, dim>>)
        /\ d = Tensor(of, at, name, "out_proj_bias", <<dim>>)
  OBVIOUS
<1>2. Attention(of, at, name, dim) = {a, b, c, d}
  BY <1>1 DEF Attention
<1>3. /\ a.of = of /\ a.at = at /\ a.name = name /\ a.part = "in_proj_weight"
      /\ a.shape = <<3 * dim, dim>>
  BY <1>1, TensorIs
<1>4. b.of = of /\ b.at = at /\ b.name = name /\ b.part = "in_proj_bias"
  BY <1>1, TensorIs
<1>5. /\ c.of = of /\ c.at = at /\ c.name = name /\ c.part = "out_proj_weight"
      /\ c.shape = <<dim, dim>>
  BY <1>1, TensorIs
<1>6. d.of = of /\ d.at = at /\ d.name = name /\ d.part = "out_proj_bias"
  BY <1>1, TensorIs
<1> QED
  BY <1>2, <1>3, <1>4, <1>5, <1>6

LEMMA NormIs ==
  ASSUME NEW of, NEW at, NEW name, NEW dim
  PROVE  /\ \A t \in Norm(of, at, name, dim) :
              /\ t.of = of /\ t.at = at /\ t.name = name
              /\ t.part \in {"weight", "bias"} /\ t.shape = <<dim>>
         /\ \E t \in Norm(of, at, name, dim) : t.part = "weight"
<1>1. PICK a, b : /\ a = Tensor(of, at, name, "weight", <<dim>>)
                  /\ b = Tensor(of, at, name, "bias", <<dim>>)
  OBVIOUS
<1>2. Norm(of, at, name, dim) = {a, b}
  BY <1>1 DEF Norm
<1>3. /\ a.of = of /\ a.at = at /\ a.name = name /\ a.part = "weight" /\ a.shape = <<dim>>
      /\ b.of = of /\ b.at = at /\ b.name = name /\ b.part = "bias" /\ b.shape = <<dim>>
  BY <1>1, TensorIs
<1> QED
  BY <1>2, <1>3

LEMMA LinearIs ==
  ASSUME NEW of, NEW at, NEW name, NEW outs, NEW ins
  PROVE  /\ \A t \in Linear(of, at, name, outs, ins) :
              /\ t.of = of /\ t.at = at /\ t.name = name
              /\ t.part \in {"weight", "bias"}
              /\ t.part = "weight" => t.shape = <<outs, ins>>
         /\ \E t \in Linear(of, at, name, outs, ins) : t.part = "weight"
<1>1. PICK a, b : /\ a = Tensor(of, at, name, "weight", <<outs, ins>>)
                  /\ b = Tensor(of, at, name, "bias", <<outs>>)
  OBVIOUS
<1>2. Linear(of, at, name, outs, ins) = {a, b}
  BY <1>1 DEF Linear
<1>3. /\ a.of = of /\ a.at = at /\ a.name = name /\ a.part = "weight" /\ a.shape = <<outs, ins>>
      /\ b.of = of /\ b.at = at /\ b.name = name /\ b.part = "bias"
  BY <1>1, TensorIs
<1> QED
  BY <1>2, <1>3

AttentionNames == {"self_attn", "multihead_attn"}
NormNames == {"norm", "norm1", "norm2", "norm3"}

(* The tensors of a layer, by name.                                        *)
LayerKnown(tensors, of, at, p, attentions, norms) ==
  /\ \A name \in attentions :
       /\ Known(tensors, of, at, name, "in_proj_weight", <<3 * p.dim_model, p.dim_model>>)
       /\ Known(tensors, of, at, name, "out_proj_weight", <<p.dim_model, p.dim_model>>)
  /\ \A name \in norms : Known(tensors, of, at, name, "weight", <<p.dim_model>>)
  /\ Known(tensors, of, at, "linear1", "weight", <<p.dim_feedforward, p.dim_model>>)
  /\ Known(tensors, of, at, "linear2", "weight", <<p.dim_model, p.dim_feedforward>>)

(* A layer has one tensor of each name, in these shapes.                   *)
LEMMA LayerIs ==
  ASSUME NEW of, NEW at, NEW p, NEW attentions \in SUBSET AttentionNames,
         NEW norms \in SUBSET NormNames
  PROVE  /\ \A t \in Layer(of, at, p, attentions, norms) : t.of = of /\ t.at = at
         /\ LayerKnown(Layer(of, at, p, attentions, norms), of, at, p, attentions, norms)
<1> DEFINE dim == p.dim_model
           hidden == p.dim_feedforward
           layer == Layer(of, at, p, attentions, norms)
<1>1. layer = (UNION {Attention(of, at, name, dim) : name \in attentions})
                \cup (UNION {Norm(of, at, name, dim) : name \in norms})
                \cup Linear(of, at, "linear1", hidden, dim)
                \cup Linear(of, at, "linear2", dim, hidden)
  BY DEF Layer
<1>2. PICK d, h : d = dim /\ h = hidden
  OBVIOUS
<1> HIDE DEF dim, hidden, layer
<1>3. ASSUME NEW t \in layer
      PROVE  \/ \E name \in attentions : t \in Attention(of, at, name, dim)
             \/ \E name \in norms : t \in Norm(of, at, name, dim)
             \/ t \in Linear(of, at, "linear1", hidden, dim)
             \/ t \in Linear(of, at, "linear2", dim, hidden)
  BY <1>1, <1>3
<1>4. \A t \in layer : t.of = of /\ t.at = at
  BY <1>3, AttentionIs, NormIs, LinearIs
<1>5. ASSUME NEW t \in layer
      PROVE  /\ t.name \in attentions => t \in Attention(of, at, t.name, dim)
             /\ t.name \in norms => t \in Norm(of, at, t.name, dim)
             /\ t.name = "linear1" => t \in Linear(of, at, "linear1", hidden, dim)
             /\ t.name = "linear2" => t \in Linear(of, at, "linear2", dim, hidden)
  <2>1. \A name \in attentions : name \notin norms \cup {"linear1", "linear2"}
    BY DEF AttentionNames, NormNames
  <2>2. \A name \in norms : name \notin attentions \cup {"linear1", "linear2"}
    BY DEF AttentionNames, NormNames
  <2>3. CASE \E name \in attentions : t \in Attention(of, at, name, dim)
    BY <2>1, <2>3, AttentionIs
  <2>4. CASE \E name \in norms : t \in Norm(of, at, name, dim)
    BY <2>2, <2>4, NormIs
  <2>5. CASE t \in Linear(of, at, "linear1", hidden, dim)
    BY <2>1, <2>2, <2>5, LinearIs
  <2>6. CASE t \in Linear(of, at, "linear2", dim, hidden)
    BY <2>1, <2>2, <2>6, LinearIs
  <2> QED
    BY <1>3, <1>5, <2>3, <2>4, <2>5, <2>6
<1>6. ASSUME NEW name \in attentions
      PROVE  /\ Known(layer, of, at, name, "in_proj_weight", <<3 * dim, dim>>)
             /\ Known(layer, of, at, name, "out_proj_weight", <<dim, dim>>)
  <2>1. Attention(of, at, name, dim) \subseteq layer
    BY <1>1
  <2>2. \A t \in layer : t.name = name => t \in Attention(of, at, name, dim)
    BY <1>5
  <2> QED
    BY <2>1, <2>2, AttentionIs DEF Known
<1>7. ASSUME NEW name \in norms PROVE Known(layer, of, at, name, "weight", <<dim>>)
  <2>1. Norm(of, at, name, dim) \subseteq layer
    BY <1>1
  <2>2. \A t \in layer : t.name = name => t \in Norm(of, at, name, dim)
    BY <1>5
  <2> QED
    BY <2>1, <2>2, NormIs DEF Known
<1>8. /\ Known(layer, of, at, "linear1", "weight", <<hidden, dim>>)
      /\ Known(layer, of, at, "linear2", "weight", <<dim, hidden>>)
  <2>1. /\ Linear(of, at, "linear1", hidden, dim) \subseteq layer
        /\ Linear(of, at, "linear2", dim, hidden) \subseteq layer
    BY <1>1
  <2> QED
    BY <1>5, <2>1, LinearIs DEF Known
<1> QED
  BY <1>4, <1>6, <1>7, <1>8 DEF LayerKnown, dim, hidden, layer

(* What is known of some of the tensors is known of all, when the others   *)
(* are elsewhere.                                                          *)
LEMMA KnownWithin ==
  ASSUME NEW some, NEW tensors, some \subseteq tensors, NEW of, NEW at,
         \A t \in tensors : t.of = of /\ t.at = at => t \in some
  PROVE  \A name, part, shape :
           Known(some, of, at, name, part, shape) => Known(tensors, of, at, name, part, shape)
BY DEF Known

LEMMA LayerWithin ==
  ASSUME NEW some, NEW tensors, some \subseteq tensors, NEW of, NEW at,
         \A t \in tensors : t.of = of /\ t.at = at => t \in some,
         NEW p, NEW attentions, NEW norms, LayerKnown(some, of, at, p, attentions, norms)
  PROVE  LayerKnown(tensors, of, at, p, attentions, norms)
BY KnownWithin DEF LayerKnown

(* The tensors of an encoder, layer by layer, and of the decoder.          *)
EncoderKnown(tensors, of, count, p) ==
  /\ \A i \in 1..count : LayerKnown(tensors, of, <<i>>, p, {"self_attn"}, {"norm1", "norm2"})
  /\ p.pre_norm => Known(tensors, of, <<>>, "norm", "weight", <<p.dim_model>>)

LEMMA EncoderIs ==
  ASSUME NEW of, NEW count, NEW p
  PROVE  /\ \A t \in EncoderLayers(of, count, p) : t.of = of
         /\ EncoderKnown(EncoderLayers(of, count, p), of, count, p)
<1> DEFINE L(i) == Layer(of, <<i>>, p, {"self_attn"}, {"norm1", "norm2"})
           all == EncoderLayers(of, count, p)
           final == IF p.pre_norm THEN Norm(of, <<>>, "norm", p.dim_model) ELSE {}
<1>1. all = (UNION {L(i) : i \in 1..count}) \cup final
  BY DEF EncoderLayers
<1>2. /\ {"self_attn"} \in SUBSET AttentionNames /\ {"norm1", "norm2"} \in SUBSET NormNames
  BY DEF AttentionNames, NormNames
<1>3. ASSUME NEW i PROVE /\ \A t \in L(i) : t.of = of /\ t.at = <<i>>
                         /\ LayerKnown(L(i), of, <<i>>, p, {"self_attn"}, {"norm1", "norm2"})
  <2>1. PICK at : at = <<i>>
    OBVIOUS
  <2>2. /\ \A t \in Layer(of, at, p, {"self_attn"}, {"norm1", "norm2"}) : t.of = of /\ t.at = at
        /\ LayerKnown(Layer(of, at, p, {"self_attn"}, {"norm1", "norm2"}), of, at, p,
                      {"self_attn"}, {"norm1", "norm2"})
    BY <1>2, LayerIs
  <2> QED
    BY <2>1, <2>2
<1>2a. PICK none : none = <<>>
  OBVIOUS
<1>2b. PICK closing : closing = Norm(of, none, "norm", p.dim_model)
  OBVIOUS
<1>2c. /\ \A t \in closing : t.of = of /\ t.at = none
       /\ Known(closing, of, none, "norm", "weight", <<p.dim_model>>)
  BY <1>2b, NormIs DEF Known
<1>2d. final = IF p.pre_norm THEN closing ELSE {}
  BY <1>2a, <1>2b
<1> HIDE DEF L, all, final
<1>4. \A t \in final : t.of = of /\ t.at = none
  BY <1>2c, <1>2d
<1>5. p.pre_norm => Known(final, of, none, "norm", "weight", <<p.dim_model>>)
  BY <1>2c, <1>2d
<1>6. \A i : <<i>> # none
  BY <1>2a
<1>7. \A i, j : <<i>> = <<j>> => i = j
  OBVIOUS
<1>8. \A t \in all : t.of = of
  BY <1>1, <1>3, <1>4
<1>9. ASSUME NEW i \in 1..count
      PROVE  LayerKnown(all, of, <<i>>, p, {"self_attn"}, {"norm1", "norm2"})
  <2>1. L(i) \subseteq all
    BY <1>1
  <2>2. ASSUME NEW t \in all, t.of = of, t.at = <<i>> PROVE t \in L(i)
    <3>1. t \notin final
      BY <1>4, <1>6, <2>2
    <3>2. PICK j \in 1..count : t \in L(j)
      BY <1>1, <3>1
    <3>3. <<i>> = <<j>>
      BY <1>3, <2>2, <3>2
    <3>4. i = j
      BY <1>7, <3>3
    <3> QED
      BY <3>2, <3>4
  <2> QED
    BY <1>3, <2>1, <2>2, LayerWithin
<1>10. ASSUME p.pre_norm PROVE Known(all, of, none, "norm", "weight", <<p.dim_model>>)
  <2>1. final \subseteq all
    BY <1>1
  <2>2. ASSUME NEW t \in all, t.of = of, t.at = none PROVE t \in final
    BY <1>1, <1>3, <1>6, <2>2
  <2> QED
    BY <1>5, <1>10, <2>1, <2>2, KnownWithin
<1> QED
  BY <1>2a, <1>8, <1>9, <1>10 DEF EncoderKnown, all

DecoderKnown(tensors, p) ==
  /\ LayerKnown(tensors, "decoder", <<1>>, p, AttentionNames, {"norm1", "norm2", "norm3"})
  /\ Known(tensors, "decoder", <<>>, "norm", "weight", <<p.dim_model>>)

LEMMA DecoderIs ==
  ASSUME NEW p
  PROVE  /\ \A t \in DecoderLayers(p) : t.of = "decoder"
         /\ DecoderKnown(DecoderLayers(p), p)
<1> DEFINE norms == {"norm1", "norm2", "norm3"}
           layer == Layer("decoder", <<1>>, p, AttentionNames, norms)
           final == Norm("decoder", <<>>, "norm", p.dim_model)
           all == DecoderLayers(p)
<1>1. all = layer \cup final
  BY DEF DecoderLayers, AttentionNames
<1>2. norms \in SUBSET NormNames /\ AttentionNames \in SUBSET AttentionNames
  BY DEF NormNames
<1>3. PICK at : at = <<1>>
  OBVIOUS
<1>4. at # <<>>
  BY <1>3
<1> HIDE DEF norms
<1>5. layer = Layer("decoder", at, p, AttentionNames, norms)
  BY <1>3
<1> HIDE DEF layer
<1>6. /\ \A t \in layer : t.of = "decoder" /\ t.at = at
      /\ LayerKnown(layer, "decoder", at, p, AttentionNames, norms)
  <2>1. PICK names : names = AttentionNames
    OBVIOUS
  <2>2. /\ \A t \in Layer("decoder", at, p, names, norms) : t.of = "decoder" /\ t.at = at
        /\ LayerKnown(Layer("decoder", at, p, names, norms), "decoder", at, p, names, norms)
    BY <1>2, <2>1, LayerIs
  <2> QED
    BY <1>5, <2>1, <2>2
<1>7. /\ \A t \in final : t.of = "decoder" /\ t.at = <<>>
      /\ Known(final, "decoder", <<>>, "norm", "weight", <<p.dim_model>>)
  BY NormIs DEF Known
<1> HIDE DEF final, all
<1>8. LayerKnown(all, "decoder", at, p, AttentionNames, norms)
  <2>1. layer \subseteq all /\ \A t \in all : t.of = "decoder" /\ t.at = at => t \in layer
    BY <1>1, <1>4, <1>7
  <2> QED
    BY <1>6, <2>1, LayerWithin
<1>9. Known(all, "decoder", <<>>, "norm", "weight", <<p.dim_model>>)
  <2>1. final \subseteq all /\ \A t \in all : t.of = "decoder" /\ t.at = <<>> => t \in final
    BY <1>1, <1>4, <1>6
  <2> QED
    BY <1>7, <2>1, KnownWithin
<1> QED
  BY <1>1, <1>3, <1>6, <1>7, <1>8, <1>9 DEF DecoderKnown, norms, all

(* The tensors of a model: the layers, those of the model itself and the   *)
(* backbone.                                                               *)
Tensors(p) == Parameters(p) \cup Buffers(p)

InputWidth(p, name) == Width(Features(p.input_features), name)

OutputWidth(p) == Width(p.output_features, Action)

Convolutions(p) == IF Cameras(p) = {} THEN {} ELSE Backbone(p.vision_backbone)

StatParts == {"scale", "shift", "mean", "var"}

Normalizing(t, part) == Tensor("backbone", t.at, t.name, part, <<t.shape[1]>>)

BackboneTensors(p) ==
  Convolutions(p) \cup {Normalizing(t, part) : t \in Convolutions(p), part \in StatParts}

OwnVae(p) ==
  IF p.use_vae
  THEN {Tensor("model", <<>>, "vae_cls", "weight", <<1, p.dim_model>>)}
         \cup Linear("model", <<>>, "vae_action", p.dim_model, OutputWidth(p))
         \cup Linear("model", <<>>, "vae_latent", 2 * p.latent_dim, p.dim_model)
         \cup (IF InputWidth(p, "state") > 0
               THEN Linear("model", <<>>, "vae_state", p.dim_model, InputWidth(p, "state"))
               ELSE {})
         \cup {Tensor("model", <<>>, "vae_positions", "table", <<1, VaeTokens(p), p.dim_model>>)}
  ELSE {}

OwnInput(p, name) ==
  IF InputWidth(p, name) > 0
  THEN Linear("model", <<>>, name, p.dim_model, InputWidth(p, name)) ELSE {}

TokenCount(p) == 1 + Cardinality(DOMAIN Features(p.input_features) \cap {"state", "environment"})

OwnTensors(p) ==
  OwnVae(p) \cup OwnInput(p, "state") \cup OwnInput(p, "environment")
    \cup Linear("model", <<>>, "latent", p.dim_model, p.latent_dim)
    \cup Linear("model", <<>>, "action_head", OutputWidth(p), p.dim_model)
    \cup {Tensor("model", <<>>, "encoder_positions", "weight", <<TokenCount(p), p.dim_model>>),
          Tensor("model", <<>>, "decoder_positions", "weight", <<p.chunk_size, p.dim_model>>)}
    \cup (IF Cameras(p) = {} THEN {} ELSE Linear("model", <<>>, "image", p.dim_model, 512))

LayerTensors(p) ==
  (IF p.use_vae THEN EncoderLayers("vae", p.n_vae_encoder_layers, p) ELSE {})
    \cup EncoderLayers("encoder", p.n_encoder_layers, p) \cup DecoderLayers(p)

LEMMA BlockIs ==
  ASSUME NEW stage, NEW index, NEW ins, NEW outs
  PROVE  \A t \in Block(stage, index, ins, outs) : t.of = "backbone" /\ t.at = <<stage, index>>
BY TensorIs DEF Block

LEMMA BackboneOf ==
  ASSUME NEW name
  PROVE  \A t \in Backbone(name) : t.of = "backbone"
BY BlockIs, TensorIs DEF Backbone

LEMMA OwnOf ==
  ASSUME NEW p
  PROVE  \A t \in OwnTensors(p) : t.of = "model"
<1>1. \A t \in OwnVae(p) : t.of = "model"
  BY LinearIs, TensorIs DEF OwnVae
<1>2. \A name : \A t \in OwnInput(p, name) : t.of = "model"
  BY LinearIs DEF OwnInput
<1> QED
  BY <1>1, <1>2, LinearIs, TensorIs DEF OwnTensors

LEMMA LayersOf ==
  ASSUME NEW p
  PROVE  \A t \in LayerTensors(p) : t.of \in {"vae", "encoder", "decoder"}
BY EncoderIs, DecoderIs DEF LayerTensors

(* A model has the tensors of its layers, its own and those of its         *)
(* backbone, and no other.                                                 *)
LEMMA TensorsAre ==
  ASSUME NEW p
  PROVE  Tensors(p) = LayerTensors(p) \cup OwnTensors(p) \cup BackboneTensors(p)
<1> DEFINE positions ==
             IF p.use_vae
             THEN {Tensor("model", <<>>, "vae_positions", "table", <<1, VaeTokens(p), p.dim_model>>)}
             ELSE {}
           Saved(set) == {Normalizing(t, part) : t \in set, part \in StatParts}
<1>1. Parameters(p) \cup positions = LayerTensors(p) \cup OwnTensors(p) \cup Convolutions(p)
  <2>1. CASE p.use_vae
    BY <2>1 DEF Parameters, Vae, LayerTensors, OwnTensors, OwnVae, OwnInput, Convolutions,
                InputWidth, OutputWidth, TokenCount
  <2>2. CASE ~p.use_vae
    BY <2>2 DEF Parameters, LayerTensors, OwnTensors, OwnVae, OwnInput, Convolutions,
                InputWidth, OutputWidth, TokenCount
  <2> QED
    BY <2>1, <2>2
<1>2. {t \in Parameters(p) : t.of = "backbone"} = Convolutions(p)
  <2>1. \A t \in Convolutions(p) : t.of = "backbone"
    BY BackboneOf DEF Convolutions
  <2>2. \A t \in LayerTensors(p) \cup OwnTensors(p) : t.of # "backbone"
    BY LayersOf, OwnOf
  <2>3. \A t \in positions : t.of # "backbone"
    BY TensorIs
  <2> HIDE DEF positions
  <2> QED
    BY <1>1, <2>1, <2>2, <2>3
<1>3. Buffers(p) = Saved({t \in Parameters(p) : t.of = "backbone"}) \cup positions
  BY DEF Buffers, Normalizing, StatParts
<1>4. BackboneTensors(p) = Convolutions(p) \cup Saved(Convolutions(p))
  BY DEF BackboneTensors
<1> HIDE DEF Saved, positions
<1> QED
  BY <1>1, <1>2, <1>3, <1>4 DEF Tensors

(* The model's own tensors, by name.                                       *)
OwnNames ==
  {"vae_cls", "vae_action", "vae_latent", "vae_state", "vae_positions", "state", "environment",
   "latent", "action_head", "encoder_positions", "decoder_positions", "image"}

OwnNamed(p, name) ==
  CASE name = "vae_cls" /\ p.use_vae ->
         {Tensor("model", <<>>, "vae_cls", "weight", <<1, p.dim_model>>)}
    [] name = "vae_action" /\ p.use_vae ->
         Linear("model", <<>>, "vae_action", p.dim_model, OutputWidth(p))
    [] name = "vae_latent" /\ p.use_vae ->
         Linear("model", <<>>, "vae_latent", 2 * p.latent_dim, p.dim_model)
    [] name = "vae_state" /\ p.use_vae /\ InputWidth(p, "state") > 0 ->
         Linear("model", <<>>, "vae_state", p.dim_model, InputWidth(p, "state"))
    [] name = "vae_positions" /\ p.use_vae ->
         {Tensor("model", <<>>, "vae_positions", "table", <<1, VaeTokens(p), p.dim_model>>)}
    [] name \in {"state", "environment"} -> OwnInput(p, name)
    [] name = "latent" -> Linear("model", <<>>, "latent", p.dim_model, p.latent_dim)
    [] name = "action_head" -> Linear("model", <<>>, "action_head", OutputWidth(p), p.dim_model)
    [] name = "encoder_positions" ->
         {Tensor("model", <<>>, "encoder_positions", "weight", <<TokenCount(p), p.dim_model>>)}
    [] name = "decoder_positions" ->
         {Tensor("model", <<>>, "decoder_positions", "weight", <<p.chunk_size, p.dim_model>>)}
    [] name = "image" /\ Cameras(p) # {} -> Linear("model", <<>>, "image", p.dim_model, 512)
    [] OTHER -> {}

(* They are those, and each is at its name.                                *)
LEMMA OwnNamedIs ==
  ASSUME NEW p
  PROVE  /\ OwnTensors(p) = UNION {OwnNamed(p, name) : name \in OwnNames}
         /\ \A name \in OwnNames : \A t \in OwnNamed(p, name) :
              t.of = "model" /\ t.at = <<>> /\ t.name = name
<1> DEFINE G(name) == OwnNamed(p, name)
<1>1. /\ G("vae_cls") \cup G("vae_action") \cup G("vae_latent") \cup G("vae_state")
           \cup G("vae_positions") = OwnVae(p)
  <2>1. CASE p.use_vae
    BY <2>1 DEF OwnNamed, OwnVae
  <2>2. CASE ~p.use_vae
    BY <2>2 DEF OwnNamed, OwnVae
  <2> QED
    BY <2>1, <2>2
<1>2. G("state") = OwnInput(p, "state") /\ G("environment") = OwnInput(p, "environment")
  BY DEF OwnNamed
<1>3. /\ G("latent") = Linear("model", <<>>, "latent", p.dim_model, p.latent_dim)
      /\ G("action_head") = Linear("model", <<>>, "action_head", OutputWidth(p), p.dim_model)
      /\ G("encoder_positions") =
           {Tensor("model", <<>>, "encoder_positions", "weight", <<TokenCount(p), p.dim_model>>)}
      /\ G("decoder_positions") =
           {Tensor("model", <<>>, "decoder_positions", "weight", <<p.chunk_size, p.dim_model>>)}
      /\ G("image") = IF Cameras(p) = {} THEN {} ELSE Linear("model", <<>>, "image", p.dim_model, 512)
  BY DEF OwnNamed
<1>4. OwnTensors(p) = (G("vae_cls") \cup G("vae_action") \cup G("vae_latent") \cup G("vae_state")
                         \cup G("vae_positions")) \cup G("state") \cup G("environment")
                        \cup G("latent") \cup G("action_head") \cup G("encoder_positions")
                        \cup G("decoder_positions") \cup G("image")
  BY <1>1, <1>2, <1>3 DEF OwnTensors
<1>5. ASSUME NEW name \in OwnNames, NEW t \in G(name)
      PROVE  t.of = "model" /\ t.at = <<>> /\ t.name = name
  <2>1. CASE name \in {"state", "environment"}
    <3>1. t \in Linear("model", <<>>, name, p.dim_model, InputWidth(p, name))
      BY <1>5, <2>1 DEF OwnNamed, OwnInput
    <3> QED
      BY <3>1, LinearIs
  <2>2. CASE name \in {"vae_action", "vae_latent", "vae_state"}
    <3>1. \E outs, ins : t \in Linear("model", <<>>, name, outs, ins)
      BY <1>5, <2>2 DEF OwnNamed
    <3> QED
      BY <3>1, LinearIs
  <2>3. CASE name \in {"latent", "action_head", "image"}
    <3>1. \E outs, ins : t \in Linear("model", <<>>, name, outs, ins)
      BY <1>5, <2>3 DEF OwnNamed
    <3> QED
      BY <3>1, LinearIs
  <2>4. CASE name \in {"vae_cls", "vae_positions", "encoder_positions", "decoder_positions"}
    <3>1. \E part, shape : t = Tensor("model", <<>>, name, part, shape)
      BY <1>5, <2>4 DEF OwnNamed
    <3> QED
      BY <3>1, TensorIs
  <2> QED
    BY <1>5, <2>1, <2>2, <2>3, <2>4 DEF OwnNames
<1> HIDE DEF G
<1>6. OwnTensors(p) = UNION {G(name) : name \in OwnNames}
  BY <1>4 DEF OwnNames
<1> QED
  BY <1>5, <1>6 DEF G

LEMMA OwnKnownIn ==
  ASSUME NEW p, NEW name \in OwnNames
  PROVE  \A part, shape :
           Known(OwnNamed(p, name), "model", <<>>, name, part, shape) =>
             Known(Tensors(p), "model", <<>>, name, part, shape)
<1>1. OwnNamed(p, name) \subseteq Tensors(p)
  BY TensorsAre, OwnNamedIs
<1>2. ASSUME NEW t \in Tensors(p), t.of = "model", t.name = name PROVE t \in OwnNamed(p, name)
  <2>1. t \in OwnTensors(p)
    <3>1. t \notin LayerTensors(p)
      BY <1>2, LayersOf
    <3>2. t \notin Convolutions(p)
      BY <1>2, BackboneOf DEF Convolutions
    <3>3. ASSUME NEW u, NEW part, t = Normalizing(u, part)
          PROVE  FALSE
      <4>1. t.of = "backbone"
        BY <3>3, TensorIs DEF Normalizing
      <4> QED
        BY <1>2, <4>1
    <3>4. ASSUME t \in BackboneTensors(p) PROVE FALSE
      <4>1. \E u \in Convolutions(p), part \in StatParts : t = Normalizing(u, part)
        BY <3>2, <3>4 DEF BackboneTensors
      <4> QED
        BY <3>3, <4>1
    <3> QED
      BY <1>2, <3>1, <3>4, TensorsAre
  <2>2. PICK own \in OwnNames : t \in OwnNamed(p, own)
    BY <2>1, OwnNamedIs
  <2>3. t.name = own
    BY <2>2, OwnNamedIs
  <2> QED
    BY <1>2, <2>2, <2>3
<1> QED
  BY <1>1, <1>2 DEF Known

(* What the forward pass looks up among them.                              *)
OwnKnown(tensors, p) ==
  LET Is(name, part, shape) == Known(tensors, "model", <<>>, name, part, shape)
      dim == p.dim_model
  IN /\ p.use_vae =>
          /\ Is("vae_action", "weight", <<dim, OutputWidth(p)>>)
          /\ Is("vae_latent", "weight", <<2 * p.latent_dim, dim>>)
          /\ InputWidth(p, "state") > 0 => Is("vae_state", "weight", <<dim, InputWidth(p, "state")>>)
          /\ Is("vae_positions", "table", <<1, VaeTokens(p), dim>>)
     /\ \A name \in {"state", "environment"} :
          InputWidth(p, name) > 0 => Is(name, "weight", <<dim, InputWidth(p, name)>>)
     /\ Is("latent", "weight", <<dim, p.latent_dim>>)
     /\ Is("action_head", "weight", <<OutputWidth(p), dim>>)
     /\ Is("encoder_positions", "weight", <<TokenCount(p), dim>>)
     /\ Is("decoder_positions", "weight", <<p.chunk_size, dim>>)
     /\ Cameras(p) # {} => Is("image", "weight", <<dim, 512>>)

LEMMA LinearKnown ==
  ASSUME NEW of, NEW at, NEW name, NEW outs, NEW ins
  PROVE  Known(Linear(of, at, name, outs, ins), of, at, name, "weight", <<outs, ins>>)
BY LinearIs DEF Known

LEMMA TensorKnown ==
  ASSUME NEW of, NEW at, NEW name, NEW part, NEW shape
  PROVE  Known({Tensor(of, at, name, part, shape)}, of, at, name, part, shape)
BY TensorIs DEF Known

(* A model that is built has what the pass looks up: its own tensors ...   *)
LEMMA OwnIsKnown ==
  ASSUME NEW p
  PROVE  OwnKnown(Tensors(p), p)
<1> DEFINE G(name) == OwnNamed(p, name)
           dim == p.dim_model
           Is(name, part, shape) == Known(Tensors(p), "model", <<>>, name, part, shape)
<1>1. ASSUME p.use_vae
      PROVE  /\ Is("vae_action", "weight", <<dim, OutputWidth(p)>>)
             /\ Is("vae_latent", "weight", <<2 * p.latent_dim, dim>>)
             /\ InputWidth(p, "state") > 0 => Is("vae_state", "weight", <<dim, InputWidth(p, "state")>>)
             /\ Is("vae_positions", "table", <<1, VaeTokens(p), dim>>)
  <2>1. /\ G("vae_action") = Linear("model", <<>>, "vae_action", dim, OutputWidth(p))
        /\ G("vae_latent") = Linear("model", <<>>, "vae_latent", 2 * p.latent_dim, dim)
        /\ InputWidth(p, "state") > 0 =>
             G("vae_state") = Linear("model", <<>>, "vae_state", dim, InputWidth(p, "state"))
        /\ G("vae_positions") =
             {Tensor("model", <<>>, "vae_positions", "table", <<1, VaeTokens(p), dim>>)}
    BY <1>1 DEF OwnNamed
  <2>2. {"vae_action", "vae_latent", "vae_state", "vae_positions"} \subseteq OwnNames
    BY DEF OwnNames
  <2> HIDE DEF dim
  <2> QED
    BY <2>1, <2>2, OwnKnownIn, LinearKnown, TensorKnown, SMTT(30)
<1>2. ASSUME NEW name \in {"state", "environment"}, InputWidth(p, name) > 0
      PROVE  Is(name, "weight", <<dim, InputWidth(p, name)>>)
  <2>1. G(name) = Linear("model", <<>>, name, dim, InputWidth(p, name))
    BY <1>2 DEF OwnNamed, OwnInput
  <2>2. name \in OwnNames
    BY <1>2 DEF OwnNames
  <2> HIDE DEF dim
  <2> QED
    BY <2>1, <2>2, OwnKnownIn, LinearKnown
<1>3. /\ Is("latent", "weight", <<dim, p.latent_dim>>)
      /\ Is("action_head", "weight", <<OutputWidth(p), dim>>)
      /\ Is("encoder_positions", "weight", <<TokenCount(p), dim>>)
      /\ Is("decoder_positions", "weight", <<p.chunk_size, dim>>)
  <2>1. /\ G("latent") = Linear("model", <<>>, "latent", dim, p.latent_dim)
        /\ G("action_head") = Linear("model", <<>>, "action_head", OutputWidth(p), dim)
        /\ G("encoder_positions") =
             {Tensor("model", <<>>, "encoder_positions", "weight", <<TokenCount(p), dim>>)}
        /\ G("decoder_positions") =
             {Tensor("model", <<>>, "decoder_positions", "weight", <<p.chunk_size, dim>>)}
    BY DEF OwnNamed
  <2>2. {"latent", "action_head", "encoder_positions", "decoder_positions"} \subseteq OwnNames
    BY DEF OwnNames
  <2> HIDE DEF dim
  <2> QED
    BY <2>1, <2>2, OwnKnownIn, LinearKnown, TensorKnown
<1>4. ASSUME Cameras(p) # {} PROVE Is("image", "weight", <<dim, 512>>)
  <2>1. G("image") = Linear("model", <<>>, "image", dim, 512)
    BY <1>4 DEF OwnNamed
  <2>2. "image" \in OwnNames
    BY DEF OwnNames
  <2> HIDE DEF dim
  <2> QED
    BY <2>1, <2>2, OwnKnownIn, LinearKnown
<1> QED
  BY <1>1, <1>2, <1>3, <1>4 DEF OwnKnown

LEMMA OfTensors ==
  ASSUME NEW p, NEW t \in Tensors(p)
  PROVE  /\ t.of \in {"vae", "encoder", "decoder"} => t \in LayerTensors(p)
         /\ t.of = "backbone" => t \in BackboneTensors(p)
<1>1. ASSUME NEW u, NEW part, t = Normalizing(u, part)
      PROVE  t.of = "backbone"
  BY <1>1, TensorIs DEF Normalizing
<1>2. t \in BackboneTensors(p) => t.of = "backbone"
  <2>1. t \in Convolutions(p) => t.of = "backbone"
    BY BackboneOf DEF Convolutions
  <2>2. ASSUME t \in BackboneTensors(p), t \notin Convolutions(p) PROVE t.of = "backbone"
    <3>1. \E u \in Convolutions(p), part \in StatParts : t = Normalizing(u, part)
      BY <2>2 DEF BackboneTensors
    <3> QED
      BY <1>1, <3>1
  <2> QED
    BY <2>1, <2>2
<1>3. t \in OwnTensors(p) => t.of = "model"
  BY OwnOf
<1>4. t \in LayerTensors(p) => t.of \in {"vae", "encoder", "decoder"}
  BY LayersOf
<1> QED
  BY <1>2, <1>3, <1>4, TensorsAre

LEMMA EncoderWithin ==
  ASSUME NEW some, NEW tensors, some \subseteq tensors, NEW of,
         \A t \in tensors : t.of = of => t \in some, NEW count, NEW p,
         EncoderKnown(some, of, count, p)
  PROVE  EncoderKnown(tensors, of, count, p)
<1>1. ASSUME NEW i \in 1..count
      PROVE  LayerKnown(tensors, of, <<i>>, p, {"self_attn"}, {"norm1", "norm2"})
  <2>1. PICK at : at = <<i>>
    OBVIOUS
  <2>2. LayerKnown(some, of, at, p, {"self_attn"}, {"norm1", "norm2"})
    BY <1>1, <2>1 DEF EncoderKnown
  <2>3. LayerKnown(tensors, of, at, p, {"self_attn"}, {"norm1", "norm2"})
    BY <2>2, LayerWithin
  <2> QED
    BY <2>1, <2>3
<1>2. p.pre_norm => Known(tensors, of, <<>>, "norm", "weight", <<p.dim_model>>)
  BY DEF EncoderKnown, Known
<1> QED
  BY <1>1, <1>2 DEF EncoderKnown

(* ... those of its layers ...                                             *)
LEMMA LayersAreKnown ==
  ASSUME NEW p
  PROVE  /\ p.use_vae => EncoderKnown(Tensors(p), "vae", p.n_vae_encoder_layers, p)
         /\ EncoderKnown(Tensors(p), "encoder", p.n_encoder_layers, p)
         /\ DecoderKnown(Tensors(p), p)
<1> DEFINE vae == EncoderLayers("vae", p.n_vae_encoder_layers, p)
           encoder == EncoderLayers("encoder", p.n_encoder_layers, p)
           decoder == DecoderLayers(p)
<1>1. LayerTensors(p) = (IF p.use_vae THEN vae ELSE {}) \cup encoder \cup decoder
  BY DEF LayerTensors
<1>2. /\ \A t \in vae : t.of = "vae"
      /\ \A t \in encoder : t.of = "encoder"
      /\ \A t \in decoder : t.of = "decoder"
      /\ EncoderKnown(vae, "vae", p.n_vae_encoder_layers, p)
      /\ EncoderKnown(encoder, "encoder", p.n_encoder_layers, p)
      /\ DecoderKnown(decoder, p)
  BY EncoderIs, DecoderIs
<1> HIDE DEF vae, encoder, decoder
<1>3. LayerTensors(p) \subseteq Tensors(p)
  BY TensorsAre
<1>4. /\ \A t \in Tensors(p) : t.of = "vae" => t \in vae
      /\ \A t \in Tensors(p) : t.of = "encoder" => t \in encoder
      /\ \A t \in Tensors(p) : t.of = "decoder" => t \in decoder
  BY <1>1, <1>2, OfTensors
<1>5. p.use_vae => EncoderKnown(Tensors(p), "vae", p.n_vae_encoder_layers, p)
  BY <1>1, <1>2, <1>3, <1>4, EncoderWithin
<1>6. EncoderKnown(Tensors(p), "encoder", p.n_encoder_layers, p)
  BY <1>1, <1>2, <1>3, <1>4, EncoderWithin
<1>7. DecoderKnown(Tensors(p), p)
  <2>1. PICK at : at = <<1>>
    OBVIOUS
  <2>2. decoder \subseteq Tensors(p)
    BY <1>1, <1>3
  <2>3. LayerKnown(decoder, "decoder", at, p, AttentionNames, {"norm1", "norm2", "norm3"})
    BY <1>2, <2>1 DEF DecoderKnown
  <2>4. LayerKnown(Tensors(p), "decoder", at, p, AttentionNames, {"norm1", "norm2", "norm3"})
    BY <1>4, <2>2, <2>3, LayerWithin
  <2>5. Known(Tensors(p), "decoder", <<>>, "norm", "weight", <<p.dim_model>>)
    BY <1>2, <1>4, <2>2 DEF DecoderKnown, Known
  <2> QED
    BY <2>1, <2>4, <2>5 DEF DecoderKnown
<1> QED
  BY <1>5, <1>6, <1>7

(* A convolution and what normalizes its output.                           *)
ConvolutionKnown(tensors, at, name, shape) ==
  /\ Known(tensors, "backbone", at, name, "weight", shape)
  /\ Known(tensors, "backbone", at, name, "mean", <<shape[1]>>)

LEMMA ConvolutionIs ==
  ASSUME NEW p, NEW at, NEW name, NEW shape,
         \A t \in Convolutions(p) : t.part = "weight",
         Known(Convolutions(p), "backbone", at, name, "weight", shape)
  PROVE  ConvolutionKnown(Tensors(p), at, name, shape)
<1> DEFINE mine(t) == t.of = "backbone" /\ t.at = at /\ t.name = name
<1>1. PICK one \in Convolutions(p) : mine(one) /\ one.part = "weight"
  BY DEF Known
<1>2. \A t \in Convolutions(p) : mine(t) => t.shape = shape
  BY DEF Known
<1>3. \A u, part : LET t == Normalizing(u, part)
                   IN /\ t.of = "backbone" /\ t.at = u.at /\ t.name = u.name /\ t.part = part
                      /\ t.shape = <<u.shape[1]>>
  BY TensorIs DEF Normalizing
<1>4. ASSUME NEW t \in Tensors(p), mine(t)
      PROVE  t \in Convolutions(p) \/ \E u \in Convolutions(p), part \in StatParts : t = Normalizing(u, part)
  <2>1. t \in BackboneTensors(p)
    BY <1>4, OfTensors
  <2> HIDE DEF mine
  <2> QED
    BY <2>1 DEF BackboneTensors
<1>5. Convolutions(p) \subseteq Tensors(p) /\ Normalizing(one, "mean") \in Tensors(p)
  <2>1. BackboneTensors(p) \subseteq Tensors(p)
    BY TensorsAre
  <2>2. Normalizing(one, "mean") \in BackboneTensors(p)
    BY <1>1 DEF BackboneTensors, StatParts
  <2> QED
    BY <2>1, <2>2 DEF BackboneTensors
<1>6. \A u \in Convolutions(p) : u.of = "backbone"
  BY BackboneOf DEF Convolutions
<1>7. ASSUME NEW t \in Tensors(p), mine(t)
      PROVE  /\ t.part = "weight" => t.shape = shape
             /\ t.part = "mean" => t.shape = <<shape[1]>>
  <2>1. CASE t \in Convolutions(p)
    BY <1>2, <1>7, <2>1
  <2>2. CASE \E u \in Convolutions(p), part \in StatParts : t = Normalizing(u, part)
    <3>1. PICK u \in Convolutions(p), part \in StatParts : t = Normalizing(u, part)
      BY <2>2
    <3>2. t.at = u.at /\ t.name = u.name /\ t.part = part /\ t.shape = <<u.shape[1]>>
      BY <1>3, <3>1
    <3>3. u.shape = shape
      BY <1>2, <1>6, <1>7, <3>2
    <3> QED
      BY <3>1, <3>2, <3>3 DEF StatParts
  <2> QED
    BY <1>4, <1>7, <2>1, <2>2
<1>8. Known(Tensors(p), "backbone", at, name, "weight", shape)
  BY <1>1, <1>5, <1>7 DEF Known
<1>9. Known(Tensors(p), "backbone", at, name, "mean", <<shape[1]>>)
  <2>1. PICK t : t = Normalizing(one, "mean")
    OBVIOUS
  <2>2. mine(t) /\ t.part = "mean" /\ t \in Tensors(p)
    BY <1>1, <1>3, <1>5, <2>1
  <2> QED
    BY <1>7, <2>2 DEF Known
<1> QED
  BY <1>8, <1>9 DEF ConvolutionKnown

(* The convolutions of a block, and the shapes of their weights.           *)
BlockNames(s, i) == {"conv1", "conv2"} \cup IF s > 1 /\ i = 1 THEN {"downsample"} ELSE {}

(* What a block is given has as many channels as what is before it.        *)
ChannelsIn(s, i) == Channels[IF i > 1 \/ s = 1 THEN s ELSE s - 1]

BlockShape(s, i, name) ==
  CASE name = "conv1" -> <<Channels[s], ChannelsIn(s, i), 3, 3>>
    [] name = "conv2" -> <<Channels[s], Channels[s], 3, 3>>
    [] name = "downsample" -> <<Channels[s], ChannelsIn(s, i), 1, 1>>

(* A block has these and no other.                                         *)
LEMMA BlockTensors ==
  ASSUME NEW s, NEW i
  PROVE  LET block == Block(s, i, ChannelsIn(s, i), Channels[s])
         IN /\ \A t \in block : /\ t.of = "backbone" /\ t.at = <<s, i>> /\ t.part = "weight"
                                /\ t.name \in BlockNames(s, i)
                                /\ t.shape = BlockShape(s, i, t.name)
            /\ \A name \in BlockNames(s, i) : \E t \in block : t.name = name
<1> DEFINE block == Block(s, i, ChannelsIn(s, i), Channels[s])
           Made(name) == Tensor("backbone", <<s, i>>, name, "weight", BlockShape(s, i, name))
<1>1. block = {Made(name) : name \in BlockNames(s, i)}
  <2>1. /\ BlockShape(s, i, "conv1") = <<Channels[s], ChannelsIn(s, i), 3, 3>>
        /\ BlockShape(s, i, "conv2") = <<Channels[s], Channels[s], 3, 3>>
        /\ BlockShape(s, i, "downsample") = <<Channels[s], ChannelsIn(s, i), 1, 1>>
    BY DEF BlockShape
  <2>2. block = {Made("conv1"), Made("conv2")}
                  \cup IF s > 1 /\ i = 1 THEN {Made("downsample")} ELSE {}
    BY <2>1 DEF Block
  <2> HIDE DEF Made, block
  <2> QED
    BY <2>2 DEF BlockNames
<1>2. \A name : LET t == Made(name)
                IN /\ t.of = "backbone" /\ t.at = <<s, i>> /\ t.name = name /\ t.part = "weight"
                   /\ t.shape = BlockShape(s, i, name)
  BY TensorIs
<1> HIDE DEF Made, block
<1> QED
  BY <1>1, <1>2 DEF block

IsPlace(name, s, i) == s \in 1..4 /\ i \in 1..6 /\ i <= StageBlocks(name)[s]

(* A backbone has the blocks of its stages.                                *)
LEMMA BackboneIs ==
  ASSUME NEW name
  PROVE  /\ \A t \in Backbone(name) : t.of = "backbone" /\ t.part = "weight"
         /\ Known(Backbone(name), "backbone", <<>>, "conv1", "weight", <<64, 3, 7, 7>>)
         /\ \A s, i : IsPlace(name, s, i) =>
              /\ \A conv \in BlockNames(s, i) :
                   Known(Backbone(name), "backbone", <<s, i>>, conv, "weight", BlockShape(s, i, conv))
              /\ \A t \in Backbone(name) : t.at = <<s, i>> => t.name \in BlockNames(s, i)
<1> DEFINE B(s, i) == Block(s, i, ChannelsIn(s, i), Channels[s])
           places == {at \in (1..4) \X (1..6) : at[2] <= StageBlocks(name)[at[1]]}
<1>1. PICK none, stem : none = <<>> /\ stem = Tensor("backbone", none, "conv1", "weight", <<64, 3, 7, 7>>)
  OBVIOUS
<1>2. Backbone(name) = {stem} \cup (UNION {B(at[1], at[2]) : at \in places})
  BY <1>1 DEF Backbone, ChannelsIn
<1>3. /\ stem.of = "backbone" /\ stem.at = none /\ stem.name = "conv1" /\ stem.part = "weight"
      /\ stem.shape = <<64, 3, 7, 7>>
  BY <1>1, TensorIs
<1>4. \A s, i : /\ \A t \in B(s, i) : /\ t.of = "backbone" /\ t.at = <<s, i>> /\ t.part = "weight"
                                      /\ t.name \in BlockNames(s, i)
                                      /\ t.shape = BlockShape(s, i, t.name)
                /\ \A conv \in BlockNames(s, i) : \E t \in B(s, i) : t.name = conv
  BY BlockTensors
<1>5. \A s, i : IsPlace(name, s, i) => <<s, i>> \in places
  BY DEF IsPlace
<1>6. \A s, i : <<s, i>>[1] = s /\ <<s, i>>[2] = i /\ <<s, i>> # none
  BY <1>1
<1>7. \A at \in places : at = <<at[1], at[2]>>
  OBVIOUS
<1> HIDE DEF B, places
<1>8. \A t \in Backbone(name) : t.of = "backbone" /\ t.part = "weight"
  BY <1>2, <1>3, <1>4
<1>9. ASSUME NEW t \in Backbone(name), t.at = none PROVE t = stem
  <2> SUFFICES ASSUME t # stem PROVE FALSE
    OBVIOUS
  <2>1. PICK at \in places : t \in B(at[1], at[2])
    BY <1>2
  <2>2. t.at = <<at[1], at[2]>>
    BY <1>4, <2>1
  <2> QED
    BY <1>6, <1>9, <2>2
<1>10. Known(Backbone(name), "backbone", none, "conv1", "weight", <<64, 3, 7, 7>>)
  <2>1. stem \in Backbone(name)
    BY <1>2
  <2> QED
    BY <1>3, <1>9, <2>1 DEF Known
<1>11. ASSUME NEW s, NEW i, IsPlace(name, s, i)
       PROVE  /\ B(s, i) \subseteq Backbone(name)
              /\ \A t \in Backbone(name) : t.at = <<s, i>> => t \in B(s, i)
  <2>1. PICK at : at = <<s, i>>
    OBVIOUS
  <2>2. at \in places /\ at[1] = s /\ at[2] = i /\ at # none
    BY <1>5, <1>6, <1>11, <2>1
  <2>3. B(s, i) \subseteq Backbone(name)
    BY <1>2, <2>2
  <2>4. ASSUME NEW t \in Backbone(name), t.at = at PROVE t \in B(s, i)
    <3>1. PICK other \in places : t \in B(other[1], other[2])
      BY <1>2, <1>3, <2>2, <2>4
    <3>2. t.at = other
      BY <1>4, <1>7, <3>1
    <3> QED
      BY <2>2, <2>4, <3>1, <3>2
  <2> QED
    BY <2>1, <2>3, <2>4
<1>12. ASSUME NEW s, NEW i, IsPlace(name, s, i)
       PROVE  /\ \A conv \in BlockNames(s, i) :
                   Known(Backbone(name), "backbone", <<s, i>>, conv, "weight", BlockShape(s, i, conv))
              /\ \A t \in Backbone(name) : t.at = <<s, i>> => t.name \in BlockNames(s, i)
  BY <1>4, <1>11, <1>12 DEF Known
<1> QED
  BY <1>1, <1>8, <1>10, <1>12

(* What a pass through the backbone looks up.                              *)
BackboneKnown(tensors, name) ==
  /\ ConvolutionKnown(tensors, <<>>, "conv1", <<64, 3, 7, 7>>)
  /\ \A s, i : IsPlace(name, s, i) =>
       /\ \A conv \in BlockNames(s, i) :
            ConvolutionKnown(tensors, <<s, i>>, conv, BlockShape(s, i, conv))
       /\ (\E t \in tensors : t.of = "backbone" /\ t.at = <<s, i>> /\ t.name = "downsample")
            <=> s > 1 /\ i = 1

(* ... and those of its backbone, when there is a camera.                  *)
LEMMA BackboneIsKnown ==
  ASSUME NEW p, Cameras(p) # {}
  PROVE  BackboneKnown(Tensors(p), p.vision_backbone)
<1>1. PICK name : name = p.vision_backbone
  OBVIOUS
<1>2. Convolutions(p) = Backbone(name)
  BY <1>1 DEF Convolutions
<1>3. \A t \in Convolutions(p) : t.of = "backbone" /\ t.part = "weight"
  BY <1>2, BackboneIs
<1>4. ConvolutionKnown(Tensors(p), <<>>, "conv1", <<64, 3, 7, 7>>)
  <2>1. PICK none, shape : none = <<>> /\ shape = <<64, 3, 7, 7>>
    OBVIOUS
  <2>2. Known(Convolutions(p), "backbone", none, "conv1", "weight", shape)
    BY <1>2, <2>1, BackboneIs
  <2>3. ConvolutionKnown(Tensors(p), none, "conv1", shape)
    BY <1>3, <2>2, ConvolutionIs
  <2> QED
    BY <2>1, <2>3
<1>5. ASSUME NEW s, NEW i, IsPlace(name, s, i), NEW conv \in BlockNames(s, i)
      PROVE  ConvolutionKnown(Tensors(p), <<s, i>>, conv, BlockShape(s, i, conv))
  <2>1. PICK at, shape : at = <<s, i>> /\ shape = BlockShape(s, i, conv)
    OBVIOUS
  <2>2. Known(Backbone(name), "backbone", at, conv, "weight", shape)
    BY <1>5, <2>1, BackboneIs
  <2>3. ConvolutionKnown(Tensors(p), at, conv, shape)
    BY <1>2, <1>3, <2>2, ConvolutionIs
  <2> QED
    BY <2>1, <2>3
<1>6. ASSUME NEW s, NEW i, IsPlace(name, s, i),
             NEW t \in Tensors(p), t.of = "backbone", t.at = <<s, i>>, t.name = "downsample"
      PROVE  s > 1 /\ i = 1
  <2>1. t \in BackboneTensors(p)
    BY <1>6, OfTensors
  <2>2. t \in Convolutions(p) \/ \E u \in Convolutions(p), part \in StatParts : t = Normalizing(u, part)
    BY <2>1 DEF BackboneTensors
  <2>3. \A u, part : Normalizing(u, part).at = u.at /\ Normalizing(u, part).name = u.name
    BY TensorIs DEF Normalizing
  <2>4. PICK u \in Backbone(name) : u.at = <<s, i>> /\ u.name = "downsample"
    BY <1>2, <1>6, <2>2, <2>3
  <2>5. "downsample" \in BlockNames(s, i)
    BY <1>6, <2>4, BackboneIs
  <2> QED
    BY <2>5 DEF BlockNames
<1>7. ASSUME NEW s, NEW i, IsPlace(name, s, i), s > 1, i = 1
      PROVE  \E t \in Tensors(p) : t.of = "backbone" /\ t.at = <<s, i>> /\ t.name = "downsample"
  <2>1. "downsample" \in BlockNames(s, i)
    BY <1>7 DEF BlockNames
  <2> QED
    BY <1>5, <1>7, <2>1, SMTT(30) DEF ConvolutionKnown, Known
<1> QED
  BY <1>1, <1>4, <1>5, <1>6, <1>7 DEF BackboneKnown

(* The extents of an image, which a stride of two halves and rounds up.    *)
Positive == {n \in Int : n >= 1}

(* So many samples and channels of an image, or of what is made of one.    *)
IsMap(x, samples, channels) ==
  \E h, w \in Positive : x = <<samples, channels, h, w>>

Halved(n) == (n - 1) \div 2 + 1

LEMMA Extents ==
  ASSUME NEW n \in Positive
  PROVE  /\ Halved(n) \in Positive
         /\ Extent(n, 3, 2, 1) = Halved(n) /\ Extent(n, 1, 2, 0) = Halved(n)
         /\ Extent(n, 7, 2, 3) = Halved(n) /\ Extent(n, 3, 1, 1) = n
<1>0. n \in Int /\ n >= 1
  BY DEF Positive
<1>1. /\ n + 2 * 1 - 3 = n - 1 /\ n + 2 * 0 - 1 = n - 1 /\ n + 2 * 3 - 7 = n - 1
  BY <1>0
<1>2. (n - 1) \div 1 = n - 1
  BY <1>0
<1>3. (n - 1) \div 2 + 1 \in Int /\ (n - 1) \div 2 + 1 >= 1
  BY <1>0
<1> QED
  BY <1>0, <1>1, <1>2, <1>3 DEF Extent, Halved, Positive

(* A convolution and a pool keep the samples.                              *)
LEMMA Convolves ==
  ASSUME NEW tensors, NEW at, NEW name, NEW outs, NEW ins, NEW kernel, NEW side,
         ConvolutionKnown(tensors, at, name, <<outs, ins, kernel, side>>),
         NEW samples, NEW h, NEW w, NEW stride, NEW padding
  PROVE  Convolved(tensors, at, name, <<samples, ins, h, w>>, stride, padding)
           = <<samples, outs, Extent(h, kernel, stride, padding), Extent(w, kernel, stride, padding)>>
<1>1. PICK shape : shape = <<outs, ins, kernel, side>>
  OBVIOUS
<1>2. PICK input : input = <<samples, ins, h, w>>
  OBVIOUS
<1>3. shape[1] = outs /\ shape[2] = ins /\ shape[3] = kernel
  BY <1>1
<1>4. input # <<>> /\ input[1] = samples /\ input[2] = ins /\ input[3] = h /\ input[4] = w
  BY <1>2
<1>5. /\ Shape(tensors, "backbone", at, name, "weight") = shape
      /\ Shape(tensors, "backbone", at, name, "mean") = <<outs>>
  BY <1>1, <1>3, KnownShape DEF ConvolutionKnown
<1> QED
  BY <1>2, <1>3, <1>4, <1>5 DEF Convolved, Failed

LEMMA Pools ==
  ASSUME NEW samples, NEW channels, NEW h \in Positive, NEW w \in Positive
  PROVE  Pooled(<<samples, channels, h, w>>, 3, 2, 1) = <<samples, channels, Halved(h), Halved(w)>>
<1>1. PICK input : input = <<samples, channels, h, w>>
  OBVIOUS
<1>2. /\ input # <<>> /\ DOMAIN input = 1..4
      /\ input[1] = samples /\ input[2] = channels /\ input[3] = h /\ input[4] = w
  BY <1>1
<1>3. h + 2 * 1 >= 3 /\ w + 2 * 1 >= 3
  BY DEF Positive
<1>4. \A i \in {3, 4} : input[i] + 2 * 1 >= 3
  BY <1>2, <1>3
<1>5. Pooled(input, 3, 2, 1) =
        [i \in 1..4 |-> IF i \in {3, 4} THEN Extent(input[i], 3, 2, 1) ELSE input[i]]
  BY <1>2, <1>4 DEF Pooled, Failed
<1>6. Extent(h, 3, 2, 1) = Halved(h) /\ Extent(w, 3, 2, 1) = Halved(w)
  BY Extents
<1>7. [i \in 1..4 |-> IF i \in {3, 4} THEN Extent(input[i], 3, 2, 1) ELSE input[i]]
        = <<samples, channels, Halved(h), Halved(w)>>
  BY <1>2, <1>6
<1> QED
  BY <1>1, <1>5, <1>7

-----------------------------------------------------------------------------
(* An image through the backbone                                           *)

(* A block gives the channels of its stage: both branches have the same    *)
(* extents.                                                                *)
LEMMA BlockRuns ==
  ASSUME NEW tensors, NEW name, BackboneKnown(tensors, name), NEW s, NEW i, IsPlace(name, s, i),
         NEW samples, NEW input, IsMap(input, samples, ChannelsIn(s, i))
  PROVE  IsMap(BlockOut(tensors, <<s, i>>, input), samples, Channels[s])
<1>1. PICK at, ins, outs : at = <<s, i>> /\ ins = ChannelsIn(s, i) /\ outs = Channels[s]
  OBVIOUS
<1>2. PICK h \in Positive, w \in Positive : input = <<samples, ins, h, w>>
  BY <1>1 DEF IsMap
<1>3. /\ ConvolutionKnown(tensors, at, "conv1", <<outs, ins, 3, 3>>)
      /\ ConvolutionKnown(tensors, at, "conv2", <<outs, outs, 3, 3>>)
  <2>1. {"conv1", "conv2"} \subseteq BlockNames(s, i)
    BY DEF BlockNames
  <2>2. /\ BlockShape(s, i, "conv1") = <<outs, ins, 3, 3>>
        /\ BlockShape(s, i, "conv2") = <<outs, outs, 3, 3>>
    BY <1>1 DEF BlockShape
  <2> QED
    BY <1>1, <2>1, <2>2 DEF BackboneKnown
<1>4. at[1] = s /\ at[2] = i /\ s \in Int /\ i \in Int /\ s >= 1 /\ i >= 1
  BY <1>1 DEF IsPlace
<1>5. CASE s > 1 /\ i = 1
  <2>1. \E t \in tensors : t.of = "backbone" /\ t.at = at /\ t.name = "downsample"
    BY <1>1, <1>5 DEF BackboneKnown
  <2>2. ConvolutionKnown(tensors, at, "downsample", <<outs, ins, 1, 1>>)
    <3>1. "downsample" \in BlockNames(s, i) /\ BlockShape(s, i, "downsample") = <<outs, ins, 1, 1>>
      BY <1>1, <1>5 DEF BlockNames, BlockShape
    <3> QED
      BY <1>1, <3>1 DEF BackboneKnown
  <2>3. Halved(h) \in Positive /\ Halved(w) \in Positive
    BY Extents
  <2>4. Convolved(tensors, at, "conv1", input, 2, 1) = <<samples, outs, Halved(h), Halved(w)>>
    BY <1>2, <1>3, Convolves, Extents
  <2>5. Convolved(tensors, at, "conv2", <<samples, outs, Halved(h), Halved(w)>>, 1, 1)
          = <<samples, outs, Halved(h), Halved(w)>>
    BY <1>3, <2>3, Convolves, Extents
  <2>6. Convolved(tensors, at, "downsample", input, 2, 0) = <<samples, outs, Halved(h), Halved(w)>>
    BY <1>2, <2>2, Convolves, Extents
  <2>7. BlockOut(tensors, at, input) = <<samples, outs, Halved(h), Halved(w)>>
    BY <1>4, <1>5, <2>1, <2>4, <2>5, <2>6 DEF BlockOut
  <2> QED
    BY <1>1, <2>3, <2>7 DEF IsMap
<1>6. CASE ~(s > 1 /\ i = 1)
  <2>1. ~\E t \in tensors : t.of = "backbone" /\ t.at = at /\ t.name = "downsample"
    BY <1>1, <1>6 DEF BackboneKnown
  <2>2. ins = outs
    BY <1>1, <1>4, <1>6 DEF ChannelsIn
  <2>3. Convolved(tensors, at, "conv1", input, 1, 1) = input
    BY <1>2, <1>3, <2>2, Convolves, Extents
  <2>4. Convolved(tensors, at, "conv2", input, 1, 1) = input
    BY <1>2, <1>3, <2>2, Convolves, Extents
  <2>5. BlockOut(tensors, at, input) = input
    BY <1>4, <1>6, <2>1, <2>3, <2>4 DEF BlockOut
  <2> QED
    BY <1>1, <1>2, <2>2, <2>5 DEF IsMap
<1> QED
  BY <1>5, <1>6

(* Whatever its blocks make of the input, one after the other.             *)
StageSteps(tensors, stage, count, input, f) ==
  /\ f = [n \in 0..count |-> f[n]] /\ f[0] = input
  /\ \A n \in 1..count : f[n] = BlockOut(tensors, <<stage, n>>, f[n - 1])

(* A stage gives what its last block gives: the recursive function that    *)
(* StageOut chooses exists, and is unique.                                 *)
LEMMA StageIsLast ==
  ASSUME NEW tensors, NEW stage, NEW count \in Nat, NEW input, NEW f,
         StageSteps(tensors, stage, count, input, f)
  PROVE  StageOut(tensors, stage, count, input) = f[count]
<1> DEFINE Through(g) == [n \in 0..count |->
                        IF n = 0 THEN input ELSE BlockOut(tensors, <<stage, n>>, g[n - 1])]
           F == CHOOSE g : g = Through(g)
<1>1. StageOut(tensors, stage, count, input) = F[count]
  BY DEF StageOut
<1>2. f = Through(f)
  <2>1. f = [n \in 0..count |-> f[n]]
    BY DEF StageSteps
  <2>2. ASSUME NEW n \in 0..count PROVE f[n] = Through(f)[n]
    <3>1. CASE n = 0
      BY <3>1 DEF StageSteps
    <3>2. CASE n # 0
      <4>1. n \in 1..count
        BY <3>2
      <4> QED
        BY <3>2, <4>1 DEF StageSteps
    <3> QED
      BY <3>1, <3>2
  <2> QED
    BY <2>1, <2>2
<1>3. F = Through(F)
  <2>1. \E g : g = Through(g)
    BY <1>2
  <2> HIDE DEF Through
  <2> QED
    BY <2>1
<1> DEFINE S == {n \in Nat : n <= count => F[n] = f[n]}
<1>4. 0 \in S
  <2>1. F[0] = Through(F)[0]
    <3> HIDE DEF F, Through
    <3> QED
      BY <1>3
  <2>2. Through(F)[0] = input
    <3> HIDE DEF F
    <3> QED
      OBVIOUS
  <2> HIDE DEF F
  <2> QED
    BY <2>1, <2>2 DEF StageSteps
<1>5. ASSUME NEW n \in S PROVE n + 1 \in S
  <2> SUFFICES ASSUME n + 1 <= count PROVE F[n + 1] = f[n + 1]
    BY <1>5
  <2>1. n \in Nat /\ F[n] = f[n]
    BY <1>5
  <2>2. n + 1 \in 0..count /\ n + 1 \in 1..count /\ n + 1 # 0 /\ (n + 1) - 1 = n
    BY <2>1
  <2>3. F[n + 1] = Through(F)[n + 1]
    <3> HIDE DEF F, Through
    <3> QED
      BY <1>3
  <2>4. Through(F)[n + 1] = BlockOut(tensors, <<stage, n + 1>>, F[n])
    <3> HIDE DEF F
    <3> QED
      BY <2>2
  <2>5. f[n + 1] = BlockOut(tensors, <<stage, n + 1>>, f[n])
    BY <2>2 DEF StageSteps
  <2> QED
    BY <2>1, <2>3, <2>4, <2>5
<1>6. S = Nat
  <2>1. S \in SUBSET Nat
    OBVIOUS
  <2> HIDE DEF S
  <2> QED
    BY <1>4, <1>5, <2>1, SetInduction
<1> QED
  BY <1>1, <1>6

(* So does a stage, from the channels of the stage before it.              *)
LEMMA StageRuns ==
  ASSUME NEW tensors, NEW name, BackboneKnown(tensors, name), NEW s \in 1..4,
         NEW count, count = StageBlocks(name)[s], count \in 1..6,
         NEW samples, NEW input, IsMap(input, samples, ChannelsIn(s, 1))
  PROVE  IsMap(StageOut(tensors, s, count, input), samples, Channels[s])
<1> DEFINE Maps == {<<samples, c, h, w>> : c \in {ChannelsIn(s, 1), Channels[s]},
                                           h \in Positive, w \in Positive}
           Run(n, x) == IF x[2] = ChannelsIn(s, n) THEN BlockOut(tensors, <<s, n>>, x) ELSE x
           step == [n \in 1..count |-> [x \in Maps |-> Run(n, x)]]
           At0(n) == IF n = 0 THEN ChannelsIn(s, 1) ELSE Channels[s]
<1>1. \A x : x \in Maps <=> IsMap(x, samples, ChannelsIn(s, 1)) \/ IsMap(x, samples, Channels[s])
  BY DEF IsMap
<1>2. \A x, c : IsMap(x, samples, c) => x[2] = c
  BY DEF IsMap
<1>3. ASSUME NEW n \in 1..count PROVE IsPlace(name, s, n) /\ ChannelsIn(s, n) = At0(n - 1)
  BY DEF IsPlace, ChannelsIn
<1>4. ASSUME NEW n \in 1..count, NEW x, IsMap(x, samples, ChannelsIn(s, n))
      PROVE  IsMap(BlockOut(tensors, <<s, n>>, x), samples, Channels[s])
  BY <1>3, <1>4, BlockRuns
<1>5. ASSUME NEW n \in 1..count, NEW x \in Maps PROVE Run(n, x) \in Maps
  <2>1. CASE x[2] = ChannelsIn(s, n)
    <3>1. IsMap(x, samples, ChannelsIn(s, n))
      BY <1>1, <1>2, <1>5, <2>1
    <3> HIDE DEF Maps
    <3> QED
      BY <1>1, <1>4, <2>1, <3>1
  <2>2. CASE x[2] # ChannelsIn(s, n)
    BY <1>5, <2>2
  <2> QED
    BY <2>1, <2>2
<1> HIDE DEF Maps
<1>6. step \in [1..count -> [Maps -> Maps]]
  <2> HIDE DEF Run
  <2> QED
    BY <1>5
<1>7. \A n \in 1..count, x \in Maps : step[n][x] = Run(n, x)
  <2> HIDE DEF Run
  <2> QED
    OBVIOUS
<1> HIDE DEF step
<1>8. IsRecursion(Maps, input, count, step)
  BY <1>1, <1>6 DEF IsRecursion
<1>9. PICK f : Solves(f, Maps, input, count, step)
  BY <1>8, RecursionExists
<1>10. /\ f \in [0..count -> Maps] /\ f[0] = input
       /\ \A n \in 1..count : f[n] = step[n][f[n - 1]]
  BY <1>9 DEF Solves
<1>11. ASSUME NEW n \in 1..count, IsMap(f[n - 1], samples, At0(n - 1))
       PROVE  f[n] = BlockOut(tensors, <<s, n>>, f[n - 1]) /\ IsMap(f[n], samples, At0(n))
  <2>1. PICK x : x = f[n - 1]
    OBVIOUS
  <2>2. x \in Maps
    <3>1. n - 1 \in 0..count
      OBVIOUS
    <3> QED
      BY <1>10, <2>1, <3>1
  <2>3. IsMap(x, samples, ChannelsIn(s, n)) /\ x[2] = ChannelsIn(s, n)
    BY <1>2, <1>3, <1>11, <2>1
  <2>4. f[n] = BlockOut(tensors, <<s, n>>, x)
    BY <1>7, <1>10, <2>1, <2>2, <2>3
  <2>5. IsMap(f[n], samples, Channels[s])
    BY <1>4, <2>3, <2>4
  <2> QED
    BY <2>1, <2>4, <2>5
<1> DEFINE S == {n \in Nat : n <= count => IsMap(f[n], samples, At0(n))}
<1>12. 0 \in S
  BY <1>10
<1>13. ASSUME NEW n \in S PROVE n + 1 \in S
  <2> SUFFICES ASSUME n + 1 <= count PROVE IsMap(f[n + 1], samples, At0(n + 1))
    BY <1>13
  <2>1. n \in Nat /\ IsMap(f[n], samples, At0(n))
    BY <1>13
  <2>2. PICK m : m = n + 1
    OBVIOUS
  <2>3. m \in 1..count /\ m - 1 = n
    BY <2>1, <2>2
  <2>4. IsMap(f[m], samples, At0(m))
    BY <1>11, <2>1, <2>3
  <2> QED
    BY <2>2, <2>4
<1>14. S = Nat
  <2>1. S \in SUBSET Nat
    OBVIOUS
  <2> HIDE DEF S
  <2> QED
    BY <1>12, <1>13, <2>1, SetInduction
<1>15. \A n \in 0..count : IsMap(f[n], samples, At0(n))
  BY <1>14
<1>16. StageSteps(tensors, s, count, input, f)
  <2>1. f = [n \in 0..count |-> f[n]]
    BY <1>10
  <2>2. ASSUME NEW n \in 1..count PROVE f[n] = BlockOut(tensors, <<s, n>>, f[n - 1])
    <3>1. n - 1 \in 0..count
      OBVIOUS
    <3> QED
      BY <1>11, <1>15, <3>1
  <2> QED
    BY <1>10, <2>1, <2>2 DEF StageSteps
<1>17. StageOut(tensors, s, count, input) = f[count]
  BY <1>16, StageIsLast
<1>18. IsMap(f[count], samples, Channels[s])
  BY <1>15
<1> QED
  BY <1>17, <1>18

(* A backbone gives 512 channels, of whatever extents.                     *)
LEMMA BackboneRuns ==
  ASSUME NEW tensors, NEW name, BackboneKnown(tensors, name),
         NEW samples, NEW h \in Positive, NEW w \in Positive
  PROVE  IsMap(BackboneOut(tensors, name, <<samples, 3, h, w>>), samples, 512)
<1> DEFINE Run(s, x) == StageOut(tensors, s, StageBlocks(name)[s], x)
<1>1. Convolved(tensors, <<>>, "conv1", <<samples, 3, h, w>>, 2, 3) = <<samples, 64, Halved(h), Halved(w)>>
  <2>1. ConvolutionKnown(tensors, <<>>, "conv1", <<64, 3, 7, 7>>)
    BY DEF BackboneKnown
  <2> QED
    BY <2>1, Convolves, Extents
<1>2. Halved(h) \in Positive /\ Halved(w) \in Positive
  BY Extents
<1>3. PICK stem : stem = Pooled(<<samples, 64, Halved(h), Halved(w)>>, 3, 2, 1)
  OBVIOUS
<1>4. IsMap(stem, samples, 64)
  BY <1>2, <1>3, Pools, Extents DEF IsMap
<1>5. /\ ChannelsIn(1, 1) = 64 /\ Channels[1] = 64 /\ ChannelsIn(2, 1) = 64 /\ Channels[2] = 128
      /\ ChannelsIn(3, 1) = 128 /\ Channels[3] = 256 /\ ChannelsIn(4, 1) = 256 /\ Channels[4] = 512
  BY DEF ChannelsIn, Channels
<1>6. \A s \in 1..4 : StageBlocks(name)[s] \in 1..6
  BY DEF StageBlocks
<1>7. \A s \in 1..4 : \A x : IsMap(x, samples, ChannelsIn(s, 1)) => IsMap(Run(s, x), samples, Channels[s])
  BY <1>6, StageRuns
<1> HIDE DEF Run
<1>8. IsMap(Run(1, stem), samples, 64)
  BY <1>4, <1>5, <1>7
<1>9. IsMap(Run(2, Run(1, stem)), samples, 128)
  BY <1>5, <1>7, <1>8
<1>10. IsMap(Run(3, Run(2, Run(1, stem))), samples, 256)
  BY <1>5, <1>7, <1>9
<1>11. IsMap(Run(4, Run(3, Run(2, Run(1, stem)))), samples, 512)
  BY <1>5, <1>7, <1>10
<1>12. BackboneOut(tensors, name, <<samples, 3, h, w>>) = Run(4, Run(3, Run(2, Run(1, stem))))
  BY <1>1, <1>3 DEF BackboneOut, Run
<1> QED
  BY <1>11, <1>12

(* A camera's tokens, in whatever number.                                  *)
LEMMA CameraSeen ==
  ASSUME NEW tensors, NEW p, p.dim_model \in Int, p.dim_model % 4 = 0,
         BackboneKnown(tensors, p.vision_backbone),
         Known(tensors, "model", <<>>, "image", "weight", <<p.dim_model, 512>>),
         NEW samples, NEW h \in Positive, NEW w \in Positive
  PROVE  CameraTokens(tensors, p, BackboneOut(tensors, p.vision_backbone, <<samples, 3, h, w>>))
           # Failed
<1>1. PICK map : map = BackboneOut(tensors, p.vision_backbone, <<samples, 3, h, w>>)
  OBVIOUS
<1>2. IsMap(map, samples, 512)
  BY <1>1, BackboneRuns
<1>3. PICK y \in Positive, x \in Positive : map = <<samples, 512, y, x>>
  BY <1>2 DEF IsMap
<1>4. map # Failed /\ map[2] = 512
  BY <1>3 DEF Failed
<1>5. Shape(tensors, "model", <<>>, "image", "weight") = <<p.dim_model, 512>>
  BY KnownShape
<1>6. 4 * (p.dim_model \div 4) = p.dim_model
  OBVIOUS
<1>7. PICK tokens : tokens = CameraTokens(tensors, p, map)
  OBVIOUS
<1>8. PICK n : n = map[3] * map[4]
  OBVIOUS
<1>9. tokens = <<map[1], n, p.dim_model>>
  BY <1>4, <1>5, <1>6, <1>7, <1>8 DEF CameraTokens
<1>10. tokens # <<>>
  BY <1>9
<1> QED
  BY <1>1, <1>7, <1>10 DEF Failed

-----------------------------------------------------------------------------
(* Tokens through the layers                                               *)

(* A linear layer changes the last extent only.                            *)
LEMMA Multiplies ==
  ASSUME NEW outs, NEW ins, NEW weight, weight = <<outs, ins>>, NEW a, NEW b, NEW x
  PROVE  /\ x = <<a, b, ins>> => Times(weight, x) = <<a, b, outs>>
         /\ x = <<a, ins>> => Times(weight, x) = <<a, outs>>
<1>1. PICK front, end : front = Front(x) /\ end = <<outs>>
  OBVIOUS
<1>2. weight[1] = outs /\ weight[2] = ins
  OBVIOUS
<1>3. ASSUME x = <<a, b, ins>> PROVE Times(weight, x) = <<a, b, outs>>
  <2>1. Len(x) = 3 /\ Last(x) = ins /\ front = <<a, b>>
    BY <1>1, <1>3, Three
  <2>2. Times(weight, x) = front \o end
    BY <1>1, <1>2, <2>1 DEF Times
  <2> QED
    BY <1>1, <2>1, <2>2, TwoThenOne
<1>4. ASSUME x = <<a, ins>> PROVE Times(weight, x) = <<a, outs>>
  <2>1. Len(x) = 2 /\ Last(x) = ins /\ front = <<a>>
    BY <1>1, <1>4, Two
  <2>2. Times(weight, x) = front \o end
    BY <1>1, <1>2, <2>1 DEF Times
  <2> QED
    BY <1>1, <2>1, <2>2, OneAndOne
<1> QED
  BY <1>3, <1>4

LEMMA Projects ==
  ASSUME NEW tensors, NEW of, NEW at, NEW name, NEW outs, NEW ins, NEW shape,
         shape = <<outs, ins>>, Known(tensors, of, at, name, "weight", shape)
  PROVE  /\ \A a, b, x : x = <<a, b, ins>> => Projected(tensors, of, at, name, x) = <<a, b, outs>>
         /\ \A a, x : x = <<a, ins>> => Projected(tensors, of, at, name, x) = <<a, outs>>
<1>1. Shape(tensors, of, at, name, "weight") = shape
  BY KnownShape
<1>2. \A x : Projected(tensors, of, at, name, x) = Times(shape, x)
  BY <1>1 DEF Projected
<1> QED
  BY <1>2, Multiplies

(* In a layer nothing fails on a tensor of the dimension of the model, and *)
(* its shape is kept.                                                      *)
LEMMA Normalizes ==
  ASSUME NEW tensors, NEW of, NEW at, NEW p, NEW attentions, NEW norms,
         LayerKnown(tensors, of, at, p, attentions, norms),
         NEW a, NEW b, NEW x, x = <<a, b, p.dim_model>>
  PROVE  \A norm \in norms : Normable(tensors, of, at, norm, x)
<1>1. Last(x) = p.dim_model
  BY Three
<1> QED
  BY <1>1, KnownShape DEF LayerKnown, Normable

LEMMA FeedsForward ==
  ASSUME NEW tensors, NEW of, NEW at, NEW p, NEW attentions, NEW norms,
         LayerKnown(tensors, of, at, p, attentions, norms), p.feedforward_activation # "glu",
         NEW a, NEW b, NEW x, x = <<a, b, p.dim_model>>
  PROVE  FedForward(tensors, of, at, p, x) = x
<1>1. PICK d, f : d = p.dim_model /\ f = p.dim_feedforward
  OBVIOUS
<1>2. PICK first, second, hidden : first = <<f, d>> /\ second = <<d, f>> /\ hidden = <<a, b, f>>
  OBVIOUS
<1>3. /\ Known(tensors, of, at, "linear1", "weight", first)
      /\ Known(tensors, of, at, "linear2", "weight", second)
  BY <1>1, <1>2 DEF LayerKnown
<1>4. Projected(tensors, of, at, "linear1", x) = hidden
  BY <1>1, <1>2, <1>3, Projects
<1>5. Activated(p.feedforward_activation, hidden) = hidden
  BY DEF Activated
<1>6. Projected(tensors, of, at, "linear2", hidden) = x
  BY <1>1, <1>2, <1>3, Projects
<1> QED
  BY <1>4, <1>5, <1>6 DEF FedForward

(* The mask of an attention over so many samples of so many tokens.        *)
MaskFits(mask, samples, tokens) == mask # Absent => Product(mask) = samples * tokens

LEMMA Attends ==
  ASSUME NEW tensors, NEW of, NEW at, NEW p, NEW attentions, NEW norms,
         LayerKnown(tensors, of, at, p, attentions, norms), p.dim_model % p.n_heads = 0,
         NEW a, NEW b, NEW c, NEW x, x = <<a, b, p.dim_model>>, NEW y, y = <<a, c, p.dim_model>>,
         NEW name \in attentions, NEW mask, MaskFits(mask, a, c)
  PROVE  Attended(tensors, of, at, name, x, y, mask, p.n_heads) = x
<1>2. PICK d : d = p.dim_model
  OBVIOUS
<1>3. PICK weight : weight = <<d, d>>
  OBVIOUS
<1>4. /\ Shape(tensors, of, at, name, "in_proj_weight") = <<3 * d, d>>
      /\ Shape(tensors, of, at, name, "out_proj_weight") = weight
  BY <1>2, <1>3, KnownShape DEF LayerKnown
<1>5. x[1] = a /\ x[3] = d /\ y[1] = a /\ y[2] = c /\ y[3] = d
  BY <1>2
<1>6. Times(weight, x) = x
  BY <1>2, <1>3, Multiplies
<1> QED
  BY <1>2, <1>4, <1>5, <1>6 DEF Attended, MaskFits

(* Nor does an encoder, nor the decoder, whatever the number of tokens.    *)
LEMMA EncoderTakes ==
  ASSUME NEW tensors, NEW of, NEW count, NEW p, EncoderKnown(tensors, of, count, p),
         p.feedforward_activation # "glu", p.dim_model % p.n_heads = 0,
         NEW a, NEW b, NEW x, x = <<a, b, p.dim_model>>,
         NEW mask, MaskFits(mask, a, b)
  PROVE  EncoderRuns(tensors, of, count, p, x, x, mask)
<1>1. ASSUME NEW i \in 1..count
      PROVE  /\ \A norm \in {"norm1", "norm2"} : Normable(tensors, of, <<i>>, norm, x)
             /\ Attended(tensors, of, <<i>>, "self_attn", x, x, mask, p.n_heads) = x
             /\ FedForward(tensors, of, <<i>>, p, x) = x
  <2>1. PICK at, norms, attentions :
           at = <<i>> /\ norms = {"norm1", "norm2"} /\ attentions = {"self_attn"}
    OBVIOUS
  <2>2. LayerKnown(tensors, of, at, p, attentions, norms)
    BY <1>1, <2>1 DEF EncoderKnown
  <2>3. \A norm \in norms : Normable(tensors, of, at, norm, x)
    BY <2>2, Normalizes
  <2>4. \A name \in attentions : Attended(tensors, of, at, name, x, x, mask, p.n_heads) = x
    BY <2>2, Attends
  <2>5. FedForward(tensors, of, at, p, x) = x
    BY <2>2, FeedsForward
  <2> QED
    BY <2>1, <2>3, <2>4, <2>5
<1>2. p.pre_norm => Normable(tensors, of, <<>>, "norm", x)
  <2>1. Last(x) = p.dim_model
    BY Three
  <2> QED
    BY <2>1, KnownShape DEF EncoderKnown, Normable
<1> QED
  BY <1>1, <1>2 DEF EncoderRuns

LEMMA DecoderTakes ==
  ASSUME NEW tensors, NEW p, DecoderKnown(tensors, p),
         p.feedforward_activation # "glu", p.dim_model % p.n_heads = 0,
         NEW a, NEW b, NEW c, NEW x, x = <<a, b, p.dim_model>>, NEW y, y = <<a, c, p.dim_model>>
  PROVE  DecoderRuns(tensors, p, x, x, y, y)
<1>1. PICK at, norms, attentions :
         at = <<1>> /\ norms = {"norm1", "norm2", "norm3"} /\ attentions = AttentionNames
  OBVIOUS
<1>2. LayerKnown(tensors, "decoder", at, p, attentions, norms)
  BY <1>1 DEF DecoderKnown
<1>3. {"self_attn", "multihead_attn"} \subseteq attentions
  BY <1>1 DEF AttentionNames
<1>4. PICK of : of = "decoder"
  OBVIOUS
<1>5. LayerKnown(tensors, of, at, p, attentions, norms)
  BY <1>2, <1>4
<1>6. \A norm \in norms : Normable(tensors, of, at, norm, x)
  BY <1>5, Normalizes
<1>7. FedForward(tensors, of, at, p, x) = x
  BY <1>5, FeedsForward
<1>8. PICK mask : mask = Absent
  OBVIOUS
<1>9. /\ \A name \in attentions : Attended(tensors, of, at, name, x, x, mask, p.n_heads) = x
      /\ \A name \in attentions : Attended(tensors, of, at, name, x, y, mask, p.n_heads) = x
  <2>1. MaskFits(mask, a, b) /\ MaskFits(mask, a, c)
    BY <1>8 DEF MaskFits
  <2> QED
    BY <1>5, <2>1, Attends
<1>10. Normable(tensors, "decoder", <<>>, "norm", x)
  <2>1. Last(x) = p.dim_model
    BY Three
  <2> QED
    BY <2>1, KnownShape DEF DecoderKnown, Normable
<1> QED
  BY <1>1, <1>3, <1>4, <1>6, <1>7, <1>8, <1>9, <1>10 DEF DecoderRuns

-----------------------------------------------------------------------------
(* A batch through the model                                               *)

(* A policy whose model is built, and that is not exempt.                  *)
Runnable(p) ==
  /\ ModelFits(p) /\ p.feedforward_activation # "glu"
  /\ Cameras(p) \cap {"state", "environment", Action} = {}
  /\ p.dim_model \in Int /\ p.chunk_size \in Int
  /\ p.n_action_steps <= p.chunk_size

(* A batch of samples of what the policy declares.                         *)
IsBatch(p, batch, training, samples) ==
  /\ samples \in Int
  /\ DOMAIN batch = Consumed(p, training)
  /\ \A name \in DOMAIN batch : batch[name][1] = samples
  /\ \A name \in Cameras(p) : \E h \in Positive, w \in Positive : batch[name] = <<samples, 3, h, w>>
  /\ \A name \in {"state", "environment"} \cap DOMAIN batch :
       batch[name] = <<samples, InputWidth(p, name)>>
  /\ training => batch[Action] = <<samples, p.chunk_size, OutputWidth(p)>>

(* The heads divide the dimension: the model was built.                    *)
LEMMA HeadsDivide ==
  ASSUME NEW p, Runnable(p)
  PROVE  p.dim_model % p.n_heads = 0
BY DEF Runnable, ModelFits, ShapeFits

(* A pass takes the state and the environment when they have a width.      *)
LEMMA ConsumedScalars ==
  ASSUME NEW p, Runnable(p), NEW training \in BOOLEAN, NEW name \in {"state", "environment"}
  PROVE  name \in Consumed(p, training) <=> InputWidth(p, name) > 0
<1>1. name \notin Cameras(p)
  BY DEF Runnable
<1>2. name # Action
  BY DEF Action
<1> QED
  BY <1>1, <1>2 DEF Consumed, InputWidth

(* The latent of the actions: the table of positions has a row for each    *)
(* token, and the mask a column.                                           *)
LEMMA LatentTaken ==
  ASSUME NEW p, Runnable(p), p.use_vae, NEW batch, NEW samples, IsBatch(p, batch, TRUE, samples),
         NEW tensors, OwnKnown(tensors, p),
         EncoderKnown(tensors, "vae", p.n_vae_encoder_layers, p)
  PROVE  Latent(tensors, p, batch, samples) = <<samples, p.latent_dim>>
<1>1. PICK leading, chunk, dim, wide :
         /\ leading = IF "state" \in Consumed(p, TRUE) THEN 2 ELSE 1
         /\ chunk = p.chunk_size /\ dim = p.dim_model /\ wide = OutputWidth(p)
  OBVIOUS
<1>2. leading \in Int /\ chunk \in Int /\ dim \in Int /\ samples \in Int
  BY <1>1 DEF Runnable, IsBatch
<1>3. VaeTokens(p) = leading + chunk
  <2>1. "state" \in Consumed(p, TRUE) <=> InputWidth(p, "state") > 0
    BY ConsumedScalars
  <2>2. CASE "state" \in Consumed(p, TRUE)
    <3>1. VaeTokens(p) = 1 + chunk + 1 /\ leading = 2
      BY <1>1, <2>1, <2>2 DEF VaeTokens, InputWidth
    <3> QED
      BY <1>2, <3>1
  <2>3. CASE "state" \notin Consumed(p, TRUE)
    <3>1. VaeTokens(p) = 1 + chunk + 0 /\ leading = 1
      BY <1>1, <2>1, <2>3 DEF VaeTokens, InputWidth
    <3> QED
      BY <1>2, <3>1
  <2> QED
    BY <2>2, <2>3
<1>4. PICK tokens : tokens = leading + chunk
  OBVIOUS
<1>5. PICK actions : actions = <<samples, chunk, dim>>
  OBVIOUS
<1>6. PICK given : given = batch[Action]
  OBVIOUS
<1>7. given = <<samples, chunk, wide>>
  BY <1>1, <1>6 DEF IsBatch
<1>8. Projected(tensors, "model", <<>>, "vae_action", given) = actions
  <2>1. PICK weight : weight = <<dim, wide>>
    OBVIOUS
  <2>2. Known(tensors, "model", <<>>, "vae_action", "weight", weight)
    BY <1>1, <2>1 DEF OwnKnown
  <2> QED
    BY <1>5, <1>7, <2>1, <2>2, Projects
<1>9. "state" \in Consumed(p, TRUE) =>
        Projected(tensors, "model", <<>>, "vae_state", batch["state"]) # Failed
  <2>1. ASSUME "state" \in Consumed(p, TRUE)
        PROVE  Projected(tensors, "model", <<>>, "vae_state", batch["state"]) # Failed
    <3>1. PICK state, width, weight, out :
             state = batch["state"] /\ width = InputWidth(p, "state")
               /\ weight = <<dim, width>> /\ out = <<samples, dim>>
      OBVIOUS
    <3>2. state = <<samples, width>>
      BY <2>1, <3>1 DEF IsBatch
    <3>3. width > 0
      BY <2>1, <3>1, ConsumedScalars
    <3>4. Known(tensors, "model", <<>>, "vae_state", "weight", weight)
      BY <1>1, <3>1, <3>3 DEF OwnKnown
    <3>5. Projected(tensors, "model", <<>>, "vae_state", state) = out
      BY <3>1, <3>2, <3>4, Projects
    <3>6. out # <<>>
      BY <3>1, Two
    <3> QED
      BY <3>1, <3>5, <3>6 DEF Failed
  <2> QED
    BY <2>1
<1>10. PICK x : x = <<samples, tokens, dim>>
  OBVIOUS
<1>11. PICK positions : positions = Shape(tensors, "model", <<>>, "vae_positions", "table")
  OBVIOUS
<1>12. <<samples>> \o Tail(positions) = x
  <2>1. Known(tensors, "model", <<>>, "vae_positions", "table", <<1, tokens, dim>>)
    BY <1>1, <1>3, <1>4 DEF OwnKnown
  <2>2. positions = <<1, tokens, dim>>
    BY <1>11, <2>1, KnownShape
  <2>3. PICK rest, first : rest = Tail(positions) /\ first = <<samples>>
    OBVIOUS
  <2>4. rest = <<tokens, dim>>
    BY <2>2, <2>3, Three
  <2>5. first = <<samples>>
    BY <2>3
  <2>6. first \o rest = <<samples, tokens, dim>>
    BY <2>4, <2>5, OneThenTwo
  <2> QED
    BY <1>10, <2>3, <2>6
<1>13. PICK mask : mask = <<samples, leading + given[2]>>
  OBVIOUS
<1>14. MaskFits(mask, samples, tokens)
  <2>1. mask = <<samples, tokens>> /\ tokens \in Int
    BY <1>2, <1>4, <1>7, <1>13
  <2>2. Product(mask) = samples * tokens
    BY <1>2, <2>1, ProductOfTwo
  <2> QED
    BY <2>2 DEF MaskFits
<1>15. EncoderRuns(tensors, "vae", p.n_vae_encoder_layers, p, x, x, mask)
  <2>1. PICK of, count : of = "vae" /\ count = p.n_vae_encoder_layers
    OBVIOUS
  <2>2. EncoderKnown(tensors, of, count, p)
    BY <2>1
  <2>3. p.feedforward_activation # "glu" /\ p.dim_model % p.n_heads = 0
    BY HeadsDivide DEF Runnable
  <2>4. x = <<samples, tokens, p.dim_model>>
    BY <1>1, <1>10
  <2>5. EncoderRuns(tensors, of, count, p, x, x, mask)
    BY <1>14, <2>2, <2>3, <2>4, EncoderTakes
  <2> QED
    BY <2>1, <2>5
<1>16. Projected(tensors, "model", <<>>, "vae_latent", <<samples, dim>>)
         = <<samples, 2 * p.latent_dim>>
  <2>1. PICK twice, weight, in :
          twice = 2 * p.latent_dim /\ weight = <<twice, dim>> /\ in = <<samples, dim>>
    OBVIOUS
  <2>2. Known(tensors, "model", <<>>, "vae_latent", "weight", weight)
    BY <1>1, <2>1 DEF OwnKnown
  <2>3. Projected(tensors, "model", <<>>, "vae_latent", in) = <<samples, twice>>
    BY <2>1, <2>2, Projects
  <2> QED
    BY <2>1, <2>3
<1>17. actions # Failed /\ actions[2] = chunk
  BY <1>5, Three DEF Failed
<1>18. x = <<samples, leading + actions[2], p.dim_model>>
  BY <1>1, <1>4, <1>10, <1>17
<1> QED
  BY <1>1, <1>6, <1>8, <1>9, <1>11, <1>12, <1>13, <1>15, <1>16, <1>17, <1>18 DEF Latent

(* The inputs that are a token each.                                       *)
ScalarNames == {"state", "environment"}

(* Each that is declared has a width, so each has a token.                 *)
LEMMA InputsHaveWidth ==
  ASSUME NEW p, Runnable(p), Limits.feature \in Nat,
         NEW name \in DOMAIN Features(p.input_features) \cap ScalarNames
  PROVE  InputWidth(p, name) > 0
<1>1. PICK shape : shape = Features(p.input_features)[name].shape
  OBVIOUS
<1>2. shape \in Seq(1..Limits.feature)
  BY <1>1 DEF Runnable, ModelFits, ShapeFits, InLimits, ScalarNames
<1>3. shape \in Seq(Int) /\ \A i \in 1..Len(shape) : shape[i] >= 1
  <2>1. /\ Len(shape) \in Nat /\ DOMAIN shape = 1..Len(shape)
        /\ \A i \in 1..Len(shape) : shape[i] \in 1..Limits.feature
    BY <1>2
  <2>2. \A i \in 1..Len(shape) : shape[i] \in Int /\ shape[i] >= 1
    BY <2>1
  <2>3. shape \in [1..Len(shape) -> Int]
    BY <1>2, <2>1, <2>2
  <2> QED
    BY <2>1, <2>2, <2>3
<1>4. Product(shape) \in Int /\ Product(shape) >= 1
  BY <1>3, ProductPositive
<1>5. InputWidth(p, name) = Product(shape)
  BY <1>1 DEF InputWidth, Width
<1> QED
  BY <1>4, <1>5

LEMMA ScalarsConsumed ==
  ASSUME NEW p, Runnable(p), Limits.feature \in Nat
  PROVE  /\ Consumed(p, FALSE) \ Cameras(p) = DOMAIN Features(p.input_features) \cap ScalarNames
         /\ Cardinality(Consumed(p, FALSE) \ Cameras(p)) \in Nat
<1> DEFINE named == DOMAIN Features(p.input_features) \cap ScalarNames
<1>1. \A name \in ScalarNames : InputWidth(p, name) > 0 <=> name \in named
  <2>1. ASSUME NEW name \in ScalarNames, name \notin named PROVE ~(InputWidth(p, name) > 0)
    BY <2>1 DEF InputWidth, Width
  <2> QED
    BY <2>1, InputsHaveWidth
<1>2. Consumed(p, FALSE) \ Cameras(p) = {name \in ScalarNames : InputWidth(p, name) > 0}
  <2>1. Cameras(p) \cap ScalarNames = {}
    BY DEF Runnable, ScalarNames
  <2> QED
    BY <2>1 DEF Consumed, InputWidth, ScalarNames
<1>3. Consumed(p, FALSE) \ Cameras(p) = named
  BY <1>1, <1>2
<1>4. Cardinality(named) \in Nat
  <2>1. IsFiniteSet(ScalarNames)
    <3>1. IsFiniteSet({"state"})
      BY FS_Singleton
    <3>2. IsFiniteSet({"state"} \cup {"environment"})
      BY <3>1, FS_AddElement
    <3>3. ScalarNames = {"state"} \cup {"environment"}
      BY DEF ScalarNames
    <3> QED
      BY <3>2, <3>3
  <2>2. IsFiniteSet(named)
    BY <2>1, FS_Subset
  <2> QED
    BY <2>2, FS_CardinalityType
<1> QED
  BY <1>3, <1>4

(* The tokens of the latent and of these inputs: as many as positions.     *)
LEMMA ScalarsTaken ==
  ASSUME NEW p, Runnable(p), Limits.feature \in Nat,
         NEW batch, NEW training \in BOOLEAN, NEW samples, IsBatch(p, batch, training, samples),
         NEW tensors, OwnKnown(tensors, p), NEW latent, latent = <<samples, p.latent_dim>>
  PROVE  ScalarTokens(tensors, p, batch, latent) = <<samples, TokenCount(p), p.dim_model>>
<1> DEFINE names == Consumed(p, FALSE) \ Cameras(p)
<1>1. PICK dim, count, one, positions :
        /\ dim = p.dim_model /\ count = TokenCount(p)
        /\ one = <<samples, dim>> /\ positions = <<count, dim>>
  OBVIOUS
<1>2. count = 1 + Cardinality(names) /\ count \in Int /\ dim \in Int
  <2>1. names = DOMAIN Features(p.input_features) \cap ScalarNames /\ Cardinality(names) \in Nat
    BY ScalarsConsumed
  <2> HIDE DEF names
  <2>2. count = 1 + Cardinality(names)
    BY <1>1, <2>1 DEF TokenCount, ScalarNames
  <2> QED
    BY <1>1, <2>1, <2>2 DEF Runnable
<1>3. Projected(tensors, "model", <<>>, "latent", latent) = one
  <2>1. PICK wide, weight : wide = p.latent_dim /\ weight = <<dim, wide>>
    OBVIOUS
  <2>2. Known(tensors, "model", <<>>, "latent", "weight", weight) /\ latent = <<samples, wide>>
    BY <1>1, <2>1 DEF OwnKnown
  <2> QED
    BY <1>1, <2>1, <2>2, Projects
<1>4. ASSUME NEW name \in names
      PROVE  Projected(tensors, "model", <<>>, name, batch[name]) = one
  <2>1. name \in ScalarNames /\ name \in DOMAIN batch /\ InputWidth(p, name) > 0
    <3>1. name \in ScalarNames
      BY <1>4, ScalarsConsumed
    <3>2. name \in Consumed(p, training)
      <4>1. name \in Consumed(p, FALSE)
        BY <1>4
      <4>2. InputWidth(p, name) > 0
        BY <3>1, <4>1, ConsumedScalars DEF ScalarNames
      <4> QED
        BY <3>1, <4>2, ConsumedScalars DEF ScalarNames
    <3> QED
      BY <3>1, <3>2, ConsumedScalars DEF ScalarNames, IsBatch
  <2>2. PICK wide, weight, input :
          wide = InputWidth(p, name) /\ weight = <<dim, wide>> /\ input = batch[name]
    OBVIOUS
  <2>3. input = <<samples, wide>>
    BY <2>1, <2>2 DEF IsBatch, ScalarNames
  <2>4. Known(tensors, "model", <<>>, name, "weight", weight)
    BY <1>1, <2>1, <2>2 DEF OwnKnown, ScalarNames
  <2>5. Projected(tensors, "model", <<>>, name, input) = one
    BY <1>1, <2>2, <2>3, <2>4, Projects
  <2> QED
    BY <2>2, <2>5
<1>5. Product(Shape(tensors, "model", <<>>, "encoder_positions", "weight")) = count * dim
  <2>1. Known(tensors, "model", <<>>, "encoder_positions", "weight", positions)
    BY <1>1 DEF OwnKnown
  <2>2. Shape(tensors, "model", <<>>, "encoder_positions", "weight") = positions
    BY <2>1, KnownShape
  <2> QED
    BY <1>1, <1>2, <2>2, ProductOfTwo
<1>6. one # Failed /\ one[1] = samples /\ one[2] = dim
  BY <1>1, Two DEF Failed
<1> HIDE DEF names
<1> QED
  BY <1>1, <1>2, <1>3, <1>4, <1>5, <1>6 DEF ScalarTokens, names

(* The encoder and the decoder on all of them, and the head.               *)
LEMMA Predicts ==
  ASSUME NEW p, Runnable(p), NEW tensors, OwnKnown(tensors, p),
         EncoderKnown(tensors, "encoder", p.n_encoder_layers, p), DecoderKnown(tensors, p),
         NEW samples, NEW tokens, NEW scalars, scalars = <<samples, tokens, p.dim_model>>,
         NEW images, \A name \in DOMAIN images : images[name] # Failed
  PROVE  Predicted(tensors, p, scalars, images) = <<samples, p.chunk_size, OutputWidth(p)>>
<1>1. PICK dim, chunk, wide, count :
        /\ dim = p.dim_model /\ chunk = p.chunk_size /\ wide = OutputWidth(p)
        /\ count = FoldFunction(LAMBDA shape, n : n + shape[2], scalars[2], images)
  OBVIOUS
<1>2. scalars[1] = samples /\ scalars # Failed
  BY Three DEF Failed
<1>3. PICK memory, queries : memory = <<samples, count, dim>> /\ queries = <<samples, chunk, dim>>
  OBVIOUS
<1>4. PICK of, layers, mask : of = "encoder" /\ layers = p.n_encoder_layers /\ mask = Absent
  OBVIOUS
<1>5. p.feedforward_activation # "glu" /\ p.dim_model % p.n_heads = 0
  BY HeadsDivide DEF Runnable
<1>6. EncoderRuns(tensors, of, layers, p, memory, memory, mask)
  <2>1. EncoderKnown(tensors, of, layers, p)
    BY <1>4
  <2>2. MaskFits(mask, samples, count)
    BY <1>4 DEF MaskFits
  <2>3. memory = <<samples, count, p.dim_model>>
    BY <1>1, <1>3
  <2> QED
    BY <1>5, <2>1, <2>2, <2>3, EncoderTakes
<1>7. DecoderRuns(tensors, p, queries, queries, memory, memory)
  <2>1. memory = <<samples, count, p.dim_model>> /\ queries = <<samples, chunk, p.dim_model>>
    BY <1>1, <1>3
  <2> QED
    BY <1>5, <2>1, DecoderTakes
<1>8. <<samples>> \o Shape(tensors, "model", <<>>, "decoder_positions", "weight") = queries
  <2>1. PICK first, rest : first = <<samples>> /\ rest = <<chunk, dim>>
    OBVIOUS
  <2>2. Known(tensors, "model", <<>>, "decoder_positions", "weight", rest)
    BY <1>1, <2>1 DEF OwnKnown
  <2>3. Shape(tensors, "model", <<>>, "decoder_positions", "weight") = rest
    BY <2>2, KnownShape
  <2>4. first \o rest = <<samples, chunk, dim>>
    BY <2>1, OneThenTwo, ZenonT(60)
  <2> QED
    BY <1>3, <2>1, <2>3, <2>4
<1>9. Projected(tensors, "model", <<>>, "action_head", queries) = <<samples, chunk, wide>>
  <2>1. PICK weight : weight = <<wide, dim>>
    OBVIOUS
  <2>2. Known(tensors, "model", <<>>, "action_head", "weight", weight)
    BY <1>1, <2>1 DEF OwnKnown
  <2> QED
    BY <1>3, <2>1, <2>2, Projects
<1> QED
  BY <1>1, <1>2, <1>3, <1>4, <1>6, <1>7, <1>8, <1>9 DEF Predicted

(* The pass through the tensors of the model that is built.                *)
LEMMA Observes ==
  ASSUME NEW p, Runnable(p), Limits.feature \in Nat, NEW training \in BOOLEAN,
         NEW batch, NEW samples, IsBatch(p, batch, training, samples)
  PROVE  Observed(Tensors(p), p, batch, samples, training)
           = <<samples, p.chunk_size, OutputWidth(p)>>
<1> DEFINE Seen(name) == CameraTokens(Tensors(p), p,
                                      BackboneOut(Tensors(p), p.vision_backbone, batch[name]))
           latent == IF p.use_vae /\ training THEN Latent(Tensors(p), p, batch, samples)
                     ELSE <<samples, p.latent_dim>>
           scalars == ScalarTokens(Tensors(p), p, batch, latent)
           images == [name \in Cameras(p) |-> Seen(name)]
<1>2. PICK tensors : tensors = Tensors(p)
  OBVIOUS
<1>3. /\ OwnKnown(tensors, p) /\ DecoderKnown(tensors, p)
      /\ p.use_vae => EncoderKnown(tensors, "vae", p.n_vae_encoder_layers, p)
      /\ EncoderKnown(tensors, "encoder", p.n_encoder_layers, p)
  BY <1>2, OwnIsKnown, LayersAreKnown
<1>4. latent = <<samples, p.latent_dim>>
  <2>1. CASE p.use_vae /\ training
    <3>1. IsBatch(p, batch, TRUE, samples)
      BY <2>1
    <3>2. Latent(tensors, p, batch, samples) = <<samples, p.latent_dim>>
      BY <1>3, <2>1, <3>1, LatentTaken
    <3> QED
      BY <1>2, <2>1, <3>2
  <2>2. CASE ~(p.use_vae /\ training)
    BY <2>2
  <2> QED
    BY <2>1, <2>2
<1>5. ScalarTokens(tensors, p, batch, latent) = <<samples, TokenCount(p), p.dim_model>>
  <2> HIDE DEF latent
  <2> QED
    BY <1>3, <1>4, ScalarsTaken
<1>6. ASSUME NEW name \in Cameras(p) PROVE Seen(name) # Failed
  <2>1. PICK h \in Positive, w \in Positive : batch[name] = <<samples, 3, h, w>>
    BY <1>6 DEF IsBatch
  <2>2. Cameras(p) # {}
    BY <1>6
  <2>3. BackboneKnown(tensors, p.vision_backbone)
    BY <1>2, <2>2, BackboneIsKnown
  <2>4. Known(tensors, "model", <<>>, "image", "weight", <<p.dim_model, 512>>)
    BY <1>3, <2>2 DEF OwnKnown
  <2>5. p.dim_model \in Int /\ p.dim_model % 4 = 0
    BY <2>2 DEF Runnable, ModelFits, ShapeFits
  <2>6. CameraTokens(tensors, p, BackboneOut(tensors, p.vision_backbone, <<samples, 3, h, w>>))
          # Failed
    BY <2>3, <2>4, <2>5, CameraSeen
  <2> QED
    BY <1>2, <2>1, <2>6
<1>7. \A name \in DOMAIN images : images[name] # Failed
  <2> HIDE DEF Seen
  <2> QED
    BY <1>6
<1>8. Predicted(tensors, p, scalars, images) = <<samples, p.chunk_size, OutputWidth(p)>>
  <2>1. scalars = <<samples, TokenCount(p), p.dim_model>>
    BY <1>2, <1>5
  <2>2. PICK tokens : tokens = TokenCount(p)
    OBVIOUS
  <2> HIDE DEF scalars, images
  <2> QED
    BY <1>3, <1>7, <2>1, <2>2, Predicts
<1>9. Observed(Tensors(p), p, batch, samples, training) = Predicted(Tensors(p), p, scalars, images)
  BY DEF Observed
<1> QED
  BY <1>2, <1>8, <1>9

(* The pass of a batch that the limits allow gives the actions asked for.  *)
LEMMA Forwards ==
  ASSUME NEW p, Runnable(p), Limits.feature \in Nat, NEW training \in BOOLEAN,
         NEW batch, NEW samples, IsBatch(p, batch, training, samples), OutputFits(p, samples)
  PROVE  Forward(p, batch, training) = <<samples, p.chunk_size, OutputWidth(p)>>
<1>1. DOMAIN batch = Consumed(p, training)
  BY DEF IsBatch
<1>2. Consumed(p, training) # {}
  <2>1. CASE Cameras(p) # {}
    BY <2>1 DEF Consumed
  <2>2. CASE Cameras(p) = {}
    <3>1. PICK name \in DOMAIN Features(p.input_features) \cap ScalarNames : TRUE
      BY <2>2 DEF Runnable, ModelFits, ShapeFits, ScalarNames
    <3>2. InputWidth(p, name) > 0
      BY <3>1, InputsHaveWidth
    <3>3. name \in Consumed(p, training)
      BY <3>1, <3>2, ConsumedScalars DEF ScalarNames
    <3> QED
      BY <3>3
  <2> QED
    BY <2>1, <2>2
<1>3. PICK some : some = CHOOSE name \in DOMAIN batch : TRUE
  OBVIOUS
<1>4. some \in DOMAIN batch
  BY <1>1, <1>2, <1>3
<1>5. batch[some][1] = samples
  BY <1>4 DEF IsBatch
<1>6. Forward(p, batch, training)
        = Observed(Parameters(p) \cup Buffers(p), p, batch, samples, training)
  BY <1>1, <1>3, <1>5 DEF Forward
<1>7. Parameters(p) \cup Buffers(p) = Tensors(p)
  BY DEF Tensors
<1> QED
  BY <1>6, <1>7, Observes

-----------------------------------------------------------------------------
(* Whatever a session's policy declares, its model takes                   *)

(* An image and its batch.                                                 *)
LEMMA SameFour ==
  ASSUME NEW S, NEW s \in Seq(S), NEW t \in Seq(S), Len(s) = 4, Len(t) = 4,
         s[1] = t[1], s[2] = t[2], s[3] = t[3], s[4] = t[4]
  PROVE  s = t
<1>1. \A i \in 1..Len(s) : s[i] = t[i]
  OBVIOUS
<1> QED
  BY <1>1, SeqEqual

LEMMA OneThenThree ==
  ASSUME NEW a, NEW y \in Seq(Int), Len(y) = 3
  PROVE  <<a>> \o y = <<a, y[1], y[2], y[3]>>
<1>0. PICK S : a \in S /\ Int \subseteq S
  <2>1. \E S : S = {a} \cup Int
    OBVIOUS
  <2> QED
    BY <2>1
<1>1. PICK all, x : all = <<a, y[1], y[2], y[3]>> /\ x = <<a>>
  OBVIOUS
<1>2. y[1] \in Int /\ y[2] \in Int /\ y[3] \in Int
  <2>1. 1 \in 1..Len(y) /\ 2 \in 1..Len(y) /\ 3 \in 1..Len(y)
    OBVIOUS
  <2> QED
    BY <2>1, ElementOfSeq
<1>3. /\ all \in Seq(S) /\ Len(all) = 4
      /\ all[1] = a /\ all[2] = y[1] /\ all[3] = y[2] /\ all[4] = y[3]
  BY <1>0, <1>1, <1>2
<1>4. x \in Seq(S) /\ Len(x) = 1 /\ x[1] = a /\ y \in Seq(S)
  BY <1>0, <1>1
<1>5. PICK both : both = x \o y
  OBVIOUS
<1>6. /\ both \in Seq(S) /\ Len(both) = Len(x) + Len(y)
      /\ \A i \in 1..(Len(x) + Len(y)) :
           both[i] = IF i <= Len(x) THEN x[i] ELSE y[i - Len(x)]
  BY ONLY <1>4, <1>5, ConcatProperties, Zenon
<1>7. Len(both) = 4 /\ both[1] = a /\ both[2] = y[1] /\ both[3] = y[2] /\ both[4] = y[3]
  BY <1>4, <1>6
<1>8. both = all
  BY <1>3, <1>6, <1>7, SameFour
<1> QED
  BY <1>1, <1>5, <1>8

(* The batch of what a policy declares is a batch of what its model takes. *)
LEMMA OwnBatchFits ==
  ASSUME NEW p, Runnable(p), Limits.feature \in Nat, Limits.extent \in Nat,
         p.output_features # Absent, Action \in DOMAIN p.output_features,
         p.output_features[Action].type # "VISUAL",
         NEW training \in BOOLEAN, NEW samples \in Int
  PROVE  IsBatch(p, OwnBatch(p, training, samples), training, samples)
<1>1. PICK batch, outs, ins :
        /\ batch = OwnBatch(p, training, samples)
        /\ outs = Restricted(p.output_features, {Action}) /\ ins = p.input_features
  OBVIOUS
<1> DOMAIN outs = {Action} /\ outs[Action] = p.output_features[Action]
  BY <1>1 DEF Restricted
<1>2. PICK features : features = Over(outs, ins)
  OBVIOUS
<1>3. /\ DOMAIN batch = Consumed(p, training)
      /\ \A name \in DOMAIN batch : batch[name] = Sampled(p, name, features[name], samples)
  BY <1>1, <1>2 DEF OwnBatch
<1>4. ASSUME NEW name \in Cameras(p)
      PROVE  \E h \in Positive, w \in Positive : batch[name] = <<samples, 3, h, w>>
  <2>1. /\ name \in DOMAIN Features(ins) /\ Features(ins)[name].type = "VISUAL"
        /\ name # Action
    BY <1>1, <1>4 DEF Cameras, Visual, Runnable
  <2>2. ins # Absent /\ Features(ins) = ins
    BY <2>1 DEF Features, Nothing
  <2>3. PICK shape : shape = ins[name].shape
    OBVIOUS
  <2>4. Len(shape) = 3 /\ shape[1] = 3 /\ shape \in Seq(1..Limits.extent)
    BY <1>1, <1>4, <2>3 DEF Runnable, ModelFits, ShapeFits, CamerasFit, InLimits
  <2>5. shape \in Seq(Int) /\ shape[2] \in Positive /\ shape[3] \in Positive
    <3>1. shape \in [1..Len(shape) -> 1..Limits.extent]
      BY <2>4, LenProperties
    <3>2. \A i \in 1..3 : shape[i] \in Int /\ shape[i] >= 1
      BY <2>4, <3>1
    <3>3. shape \in [1..Len(shape) -> Int]
      BY <2>4, <3>1, <3>2
    <3>4. shape \in Seq(Int)
      BY <2>4, <3>3
    <3> QED
      BY <3>2, <3>4 DEF Positive
  <2>6. features[name] = ins[name]
    BY <1>1, <1>2, <2>1, <2>2 DEF Over
  <2>7. name \in DOMAIN batch
    BY <1>3, <1>4 DEF Consumed
  <2>8. batch[name] = <<samples>> \o shape
    BY <1>3, <2>1, <2>2, <2>3, <2>6, <2>7 DEF Sampled
  <2>9. <<samples>> \o shape = <<samples, shape[1], shape[2], shape[3]>>
    BY <2>4, <2>5, OneThenThree
  <2> QED
    BY <2>4, <2>5, <2>8, <2>9
<1>5. ASSUME NEW name \in {"state", "environment"} \cap DOMAIN batch
      PROVE  batch[name] = <<samples, InputWidth(p, name)>>
  <2>1. name \notin Cameras(p) /\ name # Action
    BY <1>5 DEF Runnable, Action
  <2>2. InputWidth(p, name) > 0
    BY <1>3, <1>5, ConsumedScalars
  <2>3. name \in DOMAIN Features(ins)
    BY <1>1, <2>2 DEF InputWidth, Width
  <2>4. ins # Absent /\ Features(ins) = ins
    BY <2>3 DEF Features, Nothing
  <2>5. features[name] = ins[name] /\ ins[name].type # "VISUAL"
    BY <1>1, <1>2, <2>1, <2>3, <2>4 DEF Over, Cameras, Visual
  <2>6. InputWidth(p, name) = Product(ins[name].shape)
    BY <1>1, <2>3, <2>4 DEF InputWidth, Width
  <2> QED
    BY <1>3, <1>5, <2>1, <2>5, <2>6 DEF Sampled
<1>6. ASSUME training PROVE batch[Action] = <<samples, p.chunk_size, OutputWidth(p)>>
  <2>1. Action \in DOMAIN batch
    BY <1>3, <1>6 DEF Consumed
  <2>2. features[Action] = outs[Action] /\ OutputWidth(p) = Product(outs[Action].shape)
    BY <1>1, <1>2 DEF Over, OutputWidth, Width, Features
  <2> QED
    BY <1>1, <1>3, <2>1, <2>2 DEF Sampled
<1>7. ASSUME NEW name \in DOMAIN batch PROVE batch[name][1] = samples
  <2>1. name \in Cameras(p) \cup {"state", "environment"} \cup (IF training THEN {Action} ELSE {})
    BY <1>3, <1>7 DEF Consumed
  <2>2. CASE name \in Cameras(p)
    BY <1>4, <2>2
  <2>3. CASE name \in {"state", "environment"}
    BY <1>5, <1>7, <2>3
  <2>4. CASE training /\ name = Action
    BY <1>6, <2>4
  <2> QED
    BY <2>1, <2>2, <2>3, <2>4
<1> QED
  BY <1>1, <1>3, <1>4, <1>5, <1>6, <1>7 DEF IsBatch

(* So the model runs on it.                                                *)
LEMMA RunsOnItsOwn ==
  ASSUME NEW p, Runnable(p), Limits.feature \in Nat, Limits.extent \in Nat,
         p.output_features # Absent, Action \in DOMAIN p.output_features,
         p.output_features[Action].type # "VISUAL", NEW samples \in Int
  PROVE  /\ OutputFits(p, samples) => LossTaken(p, OwnBatch(p, TRUE, samples))
         /\ OutputFits(p, 1) => Steps(p, OwnBatch(p, FALSE, 1)) # Failed
<1>1. ASSUME OutputFits(p, samples) PROVE LossTaken(p, OwnBatch(p, TRUE, samples))
  <2>1. PICK batch, training : batch = OwnBatch(p, TRUE, samples) /\ training = TRUE
    OBVIOUS
  <2>2. IsBatch(p, batch, training, samples)
    BY <2>1, OwnBatchFits
  <2>3. Forward(p, batch, training) = <<samples, p.chunk_size, OutputWidth(p)>>
    BY <1>1, <2>1, <2>2, Forwards
  <2>4. batch[Action] = <<samples, p.chunk_size, OutputWidth(p)>>
    BY <2>1, <2>2 DEF IsBatch
  <2> QED
    BY <2>1, <2>3, <2>4 DEF LossTaken
<1>2. ASSUME OutputFits(p, 1) PROVE Steps(p, OwnBatch(p, FALSE, 1)) # Failed
  <2>1. PICK batch, training, one :
          batch = OwnBatch(p, training, one) /\ training = FALSE /\ one = 1
    OBVIOUS
  <2>2. IsBatch(p, batch, training, one)
    <3>1. training \in BOOLEAN
      BY <2>1
    <3>2. one \in Int
      BY <2>1
    <3> QED
      <4>1. IsBatch(p, OwnBatch(p, training, one), training, one)
        BY <3>1, <3>2, OwnBatchFits
      <4> QED
        BY <2>1, <4>1
  <2>3. PICK chunk : chunk = <<one, p.chunk_size, OutputWidth(p)>>
    OBVIOUS
  <2>4. Forward(p, batch, training) = chunk
    BY <1>2, <2>1, <2>2, <2>3, Forwards
  <2>5. chunk # Failed /\ chunk[2] = p.chunk_size
    BY <2>3, Three DEF Failed
  <2>6. p.n_action_steps <= chunk[2]
    BY <2>5 DEF Runnable
  <2>7. [chunk EXCEPT ![2] = p.n_action_steps] # Failed
    <3>1. DOMAIN [chunk EXCEPT ![2] = p.n_action_steps] = 1..3
      BY <2>3
    <3>2. DOMAIN Failed = {}
      BY DEF Failed
    <3> QED
      BY <3>1, <3>2
  <2> QED
    BY <2>1, <2>4, <2>5, <2>6, <2>7 DEF Steps, Leading
<1> QED
  BY <1>1, <1>2

(* The size of a batch is a number; the policy of a session has the        *)
(* settings of its run.                                                    *)
LEMMA BatchSizeIs ==
  ASSUME NEW c, TypedConfig(c)
  PROVE  c.batch_size \in Int
<1>1. "batch_size" \in DOMAIN RunTypes /\ RunTypes["batch_size"] = "natural"
  BY DEF RunTypes
<1>2. "batch_size" \notin Optional
  BY DEF Optional
<1>3. c["batch_size"] \in 0..MaxNatural
  BY <1>1, <1>2 DEF TypedConfig, RunSettled, RunTypedAs
<1> QED
  BY <1>3, RunAssumption

LEMMA AcceptedRuns ==
  ASSUME NEW c, ConfigFits(c, saved), NEW s, SessionFits(c, s), Resumable(c, s),
         s.policy.feedforward_activation # "glu",
         Cameras(s.policy) \cap {"state", "environment", Action} = {}
  PROVE  /\ OutputFits(s.policy, c.batch_size) =>
              LossTaken(s.policy, OwnBatch(s.policy, TRUE, c.batch_size))
         /\ OutputFits(s.policy, 1) => Steps(s.policy, OwnBatch(s.policy, FALSE, 1)) # Failed
<1>1. PICK p, samples : p = s.policy /\ samples = c.batch_size
  OBVIOUS
<1>2. \A name \in {"chunk_size", "dim_model"} : p[name] \in Int
  <2>1. TAKE name \in {"chunk_size", "dim_model"}
  <2>2. name \in DOMAIN PolicyTypes /\ name \notin {"input_features", "output_features"}
    BY DEF PolicyTypes
  <2>3. name \in DOMAIN Limits /\ Limits[name] \in Nat
    BY RunAssumption
  <2>4. p[name] = c.policy[name]
    BY <1>1, <2>2 DEF Resumable
  <2>5. DimensionsFit(c.policy)
    BY DEF ConfigFits, Valid
  <2>6. c.policy[name] \in 0..Limits[name]
    BY <2>2, <2>3, <2>5 DEF DimensionsFit
  <2> QED
    BY <2>3, <2>4, <2>6
<1>3. Runnable(p)
  <2>1. ModelFits(p)
    BY <1>1 DEF Resumable
  <2>2. p.n_action_steps <= p.chunk_size
    BY <1>1 DEF SessionFits, PolicyValid
  <2>3. p["chunk_size"] \in Int /\ p["dim_model"] \in Int
    BY <1>2
  <2> QED
    BY <1>1, <2>1, <2>2, <2>3 DEF Runnable
<1>4. PICK outs, data : outs = p.output_features /\ data = Datasets[c.root]
  OBVIOUS
<1>5. outs = Outputs(data) /\ DatasetFits(data) /\ Action \in DOMAIN Features(outs)
  BY <1>1, <1>4, RunAssumption DEF SessionFits
<1>6. outs # Absent /\ Action \in DOMAIN outs /\ outs[Action].type # "VISUAL"
  <2>1. outs # Absent /\ Action \in DOMAIN outs
    BY <1>5 DEF Features, Nothing
  <2>2. outs[Action].type = "ACTION"
    BY <1>5, <2>1 DEF Outputs, Actions, Restricted
  <2> QED
    BY <2>1, <2>2
<1>7. samples \in Int
  BY <1>1, BatchSizeIs DEF ConfigFits
<1>8. Limits.feature \in Nat /\ Limits.extent \in Nat
  <2>1. Limits["feature"] \in Nat /\ Limits["extent"] \in Nat
    BY RunAssumption
  <2> QED
    BY <2>1
<1>9. /\ OutputFits(p, samples) => LossTaken(p, OwnBatch(p, TRUE, samples))
      /\ OutputFits(p, 1) => Steps(p, OwnBatch(p, FALSE, 1)) # Failed
  BY <1>3, <1>4, <1>6, <1>7, <1>8, RunsOnItsOwn
<1> QED
  BY <1>1, <1>9

(* Whatever configuration was accepted, the model of the session runs on   *)
(* the inputs it declares: each loss has the shape of the actions and a    *)
(* deployed policy gives its steps.                                        *)
(* (ActModel::new against ActModel::forward.)                              *)
THEOREM AcceptedModelsRun == RunSpec => []ModelsRun
<1>1. ResumeInv => ModelsRun
  <2>1. SUFFICES ASSUME ResumeInv, session # Absent,
                        session.policy.feedforward_activation # "glu",
                        Cameras(session.policy) \cap {"state", "environment", Action} = {}
                 PROVE  /\ OutputFits(session.policy, config.batch_size) =>
                             LossTaken(session.policy,
                                       OwnBatch(session.policy, TRUE, config.batch_size))
                        /\ OutputFits(session.policy, 1) =>
                             Steps(session.policy, OwnBatch(session.policy, FALSE, 1)) # Failed
    BY DEF ModelsRun
  <2>2. /\ ConfigFits(config, saved) /\ SessionFits(config, session)
        /\ Resumable(config, session)
    BY <2>1 DEF ResumeInv, RunInv
  <2> QED
    BY <2>1, <2>2, AcceptedRuns
<1> QED
  BY <1>1, ResumeInvariance, PTL

=============================================================================
