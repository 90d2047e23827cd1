---------------------------- MODULE ToolArguments ----------------------------
(***************************************************************************)
(* A tool's parameter schema on its way to codex, whose strict mode knows  *)
(* neither optional properties nor open nodes, and the arguments of the    *)
(* model's call on their way back to DSH (stepped-schema.ts).              *)
(*                                                                         *)
(* Abstracted: strings are members of Text or JSON of a value; numbers and *)
(* booleans behave as strings do; annotations are left out.  A union's     *)
(* branches are a scalar and two objects told apart by a constant.         *)
(***************************************************************************)
EXTENDS Naturals, Sequences, FiniteSets, Functions, TLC

CONSTANTS
  Text,         \* strings that are not JSON
  Key,          \* properties
  Tag,          \* the property that tells a union's branches apart
  Marked,       \* properties of a branch that hold a constant and may be left out
  None

VARIABLES
  schema,       \* the parameters the tool declares
  wanted,       \* the arguments the model wants to give
  sent,         \* what it sends for them
  received      \* the arguments DSH is handed

argumentsVars == <<schema, wanted, sent, received>>

Null == [is |-> "null"]
String(t) == [is |-> "string", text |-> t]
Json(v) == [is |-> "string", json |-> v]
Array(items) == [is |-> "array", items |-> items]
Object(fields) == [is |-> "object", fields |-> fields]

\* Schema nodes.  "free" is a node without a type, an object without properties, an array
\* without items; "enum" holds the value of a const.
Free == [type |-> "free"]
Undefined == [type |-> "undefined"]
Scalar(null, enum) == [type |-> "scalar", null |-> null, enum |-> enum]
ArrayOf(items) == [type |-> "array", items |-> items]
Union(branches) == [type |-> "union", branches |-> branches]
ObjectOf(properties, required) == [type |-> "object", properties |-> properties, required |-> required]

RECURSIVE PermitsNull(_), Values(_), Rewrite(_), Accepts(_, _), Sent(_, _), Invert(_, _), Explicit(_, _)

PermitsNull(node) ==
  CASE node.type = "scalar" -> node.null \/ Null \in node.enum
    [] node.type = "union" -> \E b \in Range(node.branches) : PermitsNull(b)
    [] OTHER -> FALSE

\* The values a node allows, a few of each shape.
Values(node) ==
  CASE node.type = "free" -> {Null, Object(<<>>)} \cup {String(t) : t \in Text}
    [] node.type = "scalar" ->
         (IF node.enum # {} THEN node.enum ELSE {String(t) : t \in Text} \cup {Json(Null)})
           \cup (IF node.null THEN {Null} ELSE {})
    [] node.type = "array" -> {Array(<<>>)} \cup {Array(<<v>>) : v \in Values(node.items)}
    [] node.type = "union" -> UNION {Values(b) : b \in Range(node.branches)}
    [] node.type = "object" ->
         UNION {{Object(f) : f \in {g \in [keys -> UNION {Values(node.properties[k]) : k \in keys}] :
                                      \A k \in keys : g[k] \in Values(node.properties[k])}} :
                keys \in {s \in SUBSET DOMAIN node.properties : node.required \subseteq s}}

-----------------------------------------------------------------------------

\* A wire node is a schema node that may also be null.
Wire(node, null) == [node |-> node, null |-> null]

\* null is added to the type and to the enum, or as a branch of the union.
Nullable(wire) == [wire EXCEPT !.null = TRUE]

\* rewriteSchemaNode: objects are closed and require every property.
Rewrite(node) ==
  CASE node.type = "free" -> Wire(Free, FALSE)
    [] node.type = "scalar" -> Wire(node, FALSE)
    [] node.type = "array" -> Wire([node EXCEPT !.items = Rewrite(@)], FALSE)
    [] node.type = "union" -> Wire([node EXCEPT !.branches = [i \in DOMAIN @ |-> Rewrite(@[i])]], FALSE)
    [] node.type = "object" ->
         Wire([node EXCEPT !.properties = [k \in DOMAIN @ |->
                 IF k \in node.required \/ PermitsNull(@[k]) THEN Rewrite(@[k]) ELSE Nullable(Rewrite(@[k]))],
               !.required = DOMAIN node.properties], FALSE)

Accepts(wire, v) ==
  \/ wire.null /\ v = Null
  \/ wire.node.type = "free" /\ v.is = "string"
  \/ /\ wire.node.type = "scalar"
     /\ \/ v = Null /\ wire.node.null
        \/ v.is = "string" /\ (wire.node.enum = {} \/ v \in wire.node.enum)
  \/ wire.node.type = "array" /\ v.is = "array" /\ \A i \in DOMAIN v.items : Accepts(wire.node.items, v.items[i])
  \/ wire.node.type = "union" /\ \E b \in Range(wire.node.branches) : Accepts(b, v)
  \/ /\ wire.node.type = "object" /\ v.is = "object"
     /\ DOMAIN v.fields = DOMAIN wire.node.properties
     /\ \A k \in DOMAIN v.fields : Accepts(wire.node.properties[k], v.fields[k])

\* What a model sends to give v: what is free goes as its JSON, what is left out as null.
Sent(v, node) ==
  CASE node.type = "free" -> {Json(v)}
    [] node.type = "scalar" -> {v}
    [] node.type = "array" -> {Array(items) : items \in
         {s \in [DOMAIN v.items -> UNION {Sent(v.items[i], node.items) : i \in DOMAIN v.items}] :
            \A i \in DOMAIN s : s[i] \in Sent(v.items[i], node.items)}}
    [] node.type = "union" -> UNION {Sent(v, b) : b \in {c \in Range(node.branches) : v \in Values(c)}}
    [] node.type = "object" ->
         LET Of(k) == IF k \in DOMAIN v.fields THEN Sent(v.fields[k], node.properties[k]) ELSE {Null}
             all == DOMAIN node.properties IN
         {Object(f) : f \in {g \in [all -> UNION {Of(k) : k \in all}] : \A k \in all : g[k] \in Of(k)}}

\* The first object branch no constant of which the value contradicts.
Resolved(v, node) ==
  LET branches == IF node.type = "union" THEN node.branches ELSE <<>>
      Fits(b) == b.type = "object" /\ \A k \in DOMAIN v.fields \cap DOMAIN b.properties :
                   LET p == b.properties[k] IN p.type = "scalar" /\ p.enum # {} => v.fields[k] \in p.enum
      fitting == SelectSeq(branches, Fits) IN
  CASE node.type = "object" -> node
    [] node.type = "union" /\ fitting # <<>> -> fitting[1]
    [] OTHER -> ObjectOf(<<>>, {})

Property(node, k) == IF k \in DOMAIN node.properties THEN node.properties[k] ELSE Undefined

\* Mutant: every null is taken for an argument left out.
DropsNull(node, k) == TRUE

\* A null is dropped unless the tool declared the property nullable or required.
LeftOut(node, k) == ~(k \in node.required) /\ ~PermitsNull(Property(node, k))

\* invertValue
Invert(v, node) ==
  IF node.type = "free" THEN (IF v.is = "string" /\ "json" \in DOMAIN v THEN v.json ELSE v)
  ELSE IF v.is = "array" THEN
    Array([i \in DOMAIN v.items |-> Invert(v.items[i], IF node.type = "array" THEN node.items ELSE Undefined)])
  ELSE IF v.is = "object" THEN
    LET object == Resolved(v, node)
        kept == {k \in DOMAIN v.fields : ~(v.fields[k] = Null /\ LeftOut(object, k))} IN
    Object([k \in kept |-> IF v.fields[k] = Null THEN Null ELSE Invert(v.fields[k], Property(object, k))])
  ELSE v

-----------------------------------------------------------------------------

Leaf == {Free, Scalar(FALSE, {}), Scalar(TRUE, {}), Scalar(FALSE, {String(CHOOSE t \in Text : TRUE)})}

Constant(t) == Scalar(FALSE, {String(t)})

Branch(t, leaf, required) ==
  ObjectOf([k \in Tag \cup Key \cup Marked |-> IF k \in Key THEN leaf ELSE Constant(t)], Tag \cup required)

Inner ==
  LET Objects == {ObjectOf([k \in Key |-> leaf], required) : leaf \in Leaf, required \in SUBSET Key} IN
  Leaf \cup Objects
    \cup {ArrayOf(node) : node \in Leaf \cup Objects}
    \cup {Union(<<Scalar(null, {}), Branch(tags[1], leaf, required), Branch(tags[2], other, {})>>) :
            null \in BOOLEAN, leaf \in Leaf, other \in Leaf, required \in SUBSET Key,
            tags \in {pair \in Text \X Text : pair[1] # pair[2]}}

Init ==
  /\ schema \in {ObjectOf([k \in Key |-> node], required) : node \in Inner, required \in SUBSET Key}
  /\ wanted \in Values(schema)
  /\ sent = None /\ received = None

Send ==
  /\ sent = None
  /\ sent' \in Sent(wanted, schema)
  /\ UNCHANGED <<schema, wanted, received>>

\* codexDecision
Receive ==
  /\ sent # None /\ received = None
  /\ received' = Invert(sent, schema)
  /\ UNCHANGED <<schema, wanted, sent>>

Next == Send \/ Receive

-----------------------------------------------------------------------------
(* Properties *)

\* The wire cannot tell an argument left out from a null the tool permits.
Explicit(v, node) ==
  CASE node.type = "array" -> Array([i \in DOMAIN v.items |-> Explicit(v.items[i], node.items)])
    [] node.type = "union" -> Explicit(v, CHOOSE b \in Range(node.branches) : v \in Values(b))
    [] node.type = "object" ->
         LET given == DOMAIN v.fields
             nulls == {k \in DOMAIN node.properties \ given : PermitsNull(node.properties[k])} IN
         Object([k \in given \cup nulls |->
                   IF k \in given THEN Explicit(v.fields[k], node.properties[k]) ELSE Null])
    [] OTHER -> v

\* Whatever arguments the tool's own schema allows, the schema codex is given allows the
\* model to send them, and DSH is handed exactly them, but for a null where the tool permits
\* one and the model gave nothing.
ArgumentsSurvive ==
  /\ sent # None => Accepts(Rewrite(schema), sent)
  /\ received # None => received = Explicit(wanted, schema)
=============================================================================
