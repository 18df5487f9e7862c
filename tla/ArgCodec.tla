------------------------------ MODULE ArgCodec ------------------------------
(* The codec of task arguments: Python values to JSON with sentinels and     *)
(* back, in the namespace that the worker rebuilt.  A value is a tagged      *)
(* tuple; JSON is numbers, strings, lists and objects.                       *)
(*                                                                           *)
(* _to_jsonable and _resolve call themselves on the parts of a value.  They  *)
(* are constants here; Encoding and Decoding are their bodies, and           *)
(* EncodesByPart and DecodesByPart say that a constant is what its body is.  *)
EXTENDS Integers, Sequences, FiniteSets

CONSTANTS Values,        \* what may be passed: with a value, also its parts
          Depth,         \* how deep each is nested; none contains itself
          ToJsonable(_), \* _to_jsonable
          Resolve(_, _), \* _resolve, where these classes are known
          Carried(_, _)  \* Survives: what comes back there as it was

\* Values; classes are told apart by their names alone, as by the codec.
\* Prim: None, bool, str, int and float, which JSON carries as they are.
Prim(type, x)         == <<"prim", type, x>>
Bytes(kind, data)     == <<"bytes", kind, data>>
List(s)               == <<"list", s>>
Tuple(s)              == <<"tuple", s>>
Dict(kind, items)     == <<"dict", kind, items>>      \* a sequence of <<key, value>>
Default(f, items)     == <<"default", f, items>>      \* a defaultdict with its factory
Enum(base, cls, n, v) == <<"enum", base, cls, n, v>>  \* base: "", "str" or "int"
Named(cls, s)         == <<"named", cls, s>>
Group(kind, s)        == <<"group", kind, s>>         \* set, frozenset, deque
Path(cls, s)          == <<"path", cls, s>>
\* datetime, timedelta, Decimal, UUID, range, ...  rest: what isoformat() and
\* total_seconds() do not tell (the zone, the fold, digits beyond a float), or "".
Leaf(kind, data, rest) == <<"leaf", kind, data, rest>>
\* attrs is its __dict__ (there is none: FALSE, <<>>), outside what it keeps
\* beside it: slots, the args of an exception; both sequences of <<name, value>>.
Object(cls, hasDict, attrs, outside) == <<"object", cls, hasDict, attrs, outside>>
\* Of a class derived from a standard type, whose plain value v is.
Derived(cls, v)       == <<"derived", cls, v>>
Opaque(x)             == <<"opaque", x>>              \* pickled: what the worker can import

\* JSON.  A sentinel is an object with one key.
JList(s)  == <<"jlist", s>>
JDict(s)  == <<"jdict", s>>
Mark(key, payload) == JDict(<<<<key, payload>>>>)

Sentinels == {"__offwork_obj__", "__offwork_bytes__", "__offwork_builtin__",
              "__offwork_tuple__", "__offwork_dict__", "__offwork_pickle__"}

Portable == [PosixPath |-> "PurePosixPath", WindowsPath |-> "PureWindowsPath",
             PurePosixPath |-> "PurePosixPath", PureWindowsPath |-> "PureWindowsPath"]

\* PurePath, for any other class, is this one where the worker runs.
PortablePath(cls) == IF cls \in DOMAIN Portable THEN Portable[cls] ELSE "PurePosixPath"

\* _encode_factory: a name of _FACTORY_BY_NAME, or nothing.
Factories == {"int", "list", "dict", "set", "tuple", "frozenset", "str", "float", "bytes", "bool"}

EncodeFactory(f) == IF f \in Factories THEN f ELSE "None"

\* A str, as the keys of JSON objects are.
Str(s) == Prim("str", s)

IsStr(v) == v[1] = "prim" /\ v[2] = "str"

\* A variant: one such key is enough.
AStringKey(items) == items = <<>> \/ \E i \in DOMAIN items : IsStr(items[i][1])

StringKeys(items) == \A i \in DOMAIN items : IsStr(items[i][1])

Builtin(info) == Mark("__offwork_builtin__", info)

EachToJsonable(s) == [i \in DOMAIN s |-> ToJsonable(s[i])]

PairsToJsonable(items) == [i \in DOMAIN items |-> <<ToJsonable(items[i][1]), ToJsonable(items[i][2])>>]

\* Standard types; only what has members is looked into.
EncodeBuiltin(v) ==
  CASE v[1] = "enum"  -> Builtin(<<"enum", v[2], v[3], v[4], ToJsonable(v[5])>>)
    [] v[1] = "group" -> Builtin(<<"group", v[2], EachToJsonable(v[3])>>)
    [] v[1] = "leaf"  -> Builtin(<<"leaf", v[2], v[3]>>)
    [] v[1] = "path"  -> Builtin(v)

\* _extract_object_state: __dict__ alone, or else the slots.
StateOf(v) == IF v[3] THEN v[4] ELSE v[5]

ObjectState(v) == [i \in DOMAIN StateOf(v) |-> <<StateOf(v)[i][1], ToJsonable(StateOf(v)[i][2])>>]

Encoding(v) ==
  CASE v[1] = "prim" -> v
       \* A str that is an enum member is a str first.
    [] v[1] = "enum" /\ v[2] = "str" -> v[5]
    [] v[1] = "enum" /\ v[2] # "str" -> EncodeBuiltin(v)
    [] v[1] = "bytes" -> Mark("__offwork_bytes__", <<v[2], v[3]>>)
    [] v[1] = "named" -> Builtin(<<"namedtuple", v[2], EachToJsonable(v[3])>>)
    [] v[1] = "tuple" -> Mark("__offwork_tuple__", JList(EachToJsonable(v[2])))
    [] v[1] = "list"  -> JList(EachToJsonable(v[2]))
    [] v[1] = "default" -> Builtin(<<"default", EncodeFactory(v[2]), PairsToJsonable(v[3])>>)
    [] v[1] = "dict" /\ v[2] # "dict" -> Builtin(<<"items", v[2], PairsToJsonable(v[3])>>)
    [] v[1] = "dict" /\ v[2] = "dict" /\ StringKeys(v[3]) ->
         JDict([i \in DOMAIN v[3] |-> <<v[3][i][1][3], ToJsonable(v[3][i][2])>>])
    [] v[1] = "dict" /\ v[2] = "dict" /\ ~StringKeys(v[3]) ->
         Mark("__offwork_dict__", PairsToJsonable(v[3]))
    [] v[1] \in {"group", "leaf", "path"} -> EncodeBuiltin(v)
    [] v[1] = "object" -> Mark("__offwork_obj__", <<v[2], v[3], ObjectState(v)>>)
       \* isinstance() takes it for the standard type.
    [] v[1] = "derived" -> ToJsonable(v[3])
    [] v[1] = "opaque" -> Mark("__offwork_pickle__", v)

----------------------------------------------------------------------------

\* The namespace that the worker rebuilt defines these classes.
EachResolved(s, classes) == [i \in DOMAIN s |-> Resolve(s[i], classes)]

PairsResolved(items, classes) ==
  [i \in DOMAIN items |-> <<Resolve(items[i][1], classes), Resolve(items[i][2], classes)>>]

DecodeBuiltin(info, classes) ==
  CASE info[1] = "enum" -> IF info[3] \in classes
                           THEN Enum(info[2], info[3], info[4], Resolve(info[5], classes))
                           ELSE Resolve(info[5], classes)
    [] info[1] = "namedtuple" -> IF info[2] \in classes THEN Named(info[2], EachResolved(info[3], classes))
                                 ELSE Tuple(EachResolved(info[3], classes))
    [] info[1] = "items" -> Dict(info[2], PairsResolved(info[3], classes))
    [] info[1] = "group" -> Group(info[2], EachResolved(info[3], classes))
    [] info[1] = "default" -> Default(info[2], PairsResolved(info[3], classes))
    [] info[1] = "leaf"  -> Leaf(info[2], info[3], "")
    [] info[1] = "path"  -> Path(PortablePath(info[2]), info[3])

StateResolved(state, classes) ==
  [i \in DOMAIN state |-> <<state[i][1], Resolve(state[i][2], classes)>>]

\* The state goes to the __dict__ of the new object, if its class gives it one,
\* or else to its slots.  Of an unknown class the sentinel stays as it came.
ReconstructObject(info, classes) ==
  CASE info[1] \in classes /\ info[2] -> Object(info[1], TRUE, StateResolved(info[3], classes), <<>>)
    [] info[1] \in classes /\ ~info[2] -> Object(info[1], FALSE, <<>>, StateResolved(info[3], classes))
    [] info[1] \notin classes -> Dict("dict", <<<<Str("__offwork_obj__"), Opaque(info)>>>>)

\* What is not one of the two is taken for bytes, a class derived from them too.
BytesKind(kind) == IF kind \in {"bytearray", "memoryview"} THEN kind ELSE "bytes"

Unmark(key, payload, classes) ==
  CASE key = "__offwork_obj__"     -> ReconstructObject(payload, classes)
    [] key = "__offwork_bytes__"   -> Bytes(BytesKind(payload[1]), payload[2])
    [] key = "__offwork_builtin__" -> DecodeBuiltin(payload, classes)
    [] key = "__offwork_tuple__"   -> Tuple(EachResolved(payload[2], classes))
    [] key = "__offwork_dict__"    -> Dict("dict", PairsResolved(payload, classes))
    [] key = "__offwork_pickle__"  -> payload

IsMarked(j) == j[1] = "jdict" /\ DOMAIN j[2] = {1} /\ j[2][1][1] \in Sentinels

Decoding(j, classes) ==
  CASE j[1] = "prim"  -> j
    [] j[1] = "jlist" -> List(EachResolved(j[2], classes))
    [] IsMarked(j)    -> Unmark(j[2][1][1], j[2][1][2], classes)
    [] j[1] = "jdict" /\ ~IsMarked(j) ->
         Dict("dict", [i \in DOMAIN j[2] |-> <<Str(j[2][i][1]), Resolve(j[2][i][2], classes)>>])

\* What the worker's run gets of an argument of the client's.
Transported(v, classes) == Resolve(ToJsonable(v), classes)

----------------------------------------------------------------------------

\* What comes back as it was, its identity apart.  The codec loses: members of
\* a class the worker does not know; str enums; concrete paths; a class derived
\* from a standard type; the factory of a defaultdict, unless it is a builtin of
\* the table; what an object with a __dict__ keeps outside it; what is left out
\* when a date, a time or a duration is written down; and a dict whose only key
\* is a sentinel.
Survives(v, classes) ==
  LET All(s) == \A i \in DOMAIN s : Carried(s[i], classes)
      AllPairs(s) == \A i \in DOMAIN s : Carried(s[i][1], classes) /\ Carried(s[i][2], classes)
      Lookalike(s) == DOMAIN s = {1} /\ s[1][1] \in {Str(name) : name \in Sentinels}
  IN CASE v[1] = "enum" -> v[2] # "str" /\ v[3] \in classes /\ Carried(v[5], classes)
       [] v[1] = "named" -> v[2] \in classes /\ All(v[3])
       [] v[1] = "object" -> /\ v[2] \in classes /\ (v[3] => v[5] = <<>>)
                             /\ \A i \in DOMAIN StateOf(v) : Carried(StateOf(v)[i][2], classes)
       [] v[1] = "bytes" -> BytesKind(v[2]) = v[2]
       [] v[1] = "path" -> PortablePath(v[2]) = v[2]
       [] v[1] = "leaf" -> v[4] = ""
       [] v[1] = "derived" -> FALSE
       [] v[1] \in {"list", "tuple"} -> All(v[2])
       [] v[1] = "group" -> All(v[3])
       [] v[1] = "default" -> EncodeFactory(v[2]) = v[2] /\ AllPairs(v[3])
       [] v[1] = "dict" -> AllPairs(v[3]) /\ (v[2] = "dict" => ~Lookalike(v[3]))
       [] OTHER -> TRUE

\* A value is made of values that are nested less deep.  The counts of a Counter,
\* which _to_jsonable passes on as they are, are plain numbers.
Shaped(v) ==
  LET Below == {w \in Values : Depth[w] < Depth[v]}
  IN \/ v[1] \in {"prim", "bytes", "path"} /\ v = <<v[1], v[2], v[3]>>
     \/ v[1] = "leaf" /\ v = <<v[1], v[2], v[3], v[4]>>
     \/ v[1] = "opaque" /\ v = <<v[1], v[2]>>
     \/ v[1] = "derived" /\ v = <<v[1], v[2], v[3]>> /\ v[3] \in Below
     \/ v[1] \in {"list", "tuple"} /\ v = <<v[1], v[2]>> /\ v[2] \in Seq(Below)
     \/ v[1] \in {"named", "group"} /\ v = <<v[1], v[2], v[3]>> /\ v[3] \in Seq(Below)
     \/ v[1] \in {"dict", "default"} /\ v = <<v[1], v[2], v[3]>> /\ v[3] \in Seq(Below \X Below)
        /\ (v[2] = "Counter" => \A i \in DOMAIN v[3] : v[3][i][2][1] = "prim")
     \/ v[1] = "object" /\ v = <<v[1], v[2], v[3], v[4], v[5]>>
        /\ v[3] \in BOOLEAN /\ {v[4], v[5]} \subseteq Seq(STRING \X Below) /\ (v[3] \/ v[4] = <<>>)
     \/ v[1] = "enum" /\ v = <<v[1], v[2], v[3], v[4], v[5]>> /\ v[5] \in Below

\* Python values nest finitely; what contains itself ends _to_jsonable with RecursionError.
ValuesShaped == Depth \in [Values -> Nat] /\ \A v \in Values : Shaped(v)

EncodesByPart == \A v \in Values : ToJsonable(v) = Encoding(v)

DecodesByPart(classes) ==
  \A v \in Values : /\ Resolve(ToJsonable(v), classes) = Decoding(ToJsonable(v), classes)
                    /\ Carried(v, classes) = Survives(v, classes)
=============================================================================
