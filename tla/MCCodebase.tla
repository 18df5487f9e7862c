----------------------------- MODULE MCCodebase -----------------------------
(* Programs for TLC: each scenario is one client program with the calls,     *)
(* edits, restarts and submissions that are tried on it.                     *)
(*   order    qualified names in the order the definitions are executed      *)
(*   body     per function, the versions of its body                         *)
(*   class    per class: bases, names its body refers to, __init_subclass__  *)
(*   sees     per module, what its names mean                                *)
(* Of a body, bare, self, obj, closure, super and names are what its syntax  *)
(* shows, modules its imports, uses what it really calls (hidden: through a  *)
(* value, so that no syntax shows it).                                       *)
EXTENDS Codebase, Analysis

LOCAL INSTANCE FiniteSetsExt

Empty == [x \in {} |-> x]

Base ==
  [order |-> <<>>, body |-> Empty, class |-> Empty, sees |-> Empty,
   traced |-> {}, kind |-> Empty, opaque |-> {},
   calls |-> 0, tasks |-> FALSE, edits |-> {}, restarts |-> 0,
   submits |-> {}, tasksMax |-> 2, args |-> {Tuple(<<>>)},
   site |-> {}, install |-> FALSE, mapping |-> Empty, hints |-> Empty, index |-> Empty,
   clears |-> 0, keeps |-> 0]

Plain == [bare |-> {}, self |-> {}, obj |-> {}, closure |-> {}, super |-> FALSE,
          names |-> {}, modules |-> {}, uses |-> {}, hidden |-> {}]

Class(bases, attrs, hook) == [bases |-> bases, attrs |-> attrs, hook |-> hook]

Calls(fns) == [Plain EXCEPT !.bare = {Nm(q) : q \in fns}, !.uses = fns]

\* What a callback does: its argument is called by the name of the parameter.
CallsBack(fns) == [Plain EXCEPT !.bare = {"callback"}, !.uses = fns, !.hidden = fns]

ModuleNames(fns) == [n \in {Nm(q) : q \in fns} |-> CHOOSE q \in fns : Nm(q) = n]

Fn(m, n) == <<m, "", n>>
Me(c, n) == <<"app", c, n>>

F == Fn("app", "f")  G == Fn("app", "g")  K == Fn("app", "k")
H == Fn("lib", "h")  L == Fn("lib", "l")

\* A traced function over two untraced helpers of another module, edited while tasks run.
Helpers ==
  [Base EXCEPT
     !.order = <<L, H, G, F>>, !.traced = {F, G}, !.kind = [q \in {F, G} |-> "sync"],
     !.body = F :> <<Calls({H}), Calls({G, H})>> @@ G :> <<Plain, Calls({L})>>
              @@ H :> <<[Calls({L}) EXCEPT !.modules = {"fitz"}], Plain>>
              @@ L :> <<[Plain EXCEPT !.modules = {"yaml"}]>>,
     !.sees = "app" :> ModuleNames({F, G, H, L}) @@ "lib" :> ModuleNames({H, L}),
     !.edits = {F, G, H}, !.submits = {F, G}, !.clears = 1,
     !.site = {"fitz", "yaml"}]

\* The helpers redefined in one process and in the next.
Processes == [Helpers EXCEPT !.edits = {H}, !.submits = {F}, !.clears = 0, !.restarts = 1]

\* The same helpers with packages to install: yaml has a default package, fitz
\* one from the mapping, from a hint, or none.
Packages ==
  LET installing == [Helpers EXCEPT !.install = TRUE, !.edits = {H}, !.submits = {F}, !.clears = 0,
                                    !.site = {},
                                    !.index = "PyMuPDF" :> {"fitz"} @@ "PyYAML" :> {"yaml", "_yaml"}]
  IN {[installing EXCEPT !.mapping = "fitz" :> "PyMuPDF", !.hints = "fitz" :> "frontend"],
      [installing EXCEPT !.hints = "fitz" :> "PyMuPDF", !.site = {"yaml"}],
      installing}

\* Two helpers of one name: the analyzer and the flat module confuse them.
Twins ==
  LET H2 == Fn("app", "h")
      F2 == Fn("lib", "f2")
  IN [Base EXCEPT
        !.order = <<L, H, F2, H2, F>>, !.traced = {F, F2}, !.kind = [q \in {F, F2} |-> "sync"],
        !.body = F :> <<Calls({H2, F2})>> @@ F2 :> <<Calls({H})>> @@ H2 :> <<Plain>>
                 @@ H :> <<Calls({L})>> @@ L :> <<Plain>>,
        !.sees = "app" :> ModuleNames({F, H2, F2}) @@ "lib" :> ModuleNames({F2, H, L}),
        !.submits = {F, F2}]

\* Classes: a constructor, a base with super(), an attribute's class, a registry.
Animal == Me("Animal", "__init__")  Speak == Me("Animal", "speak")
Bark == Me("Dog", "bark")           Loud == Me("Dog", "speak")
Label == Me("Tag", "label")         Tagged == Me("Other", "label")
Hierarchy ==
  [Base EXCEPT
     !.order = <<Label, Tagged, Animal, Speak, Bark, Loud, F, G>>,
     !.traced = {F, G}, !.kind = [q \in {F, G} |-> "sync"],
     !.body = Label :> <<Plain>> @@ Tagged :> <<Plain>> @@ Animal :> <<Plain>> @@ Speak :> <<Plain>>
              @@ Bark :> <<[Plain EXCEPT !.self = {"speak"}, !.obj = {<<"", "label">>},
                                         !.uses = {Loud, Label}]>>
              @@ Loud :> <<[Plain EXCEPT !.super = TRUE, !.uses = {Speak}]>>
              @@ F :> <<[Plain EXCEPT !.bare = {"Dog"}, !.obj = {<<"", "bark">>},
                                      !.uses = {Animal, Bark}]>>
              @@ G :> <<[Plain EXCEPT !.bare = {"Other"}, !.uses = {Tagged}]>>,
     !.class = <<"app", "Animal">> :> Class({}, {}, FALSE)
               @@ <<"app", "Dog">> :> Class({<<"app", "Animal">>}, {"Tag"}, FALSE)
               @@ <<"app", "Tag">> :> Class({}, {}, FALSE) @@ <<"app", "Other">> :> Class({}, {}, FALSE),
     !.sees = "app" :> (ModuleNames({F, G}) @@ [c \in {"Animal", "Dog", "Tag", "Other"} |-> <<"app", c>>]),
     !.submits = {F, G}]

\* A registry: __init_subclass__ collects the classes that f runs without naming them.
Hook == Me("Plugin", "__init_subclass__")
RunA == Me("PluginA", "run")  RunB == Me("PluginB", "run")
Registry ==
  [Base EXCEPT
     !.order = <<Hook, RunA, F, RunB>>, !.traced = {F}, !.kind = F :> "sync",
     !.body = Hook :> <<Plain>> @@ RunA :> <<Plain>> @@ RunB :> <<Calls({})>>
              @@ F :> <<[Plain EXCEPT !.names = {"Plugin"}, !.obj = {<<"", "run">>},
                                      !.uses = {Hook, RunA, RunB}]>>,
     !.class = <<"app", "Plugin">> :> Class({}, {}, TRUE)
               @@ <<"app", "PluginA">> :> Class({<<"app", "Plugin">>}, {}, FALSE)
               @@ <<"app", "PluginB">> :> Class({<<"app", "Plugin">>}, {}, FALSE),
     !.sees = "app" :> (ModuleNames({F}) @@ [c \in {"Plugin", "PluginA", "PluginB"} |-> <<"app", c>>]),
     !.submits = {F}]

\* Methods called on objects: annotated with one of two classes, or not at all.
RunC == Me("Ours", "run")  RunD == Me("Theirs", "run")  Stop == Me("Ours", "stop")
Objects ==
  [Base EXCEPT
     !.order = <<RunC, Stop, RunD, F, G>>, !.traced = {RunC, RunD, Stop, F, G},
     !.kind = [q \in {RunC, RunD, Stop, F, G} |-> "sync"],
     !.body = RunC :> <<Plain>> @@ RunD :> <<Plain>> @@ Stop :> <<Plain, Calls({G})>>
              @@ F :> <<[Plain EXCEPT !.obj = {<<"Ours", "run">>, <<"", "stop">>}, !.uses = {RunC, Stop}]>>
              @@ G :> <<[Plain EXCEPT !.obj = {<<"", "run">>}, !.uses = {RunD}, !.hidden = {RunD}]>>,
     !.class = [c \in {<<"app", "Ours">>, <<"app", "Theirs">>} |-> Class({}, {}, FALSE)],
     !.sees = "app" :> (ModuleNames({F, G}) @@ [c \in {"Ours", "Theirs"} |-> <<"app", c>>]),
     !.calls = 2, !.edits = {Stop}, !.submits = {F, G}]

\* Two functions that call each other as callbacks, in two processes.
Callbacks ==
  [Base EXCEPT
     !.order = <<F, G>>, !.traced = {F, G}, !.kind = [q \in {F, G} |-> "sync"],
     !.body = F :> <<CallsBack({G})>> @@ G :> <<CallsBack({F})>>,
     !.sees = "app" :> ModuleNames({F, G}),
     !.calls = 3, !.restarts = 1, !.submits = {F, G}, !.clears = 1]

\* Closures over a traced function, a local class, and a function whose source is lost.
Closures ==
  LET Local == Me("Tag", "local")
  IN [Base EXCEPT
        !.order = <<K, H, Local, G, F>>, !.traced = {F, G, H}, !.opaque = {K},
        !.kind = [q \in {F, G, H} |-> "sync"],
        !.body = K :> <<Plain>> @@ G :> <<[Plain EXCEPT !.closure = {K}, !.uses = {K}], Plain>>
                 @@ F :> <<[Plain EXCEPT !.closure = {H, <<"app", "Tag">>}, !.bare = {"Tag"},
                                         !.uses = {H, Local}]>>
                 @@ H :> <<Plain>> @@ Local :> <<Plain>>,
        !.class = <<"app", "Tag">> :> Class({}, {}, FALSE),
        !.sees = "app" :> ModuleNames({F, G, K}) @@ "lib" :> ModuleNames({H}),
        !.edits = {G}, !.submits = {F, G, H}]

\* Coroutines and generators that call each other, in two tasks.
Coroutines ==
  [Base EXCEPT
     !.order = <<K, G, F>>, !.traced = {F, G, K}, !.kind = F :> "async" @@ G :> "async" @@ K :> "sync",
     !.body = F :> <<[Calls({G}) EXCEPT !.uses = {G, K}, !.hidden = {K}]>>
              @@ G :> <<CallsBack({K})>> @@ K :> <<Plain>>,
     !.sees = "app" :> ModuleNames({F, G, K}),
     !.calls = 3, !.tasks = TRUE, !.submits = {F}, !.tasksMax = 1]

Generators ==
  [Base EXCEPT
     !.order = <<K, G, F>>, !.traced = {F, G, K}, !.kind = F :> "async" @@ G :> "agen" @@ K :> "gen",
     !.body = F :> <<CallsBack({G})>> @@ G :> <<CallsBack({K})>> @@ K :> <<Plain>>,
     !.sees = "app" :> ModuleNames({F, G, K}),
     !.calls = 5, !.submits = {F}, !.tasksMax = 1]

\* A store that the user keeps while the functions are edited.
Shelf ==
  [Helpers EXCEPT !.edits = {F, G}, !.tasksMax = 0, !.keeps = 4, !.clears = 0]

----------------------------------------------------------------------------
(* Arguments. *)

One == Prim("int", "1")
Text == Str("text")
Fields == <<<<"x", One>>, <<"y", Tuple(<<One, Text>>)>>>>
Point == Object("Tag", TRUE, Fields, <<>>)

Samples ==
  {One, Text, Prim("NoneType", "None"), Prim("bool", "True"), Prim("float", "1.5")}
  \cup {Bytes(t, "raw") : t \in {"bytes", "bytearray", "memoryview", "Tag"}}
  \cup {List(<<One, Tuple(<<Text>>)>>), Tuple(<<>>), Tuple(<<List(<<>>), Tuple(<<One>>)>>)}
  \cup {Dict(t, <<<<Text, Tuple(<<One>>)>>, <<Str("other"), Point>>>>) : t \in {"dict", "OrderedDict"}}
  \cup {Default(f, <<<<Tuple(<<One>>), List(<<Text>>)>>>>) : f \in {"list", "None", "lambda"}}
  \cup {Dict("Counter", <<<<Tuple(<<Text>>), One>>>>), Dict("dict", <<<<One, Text>>, <<Tuple(<<One>>), List(<<>>)>>>>),
          Dict("dict", <<<<Text, One>>, <<One, Text>>>>)}
  \cup {Dict("dict", <<<<Str(s), List(<<Text>>)>>>>) : s \in {"__offwork_tuple__", "text"}}
  \cup {Enum("", c, "RED", Tuple(<<One>>)) : c \in {"Tag", "Unsent"}}
  \cup {Enum("int", "Tag", "LOW", One), Enum("str", "Tag", "A", Text)}
  \cup {Named(c, <<One, Tuple(<<Text>>)>>) : c \in {"Tag", "Unsent"}}
  \cup {Group(t, <<Tuple(<<One>>), Text>>) : t \in {"set", "frozenset", "deque"}}
  \cup {Leaf("datetime", "data", "zone"), Leaf("timedelta", "data", "digits")}
  \cup {Leaf(t, "data", "") : t \in {"datetime", "date", "timedelta", "Decimal", "UUID", "complex", "range", "IPv4Address"}}
  \cup {Path(c, "a/b") : c \in {"PosixPath", "PurePosixPath", "PureWindowsPath", "Tag"}}
  \cup {Object("Tag", FALSE, <<>>, Fields), Object("Tag", TRUE, <<>>, <<<<"args", Text>>>>)}
  \cup {Derived("Tag", v) : v \in {One, Text, List(<<Text>>), Dict("dict", <<<<Text, One>>>>)}}
  \cup {Object("Unsent", TRUE, <<>>, <<>>), Point, Opaque("object")}

Arguments ==
  [Hierarchy EXCEPT !.order = <<Label, F>>, !.traced = {F}, !.kind = F :> "sync",
                   !.body = Label :> <<Plain>>
                            @@ F :> <<[Plain EXCEPT !.obj = {<<"Tag", "label">>}, !.bare = {"Tag"},
                                                    !.uses = {Label}]>>,
                   !.class = <<"app", "Tag">> :> Class({}, {}, FALSE),
                   !.sees = "app" :> (ModuleNames({F}) @@ "Tag" :> <<"app", "Tag">>),
                   !.submits = {F}, !.tasksMax = 1,
                   !.args = {Tuple(<<v>>) : v \in Samples} \cup {List(<<v, Tuple(<<v>>)>>) : v \in Samples}]

----------------------------------------------------------------------------

MCPrograms ==
  {Helpers, Processes, Twins, Hierarchy, Registry, Objects, Callbacks, Closures, Coroutines, Generators,
   Shelf, Arguments} \cup Packages

PartsOf(v) ==
  CASE v[1] \in {"list", "tuple"}  -> Range(v[2])
    [] v[1] \in {"named", "group"} -> Range(v[3])
    [] v[1] \in {"dict", "default"} -> {x[1] : x \in Range(v[3])} \cup {x[2] : x \in Range(v[3])}
    [] v[1] = "object" -> {x[2] : x \in Range(v[4]) \cup Range(v[5])}
    [] v[1] = "derived" -> {v[3]}
    [] v[1] = "enum"   -> {v[5]}
    [] OTHER -> {}

RECURSIVE Within(_), DepthOf(_)
Within(v) == {v} \cup UNION {Within(w) : w \in PartsOf(v)}
DepthOf(v) == IF PartsOf(v) = {} THEN 0 ELSE 1 + Max({DepthOf(w) : w \in PartsOf(v)})

MCValues == UNION {Within(v) : v \in UNION {p.args : p \in MCPrograms}}

MCDepth == [v \in MCValues |-> DepthOf(v)]

\* The recursion of the codec, tied to the bodies.  With a LET, because TLC's
\* coverage unfolds a plain definition for a constant without end.
MCToJsonable(v) == LET json == Encoding(v) IN json
MCResolve(j, classes) == LET value == Decoding(j, classes) IN value
MCCarried(v, classes) == LET carried == Survives(v, classes) IN carried

ASSUME ScenariosAnalyzable == \A p \in Programs : Analyzable(p)

\* A coroutine that has awaited another one is still on the list when it has returned.
StalePrograms ==
  {[Base EXCEPT
      !.order = <<K, G, F>>, !.traced = {F, G, K}, !.kind = [q \in {F, G, K} |-> "async"],
      !.body = F :> <<Calls({G})>> @@ G :> <<Calls({K})>> @@ K :> <<Plain>>,
      !.sees = "app" :> ModuleNames({F, G, K}),
      !.calls = 3, !.submits = {F}, !.tasksMax = 1]}
=============================================================================
