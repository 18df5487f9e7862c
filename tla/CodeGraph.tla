------------------------------ MODULE CodeGraph ------------------------------
(* The dependency graph of a client process: what the analyzer reads in a    *)
(* function's source, what registering a function discovers, and the store   *)
(* that to_store builds for a submission.                                    *)
EXTENDS CodeStore, CallStack

\* Graph._nodes: the version whose source was captured, and when.  The
\* dependencies of a node are recomputed whenever they are used.
VARIABLE node

graphVars == <<prog, loaded, ver, traceVars, node>>

\* Objects a module names: functions <<module, class, name>>, classes <<module, name>>.
IsClass(o) == Len(o) = 2

Members(c) == {q \in DOMAIN prog.body : <<Mod(q), Cls(q)>> = c}

\* The class statement binds its name after its last method.
Exists(o) == IF IsClass(o) THEN Members(o) \subseteq Loaded ELSE o \in Loaded

\* getattr(module_obj, name): the user's objects among the names.
Bound(m, names) ==
  {o \in {prog.sees[m][n] : n \in names \cap DOMAIN prog.sees[m]} : Exists(o)}

OwnClass(q) == {c \in DOMAIN prog.class : c = <<Mod(q), Cls(q)>> /\ Exists(c)}

Subclasses(c) == {d \in DOMAIN prog.class : c \in prog.class[d].bases /\ Exists(d)}

BasesOf(c) == Closure(prog.class[c].bases, [d \in DOMAIN prog.class |-> prog.class[d].bases])

\* The user classes that the body of c refers to.
AttrClasses(c) == {d \in Bound(c[1], prog.class[c].attrs) : IsClass(d) /\ d # c}

----------------------------------------------------------------------------
(* Discovery: _auto_register, _auto_register_class, _discover_untraced_deps. *)

\* The source a node holds; that of a function not yet registered is the current one.
Captured(nodes, q) == prog.body[q][IF q \in DOMAIN nodes THEN nodes[q].ver ELSE ver[q]]

\* Classes registered along with c; _classes_in_progress stops the recursion.
AlongWith(C) ==
  Closure(C, [c \in DOMAIN prog.class |->
                AttrClasses(c) \cup BasesOf(c)
                \cup (IF prog.class[c].hook THEN Subclasses(c) ELSE {})])

\* Registry classes that q names and is no part of.
HooksNamed(q, src) ==
  {c \in Bound(Mod(q), src.bare \cup src.names) :
     /\ IsClass(c) /\ prog.class[c].hook
     /\ \A own \in OwnClass(q) : own # c /\ own \notin BasesOf(c)}

\* _capture_closure: the user's functions and classes in the cells of a
\* function; literals, modules and lambdas become part of its own source.
ClosureRefs(src) == {o \in src.closure : ~IsClass(o)}

ClosureClasses(src) == {o \in src.closure : IsClass(o)}

CalledClasses(q, src) == {c \in Bound(Mod(q), src.bare) : IsClass(c)}

\* A name imported under an alias is left to the import statement.
CalledFunctions(q, src) ==
  {f \in Bound(Mod(q), src.bare) :
     ~IsClass(f) /\ Nm(f) \in src.bare /\ prog.sees[Mod(q)][Nm(f)] = f}

\* Methods found by getattr on the class: its own, else an ancestor's.
CalledMethods(q, src) ==
  UNION {LET own == {f \in Members(c) : Nm(f) \in src.self}
         IN own \cup {f \in UNION {Members(b) : b \in BasesOf(c)} :
                        Nm(f) \in src.self \ {Nm(m) : m \in own}}
         : c \in OwnClass(q)}

Discovered(q, src) ==
  (CalledFunctions(q, src) \cup CalledMethods(q, src) \cup ClosureRefs(src)
   \cup UNION {Members(c) :
          c \in AlongWith(CalledClasses(q, src) \cup ClosureClasses(src)
                          \cup (UNION {Subclasses(h) : h \in HooksNamed(q, src)})
                          \cup (UNION {AttrClasses(c) \cup BasesOf(c) : c \in OwnClass(q)}))})
  \ prog.opaque

\* refresh, its first loop: functions already registered keep the source they have.
Refreshed(nodes) ==
  LET all == Closure(DOMAIN nodes,
                     [q \in DOMAIN prog.body |-> Discovered(q, Captured(nodes, q))])
  IN Over(nodes, [q \in all |-> [ver |-> ver[q], at |-> Cardinality(DOMAIN nodes)]])

\* A variant: a function that is registered again keeps the source it had.
RegisterOnce(q, version) ==
  Refreshed(Over(node, [x \in {q} |-> [ver |-> version, at |-> Cardinality(DOMAIN node)]]))

\* register: the decorator runs before the name is bound in the module.
Register(q, version) ==
  Refreshed(Over([x \in {q} |-> [ver |-> version,
                                 at  |-> IF q \in DOMAIN node THEN node[q].at
                                         ELSE Cardinality(DOMAIN node)]],
                 node))

----------------------------------------------------------------------------
(* Dependencies: analyzer.detect_traced_dependencies, and refresh, its       *)
(* second loop, _add_super_deps and _merge_runtime_deps.                     *)

\* _prefer_same_module.  What one discovery registers is in the order of a set
\* of strings: two of those never compete in the programs that are checked.
Prefer(nodes, matches, m) ==
  LET same == {r \in matches : Mod(r) = m}
      among == IF same # {} THEN same ELSE matches
  IN CHOOSE r \in among : \A s \in among : nodes[r].at <= nodes[s].at

BareDeps(nodes, q, n) ==
  LET named == {r \in DOMAIN nodes : Nm(r) = n}
      members == {r \in DOMAIN nodes : Cls(r) = n}
      inits == {r \in members : Nm(r) = "__init__"}
  IN IF named # {} THEN {Prefer(nodes, named, Mod(q))}
     ELSE IF inits # {} THEN {Prefer(nodes, inits, Mod(q))}
     ELSE members

SelfDeps(nodes, q, n) ==
  LET matches == {r \in DOMAIN nodes : Nm(r) = n /\ Cls(r) = Cls(q)}
  IN IF matches = {} \/ Cls(q) = "" THEN {} ELSE {Prefer(nodes, matches, Mod(q))}

\* A call x.n(): the class of x's annotation, the last registered of that
\* name; without one, the only method so named.  Of an annotation with several
\* classes the code follows one, in no fixed order: here there is one.
ObjDeps(nodes, class, n) ==
  LET matches == {r \in DOMAIN nodes : Nm(r) = n /\ Cls(r) # ""}
      typed == {r \in matches : Cls(r) = class}
  IN IF class # "" THEN {r \in typed : \A s \in typed : nodes[s].at <= nodes[r].at}
     ELSE IF Cardinality(matches) = 1 THEN matches ELSE {}

Detected(nodes, q, src) ==
  (UNION {BareDeps(nodes, q, n) : n \in src.bare})
  \cup (UNION {SelfDeps(nodes, q, n) : n \in src.self})
  \cup (UNION {ObjDeps(nodes, o[1], o[2]) : o \in src.obj})

\* _inclusion_deps: parents before children, classes of attributes, registries.
\* The code keeps these edges for ever; here the names behind them are not edited.
Included(q, src) ==
  UNION {Members(c) : c \in (UNION {AttrClasses(own) \cup prog.class[own].bases : own \in OwnClass(q)})
                            \cup (UNION {Subclasses(h) : h \in HooksNamed(q, src)})}

SuperDeps(nodes, q, src) ==
  {r \in DOMAIN nodes : /\ src.super
                        /\ \E own \in OwnClass(q) : \E b \in prog.class[own].bases : Cls(r) = b[2]}

DependenciesOf(nodes, q) ==
  LET src == Captured(nodes, q)
      runtime == {e[2] : e \in {x \in rt : x[1] = q}}
  IN (Detected(nodes, q, src) \cup ClosureRefs(src) \cup SuperDeps(nodes, q, src)
      \cup ((Included(q, src) \cup runtime) \cap DOMAIN nodes)) \ {q}

\* _collect_subgraph: what f's submission carries.
Subtree(nodes, f) == Closure({f}, [q \in DOMAIN nodes |-> DependenciesOf(nodes, q)])

ToStore(nodes, f) ==
  LET tree == Subtree(nodes, f)
  IN StoreOf([q \in tree |-> nodes[q].ver], [q \in tree |-> DependenciesOf(nodes, q)])

----------------------------------------------------------------------------
(* The process: definitions are executed in order, edited, and lost.         *)

GraphInit ==
  /\ loaded = 0 /\ node = <<>>
  /\ ver = [q \in DOMAIN prog.body |-> 1]
  /\ TraceInit

Define ==
  /\ loaded < Len(prog.order)
  /\ LET q == prog.order[loaded + 1]
     IN node' = IF q \in prog.traced THEN Register(q, ver[q]) ELSE node
  /\ loaded' = loaded + 1
  /\ UNCHANGED <<prog, ver, traceVars>>

\* A function is redefined in the running process (a reload, a notebook cell).
Edit ==
  /\ \E q \in prog.edits \cap Loaded :
       /\ ver[q] < Len(prog.body[q])
       /\ ver' = [ver EXCEPT ![q] = @ + 1]
       /\ node' = IF q \in prog.traced THEN Register(q, ver[q] + 1) ELSE node
  /\ UNCHANGED <<prog, loaded, traceVars>>

\* The process ends and another one executes the sources as they are now.
Restart ==
  /\ prog.restarts > 0 /\ loaded > 0
  /\ prog' = [prog EXCEPT !.restarts = @ - 1]
  /\ loaded' = 0 /\ node' = <<>>
  /\ heap' = <<>> /\ gens' = {} /\ rt' = {}
  /\ ctx' = [c \in Contexts |-> [NoContext EXCEPT !.live = (c = 1)]]
  /\ UNCHANGED ver
=============================================================================
