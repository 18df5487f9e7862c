------------------------------ MODULE CodeStore ------------------------------
(* The content-addressed store a task carries: objects by hash, dependency   *)
(* edges by hash, names.  What walk, subgraph, merge, gc, collect and        *)
(* reconstruct make of it.  Source text is a version number; the text that   *)
(* reconstruct returns is the namespace it defines when it is executed.      *)
EXTENDS Integers, Sequences, FiniteSets, TLC, Functions

\* A qualified name is <<module, class, name>>, class "" for a plain function.
\* Left out: local functions of one module and name, which the code tells apart
\* by their qualified names but, when their content is the same, not by hash.
Mod(q) == q[1]
Cls(q) == q[2]
Nm(q)  == q[3]

\* The key of a definition in the flat module that reconstruct writes.
Simple(q) == <<Cls(q), Nm(q)>>

\* The one function where it is defined, the other where it is not.
Over(f, g) == [x \in DOMAIN f \cup DOMAIN g |-> IF x \in DOMAIN f THEN f[x] ELSE g[x]]

Onward(R, succ) == R \cup UNION {succ[x] : x \in R \cap DOMAIN succ}

\* What S reaches in so many steps along succ.
Stages(S, succ) ==
  LET stage[n \in Nat] == IF n = 0 THEN S ELSE Onward(stage[n - 1], succ)
  IN stage

\* The least set with S in it that succ does not leave.
Closure(S, succ) == Stages(S, succ)[Cardinality(DOMAIN succ) + 1]

\* Every function that takes one of the candidates for each name.
Selections(candidates) ==
  LET open == {x \in DOMAIN candidates : Cardinality(candidates[x]) # 1}
      choices == {f \in [open -> UNION {candidates[x] : x \in open}] :
                    \A x \in open : f[x] \in candidates[x]}
  IN {[x \in DOMAIN candidates |-> IF x \in open THEN f[x] ELSE CHOOSE c \in candidates[x] : TRUE] :
        f \in choices}

----------------------------------------------------------------------------

\* content_hash: of the node's own content (module, class, name and source),
\* and of none of its dependencies.
Hash(q, version) == <<q, version>>

EmptyStore == [objects |-> {}, deps |-> <<>>, refs |-> <<>>]

DepsOf(store, h) == IF h \in DOMAIN store.deps THEN store.deps[h] ELSE {}

\* Graph.to_store, from the nodes and their dependencies.
StoreOf(version, deps) ==
  [objects |-> {Hash(q, version[q]) : q \in DOMAIN version},
   deps    |-> [h \in {Hash(q, version[q]) : q \in {p \in DOMAIN version : deps[p] # {}}} |->
                  {Hash(d, version[d]) : d \in deps[h[1]]}],
   refs    |-> [q \in DOMAIN version |-> Hash(q, version[q])]]

Walk(store, h) == Closure({h}, store.deps)

Subgraph(store, roots) ==
  LET reachable == UNION {Walk(store, h) : h \in roots}
  IN [objects |-> store.objects \cap reachable,
      deps    |-> Restrict(store.deps, DOMAIN store.deps \cap reachable),
      refs    |-> Restrict(store.refs, {q \in DOMAIN store.refs : store.refs[q] \in reachable})]

\* A name that both stores know keeps what it meant.
Merge(store, other) ==
  [objects |-> store.objects \cup other.objects,
   deps    |-> [h \in DOMAIN store.deps \cup DOMAIN other.deps |->
                  DepsOf(store, h) \cup DepsOf(other, h)],
   refs    |-> Over(store.refs, other.refs)]

\* A variant: what a name's definition depends on is not walked.
GcNoWalk(store) ==
  LET garbage == store.objects \ Range(store.refs)
  IN [store EXCEPT !.objects = @ \ garbage, !.deps = Restrict(@, DOMAIN @ \ garbage)]

DelRef(store, q) == [store EXCEPT !.refs = Restrict(@, DOMAIN @ \ {q})]

Gc(store) ==
  LET reachable == UNION {Walk(store, store.refs[q]) : q \in DOMAIN store.refs}
      garbage == store.objects \ reachable
  IN [store EXCEPT !.objects = @ \ garbage, !.deps = Restrict(@, DOMAIN @ \ garbage)]

----------------------------------------------------------------------------

\* An object that lost its name to another version goes by its module and name.
NameIn(store, h) ==
  IF \E q \in DOMAIN store.refs : store.refs[q] = h
  THEN CHOOSE q \in DOMAIN store.refs : store.refs[q] = h
  ELSE <<Mod(h[1]), "", Nm(h[1])>>

\* collect: two objects of one name leave one, the later of the walk.
Collect(store, q) ==
  LET found == Walk(store, store.refs[q]) \cap store.objects
  IN Selections([x \in {NameIn(store, h) : h \in found} |-> {h \in found : NameIn(store, h) = x}])

\* An edge to an object without a name is lost: the hash stands for the name.
NeededDeps(store, needed, q) ==
  {NameIn(store, d) : d \in DepsOf(store, needed[q]) \cap Range(store.refs)}

\* _topological_order raises CycleError.
Cyclic(store, needed) ==
  LET succ == [q \in DOMAIN needed |-> NeededDeps(store, needed, q) \cap DOMAIN needed]
  IN \E q \in DOMAIN needed : q \in Closure(succ[q], succ)

\* The module that reconstruct writes: of two definitions of one name the last
\* wins.  Imports and module variables belong to the text of a definition: that
\* of two variables of one name the module keeps the first is left out.
Reconstruct(needed) ==
  LET names == {Simple(h[1]) : h \in Range(needed)}
  IN Selections([x \in names |-> {h \in Range(needed) : Simple(h[1]) = x}])

\* A variant: the hash of the function alone.
RootKey(store, q) == {store.refs[q]}

\* _compute_subgraph_key: the hashes, without their edges and without the target.
SubgraphKey(store, q) == Walk(store, store.refs[q])
=============================================================================
