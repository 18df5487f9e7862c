------------------------------ MODULE Codebase ------------------------------
(* From the source of a function to the call on a worker: a client process   *)
(* submits functions with the store of their dependencies; the worker looks  *)
(* them up in its cache or installs their packages and rebuilds them; and a  *)
(* store that a user keeps, merges and prunes.                               *)
EXTENDS CodeGraph, ArgCodec

CONSTANTS Programs, \* the scenarios
          None

\* A scenario is a program of finitely many functions, each with its versions;
\* what is registered, edited, submitted or in a closure is one of them.
WellFormed(p) ==
  /\ {"order", "body", "kind", "class", "sees", "traced", "opaque", "edits", "submits", "args",
      "restarts"} \subseteq DOMAIN p
  /\ IsFiniteSet(DOMAIN p.body) /\ p.order \in Seq(DOMAIN p.body)
  /\ p.edits \subseteq DOMAIN p.body /\ p.submits \subseteq p.traced /\ p.args \subseteq Values
  /\ p.restarts \in Int
  /\ \A q \in DOMAIN p.body :
       /\ p.body[q] \in Seq(Range(p.body[q])) \ {<<>>}
       /\ \A v \in DOMAIN p.body[q] : ClosureRefs(p.body[q][v]) \subseteq DOMAIN p.body

ASSUME ProgramAssumption == \A p \in Programs : WellFormed(p)

ClassNames(p) == {Cls(q) : q \in DOMAIN p.body} \ {""}

ASSUME CodecAssumption ==
  /\ ValuesShaped /\ EncodesByPart
  /\ \A p \in Programs : \A classes \in SUBSET ClassNames(p) : DecodesByPart(classes)

VARIABLES tasks,       \* the submissions, with the state of their handlers
          cache,       \* Worker._cache
          site,        \* the modules the worker's interpreter can import
          shelf        \* a store kept by the user of the library

workVars == <<tasks, cache, site>>
vars == <<graphVars, workVars, shelf>>

Init ==
  /\ prog \in Programs
  /\ GraphInit
  /\ tasks = <<>> /\ cache = <<>> /\ site = prog.site /\ shelf = EmptyStore

Program ==
  /\ Define \/ Edit \/ Restart \/ (LocalCall /\ UNCHANGED node)
  /\ UNCHANGED <<workVars, shelf>>

----------------------------------------------------------------------------
(* Submission. *)

\* A helper that was redefined after its source was captured: it is sent as it
\* was, however often it is edited (_auto_register returns for what it has).
Outdated(nodes, q) == q \notin prog.traced /\ q \in DOMAIN nodes /\ nodes[q].ver # ver[q]

\* What the documentation promises to send: all that the code in the process
\* can call, calls of no visible name only once they were traced.
Promised(nodes, f) ==
  Closure({f}, [q \in {p \in Loaded : ~Outdated(nodes, p)} |->
                  {r \in (Source(q).uses \ Source(q).hidden) \cup {e[2] : e \in {x \in rt : x[1] = q}} :
                     r \in Loaded /\ ~Outdated(nodes, r)}])

\* Names that the analyzer or the flat module would confuse.
Namesakes(q, r) ==
  /\ q # r /\ Nm(q) = Nm(r)
  /\ Cls(q) = Cls(r) \/ "" \in {Cls(q), Cls(r)}

Unambiguous(nodes, Q) == \A q \in Q, r \in DOMAIN nodes : ~Namesakes(q, r)

\* A task; had, outdated and life tell of the process that it was sent from.
Submission(nodes, f, args) ==
  [func |-> f, store |-> ToStore(nodes, f), args |-> args,
   sent |-> [q \in Promised(nodes, f) |-> ver[q]], clear |-> Unambiguous(nodes, Promised(nodes, f)),
   had |-> ver, outdated |-> {q \in DOMAIN nodes : Outdated(nodes, q)}, life |-> prog.restarts,
   pc |-> "look", stage |-> "is_streaming", todo |-> {}, pip |-> None, bad |-> FALSE,
   ran |-> None]

\* to_store raises KeyError for a closure that holds an unregistered function.
Submit ==
  /\ Len(tasks) < prog.tasksMax
  /\ \E f \in prog.submits \cap Loaded, args \in prog.args :
       LET nodes == Refreshed(node)
       IN /\ Subtree(nodes, f) \subseteq DOMAIN nodes
          /\ node' = nodes
          /\ tasks' = Append(tasks, Submission(nodes, f, args))
  /\ UNCHANGED <<prog, loaded, ver, traceVars, cache, site, shelf>>

----------------------------------------------------------------------------
(* The worker.  Each task looks its function up twice, in is_streaming and   *)
(* in run; tasks interleave while pip runs.                                  *)

Key(t) == SubgraphKey(tasks[t].store, tasks[t].func)

Step(t, changes) == tasks' = [tasks EXCEPT ![t] = Over(changes, @)]

ModulesOf(hashes) == UNION {prog.body[h[1]][h[2]].modules : h \in hashes}

\* ensure_dependencies reads the modules in the imports of all nodes collected.
StoreModules(store, q) == ModulesOf(Walk(store, store.refs[q]) \cap store.objects)

Classes(namespace) == {x[1] : x \in DOMAIN namespace} \ {""}

\* _extract_target_callable: the name in the module, or the method of the class.
Target(entry) == entry.namespace[Simple(entry.func)]

\* The call: the target and the arguments in the namespace of the entry.
Outcome(t, entry) ==
  [target |-> Target(entry), namespace |-> entry.namespace,
   got |-> Transported(tasks[t].args, Classes(entry.namespace))]

\* What follows a lookup: the run itself after the second one.
Proceed(t, entry) ==
  IF tasks[t].stage = "is_streaming" THEN Step(t, [pc |-> "look", stage |-> "run"])
  ELSE Step(t, [pc |-> "ran", ran |-> Outcome(t, entry)])

\* _get_cached; the missing entry is built across awaits.
Hit(t) ==
  /\ tasks[t].pc = "look" /\ Key(t) \in DOMAIN cache
  /\ Proceed(t, cache[Key(t)])
  /\ UNCHANGED <<graphVars, cache, site, shelf>>

Miss(t) ==
  /\ tasks[t].pc = "look" /\ Key(t) \notin DOMAIN cache
  /\ Step(t, [pc |-> "deps",
              todo |-> IF prog.install THEN StoreModules(tasks[t].store, tasks[t].func) ELSE {}])
  /\ UNCHANGED <<graphVars, cache, site, shelf>>

\* install_packages: one module after the other.
IsInstalled(t) ==
  /\ tasks[t].pc = "deps" /\ tasks[t].pip = None
  /\ \E m \in tasks[t].todo :
       Step(t, IF m \in site THEN [todo |-> tasks[t].todo \ {m}] ELSE [pip |-> m])
  /\ UNCHANGED <<graphVars, cache, site, shelf>>

\* DEFAULT_IMPORT_TO_PACKAGE: one entry stands for all.
DefaultPackage == [yaml |-> "PyYAML"]

\* The explicit mapping, the hint of the import, the defaults, the name itself.
PackageOf(m) == (prog.mapping @@ prog.hints @@ DefaultPackage @@ (m :> m))[m]

\* pip fails for a name the index does not have.
PipInstall(t) ==
  /\ tasks[t].pc = "deps" /\ tasks[t].pip # None
  /\ LET m == tasks[t].pip
         known == PackageOf(m) \in DOMAIN prog.index
     IN /\ site' = IF known THEN site \cup prog.index[PackageOf(m)] ELSE site
        /\ Step(t, [pip |-> None, todo |-> tasks[t].todo \ {m}, bad |-> tasks[t].bad \/ ~known])
  /\ UNCHANGED <<graphVars, cache, shelf>>

\* The rest of _build has no await: DependencyError, CycleError, ModuleNotFoundError, or the entry.
Build(t) ==
  /\ tasks[t].pc = "deps" /\ tasks[t].todo = {} /\ tasks[t].pip = None
  /\ \E needed \in Collect(tasks[t].store, tasks[t].func) :
       LET failed == \/ tasks[t].bad
                     \/ Cyclic(tasks[t].store, needed)
                     \/ ~(ModulesOf(Range(needed)) \subseteq site)
       IN \/ failed /\ Step(t, [pc |-> "failed"]) /\ UNCHANGED cache
          \/ /\ ~failed
             /\ \E namespace \in Reconstruct(needed) :
                  LET entry == [func |-> tasks[t].func, namespace |-> namespace]
                  IN cache' = Over([k \in {Key(t)} |-> entry], cache) /\ Proceed(t, entry)
  /\ UNCHANGED <<graphVars, site, shelf>>

ClearCache ==
  /\ prog.clears > 0 /\ cache # <<>>
  /\ prog' = [prog EXCEPT !.clears = @ - 1]
  /\ cache' = <<>>
  /\ UNCHANGED <<loaded, ver, traceVars, node, tasks, site, shelf>>

Work == \E t \in DOMAIN tasks : Hit(t) \/ Miss(t) \/ IsInstalled(t) \/ PipInstall(t) \/ Build(t)

----------------------------------------------------------------------------
(* A store of the user's own. *)

KeepStore(store) ==
  /\ prog.keeps > 0 /\ prog' = [prog EXCEPT !.keeps = @ - 1]
  /\ shelf' = store
  /\ UNCHANGED <<loaded, ver, traceVars, workVars>>

Keep ==
  \/ \E f \in prog.submits \cap Loaded :
       LET nodes == Refreshed(node)
       IN /\ Subtree(nodes, f) \subseteq DOMAIN nodes
          /\ KeepStore(Merge(shelf, ToStore(nodes, f))) /\ node' = nodes
  \/ /\ \/ KeepStore(Gc(shelf))
        \/ \E q \in DOMAIN shelf.refs :
             KeepStore(DelRef(shelf, q)) \/ KeepStore(Subgraph(shelf, {shelf.refs[q]}))
     /\ UNCHANGED node

----------------------------------------------------------------------------

Next == Program \/ Submit \/ Work \/ ClearCache \/ Keep

Spec == Init /\ [][Next]_vars

----------------------------------------------------------------------------
(* Properties. *)

\* What a worker calls is the function the client named, and everything the
\* client's process would have called from it is there in the version that the
\* process had, whatever the worker's cache holds and whatever was edited since.
\* Left out, because the code fails there (README): names that two registered
\* functions share, helpers redefined since they were captured, and the cache
\* entry of another function whose subtree is the same set of nodes.
RunsWhatWasSent ==
  \A t \in DOMAIN tasks :
    (/\ tasks[t].pc = "ran" /\ tasks[t].clear
     /\ \A s \in DOMAIN tasks : Key(s) = Key(t) => tasks[s].func = tasks[t].func)
    => LET ran == tasks[t].ran
           sent == tasks[t].sent
       IN /\ ran.target = Hash(tasks[t].func, sent[tasks[t].func])
          /\ \A q \in DOMAIN sent : /\ Simple(q) \in DOMAIN ran.namespace
                                    /\ ran.namespace[Simple(q)] = Hash(q, sent[q])

\* Whatever entry of the cache serves a task (Worker._build, _get_cached), the
\* code it runs was sent with that task, each piece under its own name; it is in
\* the version the process had at the submission, unless it is an untraced helper
\* that was redefined since it was captured (graph.py, _auto_register).  Such a
\* helper runs stale: in the version of the capture, the same in every task that
\* one process sends.  This holds also for the names RunsWhatWasSent leaves out.
VersionsRun ==
  \A t \in DOMAIN tasks :
    tasks[t].pc = "ran" =>
      \A x \in DOMAIN tasks[t].ran.namespace :
        LET piece == tasks[t].ran.namespace[x]
        IN /\ piece \in Walk(tasks[t].store, tasks[t].store.refs[tasks[t].func])
           /\ Simple(piece[1]) = x
           /\ piece[1] \notin tasks[t].outdated => piece[2] = tasks[t].had[piece[1]]
           /\ piece[1] \in tasks[t].outdated =>
                \A u \in DOMAIN tasks : \A h \in tasks[u].store.objects :
                  tasks[u].life = tasks[t].life /\ h[1] = piece[1] => h[2] = piece[2]

\* An argument arrives as the value it was, nested as it may be, if its
\* classes are part of what was sent (Carried lists what the codec loses).
ArgsArrive ==
  \A t \in DOMAIN tasks :
    tasks[t].pc = "ran" /\ Carried(tasks[t].args, Classes(tasks[t].ran.namespace))
    => tasks[t].ran.got = tasks[t].args

\* However a store is merged, pruned and cut (Store.merge, gc, del_ref and
\* subgraph), whatever one of its names reaches is in it: collect finds all of it.
StoreIsClosed ==
  \A q \in DOMAIN shelf.refs : Walk(shelf, shelf.refs[q]) \subseteq shelf.objects
=============================================================================
