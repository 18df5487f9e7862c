------------------------------ MODULE CallStack ------------------------------
(* The tracing of a client program: traced functions called locally note     *)
(* who calls whom on a list held by a context variable.  An asyncio task is  *)
(* a context; it starts with its parent's reference to the list.             *)
EXTENDS Integers, Sequences, FiniteSets, SequencesExt

VARIABLES prog,        \* the program: see MCCodebase
          loaded,      \* how many of its definitions the process has executed
          ver,         \* the version of each function in its source file
          heap,        \* the list objects
          ctx,         \* the contexts: the list, the frames, who spawned it
          gens,        \* the generator objects not yet exhausted
          rt           \* Graph._runtime_deps, as pairs

traceVars == <<heap, ctx, gens, rt>>

Contexts == {1, 2}

Source(q) == prog.body[q][ver[q]]

Loaded == {prog.order[i] : i \in 1..loaded}

NoContext == [live |-> FALSE, list |-> 0, frames |-> <<>>, spawner |-> {}]

TraceInit ==
  /\ heap = <<>> /\ gens = {} /\ rt = {}
  /\ ctx = [c \in Contexts |-> [NoContext EXCEPT !.live = (c = 1)]]

\* The function whose code runs in c, if any.
Running(c) ==
  IF ctx[c].frames = <<>> THEN ctx[c].spawner ELSE {Last(ctx[c].frames).fn}

\* A context keeps the thread until its innermost frame can be suspended.
HasThread(c) ==
  /\ ctx[c].live
  /\ \A d \in Contexts \ {c} :
       ctx[d].frames # <<>> => prog.kind[Last(ctx[d].frames).fn] \in {"async", "agen"}

\* A call that the program can make: the calling code names it, and awaits only in a coroutine.
MayCall(c, q) ==
  /\ HasThread(c) /\ prog.calls > 0
  /\ q \in prog.traced \cap Loaded
  /\ \A p \in Running(c) : q \in Source(p).uses
  /\ prog.kind[q] \in {"async", "agen"} =>
       \A p \in Running(c) : prog.kind[p] \in {"async", "agen"}

\* _get_call_stack, _ensure_isolated_stack: the heap and the list after them.
GetStack(c) ==
  IF ctx[c].list # 0 THEN [heap |-> heap, list |-> ctx[c].list]
  ELSE [heap |-> Append(heap, <<>>), list |-> Len(heap) + 1]

IsolatedStack(c) ==
  LET s == GetStack(c)
  IN [heap |-> Append(s.heap, s.heap[s.list]), list |-> Len(s.heap) + 1]

RecordEdge(s, q) ==
  LET stack == s.heap[s.list]
  IN rt' = IF stack # <<>> /\ Last(stack) # q THEN rt \cup {<<Last(stack), q>>} ELSE rt

Push(c, q, s) ==
  /\ heap' = [s.heap EXCEPT ![s.list] = Append(@, q)]
  /\ ctx' = [ctx EXCEPT ![c].list = s.list, ![c].frames = Append(@, [fn |-> q, list |-> s.list])]

Spend == prog' = [prog EXCEPT !.calls = @ - 1]

\* The wrappers of a function and of a coroutine function.
CallFunction(c, q) ==
  /\ MayCall(c, q) /\ prog.kind[q] \in {"sync", "async"} /\ Spend
  /\ LET s == IF prog.kind[q] = "async" THEN IsolatedStack(c) ELSE GetStack(c)
     IN RecordEdge(s, q) /\ Push(c, q, s)
  /\ UNCHANGED gens

\* The wrapper of a generator function: the body does not run yet.
MakeGenerator(c, q) ==
  /\ MayCall(c, q) /\ prog.kind[q] \in {"gen", "agen"} /\ Spend
  /\ LET s == GetStack(c)
     IN /\ RecordEdge(s, q)
        /\ heap' = s.heap /\ ctx' = [ctx EXCEPT ![c].list = s.list]
  /\ gens' = gens \cup {[fn |-> q, maker |-> Running(c), fresh |-> TRUE]}

\* One step of a generator by its maker; an async one isolates the list once.
ResumeGenerator(c, g) ==
  /\ HasThread(c) /\ g.maker = Running(c) /\ prog.calls > 0 /\ Spend
  /\ Push(c, g.fn, IF g.fresh /\ prog.kind[g.fn] = "agen" THEN IsolatedStack(c) ELSE GetStack(c))
  /\ gens' = (gens \ {g}) \cup {[g EXCEPT !.fresh = FALSE]}
  /\ UNCHANGED rt

\* The frame ends (a generator's until its next step) and pops the list it pushed to.
Return(c) ==
  /\ HasThread(c) /\ ctx[c].frames # <<>>
  /\ heap' = [heap EXCEPT ![Last(ctx[c].frames).list] = Front(@)]
  /\ ctx' = [ctx EXCEPT ![c].frames = Front(@)]
  /\ UNCHANGED <<prog, gens, rt>>

\* create_task, from a coroutine or from the main program.
Spawn(c, d) ==
  /\ HasThread(c) /\ ~ctx[d].live /\ prog.tasks
  /\ \A p \in Running(c) : prog.kind[p] \in {"async", "agen"}
  /\ ctx' = [ctx EXCEPT ![d] = [live |-> TRUE, list |-> ctx[c].list, frames |-> <<>>,
                                spawner |-> Running(c)]]
  /\ UNCHANGED <<prog, heap, gens, rt>>

LocalCall ==
  /\ \E c \in Contexts :
       \/ \E q \in prog.traced : CallFunction(c, q) \/ MakeGenerator(c, q)
       \/ \E g \in gens : ResumeGenerator(c, g)
       \/ Return(c)
       \/ \E d \in Contexts : Spawn(c, d)
  /\ UNCHANGED <<loaded, ver>>

----------------------------------------------------------------------------

\* A recorded edge is a call: some version of the caller's code makes it.
\* tracing.py: the docstring of _record_edge, and the isolation of contexts.
EdgesAreCalls ==
  \A e \in rt : \E v \in DOMAIN prog.body[e[1]] : e[2] \in prog.body[e[1]][v].uses
=============================================================================
