------------------------------ MODULE Analysis ------------------------------
(* The programs that the analyzer sees through: of every function, what its  *)
(* code calls is found by one of the rules of CodeGraph.  All of this is read *)
(* off the text of a program; nothing here depends on a state.               *)
EXTENDS CodeGraph

ClassOf(q) == <<Mod(q), Cls(q)>>

\* What the name n means in the module m.
Sees(p, m, n, o) ==
  m \in DOMAIN p.sees /\ n \in DOMAIN p.sees[m] /\ p.sees[m][n] = o

\* q's code, src, calls the class c by its name, or has it in its closure.
Builds(p, q, src, c) ==
  c[2] \in src.bare /\ (Sees(p, Mod(q), c[2], c) \/ c \in src.closure)

\* A function the graph comes to know: it is traced, or its source can be read.
Readable(p, r) == r \in p.traced \/ r \notin p.opaque

Known(p, q, src, r) == r \in p.traced \/ (r \notin p.opaque /\ Builds(p, q, src, ClassOf(r)))

\* The classes that go along with c: its bases, and those its body names.
Relatives(p, c) ==
  {d \in DOMAIN p.class :
     /\ c \in DOMAIN p.class /\ d # c
     /\ d \in p.class[c].bases \/ \E n \in p.class[c].attrs : Sees(p, c[1], n, d)}

\* The classes of which q takes all methods along: one that has no constructor
\* of its own, or what registers itself with a class that q names.
Takes(p, q, src, c) ==
  \/ /\ Builds(p, q, src, c)
     /\ \A s \in DOMAIN p.body : Nm(s) # c[2] /\ (Cls(s) = c[2] => Nm(s) # "__init__")
  \/ /\ c \in DOMAIN p.class /\ Cls(q) = ""
     /\ \E h \in p.class[c].bases \cap DOMAIN p.class :
          p.class[h].hook /\ \E n \in src.bare \cup src.names : Sees(p, Mod(q), n, h)

\* A call that is found, by the form it has in the source:
ByClosure(src, r) == r \in ClosureRefs(src)

ByName(p, q, src, r) ==
  /\ Cls(r) = "" /\ Nm(r) \in src.bare
  /\ r \in p.traced \/ (r \notin p.opaque /\ Sees(p, Mod(q), Nm(r), r))

BySelf(p, q, src, r) ==
  /\ ClassOf(r) = ClassOf(q) /\ Cls(q) # "" /\ Nm(r) \in src.self
  /\ r \in p.traced \/ (r \notin p.opaque /\ ClassOf(q) \in DOMAIN p.class)

ByConstructor(p, q, src, r) ==
  /\ Cls(r) # "" /\ Nm(r) = "__init__" /\ Cls(r) \in src.bare /\ Known(p, q, src, r)
  /\ \A s \in DOMAIN p.body : Nm(s) # Cls(r)

ByAnnotation(p, q, src, r) ==
  Cls(r) # "" /\ <<Cls(r), Nm(r)>> \in src.obj /\ Known(p, q, src, r)

ByOnlyMethod(p, q, src, r) ==
  /\ Cls(r) # "" /\ <<"", Nm(r)>> \in src.obj /\ Known(p, q, src, r)
  /\ \A s \in DOMAIN p.body : (Nm(s) = Nm(r) /\ Cls(s) # "") => s = r

\* s is defined before q is.
Before(p, s, q) ==
  \A i, j \in DOMAIN p.order : p.order[i] = s /\ p.order[j] = q => i < j

\* A method of a class that q's own class is related to, of one that q takes
\* along, or of a relative of the latter.
ByClass(p, q, src, r) ==
  /\ Cls(r) # "" /\ Readable(p, r)
  /\ \/ Cls(q) # "" /\ ClassOf(r) \in Relatives(p, ClassOf(q))
     \/ Takes(p, q, src, ClassOf(r))
     \/ \E s \in DOMAIN p.body :
          /\ Cls(s) # "" /\ Readable(p, s) /\ Before(p, s, q)
          /\ Takes(p, q, src, ClassOf(s)) /\ ClassOf(r) \in Relatives(p, ClassOf(s))

Finds(p, q, src, r) ==
  \/ ByClosure(src, r)              \/ ByName(p, q, src, r)
  \/ BySelf(p, q, src, r)           \/ ByConstructor(p, q, src, r)
  \/ ByAnnotation(p, q, src, r)     \/ ByOnlyMethod(p, q, src, r)
  \/ ByClass(p, q, src, r)

\* All definitions are executed; nothing is submitted while a class statement
\* runs; a class is defined after its bases.
InOrder(p) ==
  /\ \A q \in DOMAIN p.body : \E i \in DOMAIN p.order : p.order[i] = q
  /\ \A i, j, k \in DOMAIN p.order :
       LET r == p.order[j]
           s == p.order[k]
       IN (p.order[i] \in p.submits /\ r # s /\ Cls(r) # "" /\ ClassOf(r) = ClassOf(s)) => j < i
  /\ \A i, j \in DOMAIN p.order :
       LET c == ClassOf(p.order[i])
       IN (c \in DOMAIN p.class /\ ClassOf(p.order[j]) \in p.class[c].bases) => j < i

Analyzable(p) ==
  /\ IsFiniteSet(DOMAIN p.class) /\ \A c \in DOMAIN p.class : IsClass(c) /\ c[2] # ""
  /\ \A q \in DOMAIN p.body : ~IsClass(q)
  /\ InOrder(p)
  /\ \A q \in DOMAIN p.body : \A v \in DOMAIN p.body[q] :
       LET src == p.body[q][v]
       IN \A r \in src.uses \ src.hidden : r \in DOMAIN p.body => Finds(p, q, src, r)
=============================================================================
