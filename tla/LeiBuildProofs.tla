--------------------------- MODULE LeiBuildProofs ---------------------------
(***************************************************************************)
(* lei --build on projects: what the checks before a build make sure of,   *)
(* and with it the properties of the runner on the projects that pass.     *)
(*                                                                         *)
(* The search of detect_bundle_cycle is shown to be exact.  The argument   *)
(* is an invariant of its steps (Searching): the stack is a path of        *)
(* dependencies, and the bundles that are done depend only on others that  *)
(* are done and can be put in an order.  Every step ends the search or     *)
(* makes the measure one larger, so that the steps suffice.                *)
(***************************************************************************)
EXTENDS BuildPlanProofs, FiniteSetTheorems

-----------------------------------------------------------------------------
(* The search for a cycle. *)

(* EntryPlan counts as this module does. *)
LEMMA SameCount ==
  /\ \A S : G!IsFiniteSet(S) <=> IsFiniteSet(S)
  /\ \A S : G!Cardinality(S) = Cardinality(S)
<1>1. \A S : G!IsFiniteSet(S) <=> IsFiniteSet(S)
  BY DEF IsFiniteSet, G!IsFiniteSet
<1>2. \A S : G!Cardinality(S) = Cardinality(S)
  BY DEF Cardinality, G!Cardinality
<1> QED
  BY <1>1, <1>2

OnStack(s) == {s.stack[i] : i \in 1..Len(s.stack)}

SearchType(p, s) ==
  /\ s = [stack |-> s.stack, done |-> s.done, cycle |-> s.cycle]
  /\ s.stack \in Seq(G!Bundles(p))
  /\ s.done \subseteq G!Bundles(p)
  /\ s.cycle \in BOOLEAN

(* Each bundle on the stack is a dependency of the one below it; none is   *)
(* twice on it.                                                            *)
StackIsPath(p, s) ==
  /\ \A i \in 1..(Len(s.stack) - 1) : s.stack[i] \in p.deps[s.stack[i + 1]]
  /\ \A i, j \in 1..Len(s.stack) : s.stack[i] = s.stack[j] => i = j
  /\ OnStack(s) \intersect s.done = {}
  /\ Cardinality(OnStack(s)) = Len(s.stack)

(* What is done depends on what is done, and has no circle. *)
DoneInOrder(p, s) ==
  /\ \A b \in s.done : p.deps[b] \intersect G!Bundles(p) \subseteq s.done
  /\ \A T \in SUBSET s.done : T # {} => \E b \in T : p.deps[b] \intersect T = {}

Searching(p, s) ==
  /\ SearchType(p, s)
  /\ StackIsPath(p, s)
  /\ DoneInOrder(p, s)
  /\ s.cycle = TRUE => ~G!InOrder(p)

(* The steps that led to a state without a cycle: two for every bundle     *)
(* that is done and one for every bundle on the stack.                     *)
Measure(s) == 2 * Cardinality(s.done) + Len(s.stack)

Ended(p, s) == s.cycle = TRUE \/ (s.stack = <<>> /\ s.done = G!Bundles(p))

(* The bundles to visit next. *)
Ahead(p, s) ==
  (IF s.stack = <<>> THEN G!Bundles(p)
   ELSE p.deps[Head(s.stack)] \intersect G!Bundles(p)) \ s.done

(* A step ends a visit, finds a cycle, begins a visit, or there is none.   *)
LEMMA SearchCases ==
  ASSUME NEW p, NEW s, SearchType(p, s)
  PROVE  LET t == G!SearchStep(p, s) IN
         \/ (s.cycle = TRUE \/ (Ahead(p, s) = {} /\ s.stack = <<>>)) /\ t = s
         \/ /\ s.cycle = FALSE /\ Ahead(p, s) = {} /\ s.stack # <<>>
            /\ t.stack = Tail(s.stack) /\ t.done = s.done \union {Head(s.stack)}
            /\ t.cycle = FALSE /\ SearchType(p, t)
         \/ /\ s.cycle = FALSE /\ t.stack = s.stack /\ t.done = s.done /\ t.cycle = TRUE
            /\ Ahead(p, s) \intersect OnStack(s) # {} /\ SearchType(p, t)
         \/ \E d \in Ahead(p, s) \ OnStack(s) :
              /\ s.cycle = FALSE /\ t.stack = <<d>> \o s.stack
              /\ t.done = s.done /\ t.cycle = FALSE /\ SearchType(p, t)
<1> DEFINE t == G!SearchStep(p, s)
           next == CHOOSE d \in Ahead(p, s) : TRUE
<1>0. PICK st, dn, cy : s = [stack |-> st, done |-> dn, cycle |-> cy]
  BY DEF SearchType
<1>1. t = IF s.cycle \/ (Ahead(p, s) = {} /\ s.stack = <<>>) THEN s
          ELSE IF Ahead(p, s) = {}
          THEN [s EXCEPT !.stack = Tail(s.stack), !.done = s.done \union {Head(s.stack)}]
          ELSE IF \E i \in 1..Len(s.stack) : s.stack[i] = next
          THEN [s EXCEPT !.cycle = TRUE]
          ELSE [s EXCEPT !.stack = <<next>> \o s.stack]
  BY Zenon DEF G!SearchStep, Ahead
<1>2. s.cycle = TRUE \/ s.cycle = FALSE
  BY DEF SearchType
<1>3. s.stack # <<>> => Head(s.stack) \in G!Bundles(p) /\ Tail(s.stack) \in Seq(G!Bundles(p))
  BY DEF SearchType
<1>4. Ahead(p, s) \subseteq G!Bundles(p)
  BY DEF Ahead
<1>5. Ahead(p, s) # {} => next \in Ahead(p, s)
  OBVIOUS
<1> HIDE DEF t, next
<1>6. CASE s.cycle = TRUE \/ (Ahead(p, s) = {} /\ s.stack = <<>>)
  <2>1. t = s
    BY <1>1, <1>6
  <2> QED
    BY <1>6, <2>1 DEF t
<1>7. CASE s.cycle = FALSE /\ Ahead(p, s) = {} /\ s.stack # <<>>
  <2>1. t = [s EXCEPT !.stack = Tail(s.stack), !.done = s.done \union {Head(s.stack)}]
    BY <1>1, <1>7
  <2>2. t = [stack |-> Tail(st), done |-> dn \union {Head(st)}, cycle |-> cy]
    BY <1>0, <2>1
  <2>3. t.stack = Tail(s.stack) /\ t.done = s.done \union {Head(s.stack)} /\ t.cycle = FALSE
    BY <1>0, <1>7, <2>2
  <2>4. SearchType(p, t)
    BY <1>3, <1>7, <2>2, <2>3 DEF SearchType
  <2> QED
    BY <1>7, <2>3, <2>4 DEF t
<1>8. CASE s.cycle = FALSE /\ Ahead(p, s) # {} /\ next \in OnStack(s)
  <2>0. \E i \in 1..Len(s.stack) : s.stack[i] = next
    BY <1>8 DEF OnStack
  <2>1. t = [s EXCEPT !.cycle = TRUE]
    BY <1>1, <1>8, <2>0
  <2>2. t.stack = s.stack /\ t.done = s.done /\ t.cycle = TRUE
        /\ t = [stack |-> t.stack, done |-> t.done, cycle |-> t.cycle]
    BY <1>0, <2>1
  <2>3. SearchType(p, t)
    BY <2>2 DEF SearchType
  <2>4. Ahead(p, s) \intersect OnStack(s) # {}
    BY <1>5, <1>8
  <2> QED
    BY <1>8, <2>2, <2>3, <2>4 DEF t
<1>9. CASE s.cycle = FALSE /\ Ahead(p, s) # {} /\ next \notin OnStack(s)
  <2>0. ~\E i \in 1..Len(s.stack) : s.stack[i] = next
    BY <1>9 DEF OnStack
  <2>1. t = [s EXCEPT !.stack = <<next>> \o s.stack]
    BY <1>1, <1>9, <2>0
  <2>2. t.stack = <<next>> \o s.stack /\ t.done = s.done /\ t.cycle = s.cycle
        /\ t = [stack |-> t.stack, done |-> t.done, cycle |-> t.cycle]
    BY <1>0, <2>1
  <2>3. <<next>> \o s.stack \in Seq(G!Bundles(p))
    BY <1>4, <1>5, <1>9 DEF SearchType
  <2>4. SearchType(p, t)
    BY <2>2, <2>3 DEF SearchType
  <2>5. next \in Ahead(p, s) \ OnStack(s)
    BY <1>5, <1>9
  <2> QED
    BY <1>9, <2>2, <2>4, <2>5 DEF t
<1> QED
  BY <1>2, <1>6, <1>7, <1>8, <1>9

(* The stack without its last bundle, and with one more. *)
LEMMA StackOf ==
  ASSUME NEW B, NEW st \in Seq(B)
  PROVE  /\ st # <<>> =>
              /\ Len(st) \in Nat \ {0} /\ Len(Tail(st)) = Len(st) - 1
              /\ Head(st) = st[1]
              /\ \A i \in 1..(Len(st) - 1) : Tail(st)[i] = st[i + 1]
         /\ \A d : /\ Len(<<d>> \o st) = Len(st) + 1 /\ (<<d>> \o st)[1] = d
                   /\ \A i \in 1..Len(st) : (<<d>> \o st)[i + 1] = st[i]
<1>1. st # <<>> =>
        /\ Len(st) \in Nat \ {0} /\ Len(Tail(st)) = Len(st) - 1
        /\ Head(st) = st[1]
        /\ \A i \in 1..(Len(st) - 1) : Tail(st)[i] = st[i + 1]
  OBVIOUS
<1>2. ASSUME NEW d
      PROVE  /\ Len(<<d>> \o st) = Len(st) + 1 /\ (<<d>> \o st)[1] = d
             /\ \A i \in 1..Len(st) : (<<d>> \o st)[i + 1] = st[i]
  OBVIOUS
<1> QED
  BY <1>1, <1>2

(* The last bundle of the stack is done: nothing is ahead of it. *)
LEMMA VisitEnds ==
  ASSUME NEW p, IsFiniteSet(G!Bundles(p)), NEW s, NEW t, Searching(p, s), Ahead(p, s) = {},
         s.cycle = FALSE, s.stack # <<>>, t.stack = Tail(s.stack),
         t.done = s.done \union {Head(s.stack)}, t.cycle = FALSE, SearchType(p, t)
  PROVE  Searching(p, t) /\ Measure(t) = Measure(s) + 1
<1> DEFINE top == Head(s.stack)
<1>0. s.stack \in Seq(G!Bundles(p)) /\ s.done \subseteq G!Bundles(p) /\ Len(s.stack) \in Nat
  BY DEF Searching, SearchType
<1>1. /\ Len(s.stack) \in Nat \ {0} /\ Len(t.stack) = Len(s.stack) - 1
      /\ top = s.stack[1]
      /\ \A i \in 1..(Len(s.stack) - 1) : t.stack[i] = s.stack[i + 1]
  BY <1>0, StackOf
<1>2. top \in OnStack(s) /\ top \in G!Bundles(p) /\ top \notin s.done
  <2>1. 1 \in 1..Len(s.stack)
    BY <1>1
  <2>2. top \in OnStack(s)
    BY <1>1, <2>1 DEF OnStack
  <2> QED
    BY <1>0, <1>1, <2>1, <2>2 DEF Searching, StackIsPath
<1>3. OnStack(s) = OnStack(t) \union {top}
  <2>1. ASSUME NEW i \in 1..Len(s.stack) PROVE s.stack[i] \in OnStack(t) \union {top}
    <3>1. CASE i = 1
      BY <1>1, <3>1
    <3>2. CASE i # 1
      <4>1. i - 1 \in 1..Len(t.stack) /\ i - 1 \in 1..(Len(s.stack) - 1) /\ (i - 1) + 1 = i
        BY <1>1, <3>2
      <4>2. s.stack[i] = t.stack[i - 1]
        BY <1>1, <4>1
      <4> QED
        BY <4>1, <4>2 DEF OnStack
    <3> QED
      BY <3>1, <3>2
  <2>2. ASSUME NEW i \in 1..Len(t.stack) PROVE t.stack[i] \in OnStack(s)
    <3>1. i \in 1..(Len(s.stack) - 1) /\ i + 1 \in 1..Len(s.stack)
      BY <1>1
    <3>2. t.stack[i] = s.stack[i + 1]
      BY <1>1, <3>1
    <3> QED
      BY <3>1, <3>2 DEF OnStack
  <2> QED
    BY <1>2, <2>1, <2>2 DEF OnStack
<1> HIDE DEF top
<1>4. IsFiniteSet(OnStack(s)) /\ IsFiniteSet(s.done) /\ IsFiniteSet(OnStack(t))
  <2>1. OnStack(s) \subseteq G!Bundles(p)
    BY <1>0 DEF OnStack
  <2>2. OnStack(t) \subseteq OnStack(s)
    BY <1>3
  <2> QED
    BY <1>0, <2>1, <2>2, FS_Subset
<1>5. Cardinality(OnStack(s)) = Len(s.stack)
  BY DEF Searching, StackIsPath
<1>6. /\ \A i, j \in 1..Len(s.stack) : s.stack[i] = s.stack[j] => i = j
      /\ \A i \in 1..(Len(s.stack) - 1) : s.stack[i] \in p.deps[s.stack[i + 1]]
      /\ OnStack(s) \intersect s.done = {}
  BY DEF Searching, StackIsPath
<1>7. top \notin OnStack(t)
  <2> SUFFICES ASSUME NEW i \in 1..Len(t.stack), t.stack[i] = top PROVE FALSE
    BY DEF OnStack
  <2>1. i \in 1..(Len(s.stack) - 1) /\ i + 1 \in 1..Len(s.stack) /\ 1 \in 1..Len(s.stack)
    BY <1>1
  <2>2. s.stack[i + 1] = s.stack[1]
    BY <1>1, <2>1
  <2>3. i + 1 = 1
    BY <1>6, <2>1, <2>2
  <2> QED
    BY <2>1, <2>3
<1>8. Cardinality(OnStack(t)) = Len(t.stack)
  <2>1. Cardinality(OnStack(t)) \in Nat
    BY <1>4, FS_CardinalityType
  <2>2. Cardinality(OnStack(t) \union {top}) = Cardinality(OnStack(t)) + 1
    BY <1>4, <1>7, FS_AddElement
  <2> QED
    BY <1>1, <1>3, <1>5, <2>1, <2>2
<1>9. StackIsPath(p, t)
  <2>1. ASSUME NEW i \in 1..Len(t.stack), NEW j \in 1..Len(t.stack), t.stack[i] = t.stack[j]
        PROVE  i = j
    <3>1. /\ i \in 1..(Len(s.stack) - 1) /\ i + 1 \in 1..Len(s.stack)
          /\ j \in 1..(Len(s.stack) - 1) /\ j + 1 \in 1..Len(s.stack)
      BY <1>1
    <3>2. s.stack[i + 1] = s.stack[j + 1]
      BY <1>1, <2>1, <3>1
    <3>3. i + 1 = j + 1
      BY <1>6, <3>1, <3>2
    <3> QED
      BY <3>1, <3>3
  <2>2. ASSUME NEW i \in 1..(Len(t.stack) - 1) PROVE t.stack[i] \in p.deps[t.stack[i + 1]]
    <3>1. /\ i \in 1..(Len(s.stack) - 1) /\ i + 1 \in 1..(Len(s.stack) - 1)
      BY <1>1
    <3>2. t.stack[i] = s.stack[i + 1] /\ t.stack[i + 1] = s.stack[(i + 1) + 1]
      BY <1>1, <3>1
    <3>3. s.stack[i + 1] \in p.deps[s.stack[(i + 1) + 1]]
      BY <1>6, <3>1
    <3> QED
      BY <3>2, <3>3
  <2>3. OnStack(t) \intersect t.done = {}
    BY <1>3, <1>6, <1>7 DEF top
  <2> QED
    BY <1>8, <2>1, <2>2, <2>3 DEF StackIsPath
<1>10. DoneInOrder(p, t)
  <2>1. p.deps[top] \intersect G!Bundles(p) \subseteq s.done
    BY DEF Ahead, top
  <2>2. /\ \A b \in s.done : p.deps[b] \intersect G!Bundles(p) \subseteq s.done
        /\ \A T \in SUBSET s.done : T # {} => \E b \in T : p.deps[b] \intersect T = {}
    BY DEF Searching, DoneInOrder
  <2>3. t.done = s.done \union {top}
    BY DEF top
  <2>4. ASSUME NEW T \in SUBSET t.done, T # {} PROVE \E b \in T : p.deps[b] \intersect T = {}
    <3> DEFINE R == T \intersect s.done
    <3>1. CASE R = {}
      <4>1. T = {top}
        BY <2>3, <2>4, <3>1
      <4>2. top \notin p.deps[top]
        BY <1>2, <2>1
      <4> QED
        BY <4>1, <4>2
    <3>2. CASE R # {}
      <4>1. PICK b \in R : p.deps[b] \intersect R = {}
        <5>1. R \in SUBSET s.done
          OBVIOUS
        <5> QED
          BY <2>2, <3>2, <5>1
      <4>2. p.deps[b] \intersect G!Bundles(p) \subseteq s.done
        BY <2>2, <4>1
      <4>3. T \subseteq G!Bundles(p)
        BY <1>0, <1>2, <2>3
      <4>4. p.deps[b] \intersect T = {}
        BY <4>1, <4>2, <4>3
      <4> QED
        BY <4>1, <4>4
    <3> QED
      BY <3>1, <3>2
  <2> QED
    BY <2>1, <2>2, <2>3, <2>4 DEF DoneInOrder
<1>11. Measure(t) = Measure(s) + 1
  <2>1. Cardinality(t.done) = Cardinality(s.done) + 1 /\ Cardinality(s.done) \in Nat
    BY <1>2, <1>4, FS_AddElement, FS_CardinalityType DEF top
  <2> QED
    BY <1>1, <2>1 DEF Measure
<1> QED
  BY <1>9, <1>10, <1>11 DEF Searching

(* A bundle that was met on the stack: the part of the stack above it is a *)
(* circle.                                                                 *)
LEMMA CycleFound ==
  ASSUME NEW p, NEW s, Searching(p, s), Ahead(p, s) \intersect OnStack(s) # {}
  PROVE  ~G!InOrder(p)
<1>0. s.stack \in Seq(G!Bundles(p)) /\ Len(s.stack) \in Nat
  BY DEF Searching, SearchType
<1>1. PICK k \in 1..Len(s.stack) : s.stack[k] \in Ahead(p, s)
  BY DEF OnStack
<1>2. s.stack # <<>> /\ Head(s.stack) = s.stack[1]
  BY <1>0, <1>1
<1>3. s.stack[k] \in p.deps[s.stack[1]]
  BY <1>1, <1>2 DEF Ahead
<1> DEFINE T == {s.stack[i] : i \in 1..k}
<1>4. T \in SUBSET G!Bundles(p)
  <2>1. \A i \in 1..k : i \in 1..Len(s.stack)
    BY <1>0
  <2> QED
    BY <1>0, <2>1
<1>5. T # {}
  <2>1. 1 \in 1..k
    BY <1>0
  <2> QED
    BY <2>1
<1>6. ASSUME NEW i \in 1..k PROVE p.deps[s.stack[i]] \intersect T # {}
  <2>1. CASE i = 1
    <3>1. s.stack[k] \in T
      BY <1>0
    <3> QED
      BY <1>3, <2>1, <3>1
  <2>2. CASE i # 1
    <3>1. i - 1 \in 1..(Len(s.stack) - 1) /\ (i - 1) + 1 = i /\ i - 1 \in 1..k
      BY <1>0, <2>2
    <3>2. s.stack[i - 1] \in p.deps[s.stack[(i - 1) + 1]]
      BY <3>1 DEF Searching, StackIsPath
    <3> QED
      BY <3>1, <3>2
  <2> QED
    BY <2>1, <2>2
<1>7. \A b \in T : p.deps[b] \intersect T # {}
  BY <1>6
<1> HIDE DEF T
<1> QED
  BY <1>4, <1>5, <1>7 DEF G!InOrder

(* A bundle goes on the stack: a dependency of the one on top, or any if   *)
(* the stack is empty.                                                     *)
LEMMA VisitBegins ==
  ASSUME NEW p, IsFiniteSet(G!Bundles(p)), NEW s, NEW t, Searching(p, s),
         NEW d \in Ahead(p, s) \ OnStack(s), s.cycle = FALSE,
         t.stack = <<d>> \o s.stack, t.done = s.done, t.cycle = FALSE, SearchType(p, t)
  PROVE  Searching(p, t) /\ Measure(t) = Measure(s) + 1
<1>0. s.stack \in Seq(G!Bundles(p)) /\ s.done \subseteq G!Bundles(p) /\ Len(s.stack) \in Nat
  BY DEF Searching, SearchType
<1>1. /\ Len(t.stack) = Len(s.stack) + 1 /\ t.stack[1] = d
      /\ \A i \in 1..Len(s.stack) : t.stack[i + 1] = s.stack[i]
  BY <1>0, StackOf
<1>2. d \notin OnStack(s) /\ d \notin s.done
  BY DEF Ahead
<1>3. ASSUME NEW i \in 1..Len(t.stack)
      PROVE  \/ i = 1 /\ t.stack[i] = d
             \/ i - 1 \in 1..Len(s.stack) /\ t.stack[i] = s.stack[i - 1] /\ t.stack[i] # d
  <2>1. CASE i = 1
    BY <1>1, <2>1
  <2>2. CASE i # 1
    <3>1. i - 1 \in 1..Len(s.stack) /\ (i - 1) + 1 = i
      BY <1>0, <1>1, <2>2
    <3>2. t.stack[i] = s.stack[i - 1]
      BY <1>1, <3>1
    <3>3. s.stack[i - 1] # d
      BY <1>2, <3>1 DEF OnStack
    <3> QED
      BY <3>1, <3>2, <3>3
  <2> QED
    BY <2>1, <2>2
<1>4. OnStack(t) = OnStack(s) \union {d}
  <2>1. ASSUME NEW i \in 1..Len(s.stack) PROVE s.stack[i] \in OnStack(t)
    <3>1. i + 1 \in 1..Len(t.stack)
      BY <1>0, <1>1
    <3> QED
      BY <1>1, <3>1 DEF OnStack
  <2>2. d \in OnStack(t)
    <3>1. 1 \in 1..Len(t.stack)
      BY <1>0, <1>1
    <3> QED
      BY <1>1, <3>1 DEF OnStack
  <2>3. \A i \in 1..Len(t.stack) : t.stack[i] \in OnStack(s) \union {d}
    BY <1>3 DEF OnStack
  <2> QED
    BY <2>1, <2>2, <2>3 DEF OnStack
<1>5. IsFiniteSet(OnStack(s)) /\ Cardinality(OnStack(s)) = Len(s.stack)
  <2>1. OnStack(s) \subseteq G!Bundles(p)
    BY <1>0 DEF OnStack
  <2> QED
    BY <2>1, FS_Subset DEF Searching, StackIsPath
<1>6. Cardinality(OnStack(t)) = Len(t.stack)
  <2>1. Cardinality(OnStack(s) \union {d}) = Cardinality(OnStack(s)) + 1
    BY <1>2, <1>5, FS_AddElement
  <2> QED
    BY <1>1, <1>4, <1>5, <2>1
<1>7. /\ \A i, j \in 1..Len(s.stack) : s.stack[i] = s.stack[j] => i = j
      /\ \A i \in 1..(Len(s.stack) - 1) : s.stack[i] \in p.deps[s.stack[i + 1]]
      /\ OnStack(s) \intersect s.done = {}
  BY DEF Searching, StackIsPath
<1>8. StackIsPath(p, t)
  <2>1. ASSUME NEW i \in 1..Len(t.stack), NEW j \in 1..Len(t.stack), t.stack[i] = t.stack[j]
        PROVE  i = j
    <3>1. CASE i = 1 \/ j = 1
      <4>1. i = 1 /\ j = 1
        BY <1>1, <1>3, <2>1, <3>1
      <4> QED
        BY <4>1
    <3>2. CASE i # 1 /\ j # 1
      <4>1. /\ i - 1 \in 1..Len(s.stack) /\ t.stack[i] = s.stack[i - 1]
            /\ j - 1 \in 1..Len(s.stack) /\ t.stack[j] = s.stack[j - 1]
        BY <1>3, <3>2
      <4>2. i - 1 = j - 1
        BY <1>7, <2>1, <4>1
      <4> QED
        BY <4>2
    <3> QED
      BY <3>1, <3>2
  <2>2. ASSUME NEW i \in 1..(Len(t.stack) - 1) PROVE t.stack[i] \in p.deps[t.stack[i + 1]]
    <3>0. i \in 1..Len(s.stack) /\ t.stack[i + 1] = s.stack[i] /\ i \in 1..Len(t.stack)
      BY <1>0, <1>1
    <3>1. CASE i = 1
      <4>1. s.stack # <<>> /\ Head(s.stack) = s.stack[1]
        BY <1>0, <3>0
      <4>2. d \in p.deps[s.stack[1]]
        BY <4>1 DEF Ahead
      <4> QED
        BY <1>1, <3>0, <3>1, <4>2
    <3>2. CASE i # 1
      <4>1. i - 1 \in 1..(Len(s.stack) - 1) /\ (i - 1) + 1 = i
        BY <1>0, <3>0, <3>2
      <4>2. s.stack[i - 1] \in p.deps[s.stack[(i - 1) + 1]]
        BY <1>7, <4>1
      <4>3. t.stack[i] = s.stack[i - 1]
        BY <1>3, <3>0, <3>2
      <4> QED
        BY <3>0, <4>1, <4>2, <4>3
    <3> QED
      BY <3>1, <3>2
  <2>3. OnStack(t) \intersect t.done = {}
    BY <1>2, <1>4, <1>7
  <2> QED
    BY <1>6, <2>1, <2>2, <2>3 DEF StackIsPath
<1>9. DoneInOrder(p, t)
  BY DEF Searching, DoneInOrder
<1>10. Measure(t) = Measure(s) + 1
  <2>1. IsFiniteSet(s.done)
    BY <1>0, FS_Subset
  <2>2. Cardinality(s.done) \in Nat
    BY <2>1, FS_CardinalityType
  <2> QED
    BY <1>0, <1>1, <2>2 DEF Measure
<1> QED
  BY <1>8, <1>9, <1>10 DEF Searching
(* Every step of the search is taken from the one before. *)
LEMMA SearchIs ==
  ASSUME NEW p, NEW N \in Nat, G!SearchSteps(p) = N
  PROVE  /\ G!Search(p)[0] = G!SearchStart
         /\ \A n \in 1..N : G!Search(p)[n] = G!SearchStep(p, G!Search(p)[n - 1])
<1> DEFINE Is(f, n) == f = [i \in 0..n |-> IF i = 0 THEN G!SearchStart
                                           ELSE G!SearchStep(p, f[i - 1])]
           Fails == {n \in 0..N : ~\E f : Is(f, n)}
<1>1. \E f : Is(f, 0)
  <2>1. Is([i \in 0..0 |-> G!SearchStart], 0)
    OBVIOUS
  <2> QED
    BY <2>1
<1>2. ASSUME NEW n \in 1..N, NEW f, Is(f, n - 1) PROVE \E g : Is(g, n)
  <2> DEFINE g == [i \in 0..n |-> IF i < n THEN f[i] ELSE G!SearchStep(p, f[n - 1])]
  <2>1. n \in Nat /\ n >= 1
    OBVIOUS
  <2>2. ASSUME NEW i \in 0..n
        PROVE  g[i] = IF i = 0 THEN G!SearchStart ELSE G!SearchStep(p, g[i - 1])
    <3>1. CASE i = 0
      <4>1. g[i] = f[0] /\ 0 \in 0..n - 1
        BY <2>1, <3>1
      <4>2. f[0] = G!SearchStart
        BY <1>2, <4>1
      <4> QED
        BY <3>1, <4>1, <4>2
    <3>2. CASE i # 0 /\ i < n
      <4>1. g[i] = f[i] /\ g[i - 1] = f[i - 1] /\ i \in 0..n - 1
        BY <2>1, <3>2
      <4>2. f[i] = G!SearchStep(p, f[i - 1])
        BY <1>2, <3>2, <4>1
      <4> QED
        BY <3>2, <4>1, <4>2
    <3>3. CASE i = n
      <4>1. g[i] = G!SearchStep(p, f[n - 1]) /\ g[n - 1] = f[n - 1] /\ i # 0
        BY <2>1, <3>3
      <4> QED
        BY <3>3, <4>1
    <3> QED
      BY <2>1, <3>1, <3>2, <3>3
  <2>3. g = [i \in 0..n |-> g[i]]
    OBVIOUS
  <2> HIDE DEF g
  <2>4. Is(g, n)
    BY <2>2, <2>3
  <2> QED
    BY <2>4
<1> HIDE DEF Is
<1>3. Fails = {}
  <2> SUFFICES ASSUME Fails # {} PROVE FALSE
    OBVIOUS
  <2>1. PICK n \in Fails : \A m \in Fails : n <= m
    <3>1. Fails \subseteq Nat
      OBVIOUS
    <3> HIDE DEF Fails
    <3> QED
      BY <3>1, NatMin
  <2>2. n \in 1..N /\ n - 1 \in 0..N
    BY <1>1
  <2>3. n - 1 \notin Fails
    BY <2>1, <2>2
  <2>4. PICK f : Is(f, n - 1)
    BY <2>2, <2>3
  <2>5. \E g : Is(g, n)
    BY <1>2, <2>2, <2>4
  <2> QED
    BY <2>5
<1>4. \E f : Is(f, N)
  BY <1>3
<1> DEFINE after == G!Search(p)
<1>5. after = CHOOSE f : Is(f, N)
  BY DEF G!Search, Is
<1>6. Is(after, N)
  <2> HIDE DEF after
  <2> QED
    BY <1>4, <1>5
<1> HIDE DEF after
<1>7. /\ after[0] = G!SearchStart
      /\ \A n \in 1..N : after[n] = G!SearchStep(p, after[n - 1])
  <2>1. \A i \in 0..N :
          after[i] = IF i = 0 THEN G!SearchStart ELSE G!SearchStep(p, after[i - 1])
    BY <1>6 DEF Is
  <2>2. 0 \in 0..N /\ \A n \in 1..N : n \in 0..N /\ n # 0
    OBVIOUS
  <2> QED
    BY <2>1, <2>2
<1> QED
  BY <1>7 DEF after

(* The search keeps its invariant, and counts its steps until it ends. *)
At(p, s, n) == Searching(p, s) /\ (Ended(p, s) \/ Measure(s) = n)

(* It begins so. *)
LEMMA SearchBegins ==
  ASSUME NEW p PROVE At(p, G!SearchStart, 0)
<1> DEFINE s == G!SearchStart
<1>1. s.stack = <<>> /\ s.done = {} /\ s.cycle = FALSE /\ SearchType(p, s)
  BY DEF G!SearchStart, SearchType
<1> HIDE DEF s
<1>2. Len(s.stack) = 0 /\ OnStack(s) = {}
  BY <1>1 DEF OnStack
<1>3. Measure(s) = 0
  BY <1>1, <1>2, FS_EmptySet DEF Measure
<1>4. StackIsPath(p, s) /\ DoneInOrder(p, s)
  BY <1>1, <1>2, FS_EmptySet DEF StackIsPath, DoneInOrder
<1>5. Searching(p, s)
  BY <1>1, <1>4 DEF Searching
<1> QED
  BY <1>3, <1>5 DEF At, s

(* Every step keeps it so. *)
LEMMA SearchContinues ==
  ASSUME NEW p, IsFiniteSet(G!Bundles(p)), NEW s, NEW n \in Nat, At(p, s, n)
  PROVE  At(p, G!SearchStep(p, s), n + 1)
<1> DEFINE t == G!SearchStep(p, s)
<1>0. Searching(p, s) /\ SearchType(p, s)
  BY DEF At, Searching
<1>1. \/ (s.cycle = TRUE \/ (Ahead(p, s) = {} /\ s.stack = <<>>)) /\ t = s
      \/ /\ s.cycle = FALSE /\ Ahead(p, s) = {} /\ s.stack # <<>>
         /\ t.stack = Tail(s.stack) /\ t.done = s.done \union {Head(s.stack)}
         /\ t.cycle = FALSE /\ SearchType(p, t)
      \/ /\ s.cycle = FALSE /\ t.stack = s.stack /\ t.done = s.done /\ t.cycle = TRUE
         /\ Ahead(p, s) \intersect OnStack(s) # {} /\ SearchType(p, t)
      \/ \E d \in Ahead(p, s) \ OnStack(s) :
           /\ s.cycle = FALSE /\ t.stack = <<d>> \o s.stack
           /\ t.done = s.done /\ t.cycle = FALSE /\ SearchType(p, t)
  BY <1>0, SearchCases
<1> SUFFICES At(p, t, n + 1)
  OBVIOUS
<1> HIDE DEF t
<1>2. ASSUME Searching(p, t), Measure(t) = Measure(s) + 1, s.cycle = FALSE, ~Ended(p, s)
      PROVE  At(p, t, n + 1)
  BY <1>2 DEF At
<1>3. CASE (s.cycle = TRUE \/ (Ahead(p, s) = {} /\ s.stack = <<>>)) /\ t = s
  <2>1. s.cycle = FALSE => s.stack = <<>> /\ s.done = G!Bundles(p)
    BY <1>0, <1>3 DEF Ahead, SearchType
  <2>2. Ended(p, s)
    BY <1>0, <2>1 DEF Ended, SearchType
  <2> QED
    BY <1>0, <1>3, <2>2 DEF At
<1>4. CASE /\ s.cycle = FALSE /\ Ahead(p, s) = {} /\ s.stack # <<>>
           /\ t.stack = Tail(s.stack) /\ t.done = s.done \union {Head(s.stack)}
           /\ t.cycle = FALSE /\ SearchType(p, t)
  <2>1. Searching(p, t) /\ Measure(t) = Measure(s) + 1
    BY <1>0, <1>4, VisitEnds
  <2>2. ~Ended(p, s)
    BY <1>4 DEF Ended
  <2> QED
    BY <1>2, <1>4, <2>1, <2>2
<1>5. CASE /\ s.cycle = FALSE /\ t.stack = s.stack /\ t.done = s.done /\ t.cycle = TRUE
           /\ Ahead(p, s) \intersect OnStack(s) # {} /\ SearchType(p, t)
  <2>1. ~G!InOrder(p)
    BY <1>0, <1>5, CycleFound
  <2>2. StackIsPath(p, t) /\ DoneInOrder(p, t)
    <3>1. OnStack(t) = OnStack(s)
      BY <1>5, Zenon DEF OnStack
    <3>2. StackIsPath(p, s) /\ DoneInOrder(p, s)
      BY <1>0 DEF Searching
    <3> QED
      BY <1>5, <3>1, <3>2, Zenon DEF StackIsPath, DoneInOrder
  <2> QED
    BY <1>5, <2>1, <2>2 DEF At, Searching, Ended
<1>6. CASE \E d \in Ahead(p, s) \ OnStack(s) :
             /\ s.cycle = FALSE /\ t.stack = <<d>> \o s.stack
             /\ t.done = s.done /\ t.cycle = FALSE /\ SearchType(p, t)
  <2>1. PICK d \in Ahead(p, s) \ OnStack(s) :
             /\ s.cycle = FALSE /\ t.stack = <<d>> \o s.stack
             /\ t.done = s.done /\ t.cycle = FALSE /\ SearchType(p, t)
    BY <1>6
  <2>2. Searching(p, t) /\ Measure(t) = Measure(s) + 1
    BY <1>0, <2>1, VisitBegins
  <2>3. ~Ended(p, s)
    BY <2>1 DEF Ended, Ahead
  <2> QED
    BY <1>2, <2>1, <2>2, <2>3
<1> QED
  BY <1>1, <1>3, <1>4, <1>5, <1>6

(* Two steps for each bundle are enough. *)
LEMMA StepsSuffice ==
  ASSUME NEW p, IsFiniteSet(G!Bundles(p)), NEW s, At(p, s, G!SearchSteps(p))
  PROVE  Ended(p, s)
<1> SUFFICES ASSUME Measure(s) = G!SearchSteps(p) PROVE s.stack = <<>> /\ s.done = G!Bundles(p)
  BY DEF At, Ended
<1>1. /\ s.stack \in Seq(G!Bundles(p)) /\ s.done \subseteq G!Bundles(p) /\ Len(s.stack) \in Nat
      /\ OnStack(s) \intersect s.done = {} /\ Cardinality(OnStack(s)) = Len(s.stack)
  BY DEF At, Searching, SearchType, StackIsPath
<1>2. OnStack(s) \subseteq G!Bundles(p)
  BY <1>1 DEF OnStack
<1>3. IsFiniteSet(s.done) /\ IsFiniteSet(OnStack(s))
  BY <1>1, <1>2, FS_Subset
<1>4. Cardinality(s.done \union OnStack(s)) = Cardinality(s.done) + Len(s.stack)
  <2>1. Cardinality(s.done \intersect OnStack(s)) = 0
    <3>1. s.done \intersect OnStack(s) = {}
      BY <1>1
    <3> QED
      BY <3>1, FS_EmptySet
  <2>2. Cardinality(s.done \union OnStack(s)) =
          Cardinality(s.done) + Cardinality(OnStack(s)) - Cardinality(s.done \intersect OnStack(s))
    BY <1>3, FS_Union
  <2>3. Cardinality(s.done) \in Nat
    BY <1>3, FS_CardinalityType
  <2> QED
    BY <1>1, <2>1, <2>2, <2>3
<1>5. Cardinality(s.done \union OnStack(s)) <= Cardinality(G!Bundles(p))
  <2>1. s.done \union OnStack(s) \in SUBSET G!Bundles(p)
    BY <1>1, <1>2
  <2> QED
    BY <2>1, FS_Subset
<1>6. Cardinality(s.done) \in Nat /\ Cardinality(G!Bundles(p)) \in Nat
  BY <1>3, FS_CardinalityType
<1>7. 2 * Cardinality(s.done) + Len(s.stack) = 2 * Cardinality(G!Bundles(p))
  BY SameCount DEF Measure, G!SearchSteps
<1>8. Cardinality(s.done) <= Cardinality(G!Bundles(p))
  BY <1>1, FS_Subset
<1>9. Len(s.stack) = 0 /\ Cardinality(s.done) = Cardinality(G!Bundles(p))
  BY <1>1, <1>4, <1>5, <1>6, <1>7, <1>8
<1>10. s.done = G!Bundles(p)
  BY <1>1, <1>9, FS_Subset
<1> QED
  BY <1>1, <1>9, <1>10

(* detect_bundle_cycle finds a cycle if and only if there is one: some     *)
(* bundles each of which depends on another of them.                       *)
THEOREM CyclesAreFound ==
  ASSUME NEW p, IsFiniteSet(G!Bundles(p))
  PROVE  G!DetectBundleCycle(p) <=> ~G!InOrder(p)
<1> DEFINE N == G!SearchSteps(p)
           after == G!Search(p)
           Fails == {n \in 0..N : ~At(p, after[n], n)}
<1>1. N \in Nat
  BY SameCount, FS_CardinalityType DEF G!SearchSteps
<1>2. after[0] = G!SearchStart /\ \A n \in 1..N : after[n] = G!SearchStep(p, after[n - 1])
  BY <1>1, SearchIs
<1> HIDE DEF N, after
<1>3. Fails = {}
  <2> SUFFICES ASSUME Fails # {} PROVE FALSE
    OBVIOUS
  <2>1. PICK n \in Fails : \A m \in Fails : n <= m
    <3>1. Fails \subseteq Nat
      BY <1>1
    <3> HIDE DEF Fails
    <3> QED
      BY <3>1, NatMin
  <2>2. n # 0
    BY <1>2, SearchBegins
  <2>3. n \in 1..N /\ n - 1 \in 0..N /\ n - 1 \in Nat /\ (n - 1) + 1 = n
    BY <1>1, <2>2
  <2>4. n - 1 \notin Fails
    BY <1>1, <2>1, <2>3
  <2>5. At(p, after[n - 1], n - 1)
    BY <2>3, <2>4
  <2>6. At(p, G!SearchStep(p, after[n - 1]), (n - 1) + 1)
    BY <2>3, <2>5, SearchContinues
  <2>7. At(p, after[n], n)
    BY <1>2, <2>3, <2>6
  <2> QED
    BY <2>7
<1>4. At(p, after[N], N)
  BY <1>1, <1>3
<1>5. Ended(p, after[N])
  BY <1>4, StepsSuffice DEF N
<1>6. after[N].cycle \in BOOLEAN /\ (after[N].cycle = TRUE => ~G!InOrder(p))
  BY <1>4 DEF At, Searching, SearchType
<1>7. ASSUME after[N].cycle # TRUE PROVE G!InOrder(p)
  <2>1. after[N].done = G!Bundles(p)
    BY <1>5, <1>7 DEF Ended
  <2> QED
    BY <1>4, <2>1 DEF At, Searching, DoneInOrder, G!InOrder
<1>8. G!DetectBundleCycle(p) = after[N].cycle
  BY DEF G!DetectBundleCycle, after, N
<1> QED
  BY <1>6, <1>7, <1>8
-----------------------------------------------------------------------------
(* Projects that are refused, and projects that are built. *)

(* The plan of every project is that of EntryPlan. *)
LEMMA PlanOfProject ==
  ASSUME NEW i \in DOMAIN Plans
  PROVE  LET p == Projects[i] IN
         /\ i \in DOMAIN Projects /\ G!WellShaped(p) /\ IsFiniteSet(G!Bundles(p))
         /\ G!Accepted(p) => Plans[i] = G!Plan(p) /\ DOMAIN Plans[i] # {}
         /\ ~G!Accepted(p) => DOMAIN Plans[i] = {}
<1> DEFINE p == Projects[i]
<1>1. i \in DOMAIN Projects /\ Plans[i] = G!PlanOf(p) /\ G!WellShaped(p)
  BY LeiAssumption DEF ProjectPlans
<1>2. IsFiniteSet(G!Bundles(p))
  BY <1>1, SameCount DEF G!WellShaped
<1>3. ASSUME G!Accepted(p) PROVE Plans[i] = G!Plan(p) /\ DOMAIN Plans[i] # {}
  <2>1. Plans[i] = G!Plan(p)
    BY <1>1, <1>3 DEF G!PlanOf
  <2>2. DOMAIN G!Plan(p) = G!Actions(p) \union {G!All}
    BY PlanIs
  <2> QED
    BY <2>1, <2>2
<1>4. ASSUME ~G!Accepted(p) PROVE DOMAIN Plans[i] = {}
  <2>1. Plans[i] = <<>>
    BY <1>1, <1>4 DEF G!PlanOf
  <2> QED
    BY <2>1
<1> QED
  BY <1>1, <1>2, <1>3, <1>4

(* What is accepted can be lowered, and its bundles are in order. *)
LEMMA AcceptedIsLowered ==
  ASSUME NEW i \in DOMAIN Plans, G!Accepted(Projects[i])
  PROVE  G!Lowered(Projects[i]) /\ G!InOrder(Projects[i]) /\ Plans[i] = G!Plan(Projects[i])
<1> DEFINE p == Projects[i]
<1>1. G!WellShaped(p) /\ IsFiniteSet(G!Bundles(p)) /\ Plans[i] = G!Plan(p)
  BY PlanOfProject
<1>2. ~G!DetectBundleCycle(p) /\ G!Lowerable(p)
  BY DEF G!Accepted, G!FromEntryPlanValue
<1>3. G!InOrder(p)
  BY <1>1, <1>2, CyclesAreFound
<1> QED
  BY <1>1, <1>2, <1>3 DEF G!Lowered

(* What is accepted has no fault, and what has none is accepted. *)
LEMMA AcceptedIsFaultless ==
  ASSUME NEW p, IsFiniteSet(G!Bundles(p))
  PROVE  G!Accepted(p) <=> ~Faulty(p)
<1>1. G!DetectBundleCycle(p) <=> ~G!InOrder(p)
  BY CyclesAreFound
<1>2. ASSUME G!Accepted(p) PROVE ~Faulty(p)
  <2>1. /\ G!InOrder(p) /\ G!HeadsApart(p) /\ G!ImportsDeclared(p) /\ G!Lowerable(p)
        /\ \A b \in G!Bundles(p) : p.sources[b] # <<>>
        /\ \A c \in DOMAIN p.codegens : p.codegens[c].outs # <<>>
    BY <1>1, <1>2 DEF G!Accepted, G!FromEntryPlanValue
  <2>2. ASSUME NEW b \in G!Bundles(p)
        PROVE  p.imports[b] \subseteq {p.top[c] : c \in p.deps[b] \union {b}}
    BY <2>1 DEF G!ImportsDeclared
  <2>3. \A b \in G!Bundles(p) : \A c \in G!Bundles(p) \ {b} : p.top[c] # p.top[b]
    BY <2>1 DEF G!HeadsApart
  <2> QED
    BY <2>1, <2>2, <2>3 DEF Faulty, G!Lowerable
<1>3. ASSUME ~Faulty(p) PROVE G!Accepted(p)
  <2>1. /\ G!InOrder(p)
        /\ \A b \in G!Bundles(p) :
             /\ p.sources[b] # <<>> /\ p.deps[b] \subseteq G!Bundles(p)
             /\ \A c \in G!Bundles(p) \ {b} : p.top[c] # p.top[b]
             /\ p.imports[b] \subseteq {p.top[c] : c \in p.deps[b] \union {b}}
        /\ \A c \in DOMAIN p.codegens :
             p.codegens[c].outs # <<>> /\ p.codegens[c].deps \subseteq G!Actions(p)
        /\ \A t \in DOMAIN p.tasks : p.tasks[t].deps \subseteq G!Actions(p)
    BY <1>3 DEF Faulty
  <2>2. G!ImportsDeclared(p)
    <3> SUFFICES ASSUME NEW b \in G!Bundles(p), NEW h \in p.imports[b]
                 PROVE  \E c \in G!Bundles(p) : p.top[c] = h /\ c \in p.deps[b] \union {b}
      BY DEF G!ImportsDeclared
    <3>1. PICK c \in p.deps[b] \union {b} : h = p.top[c]
      BY <2>1
    <3>2. c \in G!Bundles(p)
      BY <2>1, <3>1
    <3> QED
      BY <3>1, <3>2
  <2>3. G!HeadsApart(p)
    BY <2>1 DEF G!HeadsApart
  <2> QED
    BY <1>1, <2>1, <2>2, <2>3 DEF G!Accepted, G!FromEntryPlanValue, G!Lowerable
<1> QED
  BY <1>2, <1>3

(* A refused project has no lines, one that is or was being built has.     *)
Chosen ==
  /\ outcome = "refused" => DOMAIN plan = {}
  /\ outcome \notin {"none", "refused"} => DOMAIN plan # {}

(* Every step keeps it so: only the start of a build changes the project.  *)
LEMMA ChosenStep ==
  ASSUME Ordered, Chosen, StepCases
  PROVE  Chosen'
<1> USE DEF AllPlans
<1>1. ASSUME UNCHANGED <<project, outcome>> PROVE Chosen'
  BY <1>1 DEF Chosen, plan
<1>2. ASSUME NEW f \in Sources, Edit(f) PROVE Chosen'
  BY <1>1, <1>2 DEF Edit
<1>3. ASSUME NEW p \in DOMAIN Plans, StartBuild(p) PROVE Chosen'
  BY <1>3 DEF StartBuild, Chosen, plan
<1>4. ASSUME NEW p \in DOMAIN Plans, Refuse(p) PROVE Chosen'
  BY <1>4 DEF Refuse, Chosen, plan
<1>5. ASSUME NEW x \in Visiting, Skip(x) \/ Touch(x) \/ Run(x) PROVE Chosen'
  BY <1>1, <1>5 DEF Skip, Touch, Run, Done
<1>6. ASSUME outcome = "running", project' = project,
             outcome' \in {"running", "ok", "cycle", "stuck", "failed"}
      PROVE  Chosen'
  BY <1>6 DEF Chosen, plan
<1>7. ASSUME NEW x \in Visiting, Fail(x) PROVE Chosen'
  <2>1. outcome = "running"
    BY DEF Visiting
  <2>2. project' = project /\ outcome' = "failed"
    BY <1>7 DEF Fail
  <2> QED
    BY <1>6, <2>1, <2>2
<1>8. CASE EndPass
  <2>1. outcome = "running" /\ project' = project
    BY <1>8 DEF EndPass
  <2>2. outcome' \in {"running", "ok", "cycle", "stuck", "failed"}
    BY <1>8, <2>1 DEF EndPass
  <2> QED
    BY <1>6, <2>1, <2>2
<1>9. CASE UNCHANGED vars
  BY <1>1, <1>9 DEF vars
<1> QED
  BY <1>2, <1>3, <1>4, <1>5, <1>7, <1>8, <1>9 DEF StepCases

(* lei --build refuses the projects with a fault and no others, whatever   *)
(* their bundles, modules, codegens and tasks, and however many bundles a  *)
(* cycle of dependencies has: from_entry_plan_value and lower_exec_graph.  *)
THEOREM FaultsAreRefused == Spec => []RefusedIffFaulty
<1>1. Init => Chosen
  BY DEF Init, Chosen
<1>2. Ordered /\ Chosen /\ [Next]_vars => Chosen'
  BY ChosenStep, NextCases
<1>3. Ordered /\ Chosen => RefusedIffFaulty
  <2> SUFFICES ASSUME Ordered, Chosen PROVE RefusedIffFaulty
    OBVIOUS
  <2>1. project \in DOMAIN Plans /\ plan = Plans[project]
    BY DEF Ordered, plan, AllPlans
  <2>2. /\ IsFiniteSet(G!Bundles(Projects[project]))
        /\ G!Accepted(Projects[project]) <=> DOMAIN plan # {}
    BY <2>1, PlanOfProject
  <2>3. DOMAIN plan # {} <=> ~Faulty(Projects[project])
    BY <2>2, AcceptedIsFaultless
  <2> QED
    BY <2>3 DEF Chosen, RefusedIffFaulty
<1> QED
  BY <1>1, <1>2, <1>3, OrderedHolds, PTL DEF Spec

(* The commands of projects that spell their files one way and whose       *)
(* generated sources stand alone run after those that write what they      *)
(* read, through the edges of fragments, indexes, objects and generated    *)
(* sources alone and whatever the sort order.                              *)
THEOREM ProjectsRunInOrder ==
  ASSUME \A i \in DOMAIN Plans : G!Accepted(Projects[i]) => G!Plain(Projects[i])
  PROVE  Spec => []ProducedFirst
<1>1. ASSUME NEW i \in DOMAIN Plans PROVE Declared(Plans[i])
  <2>1. CASE G!Accepted(Projects[i])
    <3>1. G!Lowered(Projects[i]) /\ G!Plain(Projects[i]) /\ Plans[i] = G!Plan(Projects[i])
      BY <2>1, AcceptedIsLowered
    <3> QED
      BY <3>1, PlanDeclared
  <2>2. CASE ~G!Accepted(Projects[i])
    BY <2>2, PlanOfProject DEF Declared
  <2> QED
    BY <2>1, <2>2
<1> QED
  BY <1>1, CommandsFollowTheirWriters

(* All builds are of this project, the others are refused. *)
OnlyBuilds(p) == \A i \in DOMAIN Plans : G!Accepted(Projects[i]) => Projects[i] = p

(* After a successful build of such a project its objects, binaries,       *)
(* generated files and task outputs are what their commands make of the    *)
(* project's files as they are now, whatever failed or was edited before:  *)
(* of these lower_exec_graph declares enough for a runner that compares    *)
(* nothing but times.  C headers and what is installed may be newer.       *)
THEOREM ProjectsAreCurrent ==
  ASSUME NEW p, OnlyBuilds(p), G!Plain(p), HandWritten(p)
  PROVE  Spec => []ProductsCurrent
<1>1. Traceable
  <2>1. CASE \E i \in DOMAIN Plans : G!Accepted(Projects[i])
    <3>1. PICK i \in DOMAIN Plans : G!Accepted(Projects[i])
      BY <2>1
    <3>2. Projects[i] = p
      BY <3>1 DEF OnlyBuilds
    <3>3. G!Lowered(p)
      BY <3>1, <3>2, AcceptedIsLowered
    <3>4. ASSUME NEW j \in DOMAIN Plans PROVE DOMAIN Plans[j] = {} \/ Plans[j] = G!Plan(p)
      <4>1. G!Accepted(Projects[j]) => Projects[j] = p
        BY DEF OnlyBuilds
      <4>2. /\ G!Accepted(Projects[j]) => Plans[j] = G!Plan(Projects[j])
            /\ ~G!Accepted(Projects[j]) => DOMAIN Plans[j] = {}
        BY PlanOfProject
      <4> QED
        BY <4>1, <4>2
    <3>5. PlansOf(p)
      BY <3>4 DEF PlansOf
    <3> QED
      BY <3>3, <3>5, PlanTraceable
  <2>2. CASE \A i \in DOMAIN Plans : ~G!Accepted(Projects[i])
    <3>1. \A i \in DOMAIN Plans : DOMAIN Plans[i] = {}
      BY <2>2, PlanOfProject
    <3> QED
      BY <3>1 DEF Traceable, OneWriter, Declared, WritesOutputs
  <2> QED
    BY <2>1, <2>2
<1> QED
  BY <1>1, BuildsAreCurrent

(* A build reports a cycle only if one goes through a codegen or a task,   *)
(* for every project: the search of detect_bundle_cycle has seen the       *)
(* cycles of bundles, and the edges of fragments, indexes, objects,        *)
(* libraries and binaries, and the inputs they add, never close one.       *)
THEOREM ProjectsCycleThroughTools == Spec => []CyclesOfTools
<1>1. Ordered => CyclesOfTools
  <2> SUFFICES ASSUME Ordered PROVE ~Cyclic({x \in DOMAIN plan : x[1] \notin {4, 6}})
    BY DEF CyclesOfTools
  <2>1. project \in DOMAIN Plans /\ plan = Plans[project]
    BY DEF Ordered, plan, AllPlans
  <2>2. CASE G!Accepted(Projects[project])
    <3>1. /\ G!Lowered(Projects[project]) /\ G!InOrder(Projects[project])
          /\ plan = G!Plan(Projects[project])
      BY <2>1, <2>2, AcceptedIsLowered
    <3> QED
      BY <2>1, <3>1, NoCycle
  <2>3. CASE ~G!Accepted(Projects[project])
    <3>1. DOMAIN plan = {}
      BY <2>1, <2>3, PlanOfProject
    <3> QED
      BY <3>1 DEF Cyclic
  <2> QED
    BY <2>2, <2>3
<1> QED
  BY <1>1, OrderedHolds, PTL

(* Projects without codegens and tasks never get the report of a cycle.    *)
THEOREM BundlesNeverCycle ==
  ASSUME \A i \in DOMAIN Plans : G!ToolActions(Projects[i]) = {}
  PROVE  Spec => [](outcome # "cycle")
<1>1. Ordered /\ EndsRightly /\ CyclesOfTools => outcome # "cycle"
  <2> SUFFICES ASSUME Ordered, EndsRightly, CyclesOfTools, outcome = "cycle" PROVE FALSE
    OBVIOUS
  <2>1. project \in DOMAIN Plans /\ plan = Plans[project]
    BY DEF Ordered, plan, AllPlans
  <2>2. DOMAIN plan = {} \/ plan = G!Plan(Projects[project])
    BY <2>1, PlanOfProject
  <2>3. ASSUME NEW x \in DOMAIN plan PROVE x[1] \notin {4, 6}
    <3>1. x \in G!Actions(Projects[project]) \union {G!All}
      BY <2>2, PlanIs
    <3> QED
      BY <2>1, <3>1 DEF G!ToolActions, G!All
  <2>4. {x \in DOMAIN plan : x[1] \notin {4, 6}} = DOMAIN plan
    BY <2>3
  <2> QED
    BY <2>4 DEF EndsRightly, CyclesOfTools
<1> QED
  BY <1>1, OrderedHolds, BuildsEndRightly, ProjectsCycleThroughTools, PTL
=============================================================================
