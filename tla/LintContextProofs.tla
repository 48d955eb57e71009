------------------------- MODULE LintContextProofs -------------------------
(***************************************************************************)
(* What a lint context is built from, for any bundles and dependencies.    *)
(* ensure_one_bundle_index walks over the dependencies of a bundle; it     *)
(* leaves indexes that are right or marked (IndexesOK), whatever they were *)
(* before.  Where no index of a dependency is unreadable, it succeeds for  *)
(* the bundles that are sound and for no others, and the context gets what *)
(* the sources export.  The argument is an invariant of the steps: what is *)
(* ensured is right, depends on what is ensured and has no circle          *)
(* (Settled), and the stack is a path of dependencies (Path).  Every step  *)
(* makes the measure one larger, so that the steps suffice.                *)
(***************************************************************************)
EXTENDS LintContext, IncrementalParserProofs

(* Induction up to a bound, with the numbers for which it holds as a set. *)
LEMMA UpTo ==
  ASSUME NEW N \in Nat, NEW S, 0 \in S, \A n \in 1..N : n - 1 \in S => n \in S
  PROVE  \A n \in 0..N : n \in S
<1> DEFINE Fails == {n \in 0..N : n \notin S}
<1> SUFFICES ASSUME Fails # {} PROVE FALSE
  OBVIOUS
<1>1. PICK n \in Fails : \A m \in Fails : n <= m
  <2>1. Fails \subseteq Nat
    OBVIOUS
  <2> HIDE DEF Fails
  <2> QED
    BY <2>1, LeastNumber
<1>2. n \in 1..N /\ n - 1 \in 0..N /\ n - 1 < n
  OBVIOUS
<1>3. n - 1 \in S
  BY <1>1, <1>2
<1> QED
  BY <1>2, <1>3

-----------------------------------------------------------------------------
(* Indexes and walks. *)

(* A configuration names bundles. *)
UnitsOK(units) ==
  DOMAIN units \subseteq Bundles /\ \A b \in DOMAIN units : units[b] \in Seq(Bundles)

(* Some of the source files, with what they say. *)
Agrees(src, files) ==
  \A b \in Bundles :
    /\ src[b] = [f \in DOMAIN src[b] |-> src[b][f]]
    /\ \A f \in DOMAIN src[b] \cap DOMAIN files[b] : src[b][f] = files[b][f]

(* What an index that can be read has of a file that is not newer is what  *)
(* the file says, which compiles.                                          *)
Says(exports, text, f) == exports[f] = text[f] /\ Compiles(text[f])

IndexOK(text, x) ==
  /\ x = [state |-> x.state, exports |-> x.exports, srcNewer |-> x.srcNewer,
          compNewer |-> x.compNewer, depNewer |-> x.depNewer]
  /\ x.state \in {"missing", "unreadable", "good"}
  /\ x.state = "good" =>
       /\ x.exports = [f \in DOMAIN x.exports |-> x.exports[f]]
       /\ \A f \in (DOMAIN x.exports \cap DOMAIN text) \ x.srcNewer : Says(x.exports, text, f)

IndexesOK(files, idx) ==
  idx = [b \in Bundles |-> idx[b]] /\ \A b \in Bundles : IndexOK(files[b], idx[b])

WalkOK(files, w) ==
  /\ w = [idx |-> w.idx, ensured |-> w.ensured, stack |-> w.stack, failed |-> w.failed,
          loaded |-> w.loaded]
  /\ IndexesOK(files, w.idx)
  /\ w.ensured \subseteq Bundles /\ w.stack \in Seq(Bundles) /\ w.failed \in BOOLEAN

(* The index of c is as good or bad as it was. *)
SameIndex(idx, new, c) ==
  /\ new[c].state = idx[c].state /\ new[c].exports = idx[c].exports
  /\ new[c].srcNewer = idx[c].srcNewer

(* The index of b is there, newer than the files that b lists, and made of *)
(* them.                                                                   *)
UpToDate(src, idx, b) ==
  /\ idx[b].srcNewer \cap DOMAIN src[b] = {} /\ idx[b].state # "missing"
  /\ idx[b].state = "good" => DOMAIN idx[b].exports = DOMAIN src[b]

(* Making sure of b leaves the other indexes as good or bad as they were,  *)
(* and that of b up to date when it was known what it was made of.         *)
Kept(src, idx, new, b) ==
  /\ \A c \in Bundles \ {b} : SameIndex(idx, new, c)
  /\ ListKnown(src, idx, b) => UpToDate(src, new, b)
  /\ new[b].state \in {"good", idx[b].state}

(* parusc has written an index. *)
LEMMA WrittenOK ==
  ASSUME NEW src, NEW files, Agrees(src, files), NEW idx, IndexesOK(files, idx),
         NEW b \in Bundles, AllCompile(src[b])
  PROVE  /\ IndexesOK(files, WriteIndex(src, idx, b))
         /\ Kept(src, idx, WriteIndex(src, idx, b), b)
<1> DEFINE new == WriteIndex(src, idx, b)
           made == [state |-> "good", exports |-> src[b], srcNewer |-> {},
                    compNewer |-> BareCompiler, depNewer |-> {}]
<1>0. new = [c \in Bundles |-> IF c = b THEN made
                               ELSE [idx[c] EXCEPT !.depNewer = @ \cup {b}]]
  BY Zenon DEF WriteIndex
<1>1. /\ new = [c \in Bundles |-> new[c]]
      /\ new[b] = made
      /\ \A c \in Bundles \ {b} : new[c] = [idx[c] EXCEPT !.depNewer = @ \cup {b}]
  <2> HIDE DEF made
  <2> QED
    BY <1>0
<1> HIDE DEF new
<1>2. /\ IndexOK(files[b], new[b]) /\ UpToDate(src, new, b) /\ new[b].state = "good"
  <2>1. PICK bare : bare = BareCompiler
    BY Zenon
  <2>2. new[b] = [state |-> "good", exports |-> src[b], srcNewer |-> {}, compNewer |-> bare,
                  depNewer |-> {}]
    BY <1>1, <2>1, Zenon
  <2>3. /\ new[b].state = "good" /\ new[b].exports = src[b] /\ new[b].srcNewer = {}
        /\ new[b] = [state |-> new[b].state, exports |-> new[b].exports,
                     srcNewer |-> new[b].srcNewer, compNewer |-> new[b].compNewer,
                     depNewer |-> new[b].depNewer]
    BY <2>2
  <2>4. \A f \in DOMAIN src[b] \cap DOMAIN files[b] : Says(src[b], files[b], f)
    BY DEF Agrees, AllCompile, Says
  <2>5. src[b] = [f \in DOMAIN src[b] |-> src[b][f]]
    BY DEF Agrees
  <2> QED
    BY <2>3, <2>4, <2>5, Zenon DEF IndexOK, UpToDate
<1>3. ASSUME NEW c \in Bundles \ {b}
      PROVE  IndexOK(files[c], new[c]) /\ SameIndex(idx, new, c)
  <2>1. IndexOK(files[c], idx[c])
    BY DEF IndexesOK
  <2>2. PICK st, ex, sn, cn, dn :
          /\ idx[c] = [state |-> st, exports |-> ex, srcNewer |-> sn, compNewer |-> cn,
                       depNewer |-> dn]
          /\ st = idx[c].state /\ ex = idx[c].exports /\ sn = idx[c].srcNewer
    BY <2>1 DEF IndexOK
  <2>3. new[c] = [state |-> st, exports |-> ex, srcNewer |-> sn, compNewer |-> cn,
                  depNewer |-> dn \cup {b}]
    BY <1>1, <2>2
  <2>4. /\ new[c].state = idx[c].state /\ new[c].exports = idx[c].exports
        /\ new[c].srcNewer = idx[c].srcNewer
        /\ new[c] = [state |-> new[c].state, exports |-> new[c].exports,
                     srcNewer |-> new[c].srcNewer, compNewer |-> new[c].compNewer,
                     depNewer |-> new[c].depNewer]
    BY <2>2, <2>3
  <2> QED
    BY <2>1, <2>4, Zenon DEF IndexOK, SameIndex
<1>4. IndexesOK(files, new)
  BY <1>1, <1>2, <1>3 DEF IndexesOK
<1>5. Kept(src, idx, new, b)
  BY <1>2, <1>3 DEF Kept
<1> QED
  BY <1>4, <1>5 DEF new

(* An index that is not stale is left alone. *)
LEMMA NotStale ==
  ASSUME NEW src, NEW idx, NEW units, NEW b \in Bundles, ~IndexStale(src, idx, units, b)
  PROVE  Kept(src, idx, idx, b)
<1>1. /\ idx[b].state # "missing" /\ idx[b].srcNewer \cap DOMAIN src[b] = {}
      /\ ~HeadMissing(src, idx, b)
  BY DEF IndexStale
<1>2. ASSUME ListKnown(src, idx, b), idx[b].state = "good"
      PROVE  DOMAIN idx[b].exports = DOMAIN src[b]
  <2>1. \A f \in DOMAIN src[b] : f \notin idx[b].srcNewer
    BY <1>1
  <2>2. ASSUME NEW f \in DOMAIN src[b], NEW g \in DOMAIN src[b],
               ModuleHead[f] \notin Heads(DOMAIN idx[b].exports),
               ModuleHead[g] # ModuleHead[f]
        PROVE  FALSE
    <3> DEFINE some == {x \in DOMAIN idx[b].exports : idx[b].exports[x] # <<>>}
    <3>1. ModuleHead[f] \in Heads(DOMAIN src[b]) /\ ModuleHead[g] \in Heads(DOMAIN src[b])
      BY DEF Heads
    <3>2. ModuleHead[f] \notin Heads(some)
      BY <2>2 DEF Heads
    <3> HIDE DEF some
    <3>3. /\ \E h, k \in Heads(DOMAIN src[b]) : h # k
          /\ ~(Heads(DOMAIN src[b]) \subseteq Heads(some))
      BY <2>2, <3>1, <3>2
    <3> QED
      BY <1>1, <1>2, <3>3, Zenon DEF HeadMissing, some
  <2> QED
    BY <1>2, <2>1, <2>2, Zenon DEF ListKnown
<1> QED
  BY <1>1, <1>2 DEF Kept, UpToDate, SameIndex

(* The bundle on top of the stack is declared and not below itself. *)
Legal(units, w) ==
  Head(w.stack) \in DOMAIN units /\ ~Contains(Tail(w.stack), Head(w.stack))

(* The three kinds of steps of ensure_one_bundle_index: it fails, it goes  *)
(* on to a dependency, or it is done with a bundle.                        *)
GivesUp(src, units, w, t) ==
  /\ w.stack # <<>> /\ t.stack = <<>> /\ t.failed = TRUE
  /\ t.ensured = w.ensured /\ t.idx = w.idx
  /\ Legal(units, w) => /\ Range(units[Head(w.stack)]) \subseteq w.ensured
                        /\ ~IndexCanBeMade(src, w.idx, units, Head(w.stack))

Begins(units, w, t) ==
  /\ w.stack # <<>> /\ Legal(units, w)
  /\ t.failed = w.failed /\ t.ensured = w.ensured /\ t.idx = w.idx
  /\ \E d \in Range(units[Head(w.stack)]) \ w.ensured : t.stack = <<d>> \o w.stack

Ends(src, units, w, t) ==
  /\ w.stack # <<>> /\ Legal(units, w)
  /\ Range(units[Head(w.stack)]) \subseteq w.ensured
  /\ t.failed = w.failed /\ t.stack = Tail(w.stack)
  /\ t.ensured = w.ensured \cup {Head(w.stack)}
  /\ Kept(src, w.idx, t.idx, Head(w.stack))

(* Every step is one of them, or there is nothing to do. *)
LEMMA EnsureCases ==
  ASSUME NEW src, NEW files, Agrees(src, files), NEW units, UnitsOK(units),
         NEW w, WalkOK(files, w)
  PROVE  LET t == EnsureStep(src, units, w)
         IN  /\ WalkOK(files, t) /\ t.loaded = w.loaded
             /\ \/ w.stack = <<>> /\ t = w
                \/ GivesUp(src, units, w, t)
                \/ Begins(units, w, t)
                \/ Ends(src, units, w, t)
<1> DEFINE t == EnsureStep(src, units, w)
           b == Head(w.stack)
           ahead == {n \in DOMAIN units[b] : units[b][n] \notin w.ensured}
           next == units[b][Min(ahead)]
           failed == [w EXCEPT !.stack = <<>>, !.failed = TRUE]
           begun == [w EXCEPT !.stack = <<next>> \o @]
           done == [w EXCEPT !.stack = Tail(@), !.ensured = @ \cup {b}]
           made == [w EXCEPT !.stack = Tail(@), !.ensured = @ \cup {b},
                             !.idx = WriteIndex(src, @, b)]
<1>1. t = IF w.stack = <<>> THEN w
          ELSE IF b \notin DOMAIN units \/ Contains(Tail(w.stack), b) THEN failed
          ELSE IF ahead # {} THEN begun
          ELSE IF ~IndexStale(src, w.idx, units, b) THEN done
          ELSE IF IndexCanBeMade(src, w.idx, units, b) THEN made ELSE failed
  BY Zenon DEF EnsureStep, EnsureTop
<1> SUFFICES /\ WalkOK(files, t) /\ t.loaded = w.loaded
             /\ \/ w.stack = <<>> /\ t = w
                \/ GivesUp(src, units, w, t)
                \/ Begins(units, w, t)
                \/ Ends(src, units, w, t)
  BY Zenon
<1> HIDE DEF t
<1>2. PICK idx, ensured, stack, fails, loaded :
        /\ w = [idx |-> idx, ensured |-> ensured, stack |-> stack, failed |-> fails,
                loaded |-> loaded]
        /\ idx = w.idx /\ ensured = w.ensured /\ stack = w.stack /\ fails = w.failed
        /\ loaded = w.loaded
  BY DEF WalkOK
<1>3. /\ IndexesOK(files, w.idx) /\ w.ensured \subseteq Bundles /\ w.stack \in Seq(Bundles)
      /\ w.failed \in BOOLEAN
  BY DEF WalkOK
<1>4. w.stack # <<>> => b \in Bundles /\ Tail(w.stack) \in Seq(Bundles)
  BY <1>3
<1>5. CASE w.stack = <<>>
  BY <1>1, <1>5
<1>6. CASE w.stack # <<>> /\ t = failed /\
           (Legal(units, w) => ahead = {} /\ ~IndexCanBeMade(src, w.idx, units, b))
  <2>1. PICK yes : yes = TRUE
    BY Zenon
  <2>2. t = [w EXCEPT !.stack = <<>>, !.failed = yes]
    BY <1>6, <2>1, Zenon
  <2>3. t = [idx |-> idx, ensured |-> ensured, stack |-> <<>>, failed |-> yes,
             loaded |-> loaded]
    BY <1>2, <2>2
  <2>4. /\ t.idx = w.idx /\ t.ensured = w.ensured /\ t.stack = <<>> /\ t.failed = yes
        /\ t.loaded = w.loaded
        /\ t = [idx |-> t.idx, ensured |-> t.ensured, stack |-> t.stack, failed |-> t.failed,
                loaded |-> t.loaded]
    BY <1>2, <2>3
  <2>5. <<>> \in Seq(Bundles) /\ yes \in BOOLEAN
    BY <2>1
  <2>6. WalkOK(files, t)
    BY <1>3, <2>4, <2>5 DEF WalkOK
  <2>7. ahead = {} => Range(units[b]) \subseteq w.ensured
    BY DEF Range
  <2>8. GivesUp(src, units, w, t)
    BY <1>6, <2>1, <2>4, <2>7, Zenon DEF GivesUp
  <2> QED
    BY <2>4, <2>6, <2>8
<1>7. CASE w.stack # <<>> /\ Legal(units, w) /\ ahead # {}
  <2>1. units[b] \in Seq(Bundles)
    BY <1>7 DEF Legal, UnitsOK
  <2>2. Min(ahead) \in ahead
    <3>1. ahead \subseteq Nat
      BY <2>1
    <3>2. \E n \in ahead : \A m \in ahead : n <= m
      BY <1>7, <3>1, LeastNumber, Zenon
    <3> HIDE DEF ahead
    <3> QED
      BY <3>2 DEF Min
  <2>3. next \in Range(units[b]) \ w.ensured /\ next \in Bundles
    <3>1. PICK n : n = Min(ahead) /\ n \in DOMAIN units[b] /\ units[b][n] \notin w.ensured
      BY <2>2
    <3>2. PICK deps : deps = units[b] /\ deps \in Seq(Bundles) /\ n \in DOMAIN deps
      BY <2>1, <3>1, Zenon
    <3>3. deps[n] \in Range(deps) /\ deps[n] \in Bundles
      BY <3>2 DEF Range
    <3> QED
      BY <3>1, <3>2, <3>3, Zenon
  <2>4. t = begun
    BY <1>1, <1>7 DEF Legal
  <2> HIDE DEF next
  <2>5. t = [idx |-> idx, ensured |-> ensured, stack |-> <<next>> \o stack, failed |-> fails,
             loaded |-> loaded]
    BY <1>2, <2>4
  <2>6. /\ t.idx = w.idx /\ t.ensured = w.ensured /\ t.stack = <<next>> \o w.stack
        /\ t.failed = w.failed /\ t.loaded = w.loaded
        /\ t = [idx |-> t.idx, ensured |-> t.ensured, stack |-> t.stack, failed |-> t.failed,
                loaded |-> t.loaded]
    BY <1>2, <2>5
  <2>7. <<next>> \o w.stack \in Seq(Bundles)
    BY <1>3, <2>3
  <2>8. WalkOK(files, t)
    BY <1>3, <2>6, <2>7 DEF WalkOK
  <2>9. Begins(units, w, t)
    BY <1>7, <2>3, <2>6 DEF Begins
  <2> QED
    BY <2>6, <2>8, <2>9
<1>8. ASSUME w.stack # <<>>, Legal(units, w), ahead = {}, NEW new, IndexesOK(files, new),
             Kept(src, w.idx, new, b),
             t = [idx |-> new, ensured |-> ensured \cup {b}, stack |-> Tail(stack),
                  failed |-> fails, loaded |-> loaded]
      PROVE  WalkOK(files, t) /\ t.loaded = w.loaded /\ Ends(src, units, w, t)
  <2>1. /\ t.idx = new /\ t.ensured = w.ensured \cup {b} /\ t.stack = Tail(w.stack)
        /\ t.failed = w.failed /\ t.loaded = w.loaded
        /\ t = [idx |-> t.idx, ensured |-> t.ensured, stack |-> t.stack, failed |-> t.failed,
                loaded |-> t.loaded]
    BY <1>2, <1>8
  <2>2. WalkOK(files, t)
    BY <1>3, <1>4, <1>8, <2>1 DEF WalkOK
  <2>3. Range(units[b]) \subseteq w.ensured
    BY <1>8 DEF Range
  <2>4. Ends(src, units, w, t)
    BY <1>8, <2>1, <2>3 DEF Ends
  <2> QED
    BY <2>1, <2>2, <2>4
<1>9. PICK more, rest, f :
        more = w.ensured \cup {b} /\ rest = Tail(w.stack) /\ f = WriteIndex(src, w.idx, b)
  BY Zenon
<1>10. /\ done = [[w EXCEPT !.stack = rest] EXCEPT !.ensured = more]
       /\ made = [[[w EXCEPT !.stack = rest] EXCEPT !.ensured = more] EXCEPT !.idx = f]
  BY <1>9
<1>11. /\ done = [idx |-> idx, ensured |-> more, stack |-> rest, failed |-> fails,
                  loaded |-> loaded]
       /\ made = [idx |-> f, ensured |-> more, stack |-> rest, failed |-> fails,
                  loaded |-> loaded]
  <2> HIDE DEF b, done, made
  <2>1. [w EXCEPT !.stack = rest]
          = [idx |-> idx, ensured |-> ensured, stack |-> rest, failed |-> fails,
             loaded |-> loaded]
    BY <1>2
  <2>2. done = [idx |-> idx, ensured |-> more, stack |-> rest, failed |-> fails,
                loaded |-> loaded]
    BY <1>10, <2>1
  <2>3. made = [done EXCEPT !.idx = f]
    BY <1>10
  <2>4. made = [idx |-> f, ensured |-> more, stack |-> rest, failed |-> fails,
                loaded |-> loaded]
    BY <2>2, <2>3
  <2> QED
    BY <2>2, <2>4
<1>12. CASE w.stack # <<>> /\ Legal(units, w) /\ ahead = {} /\ ~IndexStale(src, w.idx, units, b)
  <2>1. t = done
    BY <1>1, <1>12 DEF Legal
  <2>2. Kept(src, w.idx, w.idx, b)
    BY <1>3, <1>4, <1>12, NotStale
  <2>3. t = [idx |-> w.idx, ensured |-> ensured \cup {b}, stack |-> Tail(stack),
             failed |-> fails, loaded |-> loaded]
    BY <1>2, <1>9, <1>11, <2>1, Zenon
  <2> QED
    BY <1>3, <1>8, <1>12, <2>2, <2>3
<1>13. CASE /\ w.stack # <<>> /\ Legal(units, w) /\ ahead = {} /\ IndexStale(src, w.idx, units, b)
            /\ IndexCanBeMade(src, w.idx, units, b)
  <2>1. t = made
    BY <1>1, <1>13 DEF Legal
  <2>2. IndexesOK(files, f) /\ Kept(src, w.idx, f, b)
    BY <1>3, <1>4, <1>9, <1>13, WrittenOK DEF IndexCanBeMade
  <2>3. t = [idx |-> f, ensured |-> ensured \cup {b}, stack |-> Tail(stack),
             failed |-> fails, loaded |-> loaded]
    BY <1>2, <1>9, <1>11, <2>1, Zenon
  <2> QED
    BY <1>8, <1>13, <2>2, <2>3
<1>14. CASE w.stack # <<>> /\ ~Legal(units, w)
  BY <1>1, <1>6, <1>14 DEF Legal
<1>15. CASE /\ w.stack # <<>> /\ Legal(units, w) /\ ahead = {} /\ IndexStale(src, w.idx, units, b)
            /\ ~IndexCanBeMade(src, w.idx, units, b)
  BY <1>1, <1>6, <1>15 DEF Legal
<1> HIDE DEF ahead, b
<1> QED
  BY <1>5, <1>7, <1>12, <1>13, <1>14, <1>15

-----------------------------------------------------------------------------
(* A walk as a whole. *)

(* The states of a walk. *)
LEMMA EnsureWalkIs ==
  ASSUME NEW src, NEW units, NEW w, NEW b, NEW N \in Nat, EnsureSteps = N
  PROVE  /\ EnsureWalk(src, units, w, b)[0] = EnsureStart(w, b)
         /\ \A n \in 1..N :
              EnsureWalk(src, units, w, b)[n]
                = EnsureStep(src, units, EnsureWalk(src, units, w, b)[n - 1])
<1> DEFINE Is(f, n) == f = [i \in 0..n |-> IF i = 0 THEN EnsureStart(w, b)
                                           ELSE EnsureStep(src, units, f[i - 1])]
           Good == {n \in 0..N : \E f : Is(f, n)}
<1>1. \E f : Is(f, 0)
  <2>1. Is([i \in 0..0 |-> EnsureStart(w, b)], 0)
    OBVIOUS
  <2> QED
    BY <2>1
<1>2. ASSUME NEW n \in 1..N, NEW f, Is(f, n - 1) PROVE \E g : Is(g, n)
  <2> DEFINE g == [i \in 0..n |-> IF i < n THEN f[i] ELSE EnsureStep(src, units, f[n - 1])]
  <2>1. n \in Nat /\ n >= 1
    OBVIOUS
  <2>2. ASSUME NEW i \in 0..n
        PROVE  g[i] = IF i = 0 THEN EnsureStart(w, b) ELSE EnsureStep(src, units, g[i - 1])
    <3>1. CASE i = 0
      <4>1. g[i] = f[0] /\ 0 \in 0..n - 1
        BY <2>1, <3>1
      <4>2. f[0] = EnsureStart(w, b)
        BY <1>2, <4>1
      <4> QED
        BY <3>1, <4>1, <4>2
    <3>2. CASE i # 0 /\ i < n
      <4>1. g[i] = f[i] /\ g[i - 1] = f[i - 1] /\ i \in 0..n - 1
        BY <2>1, <3>2
      <4>2. f[i] = EnsureStep(src, units, f[i - 1])
        BY <1>2, <3>2, <4>1
      <4> QED
        BY <3>2, <4>1, <4>2
    <3>3. CASE i = n
      <4>1. g[i] = EnsureStep(src, units, f[n - 1]) /\ g[n - 1] = f[n - 1] /\ i # 0
        BY <2>1, <3>3
      <4> QED
        BY <3>3, <4>1
    <3> QED
      BY <2>1, <3>1, <3>2, <3>3
  <2>3. g = [i \in 0..n |-> g[i]]
    OBVIOUS
  <2> HIDE DEF g
  <2>4. Is(g, n)
    BY <2>2, <2>3
  <2> QED
    BY <2>4
<1> HIDE DEF Is
<1>3. /\ 0 \in Good /\ \A n \in 1..N : n - 1 \in Good => n \in Good
  BY <1>1, <1>2
<1>4. N \in Good
  <2> HIDE DEF Good
  <2>1. \A n \in 0..N : n \in Good
    BY <1>3, UpTo
  <2> QED
    BY <2>1
<1> DEFINE after == EnsureWalk(src, units, w, b)
<1>5. after = CHOOSE f : Is(f, N)
  BY DEF EnsureWalk, Is
<1>6. Is(after, N)
  <2> HIDE DEF after
  <2> QED
    BY <1>4, <1>5
<1> HIDE DEF after
<1>7. /\ after[0] = EnsureStart(w, b)
      /\ \A n \in 1..N : after[n] = EnsureStep(src, units, after[n - 1])
  <2>1. \A i \in 0..N :
          after[i] = IF i = 0 THEN EnsureStart(w, b) ELSE EnsureStep(src, units, after[i - 1])
    BY <1>6 DEF Is
  <2>2. 0 \in 0..N /\ \A n \in 1..N : n \in 0..N /\ n # 0
    OBVIOUS
  <2> QED
    BY <2>1, <2>2
<1> QED
  BY <1>7 DEF after

(* What is ensured is declared, up to date, depends on what is ensured and *)
(* has no circle; the document's bundle was the last.  Of every index that *)
(* is left it is known what it was made of.  The index of no other bundle  *)
(* is unreadable.                                                          *)
Settled(src, units, w) ==
  /\ w.ensured \subseteq DOMAIN units
  /\ \A c \in w.ensured : Range(units[c]) \subseteq w.ensured
  /\ \A T \in SUBSET w.ensured : T # {} => \E c \in T : Range(units[c]) \cap T = {}
  /\ \A c \in w.ensured : UpToDate(src, w.idx, c)
  /\ \A c \in DOMAIN units : ListKnown(src, w.idx, c)
  /\ \A c \in w.ensured \ {MainBundle} : MainBundle \notin Range(units[c])
  /\ \A b \in Bundles \ {MainBundle} : w.idx[b].state # "unreadable"

(* Each bundle on the stack is a dependency of the one below it, the last  *)
(* one is the bundle that is asked for, and all but the first are known to *)
(* be declared and different.                                              *)
Path(units, w, goal) ==
  w.stack # <<>> =>
    /\ w.stack[Len(w.stack)] = goal
    /\ \A i \in 1..(Len(w.stack) - 1) : w.stack[i] \in Range(units[w.stack[i + 1]])
    /\ \A i \in 2..Len(w.stack) : w.stack[i] \in DOMAIN units
    /\ \A i, j \in 2..Len(w.stack) : w.stack[i] = w.stack[j] => i = j
    /\ \A i \in 1..Len(w.stack) : w.stack[i] \notin w.ensured
    /\ MainBundle \notin w.ensured

(* The walk fails for a bundle that is not sound, and otherwise ends with  *)
(* it.                                                                     *)
Outcome(src, units, w, goal) ==
  /\ w.failed = TRUE => w.stack = <<>> /\ ~Sound(src, units, goal)
  /\ w.failed = FALSE /\ w.stack = <<>> => goal \in w.ensured
  /\ goal # MainBundle \/ w.failed = TRUE =>
       (MainBundle \in w.ensured => w.idx[MainBundle].state = "good")

(* An index that could be read, and one that is not there, does not become *)
(* unreadable.                                                             *)
Readable(w, state) == state # "unreadable" => w.idx[MainBundle].state # "unreadable"

Right(src, units, w, goal, state) ==
  /\ WalkOK(src, w) /\ Settled(src, units, w) /\ Path(units, w, goal)
  /\ Outcome(src, units, w, goal) /\ Readable(w, state)

(* Bundles that a document loads. *)
Direct(units, b) == b \in Bundles /\ b \in {MainBundle} \cup Range(units[MainBundle])

(* The parts of a stack. *)
LEMMA StackIs ==
  ASSUME NEW B, NEW st \in Seq(B)
  PROVE  /\ st # <<>> =>
              /\ Len(st) \in Nat \ {0} /\ Len(Tail(st)) = Len(st) - 1
              /\ Head(st) = st[1] /\ st[1] \in B
              /\ \A i \in 1..(Len(st) - 1) : Tail(st)[i] = st[i + 1]
         /\ \A d : /\ Len(<<d>> \o st) = Len(st) + 1 /\ (<<d>> \o st)[1] = d
                   /\ \A i \in 1..Len(st) : (<<d>> \o st)[i + 1] = st[i]
<1>1. st # <<>> =>
        /\ Len(st) \in Nat \ {0} /\ Len(Tail(st)) = Len(st) - 1
        /\ Head(st) = st[1] /\ st[1] \in B
        /\ \A i \in 1..(Len(st) - 1) : Tail(st)[i] = st[i + 1]
  OBVIOUS
<1>2. ASSUME NEW d
      PROVE  /\ Len(<<d>> \o st) = Len(st) + 1 /\ (<<d>> \o st)[1] = d
             /\ \A i \in 1..Len(st) : (<<d>> \o st)[i + 1] = st[i]
  OBVIOUS
<1> QED
  BY <1>1, <1>2

(* A set that is closed under dependencies and has the last bundle of the  *)
(* stack has all of it.                                                    *)
LEMMA PathWithin ==
  ASSUME NEW units, NEW w, NEW goal, w.stack \in Seq(Bundles), w.stack # <<>>,
         Path(units, w, goal), NEW S, goal \in S, \A c \in S : Range(units[c]) \subseteq S
  PROVE  \A i \in 1..Len(w.stack) : w.stack[i] \in S
<1> DEFINE N == Len(w.stack) - 1
           Good == {n \in 0..N : w.stack[Len(w.stack) - n] \in S}
<1>1. Len(w.stack) \in Nat \ {0} /\ N \in Nat /\ Len(w.stack) = N + 1
  BY StackIs
<1>2. /\ w.stack[Len(w.stack)] = goal
      /\ \A i \in 1..N : w.stack[i] \in Range(units[w.stack[i + 1]])
  BY DEF Path
<1> HIDE DEF N
<1>3. 0 \in Good
  BY <1>1, <1>2
<1>4. ASSUME NEW n \in 1..N, n - 1 \in Good PROVE n \in Good
  <2> DEFINE i == Len(w.stack) - n
  <2>1. i \in 1..N /\ i + 1 = Len(w.stack) - (n - 1) /\ n \in 0..N
    BY <1>1
  <2>2. w.stack[i + 1] \in S
    BY <1>4, <2>1
  <2>3. w.stack[i] \in Range(units[w.stack[i + 1]])
    BY <1>2, <2>1
  <2>4. w.stack[i] \in S
    BY <2>2, <2>3
  <2> QED
    BY <2>1, <2>4
<1>5. \A n \in 0..N : n \in Good
  <2> HIDE DEF Good
  <2> QED
    BY <1>1, <1>3, <1>4, UpTo
<1>6. ASSUME NEW i \in 1..Len(w.stack) PROVE w.stack[i] \in S
  <2>1. Len(w.stack) - i \in 0..N /\ Len(w.stack) - (Len(w.stack) - i) = i
    BY <1>1
  <2>2. Len(w.stack) - i \in Good
    BY <1>5, <2>1
  <2> QED
    BY <2>1, <2>2
<1> QED
  BY <1>6

(* The walk fails only for a bundle that is not sound. *)
LEMMA FailingRight ==
  ASSUME NEW src, NEW units, UnitsOK(units), NEW w, NEW goal, NEW state,
         Right(src, units, w, goal, state), NEW t, WalkOK(src, t), GivesUp(src, units, w, t)
  PROVE  Right(src, units, t, goal, state)
<1> DEFINE b == Head(w.stack)
           st == w.stack
<1>1. /\ st \in Seq(Bundles) /\ st # <<>> /\ Path(units, w, goal) /\ Settled(src, units, w)
      /\ w.ensured \subseteq Bundles
  BY DEF Right, WalkOK, GivesUp
<1>2. /\ Len(st) \in Nat \ {0} /\ b = st[1] /\ Len(Tail(st)) = Len(st) - 1
      /\ \A i \in 1..(Len(st) - 1) : Tail(st)[i] = st[i + 1]
  BY <1>1, StackIs
<1>3. MainBundle \notin w.ensured
  BY <1>1 DEF Path
<1>4. ASSUME Sound(src, units, goal) PROVE FALSE
  <2>1. PICK S \in SUBSET DOMAIN units :
          /\ goal \in S
          /\ \A c \in S : AllCompile(src[c]) /\ Range(units[c]) \subseteq S
          /\ \A T \in (SUBSET S) \ {{}} : \E c \in T : Range(units[c]) \cap T = {}
    BY <1>4 DEF Sound
  <2>2. \A i \in 1..Len(st) : st[i] \in S
    BY <1>1, <2>1, PathWithin
  <2>3. b \in S /\ b \in DOMAIN units /\ AllCompile(src[b])
    BY <1>2, <2>1, <2>2
  <2>4. CASE Contains(Tail(st), b)
    <3> DEFINE T == {st[i] : i \in 1..Len(st)}
    <3>1. PICK j \in 1..Len(Tail(st)) : Tail(st)[j] = b
      BY <2>4 DEF Contains
    <3>2. j \in 1..(Len(st) - 1) /\ st[j + 1] = st[1]
      BY <1>2, <3>1
    <3>3. T \in (SUBSET S) \ {{}}
      <4>1. T \subseteq S
        BY <2>2
      <4>2. st[1] \in T
        BY <1>2
      <4> QED
        BY <4>1, <4>2
    <3>4. PICK c \in T : Range(units[c]) \cap T = {}
      BY <2>1, <3>3
    <3>5. PICK i \in 1..Len(st) : c = st[i]
      BY <3>4
    <3>6. PICK k \in 1..(Len(st) - 1) : c = st[k + 1]
      <4>1. CASE i = 1
        BY <3>2, <3>5, <4>1
      <4>2. CASE i # 1
        <5>1. i - 1 \in 1..(Len(st) - 1) /\ i - 1 + 1 = i
          BY <1>2, <4>2
        <5> QED
          BY <3>5, <5>1
      <4> QED
        BY <4>1, <4>2
    <3>7. st[k] \in Range(units[c]) /\ k \in 1..Len(st)
      BY <1>1, <1>2, <3>6 DEF Path
    <3>8. st[k] \in T
      BY <3>7
    <3> QED
      BY <3>4, <3>7, <3>8
  <2>5. CASE ~Contains(Tail(st), b)
    <3>1. Range(units[b]) \subseteq w.ensured /\ ~IndexCanBeMade(src, w.idx, units, b)
      BY <2>3, <2>5 DEF GivesUp, Legal
    <3>2. PICK n \in DOMAIN units[b] : w.idx[units[b][n]].state # "good"
      BY <2>3, <3>1 DEF IndexCanBeMade
    <3>3. units[b][n] \in w.ensured
      BY <3>1, <3>2 DEF Range
    <3> DEFINE d == units[b][n]
    <3>4. d \in Bundles \ {MainBundle}
      BY <1>1, <1>3, <3>3
    <3>5. w.idx[d].state # "missing" /\ w.idx[d].state # "unreadable"
      BY <1>1, <3>3, <3>4 DEF Settled, UpToDate
    <3>6. w.idx[d].state \in {"missing", "unreadable", "good"}
      BY <3>4 DEF Right, WalkOK, IndexesOK, IndexOK
    <3> QED
      BY <3>2, <3>5, <3>6
  <2> QED
    BY <2>4, <2>5
<1>5. /\ t.stack = <<>> /\ t.failed = TRUE /\ t.ensured = w.ensured /\ t.idx = w.idx
  BY DEF GivesUp
<1>6. Settled(src, units, t)
  BY <1>1, <1>5 DEF Settled
<1>7. Path(units, t, goal)
  BY <1>5 DEF Path
<1>8. Outcome(src, units, t, goal)
  BY <1>3, <1>4, <1>5 DEF Outcome
<1>9. Readable(t, state)
  BY <1>5 DEF Readable, Right
<1> QED
  BY <1>6, <1>7, <1>8, <1>9 DEF Right

(* The walk goes on to a dependency. *)
LEMMA BeginsRight ==
  ASSUME NEW src, NEW units, UnitsOK(units), NEW w, NEW goal, NEW state,
         Right(src, units, w, goal, state), NEW t, WalkOK(src, t), Begins(units, w, t)
  PROVE  Right(src, units, t, goal, state) /\ Len(t.stack) = Len(w.stack) + 1
<1> DEFINE b == Head(w.stack)
           st == w.stack
<1>1. /\ st \in Seq(Bundles) /\ st # <<>> /\ Path(units, w, goal) /\ Settled(src, units, w)
      /\ t.failed = w.failed /\ t.ensured = w.ensured /\ t.idx = w.idx
  BY DEF Right, WalkOK, Begins
<1>2. PICK d \in Range(units[b]) \ w.ensured : t.stack = <<d>> \o st
  BY DEF Begins
<1>3. /\ Len(st) \in Nat \ {0} /\ b = st[1] /\ Len(Tail(st)) = Len(st) - 1
      /\ \A i \in 1..(Len(st) - 1) : Tail(st)[i] = st[i + 1]
      /\ Len(t.stack) = Len(st) + 1 /\ t.stack[1] = d
      /\ \A i \in 1..Len(st) : t.stack[i + 1] = st[i]
  BY <1>1, <1>2, StackIs
<1>4. \A i \in 2..Len(t.stack) : i - 1 \in 1..Len(st) /\ t.stack[i] = st[i - 1]
  <2> SUFFICES ASSUME NEW i \in 2..Len(t.stack)
               PROVE  i - 1 \in 1..Len(st) /\ t.stack[i] = st[i - 1]
    OBVIOUS
  <2>1. i - 1 \in 1..Len(st) /\ i - 1 + 1 = i
    BY <1>3
  <2> QED
    BY <1>3, <2>1
<1>5. b \in DOMAIN units /\ \A i \in 2..Len(st) : st[i] # b
  <2>1. Legal(units, w)
    BY DEF Begins
  <2>2. ASSUME NEW i \in 2..Len(st) PROVE st[i] # b
    <3>1. i - 1 \in 1..Len(Tail(st)) /\ Tail(st)[i - 1] = st[i]
      BY <1>3
    <3> QED
      BY <2>1, <3>1 DEF Legal, Contains
  <2> QED
    BY <2>1, <2>2 DEF Legal
<1>6. /\ st[Len(st)] = goal
      /\ \A i \in 1..(Len(st) - 1) : st[i] \in Range(units[st[i + 1]])
      /\ \A i \in 2..Len(st) : st[i] \in DOMAIN units
      /\ \A i, j \in 2..Len(st) : st[i] = st[j] => i = j
      /\ \A i \in 1..Len(st) : st[i] \notin w.ensured
      /\ MainBundle \notin w.ensured
  BY <1>1 DEF Path
<1> HIDE DEF b, st
<1>7. t.stack[Len(t.stack)] = goal
  <2>1. Len(t.stack) \in 2..Len(t.stack) /\ Len(t.stack) - 1 = Len(st)
    BY <1>3
  <2> QED
    BY <1>4, <1>6, <2>1
<1>8. ASSUME NEW i \in 1..(Len(t.stack) - 1)
      PROVE  t.stack[i] \in Range(units[t.stack[i + 1]])
  <2>1. i \in 1..Len(st) /\ t.stack[i + 1] = st[i]
    BY <1>3
  <2>2. CASE i = 1
    BY <1>2, <1>3, <2>1, <2>2
  <2>3. CASE i # 1
    <3>1. i - 1 \in 1..(Len(st) - 1) /\ i \in 2..Len(t.stack) /\ i - 1 + 1 = i
      BY <1>3, <2>1, <2>3
    <3>2. t.stack[i] = st[i - 1]
      BY <1>4, <3>1
    <3>3. st[i - 1] \in Range(units[st[i - 1 + 1]])
      BY <1>6, <3>1
    <3> QED
      BY <2>1, <3>1, <3>2, <3>3
  <2> QED
    BY <2>2, <2>3
<1>9. ASSUME NEW i \in 2..Len(t.stack) PROVE t.stack[i] \in DOMAIN units
  <2>1. i - 1 \in 1..Len(st) /\ t.stack[i] = st[i - 1]
    BY <1>4
  <2>2. CASE i - 1 = 1
    BY <1>3, <1>5, <2>1, <2>2
  <2>3. CASE i - 1 # 1
    <3>1. i - 1 \in 2..Len(st)
      BY <1>3, <2>1, <2>3
    <3> QED
      BY <1>6, <2>1, <3>1
  <2> QED
    BY <2>2, <2>3
<1>10. ASSUME NEW i \in 2..Len(t.stack), NEW j \in 2..Len(t.stack), t.stack[i] = t.stack[j]
       PROVE  i = j
  <2>1. /\ i - 1 \in 1..Len(st) /\ j - 1 \in 1..Len(st) /\ st[i - 1] = st[j - 1]
        /\ i \in Int /\ j \in Int
    BY <1>3, <1>4, <1>10
  <2>2. CASE i - 1 = 1 \/ j - 1 = 1
    <3>1. ~(i - 1 \in 2..Len(st)) \/ ~(j - 1 \in 2..Len(st))
      BY <1>3, <2>2
    <3>2. i - 1 = 1 /\ j - 1 = 1
      <4>1. ASSUME i - 1 = 1, j - 1 # 1 PROVE FALSE
        <5>1. j - 1 \in 2..Len(st)
          BY <1>3, <2>1, <4>1
        <5> QED
          BY <1>3, <1>5, <2>1, <4>1, <5>1
      <4>2. ASSUME i - 1 # 1, j - 1 = 1 PROVE FALSE
        <5>1. i - 1 \in 2..Len(st)
          BY <1>3, <2>1, <4>2
        <5> QED
          BY <1>3, <1>5, <2>1, <4>2, <5>1
      <4> QED
        BY <2>2, <4>1, <4>2
    <3> QED
      BY <2>1, <3>2
  <2>3. CASE i - 1 # 1 /\ j - 1 # 1
    <3>1. i - 1 \in 2..Len(st) /\ j - 1 \in 2..Len(st)
      BY <1>3, <2>1, <2>3
    <3>2. i - 1 = j - 1
      BY <1>6, <2>1, <3>1
    <3> QED
      BY <2>1, <3>2
  <2> QED
    BY <2>2, <2>3
<1>11. ASSUME NEW i \in 1..Len(t.stack) PROVE t.stack[i] \notin t.ensured
  <2>1. CASE i = 1
    BY <1>1, <1>2, <1>3, <2>1
  <2>2. CASE i # 1
    <3>1. i \in 2..Len(t.stack)
      BY <1>3, <2>2
    <3> QED
      BY <1>1, <1>4, <1>6, <3>1
  <2> QED
    BY <2>1, <2>2
<1>12. Path(units, t, goal)
  BY <1>1, <1>6, <1>7, <1>8, <1>9, <1>10, <1>11 DEF Path
<1>13. Settled(src, units, t)
  BY <1>1 DEF Settled
<1>14. Outcome(src, units, t, goal)
  <2>1. t.stack # <<>>
    BY <1>3
  <2>2. w.failed = FALSE
    BY <1>1 DEF Right, Outcome, WalkOK, st
  <2> QED
    BY <1>1, <1>6, <2>1, <2>2 DEF Outcome
<1>15. Readable(t, state)
  BY <1>1 DEF Readable, Right
<1> QED
  BY <1>3, <1>12, <1>13, <1>14, <1>15 DEF Right, st

(* The walk is done with a bundle. *)
LEMMA EndsRight ==
  ASSUME NEW src, NEW units, UnitsOK(units), NEW w, NEW goal, Direct(units, goal), NEW state,
         Right(src, units, w, goal, state), NEW t, WalkOK(src, t), Ends(src, units, w, t)
  PROVE  /\ Right(src, units, t, goal, state)
         /\ Len(t.stack) = Len(w.stack) - 1 /\ Head(w.stack) \notin w.ensured
<1> DEFINE b == Head(w.stack)
           st == w.stack
<1>1. /\ st \in Seq(Bundles) /\ st # <<>> /\ Path(units, w, goal) /\ Settled(src, units, w)
      /\ t.failed = w.failed /\ t.ensured = w.ensured \cup {b} /\ t.stack = Tail(st)
      /\ Kept(src, w.idx, t.idx, b) /\ Range(units[b]) \subseteq w.ensured
      /\ Legal(units, w)
  BY DEF Right, WalkOK, Ends
<1>2. /\ Len(st) \in Nat \ {0} /\ b = st[1] /\ b \in Bundles /\ Len(t.stack) = Len(st) - 1
      /\ \A i \in 1..(Len(st) - 1) : t.stack[i] = st[i + 1]
  BY <1>1, StackIs
<1>3. b \in DOMAIN units /\ \A i \in 1..Len(t.stack) : t.stack[i] # b
  BY <1>1 DEF Legal, Contains
<1>4. /\ st[Len(st)] = goal
      /\ \A i \in 1..(Len(st) - 1) : st[i] \in Range(units[st[i + 1]])
      /\ \A i \in 2..Len(st) : st[i] \in DOMAIN units
      /\ \A i, j \in 2..Len(st) : st[i] = st[j] => i = j
      /\ \A i \in 1..Len(st) : st[i] \notin w.ensured
      /\ MainBundle \notin w.ensured
  BY <1>1 DEF Path
<1>5. b \notin w.ensured
  BY <1>2, <1>4
<1>6. w.failed = FALSE
  BY <1>1 DEF Right, Outcome, WalkOK
<1> HIDE DEF b, st
<1>7. ASSUME t.stack # <<>>
      PROVE  Len(t.stack) >= 1 /\ t.stack[Len(t.stack)] = goal /\ b # MainBundle
  <2>1. t.stack \in Seq(Bundles) /\ Len(t.stack) \in Nat
    BY DEF WalkOK
  <2>2. Len(t.stack) >= 1
    BY <1>7, <2>1
  <2>3. Len(t.stack) \in 1..(Len(st) - 1) /\ Len(t.stack) + 1 = Len(st)
    BY <1>2, <2>2
  <2>4. t.stack[Len(t.stack)] = goal
    BY <1>2, <1>4, <2>3
  <2>5. goal # b
    BY <1>3, <2>1, <2>2, <2>4
  <2>6. goal \notin w.ensured
    BY <1>2, <1>4
  <2>7. b # MainBundle
    BY <1>1, <2>5, <2>6 DEF Direct
  <2> QED
    BY <2>2, <2>4, <2>7
<1>8. Path(units, t, goal)
  <2> SUFFICES ASSUME t.stack # <<>>
               PROVE  /\ t.stack[Len(t.stack)] = goal
                      /\ \A i \in 1..(Len(t.stack) - 1) :
                           t.stack[i] \in Range(units[t.stack[i + 1]])
                      /\ \A i \in 2..Len(t.stack) : t.stack[i] \in DOMAIN units
                      /\ \A i, j \in 2..Len(t.stack) : t.stack[i] = t.stack[j] => i = j
                      /\ \A i \in 1..Len(t.stack) : t.stack[i] \notin t.ensured
                      /\ MainBundle \notin t.ensured
    BY DEF Path
  <2>1. ASSUME NEW i \in 1..(Len(t.stack) - 1)
        PROVE  t.stack[i] \in Range(units[t.stack[i + 1]])
    <3>1. i \in 1..(Len(st) - 1) /\ i + 1 \in 1..(Len(st) - 1)
      BY <1>2
    <3>2. t.stack[i] = st[i + 1] /\ t.stack[i + 1] = st[i + 1 + 1]
      BY <1>2, <3>1
    <3>3. st[i + 1] \in Range(units[st[i + 1 + 1]])
      BY <1>4, <3>1
    <3> QED
      BY <3>2, <3>3
  <2>2. ASSUME NEW i \in 2..Len(t.stack) PROVE t.stack[i] \in DOMAIN units
    <3>1. i \in 1..(Len(st) - 1) /\ i + 1 \in 2..Len(st)
      BY <1>2
    <3> QED
      BY <1>2, <1>4, <3>1
  <2>3. ASSUME NEW i \in 2..Len(t.stack), NEW j \in 2..Len(t.stack), t.stack[i] = t.stack[j]
        PROVE  i = j
    <3>1. /\ i \in 1..(Len(st) - 1) /\ i + 1 \in 2..Len(st)
          /\ j \in 1..(Len(st) - 1) /\ j + 1 \in 2..Len(st)
      BY <1>2
    <3>2. st[i + 1] = st[j + 1]
      BY <1>2, <2>3, <3>1
    <3>3. i + 1 = j + 1
      BY <1>4, <3>1, <3>2
    <3> QED
      BY <3>1, <3>3
  <2>4. ASSUME NEW i \in 1..Len(t.stack) PROVE t.stack[i] \notin t.ensured
    <3>1. i \in 1..(Len(st) - 1) /\ i + 1 \in 1..Len(st)
      BY <1>2
    <3>2. t.stack[i] \notin w.ensured
      BY <1>2, <1>4, <3>1
    <3> QED
      BY <1>1, <1>3, <3>2
  <2> QED
    BY <1>1, <1>4, <1>7, <2>1, <2>2, <2>3, <2>4
<1>9. Settled(src, units, t)
  <2>1. /\ w.ensured \subseteq DOMAIN units
        /\ \A c \in w.ensured : Range(units[c]) \subseteq w.ensured
        /\ \A T \in SUBSET w.ensured : T # {} => \E c \in T : Range(units[c]) \cap T = {}
        /\ \A c \in w.ensured : UpToDate(src, w.idx, c)
        /\ \A c \in DOMAIN units : ListKnown(src, w.idx, c)
        /\ \A c \in w.ensured \ {MainBundle} : MainBundle \notin Range(units[c])
        /\ \A c \in Bundles \ {MainBundle} : w.idx[c].state # "unreadable"
    BY <1>1 DEF Settled
  <2>2. /\ t.ensured \subseteq DOMAIN units
        /\ \A c \in t.ensured : Range(units[c]) \subseteq t.ensured
    BY <1>1, <1>3, <2>1
  <2>3. ASSUME NEW T \in SUBSET t.ensured, T # {}
        PROVE  \E c \in T : Range(units[c]) \cap T = {}
    <3>1. CASE T \subseteq {b}
      <4>1. T = {b} /\ b \notin Range(units[b])
        BY <1>1, <1>5, <2>3, <3>1
      <4> QED
        BY <4>1
    <3>2. CASE ~(T \subseteq {b})
      <4>1. T \ {b} \in SUBSET w.ensured /\ T \ {b} # {}
        BY <1>1, <3>2
      <4>2. PICK c \in T \ {b} : Range(units[c]) \cap (T \ {b}) = {}
        BY <2>1, <4>1
      <4>3. c \in w.ensured /\ Range(units[c]) \subseteq w.ensured
        BY <2>1, <4>1, <4>2
      <4>4. b \notin Range(units[c])
        BY <1>5, <4>3
      <4> QED
        BY <4>2, <4>4
    <3> QED
      BY <3>1, <3>2
  <2>8. DOMAIN units \subseteq Bundles
    BY DEF UnitsOK
  <2>9. UpToDate(src, t.idx, b)
    BY <1>1, <1>3, <2>1 DEF Kept
  <2>10. \A c \in DOMAIN units \ {b} : SameIndex(w.idx, t.idx, c)
    BY <1>1, <2>8 DEF Kept
  <2>4. \A c \in t.ensured : UpToDate(src, t.idx, c)
    <3>1. ASSUME NEW c \in w.ensured \ {b} PROVE UpToDate(src, t.idx, c)
      <4>1. UpToDate(src, w.idx, c) /\ SameIndex(w.idx, t.idx, c)
        BY <2>1, <2>10
      <4> QED
        BY <4>1, Zenon DEF UpToDate, SameIndex
    <3> QED
      BY <1>1, <2>9, <3>1
  <2>7. ASSUME NEW c \in DOMAIN units PROVE ListKnown(src, t.idx, c)
    <3>1. CASE c = b
      BY <2>9, <3>1, Zenon DEF ListKnown, UpToDate
    <3>2. CASE c # b
      <4>1. ListKnown(src, w.idx, c) /\ SameIndex(w.idx, t.idx, c)
        BY <2>1, <2>10, <3>2
      <4> QED
        BY <4>1, Zenon DEF ListKnown, SameIndex
    <3> QED
      BY <3>1, <3>2
  <2>5. \A c \in t.ensured \ {MainBundle} : MainBundle \notin Range(units[c])
    BY <1>1, <1>4, <2>1
  <2>6. \A c \in Bundles \ {MainBundle} : t.idx[c].state # "unreadable"
    BY <1>1, <1>2, <2>1 DEF Kept, SameIndex
  <2> QED
    BY <2>2, <2>3, <2>4, <2>5, <2>6, <2>7 DEF Settled
<1>10. Outcome(src, units, t, goal)
  <2>1. ASSUME t.stack = <<>> PROVE goal = b
    <3>1. Len(t.stack) = 0
      BY <2>1
    <3>2. Len(st) - 1 = 0 /\ Len(st) \in Nat
      BY <1>2, <3>1
    <3>3. Len(st) = 1
      BY <3>2
    <3> QED
      BY <1>2, <1>4, <3>3
  <2>2. t.stack = <<>> => goal \in t.ensured
    BY <1>1, <2>1
  <2>3. goal # MainBundle => MainBundle \notin t.ensured
    BY <1>1, <1>4, <1>7, <2>1
  <2> QED
    BY <1>1, <1>6, <2>2, <2>3 DEF Outcome
<1>11. Readable(t, state)
  <2>1. Readable(w, state)
    BY DEF Right
  <2>2. t.idx[MainBundle].state \in {"good", w.idx[MainBundle].state}
    BY <1>1, BundlesAssumption DEF Kept, SameIndex
  <2> QED
    BY <2>1, <2>2 DEF Readable
<1> QED
  BY <1>2, <1>5, <1>8, <1>9, <1>10, <1>11 DEF Right, b, st

(* The state in which a walk begins. *)
Started(src, w, b, t) ==
  /\ WalkOK(src, t) /\ t.failed = FALSE
  /\ t.stack = IF b \in w.ensured THEN <<>> ELSE <<b>>
  /\ t.ensured = w.ensured /\ t.idx = w.idx /\ t.loaded = w.loaded

LEMMA StartIs ==
  ASSUME NEW src, NEW w, WalkOK(src, w), NEW b \in Bundles
  PROVE  Started(src, w, b, EnsureStart(w, b))
<1> DEFINE t == EnsureStart(w, b)
<1>1. PICK idx, ensured, stack, fails, loaded :
        /\ w = [idx |-> idx, ensured |-> ensured, stack |-> stack, failed |-> fails,
                loaded |-> loaded]
        /\ idx = w.idx /\ ensured = w.ensured /\ loaded = w.loaded
  BY DEF WalkOK
<1>2. PICK no, st : no = FALSE /\ st = IF b \in w.ensured THEN <<>> ELSE <<b>>
  BY Zenon
<1>3. t = [[w EXCEPT !.failed = no] EXCEPT !.stack = st]
  BY <1>2 DEF EnsureStart
<1> HIDE DEF t
<1>4. [w EXCEPT !.failed = no]
        = [idx |-> idx, ensured |-> ensured, stack |-> stack, failed |-> no, loaded |-> loaded]
  BY <1>1
<1>5. t = [idx |-> idx, ensured |-> ensured, stack |-> st, failed |-> no, loaded |-> loaded]
  BY <1>3, <1>4
<1>6. /\ t.idx = w.idx /\ t.ensured = w.ensured /\ t.stack = st /\ t.failed = no
      /\ t.loaded = w.loaded
      /\ t = [idx |-> t.idx, ensured |-> t.ensured, stack |-> t.stack, failed |-> t.failed,
              loaded |-> t.loaded]
  BY <1>1, <1>5
<1>7. st \in Seq(Bundles) /\ no \in BOOLEAN
  <2>1. <<>> \in Seq(Bundles) /\ <<b>> \in Seq(Bundles)
    OBVIOUS
  <2>2. st = <<>> \/ st = <<b>>
    BY <1>2, Zenon
  <2> QED
    BY <1>2, <2>1, <2>2, Zenon
<1>8. WalkOK(src, t)
  BY <1>6, <1>7 DEF WalkOK
<1> QED
  BY <1>2, <1>6, <1>8 DEF Started, t

(* A walk begins right. *)
LEMMA StartRight ==
  ASSUME NEW src, NEW units, UnitsOK(units), NEW w, WalkOK(src, w), Settled(src, units, w),
         MainBundle \in w.ensured => w.idx[MainBundle].state = "good",
         NEW goal, Direct(units, goal)
  PROVE  Right(src, units, EnsureStart(w, goal), goal, w.idx[MainBundle].state)
<1> DEFINE t == EnsureStart(w, goal)
<1>0. Started(src, w, goal, t)
  <2>1. goal \in Bundles
    BY DEF Direct
  <2> QED
    BY <2>1, StartIs
<1> HIDE DEF t
<1>1. /\ WalkOK(src, t) /\ t.failed = FALSE
      /\ t.stack = IF goal \in w.ensured THEN <<>> ELSE <<goal>>
      /\ t.ensured = w.ensured /\ t.idx = w.idx
  BY <1>0 DEF Started
<1>2. Settled(src, units, t)
  BY <1>1 DEF Settled
<1>3. Path(units, t, goal)
  <2> SUFFICES ASSUME t.stack # <<>>, t.stack = <<goal>>, goal \notin w.ensured
               PROVE  /\ t.stack[Len(t.stack)] = goal
                      /\ \A i \in 1..(Len(t.stack) - 1) :
                           t.stack[i] \in Range(units[t.stack[i + 1]])
                      /\ \A i \in 2..Len(t.stack) : t.stack[i] \in DOMAIN units
                      /\ \A i, j \in 2..Len(t.stack) : t.stack[i] = t.stack[j] => i = j
                      /\ \A i \in 1..Len(t.stack) : t.stack[i] \notin t.ensured
                      /\ MainBundle \notin t.ensured
    BY <1>1 DEF Path
  <2>1. Len(t.stack) = 1 /\ t.stack[1] = goal
    OBVIOUS
  <2>2. MainBundle \notin t.ensured
    BY <1>1 DEF Direct, Settled
  <2> QED
    BY <1>1, <2>1, <2>2
<1>4. Outcome(src, units, t, goal)
  BY <1>1 DEF Outcome
<1>5. Readable(t, w.idx[MainBundle].state)
  BY <1>1 DEF Readable
<1> QED
  BY <1>1, <1>2, <1>3, <1>4, <1>5 DEF Right, t

(* There are as many steps as the code can make. *)
LEMMA StepsTyped ==
  /\ Cardinality(Bundles) \in Nat /\ EnsureSteps \in Nat
  /\ EnsureSteps = 2 * Cardinality(Bundles) + 1
<1>1. Cardinality(Bundles) \in Nat
  BY BundlesAssumption, FS_CardinalityType
<1> QED
  BY <1>1 DEF EnsureSteps

(* Walking over the dependencies of a bundle leaves every index right or   *)
(* marked, whatever it was.                                                *)
LEMMA EnsuredOK ==
  ASSUME NEW src, NEW files, Agrees(src, files), NEW units, UnitsOK(units),
         NEW w, WalkOK(files, w), NEW b \in Bundles
  PROVE  LET e == EnsureBundleIndex(src, units, w, b)
         IN  WalkOK(files, e) /\ e.loaded = w.loaded
<1> DEFINE N == EnsureSteps
           after == EnsureWalk(src, units, w, b)
           Good == {n \in 0..N : WalkOK(files, after[n]) /\ after[n].loaded = w.loaded}
<1>1. N \in Nat
  BY StepsTyped
<1>2. /\ after[0] = EnsureStart(w, b)
      /\ \A n \in 1..N : after[n] = EnsureStep(src, units, after[n - 1])
  BY <1>1, EnsureWalkIs
<1>3. EnsureBundleIndex(src, units, w, b) = after[N]
  BY DEF EnsureBundleIndex
<1> HIDE DEF N, after
<1>4. 0 \in Good
  <2> DEFINE t == EnsureStart(w, b)
  <2>1. after[0] = t /\ 0 \in 0..N
    BY <1>1, <1>2
  <2>2. Started(files, w, b, t)
    BY StartIs
  <2> HIDE DEF t
  <2>3. WalkOK(files, t) /\ t.loaded = w.loaded
    BY <2>2 DEF Started
  <2> QED
    BY <2>1, <2>3
<1>5. ASSUME NEW n \in 1..N, n - 1 \in Good PROVE n \in Good
  <2>1. WalkOK(files, after[n - 1]) /\ after[n - 1].loaded = w.loaded /\ n \in 0..N
    BY <1>1, <1>5
  <2> DEFINE t == EnsureStep(src, units, after[n - 1])
  <2>2. WalkOK(files, t) /\ t.loaded = after[n - 1].loaded
    BY <2>1, EnsureCases
  <2>3. after[n] = t
    BY <1>2
  <2> HIDE DEF t
  <2> QED
    BY <2>1, <2>2, <2>3
<1>6. \A n \in 0..N : n \in Good
  <2> HIDE DEF Good
  <2> QED
    BY <1>1, <1>4, <1>5, UpTo
<1>7. N \in 0..N
  BY <1>1
<1> QED
  BY <1>3, <1>6, <1>7

(* The bundles below the top of the stack and those that are ensured are   *)
(* different bundles.                                                      *)
LEMMA StackBounded ==
  ASSUME NEW src, NEW units, UnitsOK(units), NEW w, WalkOK(src, w), NEW goal,
         Path(units, w, goal), w.stack # <<>>
  PROVE  /\ Len(w.stack) \in Nat \ {0} /\ Cardinality(w.ensured) \in Nat
         /\ IsFiniteSet(w.ensured)
         /\ Len(w.stack) - 1 + Cardinality(w.ensured) <= Cardinality(Bundles)
<1> DEFINE st == w.stack
           B == Cardinality(Bundles)
           E == Cardinality(w.ensured)
           f == [i \in 2..Len(st) |-> st[i]]
           free == Bundles \ w.ensured
<1>1. st \in Seq(Bundles) /\ Len(st) \in Nat \ {0} /\ w.ensured \subseteq Bundles
  BY StackIs DEF WalkOK
<1>2. IsFiniteSet(w.ensured) /\ E \in Nat /\ B \in Nat
  BY <1>1, BundlesAssumption, FS_Subset, FS_CardinalityType
<1>3. IsFiniteSet(free) /\ Cardinality(free) = B - E
  <2>1. Bundles \cap w.ensured = w.ensured
    BY <1>1
  <2> QED
    BY <2>1, BundlesAssumption, FS_Difference
<1>4. f \in Injection(2..Len(st), free)
  <2>1. ASSUME NEW i \in 2..Len(st) PROVE st[i] \in free
    <3>1. i \in 1..Len(st)
      BY <1>1
    <3>2. st[i] \in Bundles /\ st[i] \notin w.ensured
      BY <1>1, <3>1 DEF Path
    <3> QED
      BY <3>2
  <2>2. \A i, j \in 2..Len(st) : st[i] = st[j] => i = j
    BY DEF Path
  <2>3. f \in [2..Len(st) -> free]
    BY <2>1
  <2>4. \A i, j \in 2..Len(st) : f[i] = f[j] => i = j
    BY <2>2
  <2>5. DOMAIN f = 2..Len(st)
    OBVIOUS
  <2> HIDE DEF f, free, st
  <2>6. IsInjective(f)
    BY <2>4, <2>5 DEF IsInjective
  <2> QED
    BY <2>3, <2>6 DEF Injection
<1>5. Cardinality(2..Len(st)) = Len(st) - 1
  <2>1. 2 \in Int /\ Len(st) \in Int
    BY <1>1
  <2>2. Cardinality(2..Len(st)) = IF 2 > Len(st) THEN 0 ELSE Len(st) - 2 + 1
    BY <2>1, FS_Interval
  <2> QED
    BY <1>1, <2>2
<1>6. Cardinality(2..Len(st)) <= Cardinality(free)
  <2> HIDE DEF f, free, st
  <2> QED
    BY <1>3, <1>4, FS_Injection
<1>7. Len(st) - 1 <= B - E
  BY <1>3, <1>5, <1>6
<1> HIDE DEF st, B, E
<1>8. Len(st) - 1 + E <= B
  BY <1>1, <1>2, <1>7
<1> QED
  BY <1>1, <1>2, <1>8 DEF st, B, E

(* The steps that led to a stack. *)
Counted(w, n) ==
  w.stack = <<>> \/ Len(w.stack) + 2 * Cardinality(w.ensured) >= n + 1

(* A step of the walk is right and counted. *)
LEMMA StepRight ==
  ASSUME NEW src, Agrees(src, src), NEW units, UnitsOK(units),
         NEW w, NEW goal, Direct(units, goal), NEW state,
         Right(src, units, w, goal, state), NEW n \in Nat, Counted(w, n)
  PROVE  LET t == EnsureStep(src, units, w)
         IN  Right(src, units, t, goal, state) /\ Counted(t, n + 1)
<1> DEFINE t == EnsureStep(src, units, w)
<1>1. /\ WalkOK(src, t)
      /\ \/ w.stack = <<>> /\ t = w
         \/ GivesUp(src, units, w, t)
         \/ Begins(units, w, t)
         \/ Ends(src, units, w, t)
  BY EnsureCases DEF Right
<1> SUFFICES Right(src, units, t, goal, state) /\ Counted(t, n + 1)
  OBVIOUS
<1> HIDE DEF t
<1>2. CASE w.stack = <<>> /\ t = w
  BY <1>2 DEF Counted
<1>3. CASE GivesUp(src, units, w, t)
  <2>1. Right(src, units, t, goal, state)
    BY <1>1, <1>3, FailingRight
  <2> QED
    BY <1>3, <2>1 DEF GivesUp, Counted
<1>4. ASSUME w.stack # <<>>
      PROVE  /\ Len(w.stack) \in Nat \ {0} /\ Cardinality(w.ensured) \in Nat
             /\ IsFiniteSet(w.ensured)
             /\ Len(w.stack) + 2 * Cardinality(w.ensured) >= n + 1
  BY <1>4, StackBounded DEF Right, Counted
<1>5. CASE Begins(units, w, t)
  <2>1. Right(src, units, t, goal, state) /\ Len(t.stack) = Len(w.stack) + 1
    BY <1>1, <1>5, BeginsRight
  <2>2. w.stack # <<>> /\ t.ensured = w.ensured
    BY <1>5 DEF Begins
  <2>3. Len(t.stack) + 2 * Cardinality(t.ensured) >= n + 1 + 1
    BY <1>4, <2>1, <2>2
  <2> QED
    BY <2>1, <2>3 DEF Counted
<1>6. CASE Ends(src, units, w, t)
  <2>1. /\ Right(src, units, t, goal, state)
        /\ Len(t.stack) = Len(w.stack) - 1 /\ Head(w.stack) \notin w.ensured
    BY <1>1, <1>6, EndsRight
  <2>2. w.stack # <<>> /\ t.ensured = w.ensured \cup {Head(w.stack)}
    BY <1>6 DEF Ends
  <2>3. Cardinality(t.ensured) = Cardinality(w.ensured) + 1
    BY <1>4, <2>1, <2>2, FS_AddElement
  <2>4. Len(t.stack) + 2 * Cardinality(t.ensured) >= n + 1 + 1
    BY <1>4, <2>1, <2>2, <2>3
  <2> QED
    BY <2>1, <2>4 DEF Counted
<1> QED
  BY <1>1, <1>2, <1>3, <1>5, <1>6

(* The walk for a bundle that a document loads ends, and succeeds if and   *)
(* only if the bundle is sound.                                            *)
LEMMA EnsuredRight ==
  ASSUME NEW src, Agrees(src, src), NEW units, UnitsOK(units),
         NEW w, WalkOK(src, w), Settled(src, units, w),
         MainBundle \in w.ensured => w.idx[MainBundle].state = "good",
         NEW goal, Direct(units, goal)
  PROVE  LET e == EnsureBundleIndex(src, units, w, goal)
         IN  /\ Right(src, units, e, goal, w.idx[MainBundle].state)
             /\ e.stack = <<>> /\ e.loaded = w.loaded
<1> DEFINE N == EnsureSteps
           after == EnsureWalk(src, units, w, goal)
           state == w.idx[MainBundle].state
           Good == {n \in 0..N : Right(src, units, after[n], goal, state) /\ Counted(after[n], n)}
           e == EnsureBundleIndex(src, units, w, goal)
<1>1. N \in Nat /\ Cardinality(Bundles) \in Nat /\ N = 2 * Cardinality(Bundles) + 1
  BY StepsTyped
<1>2. /\ after[0] = EnsureStart(w, goal)
      /\ \A n \in 1..N : after[n] = EnsureStep(src, units, after[n - 1])
  BY <1>1, EnsureWalkIs
<1>0. goal \in Bundles
  BY DEF Direct
<1>3. e = after[N] /\ e.loaded = w.loaded
  <2>1. e = after[N]
    BY Zenon DEF EnsureBundleIndex
  <2>2. e.loaded = w.loaded
    BY <1>0, EnsuredOK
  <2> QED
    BY <2>1, <2>2
<1>4. Right(src, units, EnsureStart(w, goal), goal, state)
  BY StartRight
<1> HIDE DEF N, after, state, e
<1>6. 0 \in Good
  <2>1. ASSUME after[0].stack # <<>>
        PROVE  Len(after[0].stack) + 2 * Cardinality(after[0].ensured) >= 0 + 1
    <3>1. /\ Len(after[0].stack) \in Nat \ {0} /\ Cardinality(after[0].ensured) \in Nat
      BY <1>2, <1>4, <2>1, StackBounded DEF Right
    <3> QED
      BY <3>1
  <2>2. Counted(after[0], 0)
    BY <2>1 DEF Counted
  <2> QED
    BY <1>1, <1>2, <1>4, <2>2
<1>7. ASSUME NEW n \in 1..N, n - 1 \in Good PROVE n \in Good
  <2>1. /\ Right(src, units, after[n - 1], goal, state) /\ Counted(after[n - 1], n - 1)
        /\ n - 1 \in Nat /\ n - 1 + 1 = n /\ n \in 0..N
    BY <1>1, <1>7
  <2> DEFINE t == EnsureStep(src, units, after[n - 1])
  <2>2. Right(src, units, t, goal, state) /\ Counted(t, n - 1 + 1)
    BY <2>1, StepRight
  <2>3. after[n] = t
    BY <1>2
  <2> HIDE DEF t
  <2> QED
    BY <2>1, <2>2, <2>3
<1>8. \A n \in 0..N : n \in Good
  <2> HIDE DEF Good
  <2> QED
    BY <1>1, <1>6, <1>7, UpTo
<1>9. Right(src, units, e, goal, state) /\ Counted(e, N)
  BY <1>1, <1>3, <1>8
<1>10. e.stack = <<>>
  <2> SUFFICES ASSUME e.stack # <<>> PROVE FALSE
    OBVIOUS
  <2>1. /\ Len(e.stack) \in Nat \ {0} /\ Cardinality(e.ensured) \in Nat
        /\ Len(e.stack) - 1 + Cardinality(e.ensured) <= Cardinality(Bundles)
    BY <1>9, StackBounded DEF Right
  <2>2. Len(e.stack) + 2 * Cardinality(e.ensured) >= N + 1
    BY <1>9 DEF Counted
  <2> QED
    BY <1>1, <2>1, <2>2
<1> QED
  BY <1>3, <1>9, <1>10 DEF e, state

-----------------------------------------------------------------------------
(* Loading the bundles of a document. *)

(* The states of loading. *)
LEMMA LoadWalkIs ==
  ASSUME NEW p, NEW units, NEW N \in Nat, Len(LoadOrder(units)) = N
  PROVE  /\ LoadWalk(p, units)[0] = LoadStart(p)
         /\ \A n \in 1..N :
              LoadWalk(p, units)[n]
                = LoadOneBundle(p.src, units, LoadWalk(p, units)[n - 1], LoadOrder(units)[n])
<1> DEFINE Step(w, i) == LoadOneBundle(p.src, units, w, LoadOrder(units)[i])
           Is(f, n) == f = [i \in 0..n |-> IF i = 0 THEN LoadStart(p) ELSE Step(f[i - 1], i)]
           Good == {n \in 0..N : \E f : Is(f, n)}
<1> DEFINE after == LoadWalk(p, units)
<1>0. after = CHOOSE f : Is(f, N)
  BY DEF LoadWalk
<1> HIDE DEF Step, after
<1>1. \E f : Is(f, 0)
  <2>1. Is([i \in 0..0 |-> LoadStart(p)], 0)
    OBVIOUS
  <2> QED
    BY <2>1
<1>2. ASSUME NEW n \in 1..N, NEW f, Is(f, n - 1) PROVE \E g : Is(g, n)
  <2> DEFINE g == [i \in 0..n |-> IF i < n THEN f[i] ELSE Step(f[n - 1], n)]
  <2>1. n \in Nat /\ n >= 1
    OBVIOUS
  <2>2. ASSUME NEW i \in 0..n
        PROVE  g[i] = IF i = 0 THEN LoadStart(p) ELSE Step(g[i - 1], i)
    <3>1. CASE i = 0
      <4>1. g[i] = f[0] /\ 0 \in 0..n - 1
        BY <2>1, <3>1
      <4>2. f[0] = LoadStart(p)
        BY <1>2, <4>1
      <4> QED
        BY <3>1, <4>1, <4>2
    <3>2. CASE i # 0 /\ i < n
      <4>1. g[i] = f[i] /\ g[i - 1] = f[i - 1] /\ i \in 0..n - 1
        BY <2>1, <3>2
      <4>2. f[i] = Step(f[i - 1], i)
        BY <1>2, <3>2, <4>1
      <4> QED
        BY <3>2, <4>1, <4>2
    <3>3. CASE i = n
      <4>1. g[i] = Step(f[n - 1], n) /\ g[n - 1] = f[n - 1] /\ i # 0
        BY <2>1, <3>3
      <4> QED
        BY <3>3, <4>1
    <3> QED
      BY <2>1, <3>1, <3>2, <3>3
  <2>3. g = [i \in 0..n |-> g[i]]
    OBVIOUS
  <2> HIDE DEF g
  <2>4. Is(g, n)
    BY <2>2, <2>3
  <2> QED
    BY <2>4
<1> HIDE DEF Is
<1>3. /\ 0 \in Good /\ \A n \in 1..N : n - 1 \in Good => n \in Good
  BY <1>1, <1>2
<1>4. N \in Good
  <2> HIDE DEF Good
  <2>1. \A n \in 0..N : n \in Good
    BY <1>3, UpTo
  <2> QED
    BY <2>1
<1>6. Is(after, N)
  BY <1>0, <1>4
<1>7. /\ after[0] = LoadStart(p)
      /\ \A n \in 1..N : after[n] = Step(after[n - 1], n)
  <2>1. \A i \in 0..N : after[i] = IF i = 0 THEN LoadStart(p) ELSE Step(after[i - 1], i)
    BY <1>6 DEF Is
  <2>2. 0 \in 0..N /\ \A n \in 1..N : n \in 0..N /\ n # 0
    OBVIOUS
  <2> QED
    BY <2>1, <2>2
<1> QED
  BY <1>7 DEF after, Step

(* An index that cannot be read is removed. *)
Removed(w, b) == [w EXCEPT !.idx[b] = NoIndex, !.ensured = @ \ {b}]

LEMMA RemovedOK ==
  ASSUME NEW src, NEW w, WalkOK(src, w), NEW b \in Bundles
  PROVE  LET t == Removed(w, b)
         IN  /\ WalkOK(src, t) /\ t.loaded = w.loaded /\ t.stack = w.stack
             /\ t.ensured = w.ensured \ {b}
             /\ t.idx[b].state = "missing" /\ \A c \in Bundles \ {b} : t.idx[c] = w.idx[c]
<1> DEFINE t == Removed(w, b)
<1>1. PICK idx, ensured, stack, fails, loaded :
        /\ w = [idx |-> idx, ensured |-> ensured, stack |-> stack, failed |-> fails,
                loaded |-> loaded]
        /\ idx = w.idx /\ ensured = w.ensured /\ stack = w.stack /\ fails = w.failed
        /\ loaded = w.loaded
  BY DEF WalkOK
<1>2. PICK none : none = NoIndex
  BY Zenon
<1>3. PICK new : new = [idx EXCEPT ![b] = none]
  OBVIOUS
<1>4. t = [[w EXCEPT !.idx = [w.idx EXCEPT ![b] = none]] EXCEPT !.ensured = w.ensured \ {b}]
  BY <1>2 DEF Removed
<1> HIDE DEF t
<1>5. [w EXCEPT !.idx = new]
        = [idx |-> new, ensured |-> ensured, stack |-> stack, failed |-> fails, loaded |-> loaded]
  BY <1>1
<1>6. t = [idx |-> new, ensured |-> ensured \ {b}, stack |-> stack, failed |-> fails,
           loaded |-> loaded]
  BY <1>1, <1>3, <1>4, <1>5
<1>7. /\ t.idx = new /\ t.ensured = w.ensured \ {b} /\ t.stack = w.stack /\ t.failed = w.failed
      /\ t.loaded = w.loaded
      /\ t = [idx |-> t.idx, ensured |-> t.ensured, stack |-> t.stack, failed |-> t.failed,
              loaded |-> t.loaded]
  BY <1>1, <1>6
<1>8. /\ IndexesOK(src, w.idx) /\ w.ensured \subseteq Bundles /\ w.stack \in Seq(Bundles)
      /\ w.failed \in BOOLEAN
  BY DEF WalkOK
<1>9. IndexOK(src[b], none) /\ none.state = "missing"
  <2>1. PICK no : no = FALSE
    BY Zenon
  <2>2. none = [state |-> "missing", exports |-> <<>>, srcNewer |-> {}, compNewer |-> no,
                depNewer |-> {}]
    BY <1>2, <2>1, Zenon DEF NoIndex
  <2>3. /\ none.state = "missing"
        /\ none = [state |-> none.state, exports |-> none.exports, srcNewer |-> none.srcNewer,
                   compNewer |-> none.compNewer, depNewer |-> none.depNewer]
    BY <2>2
  <2> QED
    BY <2>3 DEF IndexOK
<1>10. /\ new[b] = none /\ \A c \in Bundles \ {b} : new[c] = w.idx[c]
       /\ new = [c \in Bundles |-> new[c]]
  <2>1. idx = [c \in Bundles |-> idx[c]]
    BY <1>1, <1>8 DEF IndexesOK
  <2> QED
    BY <1>1, <1>3, <2>1
<1>11. IndexesOK(src, new)
  BY <1>8, <1>9, <1>10 DEF IndexesOK
<1>12. WalkOK(src, t)
  BY <1>7, <1>8, <1>11 DEF WalkOK
<1> QED
  BY <1>7, <1>9, <1>10, <1>12 DEF t

(* What is loaded is added. *)
LEMMA WithBundleIs ==
  ASSUME NEW src, NEW w, WalkOK(src, w), NEW b
  PROVE  LET t == WithBundle(w, b)
         IN  /\ WalkOK(src, t) /\ t.stack = w.stack /\ t.ensured = w.ensured /\ t.idx = w.idx
             /\ t.loaded = [c \in DOMAIN w.loaded \cup {b} |->
                              IF c # b THEN w.loaded[c]
                              ELSE IF w.failed THEN LoadError ELSE w.idx[b].exports]
<1> DEFINE t == WithBundle(w, b)
           all == [c \in DOMAIN w.loaded \cup {b} |->
                     IF c # b THEN w.loaded[c]
                     ELSE IF w.failed THEN LoadError ELSE w.idx[b].exports]
<1>1. PICK idx, ensured, stack, fails, loaded :
        /\ w = [idx |-> idx, ensured |-> ensured, stack |-> stack, failed |-> fails,
                loaded |-> loaded]
        /\ idx = w.idx /\ ensured = w.ensured /\ stack = w.stack /\ fails = w.failed
        /\ loaded = w.loaded
  BY DEF WalkOK
<1>2. t = [w EXCEPT !.loaded = all]
  <2>1. t = [w EXCEPT !.loaded = [c \in DOMAIN @ \cup {b} |->
            IF c # b THEN @[c] ELSE IF w.failed THEN LoadError ELSE w.idx[b].exports]]
    BY DEF WithBundle
  <2> QED
    BY <1>1, <2>1
<1> HIDE DEF t, all
<1>3. t = [idx |-> idx, ensured |-> ensured, stack |-> stack, failed |-> fails, loaded |-> all]
  BY <1>1, <1>2
<1>4. /\ t.idx = w.idx /\ t.ensured = w.ensured /\ t.stack = w.stack /\ t.failed = w.failed
      /\ t.loaded = all
      /\ t = [idx |-> t.idx, ensured |-> t.ensured, stack |-> t.stack, failed |-> t.failed,
              loaded |-> t.loaded]
  BY <1>1, <1>3
<1>5. WalkOK(src, t)
  BY <1>4 DEF WalkOK
<1> QED
  BY <1>4, <1>5 DEF t, all

(* Loading a bundle leaves every index right or marked. *)
LEMMA LoadOneOK ==
  ASSUME NEW src, NEW files, Agrees(src, files), NEW units, UnitsOK(units),
         NEW w, WalkOK(files, w), NEW b \in Bundles
  PROVE  WalkOK(files, LoadOneBundle(src, units, w, b))
<1> DEFINE e == EnsureBundleIndex(src, units, w, b)
           gone == Removed(e, b)
           again == EnsureBundleIndex(src, units, gone, b)
           t == Repaired(src, units, e, b)
<1>1. WalkOK(files, e)
  BY EnsuredOK
<1>2. t = IF e.failed \/ e.idx[b].state = "good" THEN e ELSE again
  BY Zenon DEF Repaired, Removed
<1>3. LoadOneBundle(src, units, w, b) = IF b \notin DOMAIN units THEN w ELSE WithBundle(t, b)
  BY Zenon DEF LoadOneBundle
<1> HIDE DEF e, t
<1>4. WalkOK(files, gone)
  BY <1>1, RemovedOK
<1> HIDE DEF gone
<1>5. WalkOK(files, again)
  BY <1>4, EnsuredOK
<1> HIDE DEF again
<1>6. WalkOK(files, t)
  BY <1>1, <1>2, <1>5, Zenon
<1>7. WalkOK(files, WithBundle(t, b))
  BY <1>6, WithBundleIs
<1> QED
  BY <1>3, <1>7, Zenon

(* The bundles a document loads. *)
LEMMA OrderIs ==
  ASSUME NEW units, UnitsOK(units), MainBundle \in DOMAIN units
  PROVE  /\ LoadOrder(units) \in Seq(Bundles) /\ Len(LoadOrder(units)) \in Nat
         /\ \A i \in 1..Len(LoadOrder(units)) : Direct(units, LoadOrder(units)[i])
         /\ {LoadOrder(units)[i] : i \in 1..Len(LoadOrder(units))}
              = {MainBundle} \cup Range(units[MainBundle])
<1> DEFINE deps == units[MainBundle]
           all == LoadOrder(units)
<1>1. deps \in Seq(Bundles) /\ MainBundle \in Bundles
  BY BundlesAssumption DEF UnitsOK
<1>2. all = <<MainBundle>> \o deps
  BY DEF LoadOrder
<1> HIDE DEF all, deps
<1>3. /\ all \in Seq(Bundles) /\ Len(all) = Len(deps) + 1 /\ Len(deps) \in Nat
      /\ all[1] = MainBundle /\ \A i \in 1..Len(deps) : all[i + 1] = deps[i]
  BY <1>1, <1>2
<1>4. Range(deps) = {deps[i] : i \in 1..Len(deps)}
  BY <1>1 DEF Range
<1>5. ASSUME NEW i \in 1..Len(all)
      PROVE  all[i] \in Bundles /\ all[i] \in {MainBundle} \cup Range(deps)
  <2>1. CASE i = 1
    BY <1>1, <1>3, <2>1
  <2>2. CASE i # 1
    <3>1. i - 1 \in 1..Len(deps) /\ i - 1 + 1 = i
      BY <1>3, <2>2
    <3>2. all[i] = deps[i - 1]
      BY <1>3, <3>1
    <3> QED
      BY <1>1, <1>4, <3>1, <3>2
  <2> QED
    BY <2>1, <2>2
<1>6. ASSUME NEW c \in {MainBundle} \cup Range(deps)
      PROVE  c \in {all[i] : i \in 1..Len(all)}
  <2>1. CASE c = MainBundle
    <3>1. 1 \in 1..Len(all)
      BY <1>3
    <3> QED
      BY <1>3, <2>1, <3>1
  <2>2. CASE c \in Range(deps)
    <3>1. PICK i \in 1..Len(deps) : c = deps[i]
      BY <1>4, <2>2
    <3>2. i + 1 \in 1..Len(all) /\ all[i + 1] = c
      BY <1>3, <3>1
    <3> QED
      BY <3>2
  <2> QED
    BY <2>1, <2>2
<1>7. {all[i] : i \in 1..Len(all)} = {MainBundle} \cup Range(deps)
  BY <1>5, <1>6
<1>8. Len(all) \in Nat /\ \A i \in 1..Len(all) : Direct(units, all[i])
  BY <1>3, <1>5 DEF Direct, deps
<1> QED
  BY <1>3, <1>7, <1>8 DEF all, deps

(* Loading begins with the indexes that are there. *)
LEMMA LoadStartIs ==
  ASSUME NEW files, NEW p, IndexesOK(files, p.idx)
  PROVE  LET t == LoadStart(p)
         IN  /\ WalkOK(files, t) /\ t.idx = p.idx /\ t.ensured = {}
             /\ t.loaded = [c \in {} |-> <<>>]
<1> DEFINE t == LoadStart(p)
<1>1. PICK no, none : no = FALSE /\ none = [c \in {} |-> <<>>]
  BY Zenon
<1>2. t = [idx |-> p.idx, ensured |-> {}, stack |-> <<>>, failed |-> no, loaded |-> none]
  BY <1>1, Zenon DEF LoadStart
<1> HIDE DEF t
<1>3. /\ t.idx = p.idx /\ t.ensured = {} /\ t.stack = <<>> /\ t.failed = no /\ t.loaded = none
      /\ t = [idx |-> t.idx, ensured |-> t.ensured, stack |-> t.stack, failed |-> t.failed,
              loaded |-> t.loaded]
  BY <1>2
<1>4. t.stack \in Seq(Bundles) /\ t.ensured \subseteq Bundles
  BY <1>3
<1>5. t.failed \in BOOLEAN
  BY <1>1, <1>3
<1>6. WalkOK(files, t)
  BY <1>3, <1>4, <1>5 DEF WalkOK
<1> QED
  BY <1>1, <1>3, <1>6 DEF t

(* Loading all of them leaves every index right or marked. *)
LEMMA LoadBundlesOK ==
  ASSUME NEW files, NEW p, Agrees(p.src, files), IndexesOK(files, p.idx),
         NEW units, UnitsOK(units), MainBundle \in DOMAIN units
  PROVE  WalkOK(files, LoadBundles(p, units))
<1> DEFINE N == Len(LoadOrder(units))
           after == LoadWalk(p, units)
           Good == {n \in 0..N : WalkOK(files, after[n])}
<1>1. N \in Nat /\ \A i \in 1..N : LoadOrder(units)[i] \in Bundles
  BY OrderIs DEF Direct
<1>2. /\ after[0] = LoadStart(p)
      /\ \A n \in 1..N : after[n] = LoadOneBundle(p.src, units, after[n - 1], LoadOrder(units)[n])
  BY <1>1, LoadWalkIs
<1>3. LoadBundles(p, units) = after[N]
  BY DEF LoadBundles
<1> HIDE DEF N, after
<1>4. 0 \in Good
  <2>1. WalkOK(files, LoadStart(p))
    BY LoadStartIs
  <2> QED
    BY <1>1, <1>2, <2>1
<1>5. ASSUME NEW n \in 1..N, n - 1 \in Good PROVE n \in Good
  <2>1. WalkOK(files, after[n - 1]) /\ n \in 0..N /\ LoadOrder(units)[n] \in Bundles
    BY <1>1, <1>5
  <2>2. WalkOK(files, after[n])
    BY <1>2, <2>1, LoadOneOK
  <2> QED
    BY <2>1, <2>2
<1>6. \A n \in 0..N : n \in Good
  <2> HIDE DEF Good
  <2> QED
    BY <1>1, <1>4, <1>5, UpTo
<1>7. N \in 0..N
  BY <1>1
<1> QED
  BY <1>3, <1>6, <1>7

(* What is ensured can be read. *)
Sure(src, units, w) ==
  Settled(src, units, w) /\ (MainBundle \in w.ensured => w.idx[MainBundle].state = "good")

(* What is ensured is sound, and its index says what its source does. *)
LEMMA SureSound ==
  ASSUME NEW src, Agrees(src, src), NEW units, UnitsOK(units),
         NEW w, WalkOK(src, w), Sure(src, units, w),
         NEW b \in w.ensured
  PROVE  Sound(src, units, b) /\ w.idx[b].exports = src[b] /\ w.idx[b].state = "good"
<1>1. ASSUME NEW c \in w.ensured
      PROVE  w.idx[c].state = "good" /\ AllCompile(src[c]) /\ w.idx[c].exports = src[c]
  <2>1. c \in Bundles /\ IndexOK(src[c], w.idx[c])
    BY DEF WalkOK, IndexesOK
  <2>2. UpToDate(src, w.idx, c)
    BY DEF Sure, Settled
  <2>3. w.idx[c].state # "unreadable"
    <3>1. CASE c = MainBundle
      BY <3>1 DEF Sure
    <3>2. CASE c # MainBundle
      BY <2>1, <3>2 DEF Sure, Settled
    <3> QED
      BY <3>1, <3>2
  <2>4. w.idx[c].state \in {"missing", "unreadable", "good"}
    BY <2>1 DEF IndexOK
  <2>5. w.idx[c].state = "good"
    BY <2>2, <2>3, <2>4 DEF UpToDate
  <2> DEFINE exports == w.idx[c].exports
  <2>6. /\ exports = [f \in DOMAIN exports |-> exports[f]] /\ DOMAIN exports = DOMAIN src[c]
        /\ src[c] = [f \in DOMAIN src[c] |-> src[c][f]]
    BY <2>1, <2>2, <2>5, Zenon DEF IndexOK, UpToDate, Agrees
  <2>7. \A f \in DOMAIN src[c] : Says(exports, src[c], f)
    <3>1. \A f \in DOMAIN src[c] : f \notin w.idx[c].srcNewer
      BY <2>2 DEF UpToDate
    <3> QED
      BY <2>1, <2>5, <2>6, <3>1 DEF IndexOK
  <2> HIDE DEF exports
  <2>8. exports = src[c] /\ AllCompile(src[c])
    BY <2>6, <2>7 DEF Says, AllCompile
  <2> QED
    BY <2>5, <2>8 DEF exports
<1> DEFINE S == w.ensured
<1>2. /\ S \in SUBSET DOMAIN units /\ b \in S
      /\ \A c \in S : AllCompile(src[c]) /\ Range(units[c]) \subseteq S
      /\ \A T \in (SUBSET S) \ {{}} : \E c \in T : Range(units[c]) \cap T = {}
  BY <1>1 DEF Sure, Settled
<1> HIDE DEF S
<1>3. Sound(src, units, b)
  BY <1>2 DEF Sound
<1> QED
  BY <1>1, <1>3

(* A walk for a bundle that could be read all along ends sure. *)
LEMMA EndsSure ==
  ASSUME NEW src, Agrees(src, src), NEW units, UnitsOK(units),
         NEW w, NEW goal, Direct(units, goal), NEW state,
         Right(src, units, w, goal, state), w.stack = <<>>,
         w.failed = TRUE \/ w.idx[goal].state = "good"
  PROVE  /\ Sure(src, units, w)
         /\ (IF w.failed THEN LoadError ELSE w.idx[goal].exports)
              = IF Sound(src, units, goal) THEN src[goal] ELSE LoadError
<1>1. /\ WalkOK(src, w) /\ Settled(src, units, w) /\ Outcome(src, units, w, goal)
      /\ w.failed \in BOOLEAN
  BY DEF Right, WalkOK
<1>2. Sure(src, units, w)
  <2>1. CASE goal # MainBundle \/ w.failed = TRUE
    BY <1>1, <2>1 DEF Outcome, Sure
  <2>2. CASE goal = MainBundle /\ w.failed # TRUE
    BY <1>1, <2>2 DEF Sure
  <2> QED
    BY <2>1, <2>2
<1>3. CASE w.failed = TRUE
  <2>1. ~Sound(src, units, goal)
    BY <1>1, <1>3 DEF Outcome
  <2> QED
    BY <1>2, <1>3, <2>1, Zenon
<1>4. CASE w.failed = FALSE
  <2>1. goal \in w.ensured
    BY <1>1, <1>4 DEF Outcome
  <2>2. Sound(src, units, goal) /\ w.idx[goal].exports = src[goal]
    BY <1>1, <1>2, <2>1, SureSound
  <2> QED
    BY <1>2, <1>4, <2>2, Zenon
<1> QED
  BY <1>1, <1>3, <1>4

(* The index of a bundle is made sure of, removed and made again when it   *)
(* cannot be read: the bundle gets what its source exports, or an error    *)
(* when it is not sound.                                                   *)
LEMMA MadeRight ==
  ASSUME NEW src, Agrees(src, src), NEW units, UnitsOK(units),
         NEW w, WalkOK(src, w), Sure(src, units, w),
         NEW b, Direct(units, b)
  PROVE  LET t == Repaired(src, units, EnsureBundleIndex(src, units, w, b), b)
         IN  /\ WalkOK(src, t) /\ Sure(src, units, t) /\ t.loaded = w.loaded
             /\ (IF t.failed THEN LoadError ELSE t.idx[b].exports)
                  = IF Sound(src, units, b) THEN src[b] ELSE LoadError
<1> DEFINE e == EnsureBundleIndex(src, units, w, b)
           gone == Removed(e, b)
           again == EnsureBundleIndex(src, units, gone, b)
           t == Repaired(src, units, e, b)
<1>1. t = IF e.failed \/ e.idx[b].state = "good" THEN e ELSE again
  BY Zenon DEF Repaired, Removed
<1>2. /\ Right(src, units, e, b, w.idx[MainBundle].state) /\ e.stack = <<>>
      /\ e.loaded = w.loaded
  BY EnsuredRight DEF Sure
<1> SUFFICES /\ WalkOK(src, t) /\ Sure(src, units, t) /\ t.loaded = w.loaded
             /\ (IF t.failed THEN LoadError ELSE t.idx[b].exports)
                  = IF Sound(src, units, b) THEN src[b] ELSE LoadError
  BY Zenon
<1> HIDE DEF t, e
<1>3. WalkOK(src, e) /\ Settled(src, units, e) /\ Outcome(src, units, e, b) /\ e.failed \in BOOLEAN
  BY <1>2 DEF Right, WalkOK
<1>4. CASE e.failed = TRUE \/ e.idx[b].state = "good"
  <2>1. t = e
    BY <1>1, <1>4, Zenon
  <2> QED
    BY <1>2, <1>3, <1>4, <2>1, EndsSure
<1>5. CASE e.failed = FALSE /\ e.idx[b].state # "good"
  <2>1. t = again
    BY <1>1, <1>5, Zenon
  <2>2. b \in e.ensured /\ b \in Bundles
    BY <1>2, <1>3, <1>5 DEF Outcome, Direct
  <2>3. b = MainBundle
    <3>1. e.idx[b].state # "missing"
      BY <1>3, <2>2 DEF Settled, UpToDate
    <3>2. e.idx[b].state \in {"missing", "unreadable", "good"}
      BY <1>3, <2>2 DEF WalkOK, IndexesOK, IndexOK
    <3>3. e.idx[b].state = "unreadable"
      BY <1>5, <3>1, <3>2
    <3> QED
      BY <1>3, <2>2, <3>3 DEF Settled
  <2>4. /\ WalkOK(src, gone) /\ gone.loaded = e.loaded /\ gone.ensured = e.ensured \ {b}
        /\ gone.idx[b].state = "missing" /\ \A c \in Bundles \ {b} : gone.idx[c] = e.idx[c]
    BY <1>3, <2>2, RemovedOK
  <2> HIDE DEF gone
  <2>5. Sure(src, units, gone)
    <3>1. gone.ensured \subseteq e.ensured /\ MainBundle \notin gone.ensured
      BY <2>3, <2>4
    <3>2. ASSUME NEW c \in gone.ensured
          PROVE  /\ c \in Bundles /\ c # b /\ gone.idx[c] = e.idx[c]
                 /\ Range(units[c]) \subseteq gone.ensured
      <4>1. c \in e.ensured /\ c # b /\ c \in Bundles
        BY <1>3, <2>4 DEF WalkOK
      <4>2. Range(units[c]) \subseteq e.ensured /\ b \notin Range(units[c])
        BY <1>3, <2>3, <4>1 DEF Settled
      <4> QED
        BY <2>4, <4>1, <4>2
    <3>3. gone.ensured \subseteq DOMAIN units
      BY <1>3, <3>1 DEF Settled
    <3>4. \A T \in SUBSET gone.ensured : T # {} => \E c \in T : Range(units[c]) \cap T = {}
      BY <1>3, <3>1 DEF Settled
    <3>5. \A c \in gone.ensured : UpToDate(src, gone.idx, c)
      BY <1>3, <3>1, <3>2 DEF Settled, UpToDate
    <3>9. \A c \in DOMAIN units : ListKnown(src, gone.idx, c)
      BY <1>3, <2>4 DEF Settled, ListKnown, UnitsOK
    <3>6. \A c \in gone.ensured \ {MainBundle} : MainBundle \notin Range(units[c])
      BY <1>3, <3>1 DEF Settled
    <3>7. \A c \in Bundles \ {MainBundle} : gone.idx[c].state # "unreadable"
      BY <1>3, <2>3, <2>4 DEF Settled
    <3>8. Settled(src, units, gone)
      BY <3>2, <3>3, <3>4, <3>5, <3>6, <3>7, <3>9 DEF Settled
    <3> QED
      BY <3>1, <3>8 DEF Sure
  <2>6. /\ Right(src, units, again, b, gone.idx[MainBundle].state) /\ again.stack = <<>>
        /\ again.loaded = gone.loaded
    BY <2>4, <2>5, EnsuredRight DEF Sure
  <2> HIDE DEF again
  <2>7. WalkOK(src, again) /\ again.failed \in BOOLEAN
    BY <2>6 DEF Right, WalkOK
  <2>8. again.failed = TRUE \/ again.idx[b].state = "good"
    <3> SUFFICES ASSUME again.failed = FALSE PROVE again.idx[b].state = "good"
      BY <2>7
    <3>1. b \in again.ensured
      BY <2>6 DEF Right, Outcome
    <3>2. again.idx[b].state # "missing"
      BY <2>6, <3>1 DEF Right, Settled, UpToDate
    <3>3. again.idx[b].state # "unreadable"
      BY <2>3, <2>4, <2>6 DEF Right, Readable
    <3>4. again.idx[b].state \in {"missing", "unreadable", "good"}
      BY <2>2, <2>7 DEF WalkOK, IndexesOK, IndexOK
    <3> QED
      BY <3>2, <3>3, <3>4
  <2>9. /\ Sure(src, units, again)
        /\ (IF again.failed THEN LoadError ELSE again.idx[b].exports)
             = IF Sound(src, units, b) THEN src[b] ELSE LoadError
    BY <2>6, <2>8, EndsSure
  <2>10. again.loaded = w.loaded
    BY <1>2, <2>4, <2>6
  <2> QED
    BY <2>1, <2>7, <2>9, <2>10
<1> QED
  BY <1>3, <1>4, <1>5

(* What was loaded for the bundles of a set. *)
LoadedOf(src, units, B) ==
  [c \in B \cap DOMAIN units |-> IF Sound(src, units, c) THEN src[c] ELSE LoadError]

(* One more bundle is loaded as it should be. *)
LEMMA LoadOneRight ==
  ASSUME NEW src, Agrees(src, src), NEW units, UnitsOK(units),
         NEW w, WalkOK(src, w), Sure(src, units, w),
         NEW B, w.loaded = LoadedOf(src, units, B), NEW b, Direct(units, b)
  PROVE  LET t == LoadOneBundle(src, units, w, b)
         IN  /\ WalkOK(src, t) /\ Sure(src, units, t)
             /\ t.loaded = LoadedOf(src, units, B \cup {b})
<1> DEFINE made == Repaired(src, units, EnsureBundleIndex(src, units, w, b), b)
           t == LoadOneBundle(src, units, w, b)
           got(c) == IF Sound(src, units, c) THEN src[c] ELSE LoadError
<1>1. t = IF b \notin DOMAIN units THEN w ELSE WithBundle(made, b)
  BY Zenon DEF LoadOneBundle
<1>2. /\ WalkOK(src, made) /\ Sure(src, units, made) /\ made.loaded = w.loaded
      /\ (IF made.failed THEN LoadError ELSE made.idx[b].exports) = got(b)
  BY MadeRight
<1>3. \A A : LoadedOf(src, units, A) = [c \in A \cap DOMAIN units |-> got(c)]
  BY DEF LoadedOf
<1> SUFFICES /\ WalkOK(src, t) /\ Sure(src, units, t) /\ t.loaded = LoadedOf(src, units, B \cup {b})
  BY Zenon
<1> HIDE DEF made, t, got
<1>4. CASE b \notin DOMAIN units
  <2>1. (B \cup {b}) \cap DOMAIN units = B \cap DOMAIN units
    BY <1>4
  <2> QED
    BY <1>1, <1>3, <1>4, <2>1
<1>5. CASE b \in DOMAIN units
  <2> DEFINE new == WithBundle(made, b)
             value == IF made.failed THEN LoadError ELSE made.idx[b].exports
  <2>1. /\ WalkOK(src, new) /\ new.ensured = made.ensured /\ new.idx = made.idx
        /\ new.loaded = [c \in DOMAIN made.loaded \cup {b} |->
                           IF c # b THEN made.loaded[c] ELSE value]
    BY <1>2, WithBundleIs
  <2>2. t = new /\ value = got(b)
    BY <1>1, <1>2, <1>5
  <2> HIDE DEF new, value
  <2>3. Sure(src, units, t)
    BY <1>2, <2>1, <2>2 DEF Sure, Settled
  <2>4. DOMAIN w.loaded = B \cap DOMAIN units /\ \A c \in DOMAIN w.loaded : w.loaded[c] = got(c)
    <3>1. w.loaded = [c \in B \cap DOMAIN units |-> got(c)]
      BY <1>3
    <3> QED
      BY <3>1
  <2>5. (B \cup {b}) \cap DOMAIN units = DOMAIN w.loaded \cup {b}
    BY <1>5, <2>4
  <2>6. t.loaded = [c \in DOMAIN w.loaded \cup {b} |-> got(c)]
    BY <1>2, <2>1, <2>2, <2>4
  <2>7. t.loaded = LoadedOf(src, units, B \cup {b})
    BY <1>3, <2>5, <2>6
  <2> QED
    BY <2>1, <2>2, <2>3, <2>7
<1> QED
  BY <1>4, <1>5

(* A document sees what the sources export, whatever the indexes were,     *)
(* unless the index of a dependency cannot be read.                        *)
LEMMA LoadsWhatIsVisible ==
  ASSUME NEW p, Agrees(p.src, p.src), IndexesOK(p.src, p.idx),
         NEW units, UnitsOK(units), MainBundle \in DOMAIN units,
         \A b \in DOMAIN units : ListKnown(p.src, p.idx, b),
         \A b \in Bundles \ {MainBundle} : p.idx[b].state # "unreadable"
  PROVE  LoadBundles(p, units).loaded = VisibleExports(p.src, units)
<1> DEFINE N == Len(LoadOrder(units))
           after == LoadWalk(p, units)
           First(n) == {LoadOrder(units)[i] : i \in 1..n}
           Good == {n \in 0..N : /\ WalkOK(p.src, after[n]) /\ Sure(p.src, units, after[n])
                                 /\ after[n].loaded = LoadedOf(p.src, units, First(n))}
<1>1. N \in Nat /\ \A i \in 1..N : Direct(units, LoadOrder(units)[i])
  BY OrderIs
<1>2. /\ after[0] = LoadStart(p)
      /\ \A n \in 1..N : after[n] = LoadOneBundle(p.src, units, after[n - 1], LoadOrder(units)[n])
  BY <1>1, LoadWalkIs
<1>3. LoadBundles(p, units) = after[N]
  BY DEF LoadBundles
<1>4. First(N) = {MainBundle} \cup Range(units[MainBundle])
  BY OrderIs
<1> HIDE DEF N, after
<1>5. 0 \in Good
  <2> DEFINE t == LoadStart(p)
  <2>1. /\ WalkOK(p.src, t) /\ t.idx = p.idx /\ t.ensured = {}
        /\ t.loaded = [c \in {} |-> <<>>]
    BY LoadStartIs
  <2> HIDE DEF t
  <2>2. Sure(p.src, units, t)
    BY <2>1 DEF Sure, Settled
  <2>3. First(0) = {}
    OBVIOUS
  <2>4. t.loaded = LoadedOf(p.src, units, {})
    BY <2>1 DEF LoadedOf
  <2>5. after[0] = t /\ 0 \in 0..N
    BY <1>1, <1>2 DEF t
  <2> QED
    BY <2>1, <2>2, <2>3, <2>4, <2>5
<1>6. ASSUME NEW n \in 1..N, n - 1 \in Good PROVE n \in Good
  <2>1. /\ WalkOK(p.src, after[n - 1]) /\ Sure(p.src, units, after[n - 1])
        /\ after[n - 1].loaded = LoadedOf(p.src, units, First(n - 1))
        /\ n \in 0..N /\ Direct(units, LoadOrder(units)[n])
    BY <1>1, <1>6
  <2>2. First(n - 1) \cup {LoadOrder(units)[n]} = First(n)
    <3>1. 1..n = 1..(n - 1) \cup {n}
      BY <1>1
    <3> QED
      BY <3>1
  <2> HIDE DEF First
  <2> DEFINE t == LoadOneBundle(p.src, units, after[n - 1], LoadOrder(units)[n])
             old == First(n - 1)
  <2>3. /\ WalkOK(p.src, t) /\ Sure(p.src, units, t)
        /\ t.loaded = LoadedOf(p.src, units, old \cup {LoadOrder(units)[n]})
    <3>1. after[n - 1].loaded = LoadedOf(p.src, units, old)
      BY <2>1
    <3> HIDE DEF old
    <3> QED
      BY <2>1, <3>1, LoadOneRight
  <2>4. after[n] = t
    BY <1>2
  <2> HIDE DEF t
  <2> QED
    BY <2>1, <2>2, <2>3, <2>4
<1> HIDE DEF First
<1>7. \A n \in 0..N : n \in Good
  <2> HIDE DEF Good
  <2> QED
    BY <1>1, <1>5, <1>6, UpTo
<1>8. after[N].loaded = LoadedOf(p.src, units, First(N))
  BY <1>1, <1>7
<1> QED
  BY <1>3, <1>4, <1>8 DEF LoadedOf, VisibleExports
=============================================================================
