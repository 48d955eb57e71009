------------------------- MODULE LanguageServerProofs -------------------------
(***************************************************************************)
(* The language server, for documents, messages, configurations and        *)
(* projects of any size: the items it keeps have their source texts, they  *)
(* are those of the text where cells are separate, and what the editor is  *)
(* shown was linted with the configuration in force.                       *)
(***************************************************************************)
EXTENDS LanguageServer, LintContextProofs

-----------------------------------------------------------------------------
(* Messages. *)

(* The cells of all texts and changes. *)
Drawn(C) ==
  /\ C \subseteq Cells
  /\ \A text \in OpenTexts : text \in Seq(C)
  /\ \A batch \in Batches : \A n \in DOMAIN batch : batch[n].new \in Seq(C)

(* Where a message has brought a document of the text old. *)
Edited(C, old, state) ==
  /\ state \in [text : Seq(C), edits : Seq(Windows), changed : BOOLEAN]
  /\ state.changed = FALSE => state.text = old /\ state.edits = <<>>
  /\ state.changed = TRUE => state.edits # <<>>
  /\ SameBefore(state.edits, old, state.text)

(* A change at a place leaves what is before it. *)
LEMMA NewTextIs ==
  ASSUME NEW C, NEW text \in Seq(C), NEW change \in Changes, change.new \in Seq(C),
         ~change.full, change.lo >= 2, Applicable(text, change)
  PROVE  LET cell == CellOf(change)
             new == NewText(text, change)
         IN  /\ cell \in Nat \ {0} /\ new \in Seq(C)
             /\ cell - 1 <= Len(text) /\ cell - 1 <= Len(new)
             /\ \A j \in 1..cell - 1 : new[j] = text[j]
<1> DEFINE cell == CellOf(change)
           before == SubSeq(text, 1, cell - 1)
           after == SubSeq(text, cell + change.cut, Len(text))
<1>1. cell \in Nat \ {0} /\ change.cut \in Nat /\ Len(text) \in Nat
  <2>1. change.lo \in Nat /\ change.cut \in Nat
    BY DEF Changes
  <2> QED
    BY <2>1 DEF CellOf
<1>2. cell + change.cut <= Len(text) + 1
  BY DEF Applicable
<1>3. cell - 1 <= Len(text)
  BY <1>1, <1>2
<1>4. NewText(text, change) = before \o change.new \o after
  BY DEF NewText
<1> HIDE DEF cell
<1>5. before \in Seq(C) /\ Len(before) = cell - 1 /\ \A j \in 1..cell - 1 : before[j] = text[j]
  <2>1. \A j \in 1..cell - 1 : text[j] \in C
    BY <1>1, <1>3
  <2>2. 1 \in Int /\ cell - 1 \in Int
    BY <1>1
  <2>3. /\ before \in Seq(C) /\ Len(before) = IF 1 <= cell - 1 THEN cell - 1 - 1 + 1 ELSE 0
        /\ \A j \in 1..cell - 1 - 1 + 1 : before[j] = text[1 + j - 1]
    BY <2>1, <2>2, SubSeqProperties
  <2> HIDE DEF before
  <2> QED
    BY <1>1, <2>3
<1>6. after \in Seq(C)
  <2>1. \A j \in cell + change.cut..Len(text) : text[j] \in C
    BY <1>1
  <2>2. cell + change.cut \in Int /\ Len(text) \in Int
    BY <1>1
  <2> QED
    BY <2>1, <2>2, SubSeqProperties
<1> HIDE DEF before, after
<1>7. before \o change.new \in Seq(C)
  BY <1>5, ConcatProperties
<1> DEFINE new == NewText(text, change)
<1>8. new \in Seq(C) /\ cell - 1 <= Len(new)
  <2>1. Len(before \o change.new) = cell - 1 + Len(change.new) /\ Len(change.new) \in Nat
    BY <1>5, ConcatProperties
  <2>2. /\ (before \o change.new) \o after \in Seq(C)
        /\ Len((before \o change.new) \o after) = Len(before \o change.new) + Len(after)
        /\ Len(after) \in Nat
    BY <1>6, <1>7, ConcatProperties
  <2> QED
    BY <1>1, <1>4, <2>1, <2>2
<1>9. ASSUME NEW j \in 1..cell - 1 PROVE new[j] = text[j]
  <2>1. (before \o change.new)[j] = before[j] /\ j \in 1..Len(before \o change.new)
    BY <1>1, <1>5
  <2>2. ((before \o change.new) \o after)[j] = (before \o change.new)[j]
    BY <1>1, <1>6, <1>7, <2>1
  <2> QED
    BY <1>4, <1>5, <2>1, <2>2
<1>10. /\ cell \in Nat \ {0} /\ new \in Seq(C) /\ cell - 1 <= Len(text) /\ cell - 1 <= Len(new)
       /\ \A j \in 1..cell - 1 : new[j] = text[j]
  BY <1>1, <1>3, <1>8, <1>9
<1> QED
  BY <1>10 DEF cell

(* A content change that names a place of the text keeps what the edits    *)
(* recorded so far say; one of the whole text puts an edit at its start.   *)
LEMMA ChangeOK ==
  ASSUME NEW C, NEW old \in Seq(C), NEW state, Edited(C, old, state),
         NEW change \in Changes, change.new \in Seq(C), change.full \/ change.lo >= 2,
         Applicable(state.text, change)
  PROVE  Edited(C, old, ApplyTextChange(state, change))
<1> DEFINE text == NewText(state.text, change)
           window == [lo |-> IF change.full THEN 0 ELSE change.lo, near |-> change.near]
           edits == IF change.full THEN <<window>> ELSE Append(state.edits, window)
           next == [text |-> text, edits |-> edits, changed |-> TRUE]
<1>1. state.text \in Seq(C) /\ state.edits \in Seq(Windows)
  BY DEF Edited
<1>2. /\ change.full \in BOOLEAN /\ change.lo \in Nat /\ change.near \in BOOLEAN
      /\ window \in Windows
  BY DEF Changes, Windows
<1>3. text \in Seq(C)
  <2>1. CASE change.full
    BY <2>1 DEF NewText
  <2>2. CASE ~change.full
    BY <1>1, <2>2, NewTextIs
  <2> QED
    BY <2>1, <2>2
<1>4. edits \in Seq(Windows) /\ edits # <<>>
  <2> HIDE DEF window
  <2>1. CASE change.full
    <3>1. edits = <<window>>
      BY <2>1
    <3>2. <<window>> \in Seq(Windows) /\ <<window>> # <<>>
      BY <1>2
    <3> QED
      BY <3>1, <3>2
  <2>2. CASE ~change.full
    <3>1. edits = Append(state.edits, window)
      BY <2>2
    <3>2. /\ Append(state.edits, window) \in Seq(Windows)
          /\ Len(Append(state.edits, window)) = Len(state.edits) + 1 /\ Len(state.edits) \in Nat
      BY <1>1, <1>2, AppendProperties
    <3>3. Append(state.edits, window) # <<>>
      BY <3>2
    <3> QED
      BY <3>1, <3>2, <3>3
  <2> QED
    BY <2>1, <2>2
<1>5. ASSUME NEW c \in 1..Len(old) + 1, \A i \in DOMAIN edits : edits[i].lo > 2 * c
      PROVE  c - 1 <= Len(text) /\ \A j \in 1..c - 1 : text[j] = old[j]
  <2>0. c \in Nat /\ 2 * c \in Nat
    OBVIOUS
  <2>1. CASE change.full
    <3>1. edits = <<window>> /\ window.lo = 0
      BY <2>1
    <3>2. edits[1].lo > 2 * c
      BY <1>5, <3>1
    <3> QED
      BY <2>0, <3>1, <3>2
  <2>2. CASE ~change.full
    <3>1. edits = Append(state.edits, window) /\ window.lo = change.lo
      BY <2>2
    <3> HIDE DEF edits, window, text
    <3>2. ASSUME NEW i \in DOMAIN state.edits PROVE state.edits[i].lo > 2 * c
      <4>1. i \in DOMAIN edits /\ edits[i] = state.edits[i]
        BY <1>1, <1>2, <3>1
      <4> QED
        BY <1>5, <4>1
    <3>3. change.lo > 2 * c
      <4>1. Len(state.edits) + 1 \in DOMAIN edits /\ edits[Len(state.edits) + 1] = window
        BY <1>1, <1>2, <3>1
      <4> QED
        BY <1>5, <3>1, <4>1
    <3>4. c - 1 <= Len(state.text) /\ \A j \in 1..c - 1 : state.text[j] = old[j]
      BY <3>2 DEF Edited, SameBefore
    <3>5. /\ CellOf(change) \in Nat \ {0} /\ text \in Seq(C)
          /\ CellOf(change) - 1 <= Len(text)
          /\ \A j \in 1..CellOf(change) - 1 : text[j] = state.text[j]
      BY <1>1, <2>2, NewTextIs DEF text
    <3>6. c <= CellOf(change)
      BY <1>2, <2>0, <3>3 DEF CellOf
    <3>7. Len(text) \in Nat
      BY <3>5
    <3> QED
      BY <2>0, <3>4, <3>5, <3>6, <3>7
  <2> QED
    BY <2>1, <2>2
<1>6. Edited(C, old, next)
  <2> HIDE DEF text, edits
  <2> QED
    BY <1>3, <1>4, <1>5 DEF Edited, SameBefore
<1>7. ApplyTextChange(state, change) = IF text = state.text THEN state ELSE next
  BY DEF ApplyTextChange
<1> HIDE DEF next
<1> QED
  BY <1>6, <1>7

(* The state after every change of a message is defined by the one before. *)
LEMMA ChangesAre ==
  ASSUME NEW text, NEW batch, Len(batch) \in Nat
  PROVE  LET after == ApplyChanges(text, batch) IN
         /\ after[0] = [text |-> text, edits |-> <<>>, changed |-> FALSE]
         /\ \A n \in 1..Len(batch) : after[n] = ApplyTextChange(after[n - 1], batch[n])
<1> DEFINE init == [text |-> text, edits |-> <<>>, changed |-> FALSE]
           Is(f, n) == f = [i \in 0..n |-> IF i = 0 THEN init
                                           ELSE ApplyTextChange(f[i - 1], batch[i])]
           Fails == {n \in 0..Len(batch) : ~\E f : Is(f, n)}
<1>1. \E f : Is(f, 0)
  <2>1. Is([i \in 0..0 |-> init], 0)
    OBVIOUS
  <2> QED
    BY <2>1
<1>2. ASSUME NEW n \in 1..Len(batch), NEW f, Is(f, n - 1) PROVE \E g : Is(g, n)
  <2> DEFINE g == [i \in 0..n |-> IF i < n THEN f[i] ELSE ApplyTextChange(f[n - 1], batch[n])]
  <2>1. n \in Nat /\ n >= 1
    OBVIOUS
  <2>2. ASSUME NEW i \in 0..n
        PROVE  g[i] = IF i = 0 THEN init ELSE ApplyTextChange(g[i - 1], batch[i])
    <3>1. CASE i = 0
      <4>1. g[i] = f[0] /\ 0 \in 0..n - 1
        BY <2>1, <3>1
      <4>2. f[0] = init
        BY <1>2, <4>1
      <4> QED
        BY <3>1, <4>1, <4>2
    <3>2. CASE i # 0 /\ i < n
      <4>1. g[i] = f[i] /\ g[i - 1] = f[i - 1] /\ i \in 0..n - 1
        BY <2>1, <3>2
      <4>2. f[i] = ApplyTextChange(f[i - 1], batch[i])
        BY <1>2, <3>2, <4>1
      <4> QED
        BY <3>2, <4>1, <4>2
    <3>3. CASE i = n
      <4>1. g[i] = ApplyTextChange(f[n - 1], batch[n]) /\ g[n - 1] = f[n - 1] /\ i # 0
        BY <2>1, <3>3
      <4> QED
        BY <3>3, <4>1
    <3> QED
      BY <2>1, <3>1, <3>2, <3>3
  <2>3. g = [i \in 0..n |-> g[i]]
    OBVIOUS
  <2> HIDE DEF g
  <2>4. Is(g, n)
    BY <2>2, <2>3
  <2> QED
    BY <2>4
<1> HIDE DEF Is
<1>3. Fails = {}
  <2> SUFFICES ASSUME Fails # {} PROVE FALSE
    OBVIOUS
  <2>1. PICK n \in Fails : \A m \in Fails : n <= m
    <3>1. Fails \subseteq Nat
      OBVIOUS
    <3> HIDE DEF Fails
    <3> QED
      BY <3>1, LeastNumber
  <2>2. n \in 1..Len(batch) /\ n - 1 \in 0..Len(batch)
    BY <1>1
  <2>3. n - 1 \notin Fails
    BY <2>1, <2>2
  <2>4. PICK f : Is(f, n - 1)
    BY <2>2, <2>3
  <2>5. \E g : Is(g, n)
    BY <1>2, <2>2, <2>4
  <2> QED
    BY <2>5
<1>4. \E f : Is(f, Len(batch))
  BY <1>3
<1> DEFINE after == ApplyChanges(text, batch)
<1>5. after = CHOOSE f : Is(f, Len(batch))
  BY DEF ApplyChanges, Is
<1>6. Is(after, Len(batch))
  <2> HIDE DEF after
  <2> QED
    BY <1>4, <1>5
<1> HIDE DEF after
<1>7. /\ after[0] = init
      /\ \A n \in 1..Len(batch) : after[n] = ApplyTextChange(after[n - 1], batch[n])
  <2>1. \A i \in 0..Len(batch) :
          after[i] = IF i = 0 THEN init ELSE ApplyTextChange(after[i - 1], batch[i])
    BY <1>6 DEF Is
  <2>2. 0 \in 0..Len(batch) /\ \A n \in 1..Len(batch) : n \in 0..Len(batch) /\ n # 0
    OBVIOUS
  <2> QED
    BY <2>1, <2>2
<1> QED
  BY <1>7 DEF after

(* What a message does to a document: the text it leaves, and edits that   *)
(* tell where it begins to differ.                                         *)
LEMMA BatchOK ==
  ASSUME NEW C, Drawn(C), NEW old \in Seq(C), NEW batch \in Batches, BatchApplicable(old, batch)
  PROVE  Edited(C, old, ApplyBatch(old, batch))
<1> DEFINE after == ApplyChanges(old, batch)
           Fails == {n \in 0..Len(batch) : ~Edited(C, old, after[n])}
<1>1. /\ batch \in Seq(Changes) /\ Len(batch) \in Nat
      /\ \A n \in 1..Len(batch) : /\ batch[n] \in Changes /\ batch[n].new \in Seq(C)
                                  /\ batch[n].full \/ batch[n].lo >= 2
  <2>1. batch \in Seq(Changes)
    BY ServerAssumption
  <2>2. DOMAIN batch = 1..Len(batch) /\ Len(batch) \in Nat /\ \A n \in DOMAIN batch : batch[n] \in Changes
    BY <2>1
  <2> QED
    BY <2>1, <2>2, ServerAssumption DEF Drawn
<1>2. /\ after[0] = [text |-> old, edits |-> <<>>, changed |-> FALSE]
      /\ \A n \in 1..Len(batch) : after[n] = ApplyTextChange(after[n - 1], batch[n])
  BY <1>1, ChangesAre
<1>3. \A n \in 1..Len(batch) : Applicable(after[n - 1].text, batch[n])
  BY DEF BatchApplicable
<1> HIDE DEF after
<1>4. Edited(C, old, after[0])
  <2>1. <<>> \in Seq(Windows) /\ Len(old) \in Nat
    OBVIOUS
  <2>2. SameBefore(<<>>, old, old)
    BY <2>1 DEF SameBefore
  <2> QED
    BY <1>2, <2>1, <2>2 DEF Edited
<1>5. ASSUME NEW n \in 1..Len(batch), Edited(C, old, after[n - 1]) PROVE Edited(C, old, after[n])
  <2>1. Applicable(after[n - 1].text, batch[n]) /\ after[n] = ApplyTextChange(after[n - 1], batch[n])
    BY <1>2, <1>3
  <2>2. batch[n] \in Changes /\ batch[n].new \in Seq(C) /\ (batch[n].full \/ batch[n].lo >= 2)
    BY <1>1
  <2> QED
    BY <1>5, <2>1, <2>2, ChangeOK
<1>6. Fails = {}
  <2> SUFFICES ASSUME Fails # {} PROVE FALSE
    OBVIOUS
  <2>1. PICK n \in Fails : \A m \in Fails : n <= m
    <3>1. Fails \subseteq Nat
      BY <1>1
    <3> HIDE DEF Fails
    <3> QED
      BY <3>1, LeastNumber
  <2>2. n \in 1..Len(batch) /\ n - 1 \in 0..Len(batch)
    BY <1>1, <1>4
  <2>3. n - 1 \notin Fails
    BY <1>1, <2>1, <2>2
  <2>4. Edited(C, old, after[n - 1])
    BY <2>2, <2>3
  <2> QED
    BY <1>5, <2>2, <2>4
<1>7. Edited(C, old, after[Len(batch)])
  BY <1>1, <1>6
<1> QED
  BY <1>7 DEF ApplyBatch, after

-----------------------------------------------------------------------------
(* The lint context. *)

(* A context is of a configuration. *)
Of(ctx, config) ==
  IF config.ok /\ MainBundle \in DOMAIN config.units
  THEN ctx.ok = TRUE /\ ctx.units = config.units
  ELSE ctx.ok = FALSE

(* The bundles of a configuration. *)
ConfigOK(units) ==
  DOMAIN units \subseteq Bundles /\ \A b \in DOMAIN units :
    units[b].deps \in Seq(Bundles) /\ units[b].sources \subseteq SourceFiles[b]

(* A configuration tells whether it is one, and its bundles. *)
LEMMA ConfigIs ==
  ASSUME NEW c \in Configs
  PROVE  c.ok \in BOOLEAN /\ ConfigOK(c.units)
BY ServerAssumption DEF ConfigOK

(* A project is three parts: its configuration is one of those there are,  *)
(* and its indexes are right or marked.                                    *)
ProjectOK(p) ==
  /\ p = [cfg |-> p.cfg, src |-> p.src, idx |-> p.idx]
  /\ p.cfg \in Configs /\ p.src \in ProjectTexts /\ IndexesOK(p.src, p.idx)

(* The project as a configuration shows it. *)
ShownAs(p, units, q) ==
  /\ q.idx = p.idx /\ q.src = Listed(p.src, units)
  /\ UnitsOK(Deps(units)) /\ DOMAIN Deps(units) = DOMAIN units
  /\ Agrees(q.src, p.src) /\ Agrees(q.src, q.src)
  /\ IndexesOK(p.src, q.idx) /\ IndexesOK(q.src, q.idx)

LEMMA AsListedIs ==
  ASSUME NEW p, ProjectOK(p), NEW units, ConfigOK(units)
  PROVE  ShownAs(p, units, AsListed(p, units))
<1> DEFINE q == AsListed(p, units)
           src == Listed(p.src, units)
           files(b) == IF b \in DOMAIN units THEN units[b].sources ELSE {}
<1>1. q = [p EXCEPT !.src = src]
  BY DEF AsListed, ProjectOK
<1>2. src = [b \in Bundles |-> [f \in files(b) |-> p.src[b][f]]]
  BY DEF Listed
<1> HIDE DEF q, src
<1>3. q = [cfg |-> p.cfg, src |-> src, idx |-> p.idx]
  BY <1>1 DEF ProjectOK
<1>4. q.idx = p.idx /\ q.src = src
  BY <1>3
<1>5. UnitsOK(Deps(units)) /\ DOMAIN Deps(units) = DOMAIN units
  BY DEF ConfigOK, UnitsOK, Deps
<1>6. ASSUME NEW b \in Bundles
      PROVE  /\ DOMAIN p.src[b] = SourceFiles[b] /\ files(b) \subseteq SourceFiles[b]
             /\ src[b] = [f \in files(b) |-> p.src[b][f]]
  BY <1>2 DEF ProjectOK, ProjectTexts, ConfigOK
<1> HIDE DEF files
<1>7. ASSUME NEW b \in Bundles
      PROVE  /\ DOMAIN src[b] \subseteq DOMAIN p.src[b]
             /\ src[b] = [f \in DOMAIN src[b] |-> src[b][f]]
             /\ \A f \in DOMAIN src[b] : src[b][f] = p.src[b][f]
  BY <1>6
<1>8. Agrees(src, p.src) /\ Agrees(src, src)
  BY <1>7 DEF Agrees
<1>9. IndexesOK(p.src, p.idx)
  BY DEF ProjectOK
<1>10. IndexesOK(src, p.idx)
  <2>1. ASSUME NEW b \in Bundles PROVE IndexOK(src[b], p.idx[b])
    <3>1. IndexOK(p.src[b], p.idx[b])
      BY <1>9 DEF IndexesOK
    <3> QED
      BY <1>7, <3>1 DEF IndexOK, Says
  <2> QED
    BY <1>9, <2>1 DEF IndexesOK
<1> QED
  BY <1>4, <1>5, <1>8, <1>9, <1>10 DEF ShownAs, q, src

(* A cache entry that still has its key holds what config.lei says.        *)
CachesOK(p, c) ==
  /\ c = [units |-> [full |-> c.units.full, key |-> c.units.key, units |-> c.units.units],
          ctx |-> [full |-> c.ctx.full, key |-> c.ctx.key, ctx |-> c.ctx.ctx]]
  /\ c.units.full \in BOOLEAN /\ c.units.key \in BOOLEAN
  /\ c.ctx.full \in BOOLEAN /\ c.ctx.key \in BOOLEAN
  /\ (c.units.full = TRUE /\ c.units.key = TRUE) => p.cfg.ok = TRUE /\ c.units.units = p.cfg.units
  /\ (c.ctx.full = TRUE /\ c.ctx.key = TRUE) =>
       p.cfg.ok = TRUE /\ MainBundle \in DOMAIN p.cfg.units /\ Of(c.ctx.ctx, p.cfg)

OverlayOK(o) == o.open \in BOOLEAN /\ (o.open => o.cfg \in Configs)

(* The configuration in force is one of those there are. *)
LEMMA InForceIs ==
  ASSUME NEW p, ProjectOK(p), NEW o, OverlayOK(o)
  PROVE  /\ EffectiveConfig(p, o).ok \in BOOLEAN /\ ConfigOK(EffectiveConfig(p, o).units)
<1>1. EffectiveConfig(p, o) \in Configs
  BY DEF EffectiveConfig, ProjectOK, OverlayOK
<1> HIDE DEF EffectiveConfig
<1> QED
  BY <1>1, ConfigIs

(* The caches after an invalidation. *)
LEMMA InvalidatedOK == \A p : CachesOK(p, NoCaches)
BY DEF CachesOK, NoCaches, EmptyUnits, EmptyCtx

(* What was got of the units is what the configuration in force says. *)
GotRight(p, o, got) ==
  /\ got.ok \in BOOLEAN
  /\ got.ok = EffectiveConfig(p, o).ok
  /\ got.ok = TRUE => got.units = EffectiveConfig(p, o).units
  /\ CachesOK(p, got.caches)

(* The cache of the units never hides a configuration. *)
LEMMA UnitsRight ==
  ASSUME NEW p, ProjectOK(p), NEW c, CachesOK(p, c), NEW o, OverlayOK(o)
  PROVE  GotRight(p, o, GetBundleUnits(p, c, o))
<1> DEFINE hit == ~o.open /\ c.units.full /\ c.units.key
           config == EffectiveConfig(p, o)
           got == GetBundleUnits(p, c, o)
<1>1. config.ok \in BOOLEAN /\ o.open \in BOOLEAN
  BY InForceIs DEF OverlayOK
<1>2. CASE hit
  <2>1. got = [ok |-> TRUE, units |-> c.units.units, caches |-> c]
    BY <1>2 DEF GetBundleUnits
  <2>2. config = p.cfg /\ p.cfg.ok = TRUE /\ c.units.units = p.cfg.units
    BY <1>2 DEF EffectiveConfig, CachesOK
  <2>3. got.ok = TRUE /\ got.units = c.units.units /\ got.caches = c
    BY <2>1
  <2> HIDE DEF got, config
  <2> QED
    BY <2>2, <2>3 DEF GotRight, config, got
<1>3. CASE ~hit /\ ~config.ok
  <2>1. got = [ok |-> FALSE, units |-> <<>>, caches |-> c]
    BY <1>3 DEF GetBundleUnits
  <2>2. got.ok = FALSE /\ got.caches = c
    BY <2>1
  <2>3. config.ok = FALSE
    BY <1>1, <1>3
  <2> HIDE DEF got, config
  <2> QED
    BY <2>2, <2>3 DEF GotRight, config, got
<1>4. CASE ~hit /\ config.ok
  <2> DEFINE kept == IF o.open THEN c
                     ELSE [c EXCEPT !.units = [full |-> TRUE, key |-> TRUE, units |-> config.units]]
  <2>1. got = [ok |-> TRUE, units |-> config.units, caches |-> kept]
    BY <1>4 DEF GetBundleUnits
  <2>2. CachesOK(p, kept)
    <3>1. CASE o.open
      BY <3>1
    <3>2. CASE ~o.open
      <4>1. config = p.cfg
        BY <3>2 DEF EffectiveConfig
      <4>2. kept = [units |-> [full |-> TRUE, key |-> TRUE, units |-> p.cfg.units], ctx |-> c.ctx]
        BY <3>2, <4>1 DEF CachesOK
      <4>3. p.cfg.ok = TRUE
        BY <1>1, <1>4, <4>1
      <4> HIDE DEF kept, config
      <4>4. /\ kept.units = [full |-> TRUE, key |-> TRUE, units |-> p.cfg.units] /\ kept.ctx = c.ctx
            /\ kept = [units |-> kept.units, ctx |-> kept.ctx]
        BY <4>2
      <4>5. /\ kept.units.full = TRUE /\ kept.units.key = TRUE /\ kept.units.units = p.cfg.units
            /\ kept.units = [full |-> kept.units.full, key |-> kept.units.key,
                             units |-> kept.units.units]
        BY <4>4
      <4>6. /\ c.ctx = [full |-> c.ctx.full, key |-> c.ctx.key, ctx |-> c.ctx.ctx]
            /\ c.ctx.full \in BOOLEAN /\ c.ctx.key \in BOOLEAN
        BY DEF CachesOK
      <4>7. kept = [units |-> [full |-> kept.units.full, key |-> kept.units.key,
                              units |-> kept.units.units],
                    ctx |-> [full |-> kept.ctx.full, key |-> kept.ctx.key, ctx |-> kept.ctx.ctx]]
        BY <4>4, <4>5, <4>6
      <4>8. (c.ctx.full = TRUE /\ c.ctx.key = TRUE) =>
              p.cfg.ok = TRUE /\ MainBundle \in DOMAIN p.cfg.units /\ Of(c.ctx.ctx, p.cfg)
        BY DEF CachesOK
      <4> QED
        BY <4>3, <4>4, <4>5, <4>6, <4>7, <4>8, Zenon DEF CachesOK
    <3> QED
      BY <1>1, <3>1, <3>2
  <2> HIDE DEF kept
  <2>3. got.ok = TRUE /\ got.units = config.units /\ got.caches = kept
    BY <2>1
  <2>4. config.ok = TRUE
    BY <1>1, <1>4
  <2> HIDE DEF got, config
  <2> QED
    BY <2>2, <2>3, <2>4 DEF GotRight, config, got
<1> QED
  BY <1>2, <1>3, <1>4

(* What building a context gives. *)
LintedOK(p, o, lint) ==
  /\ Of(lint.ctx, EffectiveConfig(p, o))
  /\ ProjectOK(lint.project) /\ lint.project.cfg = p.cfg /\ lint.project.src = p.src
  /\ CachesOK(lint.project, lint.caches)

(* Building the context, or finding it, gives one of the configuration in  *)
(* force, changes no more of the project than its indexes, and caches      *)
(* nothing of an open config.lei.                                          *)
LEMMA LintRight ==
  ASSUME NEW p, ProjectOK(p), NEW c, CachesOK(p, c), NEW o, OverlayOK(o)
  PROVE  LintedOK(p, o, BuildLintContext(p, c, o))
<1> DEFINE got == GetBundleUnits(p, c, o)
           config == EffectiveConfig(p, o)
           hit == ~o.open /\ got.caches.ctx.full /\ got.caches.ctx.key
           lint == BuildLintContext(p, c, o)
<1>1. /\ got.ok \in BOOLEAN /\ got.ok = config.ok /\ (got.ok = TRUE => got.units = config.units)
      /\ CachesOK(p, got.caches)
  BY UnitsRight DEF GotRight
<1>2. o.open \in BOOLEAN
  BY DEF OverlayOK
<1> HIDE DEF got
<1>3. lint = ContextFrom(p, o, got)
  BY DEF BuildLintContext, got
<1>4. CASE ~got.ok \/ (~hit /\ MainBundle \notin DOMAIN got.units)
  <2>1. lint = [ctx |-> NoContext, project |-> p, caches |-> got.caches]
    BY <1>3, <1>4 DEF ContextFrom
  <2>2. ~(config.ok /\ MainBundle \in DOMAIN config.units)
    <3>1. CASE ~got.ok
      BY <1>1, <3>1
    <3>2. CASE got.ok
      BY <1>1, <1>4, <3>2
    <3> QED
      BY <3>1, <3>2
  <2>3. Of(NoContext, config)
    BY <2>2 DEF Of, NoContext
  <2>4. lint.ctx = NoContext /\ lint.project = p /\ lint.caches = got.caches
    BY <2>1
  <2> HIDE DEF lint
  <2> QED
    BY <1>1, <2>3, <2>4 DEF LintedOK, lint
<1>5. CASE got.ok /\ hit
  <2>1. lint = [ctx |-> got.caches.ctx.ctx, project |-> p, caches |-> got.caches]
    BY <1>3, <1>5 DEF ContextFrom
  <2>2. Of(got.caches.ctx.ctx, p.cfg) /\ config = p.cfg
    BY <1>1, <1>5 DEF CachesOK, EffectiveConfig
  <2>3. lint.ctx = got.caches.ctx.ctx /\ lint.project = p /\ lint.caches = got.caches
    BY <2>1
  <2> HIDE DEF lint
  <2> QED
    BY <1>1, <2>2, <2>3 DEF LintedOK, lint
<1>6. CASE got.ok /\ ~hit /\ MainBundle \in DOMAIN got.units
  <2> DEFINE walk == LoadBundles(AsListed(p, got.units), Deps(got.units))
             ctx == [ok |-> TRUE, units |-> got.units, loaded |-> walk.loaded]
             kept == IF o.open THEN got.caches
                     ELSE [got.caches EXCEPT !.ctx = [full |-> TRUE, key |-> TRUE, ctx |-> ctx]]
             q == [p EXCEPT !.idx = walk.idx]
  <2>1. lint = [ctx |-> ctx, project |-> q, caches |-> kept]
    BY <1>3, <1>6 DEF ContextFrom, Built
  <2>0. IndexesOK(p.src, walk.idx)
    <3> DEFINE shown == AsListed(p, got.units)
               deps == Deps(got.units)
    <3>1. ConfigOK(got.units)
      <4>1. ConfigOK(config.units)
        BY InForceIs
      <4> QED
        BY <1>1, <1>6, <4>1
    <3>3. ShownAs(p, got.units, shown)
      BY <3>1, AsListedIs
    <3> HIDE DEF shown
    <3>4. /\ UnitsOK(deps) /\ MainBundle \in DOMAIN deps
          /\ Agrees(shown.src, p.src) /\ IndexesOK(p.src, shown.idx)
      BY <1>6, <3>3 DEF ShownAs
    <3> HIDE DEF deps
    <3>5. WalkOK(p.src, LoadBundles(shown, deps))
      BY <3>4, LoadBundlesOK
    <3>2. WalkOK(p.src, walk)
      BY <3>5 DEF shown, deps
    <3> QED
      BY <3>2 DEF WalkOK
  <2> HIDE DEF walk
  <2>2. q = [cfg |-> p.cfg, src |-> p.src, idx |-> walk.idx]
    BY DEF ProjectOK
  <2>3. ProjectOK(q) /\ q.cfg = p.cfg /\ q.src = p.src
    <3>1. q.cfg = p.cfg /\ q.src = p.src /\ q.idx = walk.idx
      BY <2>2
    <3> QED
      BY <2>0, <2>2, <3>1 DEF ProjectOK
  <2>4. Of(ctx, config) /\ config.ok = TRUE /\ MainBundle \in DOMAIN config.units
    BY <1>1, <1>6 DEF Of
  <2> HIDE DEF ctx
  <2>5. CachesOK(q, kept)
    <3>1. CASE o.open
      BY <1>1, <2>3, <3>1 DEF CachesOK
    <3>2. CASE ~o.open
      <4>1. config = p.cfg
        BY <3>2 DEF EffectiveConfig
      <4>2. kept = [units |-> got.caches.units, ctx |-> [full |-> TRUE, key |-> TRUE, ctx |-> ctx]]
        BY <1>1, <3>2 DEF CachesOK
      <4> DEFINE units == got.caches.units
      <4>3. /\ units = [full |-> units.full, key |-> units.key, units |-> units.units]
            /\ units.full \in BOOLEAN /\ units.key \in BOOLEAN
            /\ (units.full = TRUE /\ units.key = TRUE) =>
                 p.cfg.ok = TRUE /\ units.units = p.cfg.units
        BY <1>1 DEF CachesOK
      <4> HIDE DEF kept, q, units
      <4>4. /\ kept.units = units /\ kept.ctx = [full |-> TRUE, key |-> TRUE, ctx |-> ctx]
            /\ kept = [units |-> kept.units, ctx |-> kept.ctx]
        BY <4>2 DEF units
      <4>5. /\ kept.ctx.full = TRUE /\ kept.ctx.key = TRUE /\ kept.ctx.ctx = ctx
            /\ kept.ctx = [full |-> kept.ctx.full, key |-> kept.ctx.key, ctx |-> kept.ctx.ctx]
        BY <4>4
      <4>6. kept = [units |-> [full |-> kept.units.full, key |-> kept.units.key,
                              units |-> kept.units.units],
                    ctx |-> [full |-> kept.ctx.full, key |-> kept.ctx.key, ctx |-> kept.ctx.ctx]]
        BY <4>3, <4>4, <4>5
      <4>7. /\ q.cfg.ok = TRUE /\ MainBundle \in DOMAIN q.cfg.units
            /\ Of(kept.ctx.ctx, q.cfg)
        BY <2>3, <2>4, <4>1, <4>5
      <4>8. (kept.units.full = TRUE /\ kept.units.key = TRUE) =>
              q.cfg.ok = TRUE /\ kept.units.units = q.cfg.units
        BY <2>3, <4>3, <4>4
      <4> QED
        BY <4>3, <4>4, <4>5, <4>6, <4>7, <4>8, Zenon DEF CachesOK
    <3> QED
      BY <1>2, <3>1, <3>2
  <2> HIDE DEF q, kept
  <2>6. lint.ctx = ctx /\ lint.project = q /\ lint.caches = kept
    BY <2>1
  <2> HIDE DEF lint
  <2> QED
    BY <2>3, <2>4, <2>5, <2>6 DEF LintedOK, lint
<1> QED
  BY <1>1, <1>4, <1>5, <1>6

(* Of every index that a configuration uses it is known what it was made   *)
(* of.                                                                     *)
Known(p, units) == \A b \in DOMAIN units : ListKnown(Listed(p.src, units), p.idx, b)

(* What a document sees of the sources. *)
Visible(p, units) == VisibleExports(Listed(p.src, units), Deps(units))

(* A context that is built without caches has what the sources export,     *)
(* unless the index of a dependency cannot be read or it is not known what *)
(* one was made of.                                                        *)
LEMMA FreshRight ==
  ASSUME NEW p, ProjectOK(p), NEW o, OverlayOK(o),
         \A b \in Bundles \ {MainBundle} : p.idx[b].state # "unreadable"
  PROVE  LET ctx == BuildLintContext(p, NoCaches, o).ctx
         IN  ctx.ok /\ Known(p, ctx.units) => ctx.loaded = Visible(p, ctx.units)
<1> DEFINE got == GetBundleUnits(p, NoCaches, o)
           config == EffectiveConfig(p, o)
           lint == BuildLintContext(p, NoCaches, o)
<1>1. config.ok \in BOOLEAN /\ ConfigOK(config.units) /\ o.open \in BOOLEAN
  BY InForceIs DEF OverlayOK
<1>2. /\ NoCaches.units.full = FALSE /\ NoCaches.ctx.full = FALSE
  BY DEF NoCaches, EmptyUnits, EmptyCtx
<1>3. CASE ~config.ok
  <2>1. got = [ok |-> FALSE, units |-> <<>>, caches |-> NoCaches]
    BY <1>2, <1>3 DEF GetBundleUnits
  <2>2. ~got.ok
    BY <2>1
  <2> HIDE DEF got
  <2>3. lint = [ctx |-> NoContext, project |-> p, caches |-> got.caches]
    BY <2>2 DEF BuildLintContext, ContextFrom, got
  <2>4. lint.ctx = NoContext /\ NoContext.ok = FALSE
    BY <2>3 DEF NoContext
  <2> QED
    BY <2>4
<1>4. CASE config.ok
  <2> DEFINE kept == IF o.open THEN NoCaches
                     ELSE [NoCaches EXCEPT !.units =
                             [full |-> TRUE, key |-> TRUE, units |-> config.units]]
  <2>1. got = [ok |-> TRUE, units |-> config.units, caches |-> kept]
    BY <1>2, <1>4 DEF GetBundleUnits
  <2>2. kept.ctx.full = FALSE
    BY <1>2 DEF NoCaches
  <2> HIDE DEF kept
  <2>3. got.ok /\ got.units = config.units /\ got.caches.ctx.full = FALSE
    BY <2>1, <2>2
  <2> HIDE DEF got
  <2>4. lint = ContextFrom(p, o, got)
    BY DEF BuildLintContext, got
  <2>5. CASE MainBundle \notin DOMAIN config.units
    <3>1. lint = [ctx |-> NoContext, project |-> p, caches |-> got.caches]
      BY <2>3, <2>4, <2>5 DEF ContextFrom
    <3>2. lint.ctx = NoContext /\ NoContext.ok = FALSE
      BY <3>1 DEF NoContext
    <3> QED
      BY <3>2
  <2>6. CASE MainBundle \in DOMAIN config.units
    <3> DEFINE walk == LoadBundles(AsListed(p, got.units), Deps(got.units))
               ctx == [ok |-> TRUE, units |-> got.units, loaded |-> walk.loaded]
    <3>1. lint = Built(p, got, o, walk)
      BY <2>3, <2>4, <2>6 DEF ContextFrom
    <3>2. ASSUME Known(p, got.units) PROVE walk.loaded = Visible(p, got.units)
      <4> DEFINE shown == AsListed(p, got.units)
                 deps == Deps(got.units)
      <4>1. ShownAs(p, got.units, shown)
        BY <1>1, <2>3, AsListedIs
      <4> HIDE DEF shown
      <4>2. /\ UnitsOK(deps) /\ MainBundle \in DOMAIN deps
            /\ Agrees(shown.src, shown.src) /\ IndexesOK(shown.src, shown.idx)
            /\ shown.src = Listed(p.src, got.units) /\ shown.idx = p.idx
            /\ DOMAIN deps = DOMAIN got.units
        BY <2>3, <2>6, <4>1 DEF ShownAs
      <4>3. \A b \in DOMAIN deps : ListKnown(shown.src, shown.idx, b)
        BY <3>2, <4>2 DEF Known
      <4> HIDE DEF deps
      <4>4. LoadBundles(shown, deps).loaded = VisibleExports(shown.src, deps)
        BY <4>2, <4>3, LoadsWhatIsVisible
      <4> QED
        BY <4>2, <4>4 DEF shown, deps, Visible
    <3> HIDE DEF walk
    <3>3. lint.ctx = ctx
      BY <3>1 DEF Built
    <3>4. lint.ctx.units = got.units /\ lint.ctx.loaded = walk.loaded
      BY <3>3
    <3> QED
      BY <3>2, <3>4
  <2> QED
    BY <2>5, <2>6
<1> QED
  BY <1>1, <1>3, <1>4

-----------------------------------------------------------------------------
(* Analysis. *)

(* The items of a session have their source texts, and are those of the    *)
(* text where cells are separate.                                          *)
ParsedOK(C, session, text) ==
  SessionOK(session) /\ (Separate(C) => ItemsAre(session, text))

(* A session from which a parse with these edits gives the items of the    *)
(* text.                                                                   *)
Ready(C, session, text, edits) ==
  \/ session = NoSession
  \/ \E old \in Seq(C) :
       /\ ParsedOK(C, session, old) /\ edits \in Seq(Windows)
       /\ SameBefore(edits, old, text) /\ (edits = <<>> => text = old)

(* The parse step, whichever way it goes. *)
LEMMA ParseStepOK ==
  ASSUME NEW C, C \subseteq Cells, NEW d, d.text \in Seq(C), NEW edits,
         Ready(C, d.session, d.text, edits)
  PROVE  ParsedOK(C, ParseStep(d, edits).session, d.text)
<1> DEFINE next == ParseStep(d, edits)
<1>1. d.text \in Seq(Cells)
  OBVIOUS
<1>2. ParsedOK(C, FullRebuild(d.text).session, d.text)
  <2>1. SessionOK(FullRebuild(d.text).session)
    BY <1>1, RebuiltOK
  <2>2. Separate(C) => ItemsAre(FullRebuild(d.text).session, d.text)
    BY RebuiltCurrent
  <2> QED
    BY <2>1, <2>2 DEF ParsedOK
<1>3. CASE d.session = NoSession
  <2>1. ~d.session.ready
    BY <1>3 DEF NoSession
  <2>2. next = FullRebuild(d.text)
    BY <2>1 DEF ParseStep
  <2> QED
    BY <1>2, <2>2
<1>4. CASE d.session # NoSession
  <2>1. PICK old \in Seq(C) :
          /\ ParsedOK(C, d.session, old) /\ edits \in Seq(Windows)
          /\ SameBefore(edits, old, d.text) /\ (edits = <<>> => d.text = old)
    BY <1>4 DEF Ready
  <2>2. d.session.ready = TRUE /\ SessionOK(d.session)
    BY <2>1 DEF ParsedOK, SessionOK
  <2>3. CASE edits # <<>>
    <3>1. next = ReparseWithEdits(d.session, d.text, edits)
      BY <2>2, <2>3 DEF ParseStep
    <3>2. SessionOK(ReparseWithEdits(d.session, d.text, edits).session)
      BY <1>1, <2>1, <2>2, ReparsedOK
    <3>3. ASSUME Separate(C)
          PROVE  ItemsAre(ReparseWithEdits(d.session, d.text, edits).session, d.text)
      <4>1. ItemsAre(d.session, old)
        BY <2>1, <3>3 DEF ParsedOK
      <4> QED
        BY <2>1, <2>2, <3>3, <4>1, ReparsedCurrent
    <3> QED
      BY <3>1, <3>2, <3>3 DEF ParsedOK
  <2>4. CASE edits = <<>>
    <3>1. next = [session |-> d.session, errs |-> {}, merged |-> FALSE]
      BY <2>2, <2>4 DEF ParseStep
    <3> QED
      BY <2>1, <2>4, <3>1
  <2> QED
    BY <2>3, <2>4
<1> QED
  BY <1>3, <1>4

(* A document in the server. *)
DocShape(d) ==
  d = [open |-> d.open, text |-> d.text, session |-> d.session, current |-> d.current,
       errs |-> d.errs, ctx |-> d.ctx]

WorldShape(w) ==
  w = [project |-> w.project, caches |-> w.caches, doc |-> w.doc, published |-> w.published]

(* The disk and the caches agree. *)
DiskOK(w) == ProjectOK(w.project) /\ CachesOK(w.project, w.caches)

(* The document is analysed, and what its analysis found is published. *)
Shown(C, w) ==
  /\ ParsedOK(C, w.doc.session, w.doc.text)
  /\ w.doc.current = TRUE
  /\ w.published.errs = w.doc.errs /\ w.published.ctx = w.doc.ctx

(* Its analysis was made with the configuration in force. *)
InForce(w, o) == w.doc.errs = {} => Of(w.doc.ctx, EffectiveConfig(w.project, o))

(* A text is of the cells C, and no longer than the bound. *)
TextOK(C, text) == text \in Seq(C) /\ Len(text) <= MaxCells

(* A world with an open document, before it is analysed. *)
Opened(C, w) ==
  /\ WorldShape(w) /\ DiskOK(w) /\ DocShape(w.doc)
  /\ w.doc.open = TRUE /\ TextOK(C, w.doc.text)

(* A document after its analysis. *)
LEMMA AnalyzedDoc ==
  ASSUME NEW d, DocShape(d), NEW session, NEW errs, NEW ctx, NEW now
  PROVE  [d EXCEPT !.session = session, !.errs = errs, !.ctx = ctx, !.current = now]
           = [open |-> d.open, text |-> d.text, session |-> session, current |-> now,
              errs |-> errs, ctx |-> ctx]
<1> DEFINE d1 == [d EXCEPT !.session = session]
           d2 == [d1 EXCEPT !.errs = errs]
           d3 == [d2 EXCEPT !.ctx = ctx]
           d4 == [d3 EXCEPT !.current = now]
<1>1. [d EXCEPT !.session = session, !.errs = errs, !.ctx = ctx, !.current = now] = d4
  OBVIOUS
<1>2. PICK open, text, current, e, c :
        /\ d = [open |-> open, text |-> text, session |-> d.session, current |-> current,
                errs |-> e, ctx |-> c]
        /\ open = d.open /\ text = d.text
  BY DEF DocShape
<1>3. d1 = [open |-> open, text |-> text, session |-> session, current |-> current,
            errs |-> e, ctx |-> c]
  BY <1>2
<1> HIDE DEF d1
<1>4. d2 = [open |-> open, text |-> text, session |-> session, current |-> current,
            errs |-> errs, ctx |-> c]
  BY <1>3
<1> HIDE DEF d2
<1>5. d3 = [open |-> open, text |-> text, session |-> session, current |-> current,
            errs |-> errs, ctx |-> ctx]
  BY <1>4
<1> HIDE DEF d3
<1>6. d4 = [open |-> open, text |-> text, session |-> session, current |-> now,
            errs |-> errs, ctx |-> ctx]
  BY <1>5
<1> HIDE DEF d4
<1>7. open = d.open /\ text = d.text
  BY <1>2
<1> QED
  BY <1>1, <1>6, <1>7, Zenon

(* A document that is opened with a text. *)
LEMMA OpenedDoc ==
  ASSUME NEW d, DocShape(d), NEW open, NEW text
  PROVE  [d EXCEPT !.open = open, !.text = text]
           = [open |-> open, text |-> text, session |-> d.session, current |-> d.current,
              errs |-> d.errs, ctx |-> d.ctx]
<1> DEFINE d1 == [d EXCEPT !.open = open]
           d2 == [d1 EXCEPT !.text = text]
<1>1. [d EXCEPT !.open = open, !.text = text] = d2
  OBVIOUS
<1>2. PICK o, t, s, current, e, c :
        /\ d = [open |-> o, text |-> t, session |-> s, current |-> current, errs |-> e,
                ctx |-> c]
        /\ s = d.session /\ current = d.current /\ e = d.errs /\ c = d.ctx
  BY DEF DocShape
<1>3. d1 = [open |-> open, text |-> t, session |-> s, current |-> current, errs |-> e, ctx |-> c]
  BY <1>2
<1> HIDE DEF d1
<1>4. d2 = [open |-> open, text |-> text, session |-> s, current |-> current, errs |-> e,
            ctx |-> c]
  BY <1>3
<1> HIDE DEF d2
<1>5. s = d.session /\ current = d.current /\ e = d.errs /\ c = d.ctx
  BY <1>2
<1> QED
  BY <1>1, <1>4, <1>5, Zenon

(* Analysing the document puts it right. *)
LEMMA AnalyzeOK ==
  ASSUME NEW C, C \subseteq Cells, NEW w, Opened(C, w), NEW edits,
         Ready(C, w.doc.session, w.doc.text, edits), NEW o, OverlayOK(o)
  PROVE  LET next == AnalyzeDocument(w, edits, o)
         IN  Opened(C, next) /\ Shown(C, next) /\ InForce(next, o)
<1> DEFINE parsed == ParseStep(w.doc, edits)
           lint == BuildLintContext(w.project, w.caches, o)
           clean == parsed.errs = {}
           ctx == IF clean THEN lint.ctx ELSE NoContext
           p == IF clean THEN lint.project ELSE w.project
           c == IF clean THEN lint.caches ELSE w.caches
           d == [w.doc EXCEPT !.session = parsed.session, !.errs = parsed.errs,
                              !.ctx = ctx, !.current = TRUE]
           next == AnalyzeDocument(w, edits, o)
<1>1. ProjectOK(w.project) /\ CachesOK(w.project, w.caches)
  BY DEF Opened, DiskOK
<1>2. /\ Of(lint.ctx, EffectiveConfig(w.project, o))
      /\ ProjectOK(lint.project) /\ lint.project.cfg = w.project.cfg
      /\ CachesOK(lint.project, lint.caches)
  BY <1>1, LintRight DEF LintedOK
<1>3. ParsedOK(C, parsed.session, w.doc.text)
  BY ParseStepOK DEF Opened, TextOK
<1>4. next = [project |-> p, caches |-> c, doc |-> d,
              published |-> [errs |-> parsed.errs, ctx |-> ctx]]
  BY DEF AnalyzeDocument, Analyzed
<1> HIDE DEF lint, parsed, next
<1>5. ProjectOK(p) /\ CachesOK(p, c) /\ p.cfg = w.project.cfg
  BY <1>1, <1>2
<1>6. parsed.errs = {} => Of(ctx, EffectiveConfig(p, o))
  <2> SUFFICES ASSUME parsed.errs = {} PROVE Of(ctx, EffectiveConfig(p, o))
    OBVIOUS
  <2>1. ctx = lint.ctx /\ p = lint.project
    OBVIOUS
  <2>2. EffectiveConfig(p, o) = EffectiveConfig(w.project, o)
    BY <1>5 DEF EffectiveConfig
  <2> QED
    BY <1>2, <2>1, <2>2
<1> HIDE DEF ctx, p, c
<1>7. d = [open |-> w.doc.open, text |-> w.doc.text, session |-> parsed.session,
           current |-> TRUE, errs |-> parsed.errs, ctx |-> ctx]
  <2>1. DocShape(w.doc)
    BY DEF Opened
  <2> HIDE DEF d
  <2>2. \A session, errs, x, now :
          [w.doc EXCEPT !.session = session, !.errs = errs, !.ctx = x, !.current = now]
            = [open |-> w.doc.open, text |-> w.doc.text, session |-> session,
               current |-> now, errs |-> errs, ctx |-> x]
    BY <2>1, AnalyzedDoc, Zenon
  <2> QED
    BY <2>2, Zenon DEF d
<1> HIDE DEF d
<1>8. /\ next.project = p /\ next.caches = c /\ next.doc = d
      /\ next.published.errs = parsed.errs /\ next.published.ctx = ctx
      /\ WorldShape(next)
  BY <1>4 DEF WorldShape
<1>9. /\ d.open = TRUE /\ d.text = w.doc.text /\ d.session = parsed.session
      /\ d.current = TRUE /\ d.errs = parsed.errs /\ d.ctx = ctx /\ DocShape(d)
  BY <1>7 DEF Opened, DocShape
<1>10. Opened(C, next)
  BY <1>5, <1>8, <1>9 DEF Opened, DiskOK
<1>11. Shown(C, next)
  BY <1>3, <1>8, <1>9 DEF Shown
<1>12. InForce(next, o)
  BY <1>6, <1>8, <1>9 DEF InForce
<1> QED
  BY <1>10, <1>11, <1>12 DEF next

-----------------------------------------------------------------------------
(* The server. *)

(* What holds of the server's state under the overlay o; u tells whether   *)
(* config.lei was written behind the server's back.                        *)
ServerOK(C, w, o, u) ==
  /\ WorldShape(w) /\ DiskOK(w) /\ DocShape(w.doc) /\ w.doc.open \in BOOLEAN
  /\ w.doc.open = TRUE => /\ TextOK(C, w.doc.text) /\ Shown(C, w)
                          /\ (o.open = TRUE \/ u = FALSE) => InForce(w, o)
  /\ w.doc.open = FALSE => w.doc.session = NoSession /\ w.doc.text = <<>>

(* Publishing a document that is analysed, or analysing it first. *)
LEMMA EnsureOK ==
  ASSUME NEW C, C \subseteq Cells, NEW w, Opened(C, w), w.doc.current \in BOOLEAN,
         NEW o, OverlayOK(o), NEW u, NEW edits,
         w.doc.current = TRUE => /\ ParsedOK(C, w.doc.session, w.doc.text)
                                 /\ (o.open = TRUE \/ u = FALSE) => InForce(w, o),
         w.doc.current = FALSE => Ready(C, w.doc.session, w.doc.text, edits)
  PROVE  ServerOK(C, EnsureAndPublish(w, edits, o), o, u)
<1> DEFINE next == EnsureAndPublish(w, edits, o)
<1>1. CASE w.doc.current = TRUE
  <2> DEFINE p == [errs |-> w.doc.errs, ctx |-> w.doc.ctx]
  <2>1. next = [w EXCEPT !.published = p]
    BY <1>1 DEF EnsureAndPublish
  <2>2. w = [project |-> w.project, caches |-> w.caches, doc |-> w.doc,
             published |-> w.published]
    BY DEF Opened, WorldShape
  <2> HIDE DEF next
  <2>3. next = [project |-> w.project, caches |-> w.caches, doc |-> w.doc, published |-> p]
    BY <2>1, <2>2
  <2>4. /\ next.project = w.project /\ next.caches = w.caches /\ next.doc = w.doc
        /\ next.published.errs = w.doc.errs /\ next.published.ctx = w.doc.ctx
        /\ WorldShape(next)
    BY <2>3 DEF WorldShape
  <2>5. DiskOK(next) /\ DocShape(next.doc) /\ next.doc.open = TRUE /\ TextOK(C, next.doc.text)
    BY <2>4 DEF Opened, DiskOK
  <2>6. Shown(C, next)
    BY <1>1, <2>4 DEF Shown
  <2>7. (o.open = TRUE \/ u = FALSE) => InForce(next, o)
    BY <1>1, <2>4 DEF InForce
  <2> QED
    BY <2>4, <2>5, <2>6, <2>7 DEF ServerOK, next
<1>2. CASE w.doc.current = FALSE
  <2>1. next = AnalyzeDocument(w, edits, o)
    BY <1>2 DEF EnsureAndPublish
  <2> HIDE DEF next
  <2>2. Opened(C, next) /\ Shown(C, next) /\ InForce(next, o)
    BY <1>2, <2>1, AnalyzeOK
  <2> QED
    BY <2>2 DEF ServerOK, Opened, next
<1> QED
  BY <1>1, <1>2

(* A world with other caches and a document that is not analysed, and one  *)
(* with another text in its document.                                      *)
LEMMA ChangedWorld ==
  ASSUME NEW w, WorldShape(w), DocShape(w.doc)
  PROVE  /\ \A c, now :
              [w EXCEPT !.caches = c, !.doc.current = now]
                = [project |-> w.project, caches |-> c, published |-> w.published,
                   doc |-> [open |-> w.doc.open, text |-> w.doc.text,
                            session |-> w.doc.session, current |-> now,
                            errs |-> w.doc.errs, ctx |-> w.doc.ctx]]
         /\ \A text, now :
              [w EXCEPT !.doc.text = text, !.doc.current = now]
                = [project |-> w.project, caches |-> w.caches, published |-> w.published,
                   doc |-> [open |-> w.doc.open, text |-> text, session |-> w.doc.session,
                            current |-> now, errs |-> w.doc.errs, ctx |-> w.doc.ctx]]
<1> SUFFICES
      ASSUME NEW c, NEW text, NEW now
      PROVE  /\ [w EXCEPT !.caches = c, !.doc.current = now]
                  = [project |-> w.project, caches |-> c, published |-> w.published,
                     doc |-> [open |-> w.doc.open, text |-> w.doc.text,
                              session |-> w.doc.session, current |-> now,
                              errs |-> w.doc.errs, ctx |-> w.doc.ctx]]
             /\ [w EXCEPT !.doc.text = text, !.doc.current = now]
                  = [project |-> w.project, caches |-> w.caches, published |-> w.published,
                     doc |-> [open |-> w.doc.open, text |-> text, session |-> w.doc.session,
                              current |-> now, errs |-> w.doc.errs, ctx |-> w.doc.ctx]]
  BY Zenon
<1>1. PICK p, k, d, pub :
        /\ w = [project |-> p, caches |-> k, doc |-> d, published |-> pub]
        /\ p = w.project /\ k = w.caches /\ d = w.doc /\ pub = w.published
  BY DEF WorldShape
<1>2. PICK open, t, s, current, e, x :
        /\ d = [open |-> open, text |-> t, session |-> s, current |-> current, errs |-> e,
                ctx |-> x]
        /\ open = d.open /\ t = d.text /\ s = d.session /\ e = d.errs /\ x = d.ctx
  BY <1>1 DEF DocShape
<1>3. /\ open = w.doc.open /\ t = w.doc.text /\ s = w.doc.session /\ e = w.doc.errs
      /\ x = w.doc.ctx
  BY <1>1, <1>2
<1> DEFINE d1 == [d EXCEPT !.text = text]
           w1 == [w EXCEPT !.caches = c]
           w2 == [w EXCEPT !.doc.text = text]
<1>4. /\ [w EXCEPT !.caches = c, !.doc.current = now] = [w1 EXCEPT !.doc.current = now]
      /\ [w EXCEPT !.doc.text = text, !.doc.current = now] = [w2 EXCEPT !.doc.current = now]
  OBVIOUS
<1>5. w1 = [project |-> p, caches |-> c, doc |-> d, published |-> pub]
  BY <1>1
<1>6. w2 = [project |-> p, caches |-> k, doc |-> d1, published |-> pub]
  BY <1>1
<1>7. d1 = [open |-> open, text |-> text, session |-> s, current |-> current, errs |-> e,
            ctx |-> x]
  BY <1>2
<1> HIDE DEF d1, w1, w2
<1>8. [d EXCEPT !.current = now]
        = [open |-> open, text |-> t, session |-> s, current |-> now, errs |-> e, ctx |-> x]
  BY <1>2
<1>9. [d1 EXCEPT !.current = now]
        = [open |-> open, text |-> text, session |-> s, current |-> now, errs |-> e, ctx |-> x]
  BY <1>7
<1>10. [w1 EXCEPT !.doc.current = now]
         = [project |-> p, caches |-> c, doc |-> [d EXCEPT !.current = now], published |-> pub]
  BY <1>5
<1>11. [w2 EXCEPT !.doc.current = now]
         = [project |-> p, caches |-> k, doc |-> [d1 EXCEPT !.current = now], published |-> pub]
  BY <1>6
<1>12. p = w.project /\ k = w.caches /\ pub = w.published
  BY <1>1
<1> DEFINE r == [open |-> w.doc.open, text |-> w.doc.text, session |-> w.doc.session,
                 current |-> now, errs |-> w.doc.errs, ctx |-> w.doc.ctx]
           q == [open |-> w.doc.open, text |-> text, session |-> w.doc.session,
                 current |-> now, errs |-> w.doc.errs, ctx |-> w.doc.ctx]
<1>13. [d EXCEPT !.current = now] = r /\ [d1 EXCEPT !.current = now] = q
  BY <1>3, <1>8, <1>9, Zenon
<1> HIDE DEF r, q
<1>14. /\ [w1 EXCEPT !.doc.current = now]
            = [project |-> w.project, caches |-> c, published |-> w.published, doc |-> r]
       /\ [w2 EXCEPT !.doc.current = now]
            = [project |-> w.project, caches |-> w.caches, published |-> w.published, doc |-> q]
  BY <1>10, <1>11, <1>12, <1>13
<1> QED
  BY <1>4, <1>14, Zenon DEF r, q

(* A refresh of the project puts everything right under any overlay. *)
LEMMA RefreshOK ==
  ASSUME NEW C, C \subseteq Cells, NEW w, NEW o0, NEW u0, ServerOK(C, w, o0, u0),
         NEW o, OverlayOK(o), NEW u
  PROVE  ServerOK(C, RefreshProject(w, o), o, u)
<1> DEFINE next == RefreshProject(w, o)
           cleared == [w EXCEPT !.caches = NoCaches]
           d == [open |-> w.doc.open, text |-> w.doc.text, session |-> w.doc.session,
                 current |-> FALSE, errs |-> w.doc.errs, ctx |-> w.doc.ctx]
           invalid == [w EXCEPT !.caches = NoCaches, !.doc.current = FALSE]
<1>1. /\ WorldShape(w) /\ DiskOK(w) /\ DocShape(w.doc) /\ w.doc.open \in BOOLEAN
      /\ ProjectOK(w.project) /\ CachesOK(w.project, NoCaches)
  BY InvalidatedOK DEF ServerOK, DiskOK
<1>2. CASE w.doc.open = TRUE
  <2>1. next = EnsureAndPublish(invalid, <<>>, o)
    BY <1>2 DEF RefreshProject, InvalidateLintCaches
  <2>2. invalid = [project |-> w.project, caches |-> NoCaches, published |-> w.published,
                   doc |-> d]
    <3>1. \A c, now :
            [w EXCEPT !.caches = c, !.doc.current = now]
              = [project |-> w.project, caches |-> c, published |-> w.published,
                 doc |-> [open |-> w.doc.open, text |-> w.doc.text, session |-> w.doc.session,
                          current |-> now, errs |-> w.doc.errs, ctx |-> w.doc.ctx]]
      BY <1>1, ChangedWorld, Zenon
    <3> QED
      BY <3>1, Zenon
  <2> HIDE DEF invalid, next
  <2>3. /\ d.open = TRUE /\ d.text = w.doc.text /\ d.session = w.doc.session
        /\ d.current = FALSE /\ DocShape(d)
    BY <1>2 DEF DocShape
  <2> HIDE DEF d
  <2>4. /\ invalid.project = w.project /\ invalid.caches = NoCaches /\ invalid.doc = d
        /\ WorldShape(invalid)
    BY <2>2 DEF WorldShape
  <2>5. TextOK(C, w.doc.text) /\ ParsedOK(C, w.doc.session, w.doc.text)
    BY <1>2 DEF ServerOK, Shown
  <2>6. Opened(C, invalid)
    BY <1>1, <2>3, <2>4, <2>5 DEF Opened, DiskOK
  <2>7. Ready(C, invalid.doc.session, invalid.doc.text, <<>>)
    <3>1. <<>> \in Seq(Windows) /\ SameBefore(<<>>, w.doc.text, w.doc.text)
      <4>1. <<>> \in Seq(Windows) /\ Len(w.doc.text) \in Nat
        BY <2>5 DEF TextOK
      <4> QED
        BY <4>1 DEF SameBefore
    <3> QED
      BY <2>3, <2>4, <2>5, <3>1 DEF Ready, TextOK
  <2>8. invalid.doc.current = FALSE
    BY <2>3, <2>4
  <2>9. ServerOK(C, EnsureAndPublish(invalid, <<>>, o), o, u)
    BY <2>6, <2>7, <2>8, EnsureOK
  <2> QED
    BY <2>1, <2>9 DEF next
<1>3. CASE w.doc.open = FALSE
  <2>1. next = cleared
    BY <1>3 DEF RefreshProject, InvalidateLintCaches
  <2>2. cleared = [project |-> w.project, caches |-> NoCaches, doc |-> w.doc,
                   published |-> w.published]
    BY <1>1 DEF WorldShape
  <2> HIDE DEF cleared, next
  <2>3. /\ cleared.project = w.project /\ cleared.caches = NoCaches /\ cleared.doc = w.doc
        /\ WorldShape(cleared)
    BY <2>2 DEF WorldShape
  <2>4. DiskOK(cleared)
    BY <1>1, <2>3 DEF DiskOK
  <2>5. w.doc.session = NoSession /\ w.doc.text = <<>>
    BY <1>3 DEF ServerOK
  <2>6. ServerOK(C, cleared, o, u)
    BY <1>1, <1>3, <2>3, <2>4, <2>5 DEF ServerOK
  <2> QED
    BY <2>1, <2>6 DEF next
<1> QED
  BY <1>1, <1>2, <1>3

(* The inductive invariant of the server. *)
Inv(C) == OverlayOK(lei) /\ unseen \in BOOLEAN /\ ServerOK(C, World, lei, unseen)

(* The server starts right. *)
LEMMA InitOK ==
  ASSUME NEW C, Init
  PROVE  Inv(C)
<1> DEFINE state(b, damaged) == IF b \in damaged THEN "unreadable" ELSE "missing"
<1>1. PICK cfg, src, damaged, idx :
        /\ cfg \in Configs /\ src \in ProjectTexts
        /\ project = [cfg |-> cfg, src |-> src, idx |-> idx]
        /\ idx = [b \in Bundles |-> [NoIndex EXCEPT !.state = state(b, damaged)]]
  BY DEF Init
<1>2. IndexesOK(src, idx)
  <2>1. ASSUME NEW b \in Bundles PROVE IndexOK(src[b], idx[b])
    <3>1. PICK no, st : no = FALSE /\ st = state(b, damaged)
      BY Zenon
    <3>2. NoIndex = [state |-> "missing", exports |-> <<>>, srcNewer |-> {}, compNewer |-> no,
                     depNewer |-> {}]
      BY <3>1, Zenon DEF NoIndex
    <3>3. st \in {"missing", "unreadable"}
      BY <3>1
    <3>4. idx[b] = [NoIndex EXCEPT !.state = st]
      BY <1>1, <3>1
    <3>5. idx[b] = [state |-> st, exports |-> <<>>, srcNewer |-> {}, compNewer |-> no,
                    depNewer |-> {}]
      BY <3>2, <3>4
    <3>6. /\ idx[b].state = st
          /\ idx[b] = [state |-> idx[b].state, exports |-> idx[b].exports,
                       srcNewer |-> idx[b].srcNewer, compNewer |-> idx[b].compNewer,
                       depNewer |-> idx[b].depNewer]
      BY <3>5
    <3> QED
      BY <3>3, <3>6 DEF IndexOK
  <2> QED
    BY <1>1, <2>1 DEF IndexesOK
<1>3. ProjectOK(project)
  <2>1. project.cfg = cfg /\ project.src = src /\ project.idx = idx
    BY <1>1
  <2> QED
    BY <1>1, <1>2, <2>1 DEF ProjectOK
<1>4. CachesOK(project, caches)
  BY InvalidatedOK DEF Init
<1>5. /\ World.project = project /\ World.caches = caches /\ World.doc = doc
      /\ WorldShape(World)
  BY DEF World, WorldShape
<1>6. doc.open = FALSE /\ doc.session = NoSession /\ doc.text = <<>> /\ DocShape(doc)
  BY DEF Init, ClosedDoc, DocShape
<1>7. OverlayOK(lei) /\ unseen \in BOOLEAN
  BY DEF Init, OverlayOK, NoOverlay
<1> QED
  BY <1>3, <1>4, <1>5, <1>6, <1>7 DEF Inv, ServerOK, DiskOK

(* The parts of the invariant. *)
LEMMA Parts ==
  ASSUME NEW C, Inv(C)
  PROVE  /\ OverlayOK(lei) /\ unseen \in BOOLEAN /\ ServerOK(C, World, lei, unseen)
         /\ World.project = project /\ World.caches = caches /\ World.doc = doc
         /\ World.published = published /\ WorldShape(World)
         /\ ProjectOK(project) /\ CachesOK(project, caches) /\ DocShape(doc)
         /\ doc.open \in BOOLEAN
<1>1. /\ World.project = project /\ World.caches = caches /\ World.doc = doc
      /\ World.published = published /\ WorldShape(World)
  BY DEF World, WorldShape
<1> QED
  BY <1>1 DEF Inv, ServerOK, DiskOK

(* A step to a world that is right. *)
LEMMA Arrives ==
  ASSUME NEW C, NEW w, Becomes(w), ServerOK(C, w, lei', unseen'), OverlayOK(lei'),
         unseen' \in BOOLEAN
  PROVE  Inv(C)'
<1>1. WorldShape(w)
  BY DEF ServerOK
<1>2. World' = w
  BY <1>1 DEF Becomes, World, WorldShape
<1> QED
  BY <1>2 DEF Inv

(* The document is opened. *)
LEMMA DidOpenOK ==
  ASSUME NEW C, Drawn(C), Inv(C), NEW text \in OpenTexts, DidOpen(text)
  PROVE  Inv(C)'
<1> DEFINE d == [ClosedDoc EXCEPT !.open = TRUE, !.text = text]
           w == [World EXCEPT !.doc = d]
<1>1. d = [open |-> TRUE, text |-> text, session |-> NoSession, current |-> FALSE,
           errs |-> {}, ctx |-> NoContext]
  <2>1. DocShape(ClosedDoc)
    BY DEF ClosedDoc, DocShape
  <2>2. \A open, t : [ClosedDoc EXCEPT !.open = open, !.text = t]
                      = [open |-> open, text |-> t, session |-> ClosedDoc.session,
                         current |-> ClosedDoc.current, errs |-> ClosedDoc.errs,
                         ctx |-> ClosedDoc.ctx]
    BY <2>1, OpenedDoc, Zenon
  <2>3. d = [open |-> TRUE, text |-> text, session |-> ClosedDoc.session,
             current |-> ClosedDoc.current, errs |-> ClosedDoc.errs, ctx |-> ClosedDoc.ctx]
    BY <2>2, Zenon
  <2>4. /\ ClosedDoc.session = NoSession /\ ClosedDoc.current = FALSE /\ ClosedDoc.errs = {}
        /\ ClosedDoc.ctx = NoContext
    BY DEF ClosedDoc
  <2> QED
    BY <2>3, <2>4, Zenon
<1>2. Becomes(EnsureAndPublish(w, <<>>, lei)) /\ lei' = lei /\ unseen' = unseen
  BY DEF DidOpen
<1> HIDE DEF d
<1>3. w = [project |-> project, caches |-> caches, doc |-> d, published |-> published]
  BY DEF World
<1> HIDE DEF w
<1>4. w.project = project /\ w.caches = caches /\ w.doc = d /\ WorldShape(w)
  BY <1>3 DEF WorldShape
<1>5. /\ d.open = TRUE /\ d.text = text /\ d.session = NoSession /\ d.current = FALSE
      /\ DocShape(d)
  BY <1>1 DEF DocShape
<1>6. TextOK(C, text) /\ C \subseteq Cells
  BY ServerAssumption DEF Drawn, TextOK
<1>7. ProjectOK(project) /\ CachesOK(project, caches) /\ OverlayOK(lei) /\ unseen \in BOOLEAN
  BY Parts
<1>8. Opened(C, w)
  BY <1>4, <1>5, <1>6, <1>7 DEF Opened, DiskOK
<1>9. Ready(C, w.doc.session, w.doc.text, <<>>)
  BY <1>4, <1>5 DEF Ready
<1>10. w.doc.current = FALSE
  BY <1>4, <1>5
<1>11. ServerOK(C, EnsureAndPublish(w, <<>>, lei), lei, unseen)
  BY <1>6, <1>7, <1>8, <1>9, <1>10, EnsureOK
<1> QED
  BY <1>2, <1>7, <1>11, Arrives

(* A message changes the document.  Its edits tell the parser where the    *)
(* text differs from the one its items are of.                             *)
LEMMA DidChangeOK ==
  ASSUME NEW C, Drawn(C), Inv(C), NEW batch \in Batches, DidChange(batch)
  PROVE  Inv(C)'
<1> DEFINE after == ApplyBatch(doc.text, batch)
           now == ~after.changed /\ doc.current
           w == [World EXCEPT !.doc.text = after.text, !.doc.current = ~after.changed /\ @]
           d == [open |-> doc.open, text |-> after.text, session |-> doc.session,
                 current |-> now, errs |-> doc.errs, ctx |-> doc.ctx]
<1>1. /\ OverlayOK(lei) /\ unseen \in BOOLEAN /\ ServerOK(C, World, lei, unseen)
      /\ World.project = project /\ World.caches = caches /\ World.doc = doc
      /\ World.published = published /\ WorldShape(World)
      /\ ProjectOK(project) /\ CachesOK(project, caches) /\ DocShape(doc)
      /\ doc.open \in BOOLEAN
  BY Parts
<1>2. /\ doc.open = TRUE /\ BatchApplicable(doc.text, batch) /\ Len(after.text) <= MaxCells
      /\ Becomes(EnsureAndPublish(w, after.edits, lei)) /\ lei' = lei /\ unseen' = unseen
  BY <1>1 DEF DidChange
<1>3. C \subseteq Cells
  BY DEF Drawn
<1>4. /\ doc.text \in Seq(C) /\ Shown(C, World)
      /\ (lei.open = TRUE \/ unseen = FALSE) => InForce(World, lei)
  BY <1>1, <1>2 DEF ServerOK, TextOK
<1>5. doc.current = TRUE /\ ParsedOK(C, doc.session, doc.text)
  BY <1>1, <1>4 DEF Shown
<1>6. Edited(C, doc.text, after)
  BY <1>2, <1>4, BatchOK
<1> HIDE DEF after
<1>7. w = [project |-> project, caches |-> caches, published |-> published, doc |-> d]
  <2>1. \A text, x :
          [World EXCEPT !.doc.text = text, !.doc.current = x]
            = [project |-> World.project, caches |-> World.caches,
               published |-> World.published,
               doc |-> [open |-> World.doc.open, text |-> text,
                        session |-> World.doc.session, current |-> x,
                        errs |-> World.doc.errs, ctx |-> World.doc.ctx]]
    BY <1>1, ChangedWorld, Zenon
  <2>2. w = [World EXCEPT !.doc.text = after.text, !.doc.current = now]
    <3>1. [World EXCEPT !.doc.text = after.text].doc.current = doc.current
      <4>1. PICK x : x = [doc EXCEPT !.text = after.text]
        BY Zenon
      <4>2. x.current = doc.current
        BY <1>1, <4>1 DEF DocShape
      <4>3. [World EXCEPT !.doc.text = after.text].doc = x
        BY <1>1, <4>1 DEF World
      <4> QED
        BY <4>2, <4>3
    <3> QED
      BY <3>1, Zenon
  <2> HIDE DEF w
  <2>3. w = [project |-> World.project, caches |-> World.caches,
             published |-> World.published,
             doc |-> [open |-> World.doc.open, text |-> after.text,
                      session |-> World.doc.session, current |-> now,
                      errs |-> World.doc.errs, ctx |-> World.doc.ctx]]
    BY <2>1, <2>2, Zenon
  <2> QED
    BY <1>1, <2>3, Zenon
<1> HIDE DEF w
<1>8. /\ d.open = TRUE /\ d.text = after.text /\ d.session = doc.session
      /\ d.current = now /\ d.errs = doc.errs /\ d.ctx = doc.ctx /\ DocShape(d)
  <2>1. PICK x : x = now
    BY Zenon
  <2>2. d = [open |-> doc.open, text |-> after.text, session |-> doc.session,
             current |-> x, errs |-> doc.errs, ctx |-> doc.ctx]
    BY <2>1, Zenon
  <2> HIDE DEF d, now
  <2> QED
    BY <1>2, <2>1, <2>2 DEF DocShape
<1> HIDE DEF d
<1>9. w.project = project /\ w.caches = caches /\ w.doc = d /\ WorldShape(w)
  BY <1>7 DEF WorldShape
<1>10. after.text \in Seq(C) /\ after.edits \in Seq(Windows) /\ after.changed \in BOOLEAN
  BY <1>6 DEF Edited
<1>11. Opened(C, w)
  BY <1>1, <1>2, <1>8, <1>9, <1>10 DEF Opened, DiskOK, TextOK
<1>12. ASSUME after.changed = FALSE PROVE ServerOK(C, EnsureAndPublish(w, after.edits, lei), lei, unseen)
  <2>1. after.text = doc.text
    BY <1>6, <1>12 DEF Edited
  <2>2. w.doc.current = TRUE
    BY <1>5, <1>8, <1>9, <1>12
  <2>3. ParsedOK(C, w.doc.session, w.doc.text)
    BY <1>5, <1>8, <1>9, <2>1
  <2>4. (lei.open = TRUE \/ unseen = FALSE) => InForce(w, lei)
    BY <1>1, <1>4, <1>8, <1>9 DEF InForce
  <2> QED
    BY <1>1, <1>3, <1>11, <2>2, <2>3, <2>4, EnsureOK
<1>13. ASSUME after.changed = TRUE PROVE ServerOK(C, EnsureAndPublish(w, after.edits, lei), lei, unseen)
  <2>1. w.doc.current = FALSE
    BY <1>8, <1>9, <1>13
  <2>2. after.edits # <<>> /\ SameBefore(after.edits, doc.text, after.text)
    BY <1>6, <1>13 DEF Edited
  <2>3. Ready(C, w.doc.session, w.doc.text, after.edits)
    BY <1>4, <1>5, <1>8, <1>9, <1>10, <2>2 DEF Ready
  <2> QED
    BY <1>1, <1>3, <1>11, <2>1, <2>3, EnsureOK
<1>14. ServerOK(C, EnsureAndPublish(w, after.edits, lei), lei, unseen)
  BY <1>10, <1>12, <1>13
<1> QED
  BY <1>1, <1>2, <1>14, Arrives

(* The document is closed. *)
LEMMA DidCloseOK ==
  ASSUME NEW C, Inv(C), DidClose
  PROVE  Inv(C)'
<1> DEFINE w == [project |-> project, caches |-> caches, doc |-> ClosedDoc, published |-> Clear]
<1>1. w.project = project /\ w.caches = caches /\ w.doc = ClosedDoc /\ WorldShape(w)
  BY DEF WorldShape
<1>2. /\ ClosedDoc.open = FALSE /\ ClosedDoc.session = NoSession /\ ClosedDoc.text = <<>>
      /\ DocShape(ClosedDoc)
  BY DEF ClosedDoc, DocShape
<1>3. /\ OverlayOK(lei) /\ unseen \in BOOLEAN /\ ProjectOK(project) /\ CachesOK(project, caches)
  BY Parts
<1>4. Becomes(w) /\ lei' = lei /\ unseen' = unseen
  BY DEF DidClose, Becomes
<1> HIDE DEF w
<1>5. ServerOK(C, w, lei, unseen)
  BY <1>1, <1>2, <1>3 DEF ServerOK, DiskOK
<1> QED
  BY <1>3, <1>4, <1>5, Arrives

(* The editor opens or changes config.lei. *)
LEMMA LeiOK ==
  ASSUME NEW C, Drawn(C), Inv(C), NEW cfg \in Configs, LeiOpenedOrChanged(cfg)
  PROVE  Inv(C)'
<1>1. ServerOK(C, World, lei, unseen) /\ unseen \in BOOLEAN /\ C \subseteq Cells
  BY Parts DEF Drawn
<1>2. OverlayOK(lei')
  <2>1. lei'.open = TRUE /\ lei'.cfg = cfg
    BY DEF LeiOpenedOrChanged
  <2> QED
    BY <2>1 DEF OverlayOK
<1>3. Becomes(RefreshProject(World, lei')) /\ unseen' = unseen
  BY DEF LeiOpenedOrChanged
<1>4. ServerOK(C, RefreshProject(World, lei'), lei', unseen)
  BY <1>1, <1>2, RefreshOK
<1> QED
  BY <1>1, <1>2, <1>3, <1>4, Arrives

(* It closes config.lei. *)
LEMMA DidCloseLeiOK ==
  ASSUME NEW C, Drawn(C), Inv(C), DidCloseLei
  PROVE  Inv(C)'
<1>1. /\ ServerOK(C, World, lei, unseen) /\ unseen \in BOOLEAN /\ C \subseteq Cells
      /\ OverlayOK(lei) /\ lei.open \in BOOLEAN
  BY Parts DEF Drawn, OverlayOK
<1>2. lei' = NoOverlay /\ unseen' = unseen
  BY DEF DidCloseLei
<1>3. OverlayOK(NoOverlay) /\ NoOverlay.open = FALSE
  BY DEF OverlayOK, NoOverlay
<1>4. CASE lei.open
  <2>1. Becomes(RefreshProject(World, NoOverlay))
    BY <1>4 DEF DidCloseLei
  <2>2. ServerOK(C, RefreshProject(World, NoOverlay), NoOverlay, unseen)
    BY <1>1, <1>3, RefreshOK
  <2> QED
    BY <1>1, <1>2, <1>3, <2>1, <2>2, Arrives
<1>5. CASE ~lei.open
  <2>1. World' = World
    BY <1>5 DEF DidCloseLei, World
  <2>2. EffectiveConfig(World.project, NoOverlay) = EffectiveConfig(World.project, lei)
    BY <1>3, <1>5 DEF EffectiveConfig
  <2>3. InForce(World, lei) => InForce(World, NoOverlay)
    BY <2>2 DEF InForce
  <2>4. ServerOK(C, World, NoOverlay, unseen)
    BY <1>1, <1>3, <2>3 DEF ServerOK
  <2> QED
    BY <1>1, <1>2, <1>3, <2>1, <2>4 DEF Inv
<1> QED
  BY <1>4, <1>5

(* Nothing changes. *)
LEMMA UnchangedOK ==
  ASSUME NEW C, Inv(C), UNCHANGED vars
  PROVE  Inv(C)'
<1>1. World' = World /\ lei' = lei /\ unseen' = unseen
  BY DEF vars, World
<1> QED
  BY <1>1 DEF Inv

(* The watcher reports files. *)
LEMMA WatchedOK ==
  ASSUME NEW C, Drawn(C), Inv(C), NEW files, DidChangeWatchedFiles(files)
  PROVE  Inv(C)'
<1>1. ServerOK(C, World, lei, unseen) /\ C \subseteq Cells /\ OverlayOK(lei)
  BY Parts DEF Drawn
<1>2. CASE "lei" \in files
  <2>1. Becomes(RefreshProject(World, lei)) /\ unseen' = FALSE /\ lei' = lei
    BY <1>2 DEF DidChangeWatchedFiles
  <2>2. ServerOK(C, RefreshProject(World, lei), lei, FALSE)
    BY <1>1, RefreshOK
  <2> QED
    BY <1>1, <2>1, <2>2, Arrives
<1>3. CASE "lei" \notin files
  BY <1>3, UnchangedOK DEF DidChangeWatchedFiles
<1> QED
  BY <1>2, <1>3

(* A request is answered: the analysis is up to date, and what is looked   *)
(* up on disk leaves it alone.                                             *)
LEMMA RequestOK ==
  ASSUME NEW C, Inv(C), NEW fallback \in BOOLEAN, Request(fallback)
  PROVE  Inv(C)'
<1> DEFINE lint == BuildLintContext(project, caches, NoOverlay)
           up == [World EXCEPT !.project = lint.project, !.caches = lint.caches]
           w == [project |-> lint.project, caches |-> lint.caches, doc |-> doc,
                 published |-> published]
<1>1. /\ OverlayOK(lei) /\ unseen \in BOOLEAN /\ ServerOK(C, World, lei, unseen)
      /\ World.project = project /\ World.caches = caches /\ World.doc = doc
      /\ World.published = published /\ WorldShape(World)
      /\ ProjectOK(project) /\ CachesOK(project, caches) /\ DocShape(doc)
      /\ doc.open \in BOOLEAN
  BY Parts
<1>2. doc.open = TRUE /\ lei' = lei /\ unseen' = unseen
  BY <1>1 DEF Request
<1>3. doc.current = TRUE
  BY <1>1, <1>2 DEF ServerOK, Shown
<1>4. Ensured = World
  BY <1>3 DEF Ensured
<1>5. CASE ~fallback
  <2>1. Becomes([World EXCEPT !.published = published])
    BY <1>4, <1>5 DEF Request
  <2>2. [World EXCEPT !.published = published] = World
    BY DEF World
  <2>3. Becomes(World)
    BY <2>1, <2>2
  <2> QED
    BY <1>1, <1>2, <2>3, Arrives
<1>6. CASE fallback
  <2>1. LookedUp(World) = up
    BY <1>1, Zenon DEF LookedUp
  <2> HIDE DEF lint
  <2>2. up = w
    <3> DEFINE up1 == [World EXCEPT !.project = lint.project]
    <3>1. up = [up1 EXCEPT !.caches = lint.caches]
      OBVIOUS
    <3>2. up1 = [project |-> lint.project, caches |-> caches, doc |-> doc,
                 published |-> published]
      BY DEF World
    <3> HIDE DEF up1, up
    <3> QED
      BY <3>1, <3>2
  <2>3. Becomes([w EXCEPT !.published = published])
    <3>1. Becomes([up EXCEPT !.published = published])
      BY <1>4, <1>6, <2>1 DEF Request
    <3> QED
      BY <2>2, <3>1
  <2>4. [w EXCEPT !.published = published] = w
    OBVIOUS
  <2>5. /\ w.project = lint.project /\ w.caches = lint.caches /\ w.doc = doc
        /\ w.published = published /\ WorldShape(w)
    BY DEF WorldShape
  <2>6. Becomes(w)
    BY <2>3, <2>4
  <2> HIDE DEF w
  <2>7. OverlayOK(NoOverlay)
    BY DEF OverlayOK, NoOverlay
  <2>8. LintedOK(project, NoOverlay, lint)
    BY <1>1, <2>7, LintRight DEF lint
  <2>9. DiskOK(w) /\ w.project.cfg = project.cfg
    BY <2>5, <2>8 DEF DiskOK, LintedOK
  <2>10. Shown(C, World) /\ TextOK(C, doc.text)
    BY <1>1, <1>2 DEF ServerOK
  <2>11. Shown(C, w)
    BY <1>1, <2>5, <2>10 DEF Shown
  <2>12. EffectiveConfig(w.project, lei) = EffectiveConfig(World.project, lei)
    BY <1>1, <2>9 DEF EffectiveConfig
  <2>13. (lei.open = TRUE \/ unseen = FALSE) => InForce(World, lei)
    BY <1>1, <1>2 DEF ServerOK
  <2>14. (lei.open = TRUE \/ unseen = FALSE) => InForce(w, lei)
    BY <1>1, <2>5, <2>12, <2>13 DEF InForce
  <2>15. ServerOK(C, w, lei, unseen)
    BY <1>1, <1>2, <2>5, <2>9, <2>10, <2>11, <2>14 DEF ServerOK
  <2> QED
    BY <1>1, <1>2, <2>6, <2>15, Arrives
<1> QED
  BY <1>5, <1>6

(* Someone writes config.lei: no cache entry has its key any more. *)
LEMMA WriteConfigOK ==
  ASSUME NEW C, Inv(C), NEW cfg \in Configs, WriteConfig(cfg)
  PROVE  Inv(C)'
<1>1. /\ OverlayOK(lei) /\ unseen \in BOOLEAN /\ ServerOK(C, World, lei, unseen)
      /\ World.project = project /\ World.caches = caches /\ World.doc = doc
      /\ World.published = published /\ WorldShape(World)
      /\ ProjectOK(project) /\ CachesOK(project, caches) /\ DocShape(doc)
      /\ doc.open \in BOOLEAN
  BY Parts
<1>2. /\ project' = [project EXCEPT !.cfg = cfg]
      /\ caches' = [caches EXCEPT !.units.key = FALSE, !.ctx.key = FALSE]
      /\ unseen' = TRUE /\ doc' = doc /\ lei' = lei /\ published' = published
  BY DEF WriteConfig
<1>4. ProjectOK(project')
  <2>1. PICK c, s, i : /\ project = [cfg |-> c, src |-> s, idx |-> i]
                       /\ s \in ProjectTexts /\ IndexesOK(s, i)
    BY <1>1 DEF ProjectOK
  <2>2. project' = [cfg |-> cfg, src |-> s, idx |-> i]
    BY <1>2, <2>1
  <2>3. project'.cfg = cfg /\ project'.src = s /\ project'.idx = i
    BY <2>2
  <2> QED
    BY <2>1, <2>2, <2>3 DEF ProjectOK
<1>5. CachesOK(project', caches')
  <2>1. PICK uf, uk, uu, cf, ck, cc :
          /\ caches = [units |-> [full |-> uf, key |-> uk, units |-> uu],
                       ctx |-> [full |-> cf, key |-> ck, ctx |-> cc]]
          /\ uf \in BOOLEAN /\ cf \in BOOLEAN
    BY <1>1 DEF CachesOK
  <2>2. PICK no : no = FALSE
    BY Zenon
  <2> DEFINE u == [full |-> uf, key |-> no, units |-> uu]
             x == [full |-> cf, key |-> no, ctx |-> cc]
             c1 == [caches EXCEPT !.units.key = no]
  <2>3. caches' = [c1 EXCEPT !.ctx.key = no]
    BY <1>2, <2>2, Zenon
  <2>4. c1 = [units |-> u, ctx |-> [full |-> cf, key |-> ck, ctx |-> cc]]
    BY <2>1
  <2> HIDE DEF c1
  <2>5. caches' = [units |-> u, ctx |-> x]
    BY <2>3, <2>4
  <2>6. caches'.units = u /\ caches'.ctx = x
    BY <2>5
  <2>7. /\ caches'.units.full = uf /\ caches'.units.key = FALSE /\ caches'.units.units = uu
        /\ caches'.ctx.full = cf /\ caches'.ctx.key = FALSE /\ caches'.ctx.ctx = cc
    BY <2>2, <2>6
  <2>8. caches' = [units |-> [full |-> caches'.units.full, key |-> caches'.units.key,
                             units |-> caches'.units.units],
                   ctx |-> [full |-> caches'.ctx.full, key |-> caches'.ctx.key,
                            ctx |-> caches'.ctx.ctx]]
    BY <2>2, <2>5, <2>7, Zenon
  <2> QED
    BY <2>1, <2>7, <2>8, Zenon DEF CachesOK
<1>6. /\ World'.project = project' /\ World'.caches = caches' /\ World'.doc = doc
      /\ World'.published = published /\ WorldShape(World')
  BY <1>2 DEF World, WorldShape
<1>7. doc.open = TRUE => TextOK(C, doc.text) /\ Shown(C, World')
  BY <1>1, <1>6 DEF ServerOK, Shown
<1>8. doc.open = FALSE => doc.session = NoSession /\ doc.text = <<>>
  BY <1>1 DEF ServerOK
<1>9. ASSUME doc.open = TRUE, lei'.open = TRUE \/ unseen' = FALSE
      PROVE  InForce(World', lei')
  <2>1. lei.open = TRUE /\ InForce(World, lei)
    BY <1>1, <1>2, <1>9 DEF ServerOK
  <2>2. EffectiveConfig(World'.project, lei) = EffectiveConfig(World.project, lei)
    BY <2>1 DEF EffectiveConfig
  <2> QED
    BY <1>1, <1>2, <1>6, <2>1, <2>2 DEF InForce
<1>10. ServerOK(C, World', lei', unseen')
  BY <1>1, <1>4, <1>5, <1>6, <1>7, <1>8, <1>9 DEF ServerOK, DiskOK
<1> QED
  BY <1>1, <1>2, <1>10 DEF Inv

(* Someone writes files of the project that are not config.lei. *)
LEMMA FilesOK ==
  ASSUME NEW C, Inv(C), ProjectOK(project'), project'.cfg = project.cfg,
         UNCHANGED <<caches, doc, lei, published, unseen>>
  PROVE  Inv(C)'
<1>1. /\ OverlayOK(lei) /\ unseen \in BOOLEAN /\ ServerOK(C, World, lei, unseen)
      /\ World.project = project /\ World.caches = caches /\ World.doc = doc
      /\ World.published = published /\ WorldShape(World)
      /\ ProjectOK(project) /\ CachesOK(project, caches) /\ DocShape(doc)
      /\ doc.open \in BOOLEAN
  BY Parts
<1>2. /\ caches' = caches /\ unseen' = unseen /\ doc' = doc /\ lei' = lei
      /\ published' = published
  OBVIOUS
<1>5. CachesOK(project', caches)
  BY <1>1 DEF CachesOK
<1>6. /\ World'.project = project' /\ World'.caches = caches /\ World'.doc = doc
      /\ World'.published = published /\ WorldShape(World')
  BY <1>2 DEF World, WorldShape
<1>7. doc.open = TRUE => TextOK(C, doc.text) /\ Shown(C, World')
  BY <1>1, <1>6 DEF ServerOK, Shown
<1>8. doc.open = FALSE => doc.session = NoSession /\ doc.text = <<>>
  BY <1>1 DEF ServerOK
<1>9. ASSUME doc.open = TRUE, lei.open = TRUE \/ unseen = FALSE
      PROVE  InForce(World', lei)
  <2>1. InForce(World, lei)
    BY <1>1, <1>9 DEF ServerOK
  <2>2. EffectiveConfig(World'.project, lei) = EffectiveConfig(World.project, lei)
    BY <1>1, <1>6 DEF EffectiveConfig
  <2> QED
    BY <1>1, <1>6, <2>1, <2>2 DEF InForce
<1>10. ServerOK(C, World', lei, unseen)
  BY <1>1, <1>5, <1>6, <1>7, <1>8, <1>9 DEF ServerOK, DiskOK
<1> QED
  BY <1>1, <1>2, <1>10 DEF Inv

(* Someone writes a source file. *)
LEMMA WriteSourceOK ==
  ASSUME NEW C, Inv(C), NEW b \in Bundles, NEW f \in SourceFiles[b], NEW text \in SourceTexts,
         WriteSource(b, f, text)
  PROVE  Inv(C)'
<1>1. ProjectOK(project)
  BY Parts
<1> DEFINE newer == IF project.idx[b].state = "missing" THEN {}
                    ELSE project.idx[b].srcNewer \cup {f}
<1>2. /\ project' = [project EXCEPT !.src[b][f] = text, !.idx[b].srcNewer =
                       IF project.idx[b].state = "missing" THEN {} ELSE @ \cup {f}]
      /\ UNCHANGED <<caches, doc, lei, published, unseen>>
  BY DEF WriteSource
<1>3. PICK c, t, j : /\ project' = [cfg |-> c, src |-> t, idx |-> j] /\ c = project.cfg
                     /\ c \in Configs /\ t \in ProjectTexts /\ IndexesOK(t, j)
  <2>1. PICK c, s, i : /\ project = [cfg |-> c, src |-> s, idx |-> i] /\ c = project.cfg
                       /\ s = project.src /\ i = project.idx
                       /\ c \in Configs /\ s \in ProjectTexts /\ IndexesOK(s, i)
    BY <1>1 DEF ProjectOK
  <2>2. /\ s = [x \in Bundles |-> s[x]]
        /\ \A x \in Bundles : s[x] \in [SourceFiles[x] -> SourceTexts]
    BY <2>1 DEF ProjectTexts
  <2>3. i = [x \in Bundles |-> i[x]] /\ \A x \in Bundles : IndexOK(s[x], i[x])
    BY <2>1 DEF IndexesOK
  <2>4. PICK say : say = [s[b] EXCEPT ![f] = text]
    BY Zenon
  <2>5. PICK y : y = [i[b] EXCEPT !.srcNewer = newer]
    BY Zenon
  <2> DEFINE t == [s EXCEPT ![b] = say]
             j == [i EXCEPT ![b] = y]
             p1 == [project EXCEPT !.src[b][f] = text]
  <2>6. project' = [cfg |-> c, src |-> t, idx |-> j]
    <3>1. p1 = [cfg |-> c, src |-> t, idx |-> i]
      BY <2>1, <2>4
    <3>2. project' = [p1 EXCEPT !.idx[b].srcNewer =
                        IF project.idx[b].state = "missing" THEN {} ELSE @ \cup {f}]
      BY <1>2
    <3> HIDE DEF p1, t
    <3>3. project' = [cfg |-> c, src |-> t,
                      idx |-> [i EXCEPT ![b].srcNewer =
                                 IF i[b].state = "missing" THEN {} ELSE @ \cup {f}]]
      BY <2>1, <3>1, <3>2
    <3>4. j = [i EXCEPT ![b].srcNewer =
                 IF i[b].state = "missing" THEN {} ELSE @ \cup {f}]
      BY <2>1, <2>3, <2>5
    <3> QED
      BY <3>3, <3>4
  <2>7. say \in [SourceFiles[b] -> SourceTexts] /\ \A x \in SourceFiles[b] \ {f} : say[x] = s[b][x]
    BY <2>2, <2>4
  <2>8. /\ t = [x \in Bundles |-> t[x]] /\ t[b] = say /\ \A x \in Bundles \ {b} : t[x] = s[x]
        /\ j = [x \in Bundles |-> j[x]] /\ j[b] = y /\ \A x \in Bundles \ {b} : j[x] = i[x]
    BY <2>2, <2>3
  <2> HIDE DEF t, j
  <2>9. t \in ProjectTexts
    <3>1. \A x \in Bundles : t[x] \in [SourceFiles[x] -> SourceTexts]
      BY <2>2, <2>7, <2>8
    <3>2. t \in [Bundles -> UNION {[SourceFiles[x] -> SourceTexts] : x \in Bundles}]
      BY <2>8, <3>1
    <3> QED
      BY <3>1, <3>2 DEF ProjectTexts
  <2>10. IndexOK(say, y)
    <3>1. PICK st, ex, sn, cn, dn :
            /\ i[b] = [state |-> st, exports |-> ex, srcNewer |-> sn, compNewer |-> cn,
                       depNewer |-> dn]
            /\ st = i[b].state /\ ex = i[b].exports /\ sn = i[b].srcNewer
      <4>1. IndexOK(s[b], i[b])
        BY <2>3
      <4> QED
        BY <4>1, Zenon DEF IndexOK
    <3>2. PICK n : n = newer
      BY Zenon
    <3>3. y = [state |-> st, exports |-> ex, srcNewer |-> n, compNewer |-> cn, depNewer |-> dn]
      BY <2>5, <3>1, <3>2
    <3>4. /\ y.state = st /\ y.exports = ex /\ y.srcNewer = n
          /\ y = [state |-> y.state, exports |-> y.exports, srcNewer |-> y.srcNewer,
                  compNewer |-> y.compNewer, depNewer |-> y.depNewer]
      BY <3>3
    <3>5. /\ st \in {"missing", "unreadable", "good"}
          /\ st = "good" => /\ ex = [x \in DOMAIN ex |-> ex[x]]
                            /\ \A x \in (DOMAIN ex \cap DOMAIN s[b]) \ sn : Says(ex, s[b], x)
                            /\ n = sn \cup {f}
      BY <2>1, <2>3, <3>1, <3>2, Zenon DEF IndexOK
    <3>6. ASSUME st = "good", NEW x \in (DOMAIN ex \cap DOMAIN say) \ n
          PROVE  Says(ex, say, x)
      <4>1. x \in (DOMAIN ex \cap DOMAIN s[b]) \ sn /\ say[x] = s[b][x]
        BY <2>2, <2>7, <3>5, <3>6
      <4> QED
        BY <3>5, <3>6, <4>1 DEF Says
    <3> QED
      BY <3>4, <3>5, <3>6 DEF IndexOK
  <2>11. IndexesOK(t, j)
    BY <2>3, <2>8, <2>10 DEF IndexesOK
  <2> QED
    BY <2>1, <2>6, <2>9, <2>11
<1>4. project'.cfg = project.cfg /\ ProjectOK(project')
  <2>1. project'.cfg = c /\ project'.src = t /\ project'.idx = j
    BY <1>3
  <2> QED
    BY <1>3, <2>1 DEF ProjectOK
<1> QED
  BY <1>1, <1>2, <1>4, FilesOK

(* Someone installs a compiler. *)
LEMMA ReplaceCompilerOK ==
  ASSUME NEW C, Inv(C), ReplaceCompiler
  PROVE  Inv(C)'
<1>1. ProjectOK(project)
  BY Parts
<1> DEFINE newer(b) == project.idx[b].state # "missing"
           marked == [b \in Bundles |-> [project.idx[b] EXCEPT !.compNewer = newer(b)]]
<1>2. /\ project' = [project EXCEPT !.idx = marked]
      /\ UNCHANGED <<caches, doc, lei, published, unseen>>
  BY DEF ReplaceCompiler
<1> HIDE DEF newer
<1>3. PICK c, t, j : /\ project' = [cfg |-> c, src |-> t, idx |-> j] /\ c = project.cfg
                     /\ c \in Configs /\ t \in ProjectTexts /\ IndexesOK(t, j)
  <2>1. PICK c, t, i : /\ project = [cfg |-> c, src |-> t, idx |-> i] /\ c = project.cfg
                       /\ i = project.idx
                       /\ c \in Configs /\ t \in ProjectTexts /\ IndexesOK(t, i)
    BY <1>1 DEF ProjectOK
  <2>2. /\ marked = [b \in Bundles |-> marked[b]]
        /\ \A b \in Bundles : marked[b] = [i[b] EXCEPT !.compNewer = newer(b)]
    BY <2>1
  <2> HIDE DEF marked
  <2>3. project' = [cfg |-> c, src |-> t, idx |-> marked]
    BY <1>2, <2>1
  <2>4. ASSUME NEW b \in Bundles PROVE IndexOK(t[b], marked[b])
    <3>1. IndexOK(t[b], i[b])
      BY <2>1 DEF IndexesOK
    <3>2. PICK st, ex, sn, cn, dn :
            /\ i[b] = [state |-> st, exports |-> ex, srcNewer |-> sn, compNewer |-> cn,
                       depNewer |-> dn]
            /\ st = i[b].state /\ ex = i[b].exports /\ sn = i[b].srcNewer
      BY <3>1 DEF IndexOK
    <3>3. PICK n : n = newer(b)
      BY Zenon
    <3>4. marked[b] = [state |-> st, exports |-> ex, srcNewer |-> sn, compNewer |-> n,
                       depNewer |-> dn]
      BY <2>2, <3>2, <3>3
    <3> DEFINE y == marked[b]
    <3>5. /\ y.state = st /\ y.exports = ex /\ y.srcNewer = sn
          /\ y = [state |-> y.state, exports |-> y.exports, srcNewer |-> y.srcNewer,
                  compNewer |-> y.compNewer, depNewer |-> y.depNewer]
      BY <3>4
    <3> QED
      BY <3>1, <3>2, <3>5, Zenon DEF IndexOK
  <2>5. IndexesOK(t, marked)
    BY <2>2, <2>4 DEF IndexesOK
  <2> QED
    BY <2>1, <2>3, <2>5
<1>4. project'.cfg = project.cfg /\ ProjectOK(project')
  <2>1. project'.cfg = c /\ project'.src = t /\ project'.idx = j
    BY <1>3
  <2> QED
    BY <1>3, <2>1 DEF ProjectOK
<1> QED
  BY <1>1, <1>2, <1>4, FilesOK

(* Every step keeps the invariant. *)
LEMMA NextOK ==
  ASSUME NEW C, Drawn(C), Inv(C), [Next]_vars
  PROVE  Inv(C)'
<1>1. ASSUME NEW text \in OpenTexts, DidOpen(text) PROVE Inv(C)'
  BY <1>1, DidOpenOK
<1>2. ASSUME NEW batch \in Batches, DidChange(batch) PROVE Inv(C)'
  BY <1>2, DidChangeOK
<1>3. ASSUME DidChangeDropped PROVE Inv(C)'
  BY <1>3, UnchangedOK DEF DidChangeDropped
<1>4. ASSUME DidClose PROVE Inv(C)'
  BY <1>4, DidCloseOK
<1>5. ASSUME NEW cfg \in Configs, DidOpenLei(cfg) \/ DidChangeLei(cfg) PROVE Inv(C)'
  <2>1. LeiOpenedOrChanged(cfg)
    BY <1>5 DEF DidOpenLei, DidChangeLei
  <2> QED
    BY <2>1, LeiOK
<1>6. ASSUME DidCloseLei PROVE Inv(C)'
  BY <1>6, DidCloseLeiOK
<1>7. ASSUME NEW files \in SUBSET {"lei", "src"}, DidChangeWatchedFiles(files) PROVE Inv(C)'
  BY <1>7, WatchedOK
<1>8. ASSUME NEW fallback \in BOOLEAN, Request(fallback) PROVE Inv(C)'
  BY <1>8, RequestOK
<1>9. ASSUME NEW cfg \in Configs, WriteConfig(cfg) PROVE Inv(C)'
  BY <1>9, WriteConfigOK
<1>10. ASSUME NEW b \in Bundles, NEW f \in SourceFiles[b], NEW text \in SourceTexts,
              WriteSource(b, f, text)
       PROVE  Inv(C)'
  BY <1>10, WriteSourceOK
<1>11. ASSUME ReplaceCompiler PROVE Inv(C)'
  BY <1>11, ReplaceCompilerOK
<1>12. ASSUME UNCHANGED vars PROVE Inv(C)'
  BY <1>12, UnchangedOK
<1> QED
  BY <1>1, <1>2, <1>3, <1>4, <1>5, <1>6, <1>7, <1>8, <1>9, <1>10, <1>11, <1>12, Zenon DEF Next

(* All texts are of cells. *)
LEMMA AllDrawn == Drawn(Cells)
<1>1. ASSUME NEW batch \in Batches, NEW n \in DOMAIN batch PROVE batch[n].new \in Seq(Cells)
  <2>1. batch \in Seq(Changes)
    BY ServerAssumption
  <2>2. batch[n] \in Changes
    BY <2>1
  <2> QED
    BY <2>2 DEF Changes
<1> QED
  BY <1>1, ServerAssumption DEF Drawn

-----------------------------------------------------------------------------
(* Theorems. *)

(* The items of the document are owned, by as many source texts as the     *)
(* compaction limit allows, whatever the editor sends: an item kept over   *)
(* merges never points into a text that was dropped (source_owners_).      *)
THEOREM ServerItemsOwned == Spec => []ItemsOwned
<1>1. Init => Inv(Cells)
  BY InitOK
<1>2. Inv(Cells) /\ [Next]_vars => Inv(Cells)'
  BY AllDrawn, NextOK
<1>3. Inv(Cells) => ItemsOwned
  <2> SUFFICES ASSUME Inv(Cells) PROVE ItemsOwned
    OBVIOUS
  <2> DEFINE s == doc.session
  <2>1. ServerOK(Cells, World, lei, unseen) /\ World.doc = doc /\ doc.open \in BOOLEAN
    BY Parts
  <2>2. CASE doc.open = TRUE
    <3>1. SessionOK(s)
      BY <2>1, <2>2 DEF ServerOK, Shown, ParsedOK
    <3>2. PICK k \in 1..MaxOwners + 1 : s.owners = 1..k
      BY <3>1 DEF SessionOK
    <3>3. k \in Nat /\ 1 \in Int /\ k \in Int /\ 1 <= k /\ k <= MaxOwners + 1
      BY <3>2, MaxOwnersAssumption
    <3>4. Cardinality(1..k) = k
      BY <3>3, FS_Interval
    <3> QED
      BY <3>1, <3>2, <3>3, <3>4 DEF ItemsOwned, SessionOK
  <2>3. CASE doc.open = FALSE
    <3>1. s.items = <<>> /\ s.owners = {}
      BY <2>1, <2>3 DEF ServerOK, NoSession
    <3>2. Cardinality({}) = 0
      BY FS_EmptySet
    <3> QED
      BY <3>1, <3>2, MaxOwnersAssumption DEF ItemsOwned
  <2> QED
    BY <2>1, <2>2, <2>3
<1> QED
  BY <1>1, <1>2, <1>3, PTL DEF Spec

(* What the editor is shown of a document without syntax errors was linted *)
(* with the configuration in force, through every cache, overlay, request  *)
(* and write of a file (get_bundle_units_, invalidate_lint_caches_for_root_). *)
THEOREM ServerLintsInForce == Spec => []LintedWithConfigInForce
<1>1. Init => Inv(Cells)
  BY InitOK
<1>2. Inv(Cells) /\ [Next]_vars => Inv(Cells)'
  BY AllDrawn, NextOK
<1>3. Inv(Cells) => LintedWithConfigInForce
  <2> SUFFICES ASSUME Inv(Cells), doc.open, doc.errs = {}, lei.open \/ ~unseen
               PROVE  LET config == EffectiveConfig(project, lei)
                      IN  IF config.ok /\ MainBundle \in DOMAIN config.units
                          THEN published.ctx.ok /\ published.ctx.units = config.units
                          ELSE ~published.ctx.ok
    BY DEF LintedWithConfigInForce
  <2>1. /\ ServerOK(Cells, World, lei, unseen) /\ World.doc = doc /\ doc.open \in BOOLEAN
        /\ World.project = project /\ World.published = published /\ OverlayOK(lei)
        /\ unseen \in BOOLEAN
    BY Parts
  <2>2. doc.open = TRUE /\ (lei.open = TRUE \/ unseen = FALSE)
    BY <2>1 DEF OverlayOK
  <2>3. Shown(Cells, World) /\ InForce(World, lei)
    BY <2>1, <2>2 DEF ServerOK
  <2>4. published.ctx = doc.ctx
    BY <2>1, <2>3 DEF Shown
  <2>5. Of(published.ctx, EffectiveConfig(project, lei))
    BY <2>1, <2>3, <2>4 DEF InForce
  <2> QED
    BY <2>5 DEF Of
<1> QED
  BY <1>1, <1>2, <1>3, PTL DEF Spec

(* Where no cell changes how another one is parsed, the items the server   *)
(* works on are those of a parse of the whole text, after any sequence of  *)
(* messages (try_incremental_merge_, find_first_affected_item_).           *)
THEOREM ServerItemsCurrent ==
  ASSUME NEW CONSTANT C, Drawn(C), Separate(C)
  PROVE  Spec => []ItemsCurrent
<1>1. Init => Inv(C)
  BY InitOK
<1>2. Inv(C) /\ [Next]_vars => Inv(C)'
  BY NextOK
<1>3. Inv(C) => ItemsCurrent
  <2> DEFINE strip(items) == [i \in DOMAIN items |-> [items[i] EXCEPT !.owner = 0]]
             kept == doc.session.items
             all == ParseItems(doc.text, 1, 0)
  <2> SUFFICES ASSUME Inv(C), doc.open PROVE strip(kept) = strip(all)
    BY DEF ItemsCurrent
  <2>1. ServerOK(C, World, lei, unseen) /\ World.doc = doc /\ doc.open \in BOOLEAN
    BY Parts
  <2>2. ItemsAre(doc.session, doc.text) /\ doc.text \in Seq(C)
    BY <2>1 DEF ServerOK, Shown, ParsedOK, TextOK
  <2>3. Len(doc.text) \in Nat /\ 1 \in 1..Len(doc.text) + 1 /\ C \subseteq Cells
    BY <2>2 DEF Drawn
  <2>4. /\ DOMAIN all = 1..Len(doc.text) - 1 + 1
        /\ \A n \in DOMAIN all : all[n] = ItemOfCell(doc.text, 1 + n - 1, 0)
    BY <2>2, <2>3, ParsedSeparate
  <2> HIDE DEF all
  <2>5. /\ DOMAIN all = 1..Len(doc.text) /\ DOMAIN kept = 1..Len(doc.text)
        /\ \A n \in 1..Len(doc.text) : all[n] = ItemOfCell(doc.text, n, 0)
        /\ \A n \in 1..Len(doc.text) : kept[n] = ItemOfCell(doc.text, n, kept[n].owner)
    <3>1. Len(doc.text) - 1 + 1 = Len(doc.text) /\ \A n \in 1..Len(doc.text) : 1 + n - 1 = n
      BY <2>3
    <3> QED
      BY <2>2, <2>4, <3>1 DEF ItemsAre
  <2>6. ASSUME NEW n, NEW x
        PROVE  [ItemOfCell(doc.text, n, x) EXCEPT !.owner = 0] = ItemOfCell(doc.text, n, 0)
    <3> DEFINE lo == 2 * n
               hi == 2 * n + 1
               cells == <<doc.text[n]>>
               core == FALSE
    <3>1. \A owner :
            ItemOfCell(doc.text, n, owner)
              = [lo |-> lo, hi |-> hi, cells |-> cells, core |-> core, owner |-> owner]
      BY DEF ItemOfCell
    <3> HIDE DEF lo, hi, cells, core
    <3>2. PICK a : a = ItemOfCell(doc.text, n, x)
      BY Zenon
    <3>3. a = [lo |-> lo, hi |-> hi, cells |-> cells, core |-> core, owner |-> x]
      BY <3>1, <3>2, Zenon
    <3>4. [a EXCEPT !.owner = 0]
            = [lo |-> lo, hi |-> hi, cells |-> cells, core |-> core, owner |-> 0]
      BY <3>3
    <3> QED
      BY <3>1, <3>2, <3>4, Zenon
  <2>7. ASSUME NEW n \in 1..Len(doc.text)
        PROVE  [kept[n] EXCEPT !.owner = 0] = [all[n] EXCEPT !.owner = 0]
    <3>1. PICK x : x = kept[n].owner /\ kept[n] = ItemOfCell(doc.text, n, x)
      BY <2>5
    <3>2. /\ [kept[n] EXCEPT !.owner = 0] = ItemOfCell(doc.text, n, 0)
          /\ [all[n] EXCEPT !.owner = 0] = ItemOfCell(doc.text, n, 0)
      BY <2>5, <2>6, <3>1
    <3> QED
      BY <3>2
  <2> HIDE DEF kept
  <2> QED
    BY <2>5, <2>7
<1> QED
  BY <1>1, <1>2, <1>3, PTL DEF Spec

(* The state of the server keeps its type: the configurations and texts    *)
(* are those that were sent or written, the source texts of a session stay *)
(* within the compaction limit, and every index is missing, unreadable or  *)
(* good, however often bundles were walked over.                           *)
THEOREM ServerTypeCorrect == Spec => []TypeOK
<1>1. Init => Inv(Cells)
  BY InitOK
<1>2. Inv(Cells) /\ [Next]_vars => Inv(Cells)'
  BY AllDrawn, NextOK
<1>3. Inv(Cells) => TypeOK
  <2> SUFFICES ASSUME Inv(Cells) PROVE TypeOK
    OBVIOUS
  <2>1. /\ ServerOK(Cells, World, lei, unseen) /\ World.doc = doc /\ doc.open \in BOOLEAN
        /\ ProjectOK(project) /\ OverlayOK(lei) /\ unseen \in BOOLEAN
    BY Parts
  <2>2. project.cfg \in Configs /\ project.src \in ProjectTexts
    BY <2>1 DEF ProjectOK
  <2>3. \A b \in Bundles : project.idx[b].state \in {"missing", "unreadable", "good"}
    BY <2>1 DEF ProjectOK, IndexesOK, IndexOK
  <2>4. Len(doc.text) <= MaxCells
    <3>1. CASE doc.open = TRUE
      BY <2>1, <3>1 DEF ServerOK, TextOK
    <3>2. CASE doc.open = FALSE
      <4>1. doc.text = <<>>
        BY <2>1, <3>2 DEF ServerOK
      <4> QED
        BY <4>1, ServerAssumption
    <3> QED
      BY <2>1, <3>1, <3>2
  <2>5. doc.session.owners \subseteq 1..(MaxOwners + 1)
    <3>1. CASE doc.open = TRUE
      <4>1. SessionOK(doc.session)
        BY <2>1, <3>1 DEF ServerOK, Shown, ParsedOK
      <4>2. PICK k \in 1..MaxOwners + 1 : doc.session.owners = 1..k
        BY <4>1 DEF SessionOK
      <4> QED
        BY <4>2, MaxOwnersAssumption
    <3>2. CASE doc.open = FALSE
      <4>1. doc.session.owners = {}
        BY <2>1, <3>2 DEF ServerOK, NoSession
      <4> QED
        BY <4>1
    <3> QED
      BY <2>1, <3>1, <3>2
  <2>6. lei.open => lei.cfg \in Configs
    BY <2>1 DEF OverlayOK
  <2> QED
    BY <2>1, <2>2, <2>3, <2>4, <2>5, <2>6 DEF TypeOK
<1> QED
  BY <1>1, <1>2, <1>3, PTL DEF Spec

(* The analysis after a refresh of the project is linted in a context that *)
(* was built without caches.                                               *)
LEMMA RefreshedContext ==
  ASSUME NEW w, WorldShape(w), DocShape(w.doc), w.doc.open = TRUE, NEW o,
         RefreshProject(w, o).doc.errs = {}
  PROVE  RefreshProject(w, o).doc.ctx = BuildLintContext(w.project, NoCaches, o).ctx
<1> DEFINE d == [open |-> w.doc.open, text |-> w.doc.text, session |-> w.doc.session,
                 current |-> FALSE, errs |-> w.doc.errs, ctx |-> w.doc.ctx]
           invalid == [w EXCEPT !.caches = NoCaches, !.doc.current = FALSE]
           next == RefreshProject(w, o)
           parsed == ParseStep(invalid.doc, <<>>)
           lint == BuildLintContext(w.project, NoCaches, o)
           ctx == IF parsed.errs = {} THEN lint.ctx ELSE NoContext
           new == [d EXCEPT !.session = parsed.session, !.errs = parsed.errs, !.ctx = ctx,
                            !.current = TRUE]
           p == IF parsed.errs = {} THEN lint.project ELSE invalid.project
           k == IF parsed.errs = {} THEN lint.caches ELSE invalid.caches
<1>1. next = EnsureAndPublish(invalid, <<>>, o)
  BY DEF RefreshProject, InvalidateLintCaches
<1>2. invalid = [project |-> w.project, caches |-> NoCaches, published |-> w.published,
                 doc |-> d]
  <2>1. \A c, now :
          [w EXCEPT !.caches = c, !.doc.current = now]
            = [project |-> w.project, caches |-> c, published |-> w.published,
               doc |-> [open |-> w.doc.open, text |-> w.doc.text, session |-> w.doc.session,
                        current |-> now, errs |-> w.doc.errs, ctx |-> w.doc.ctx]]
    BY ChangedWorld, Zenon
  <2> QED
    BY <2>1, Zenon
<1> HIDE DEF invalid
<1>3. d.current = FALSE /\ DocShape(d)
  BY DEF DocShape
<1> HIDE DEF d
<1>4. invalid.project = w.project /\ invalid.caches = NoCaches /\ invalid.doc = d
  BY <1>2
<1>5. next = AnalyzeDocument(invalid, <<>>, o)
  BY <1>1, <1>3, <1>4 DEF EnsureAndPublish
<1>6. next = Analyzed(invalid, parsed, lint)
  BY <1>4, <1>5, Zenon DEF AnalyzeDocument
<1> HIDE DEF parsed, lint
<1>7. next.doc = new
  <2>1. next = [project |-> p, caches |-> k, doc |-> new,
                published |-> [errs |-> parsed.errs, ctx |-> ctx]]
    BY <1>4, <1>6, Zenon DEF Analyzed
  <2> HIDE DEF next, p, k, new, ctx
  <2> QED
    BY <2>1
<1> HIDE DEF ctx, next
<1>8. new = [open |-> d.open, text |-> d.text, session |-> parsed.session,
             current |-> TRUE, errs |-> parsed.errs, ctx |-> ctx]
  <2>1. \A session, errs, x, now :
          [d EXCEPT !.session = session, !.errs = errs, !.ctx = x, !.current = now]
            = [open |-> d.open, text |-> d.text, session |-> session,
               current |-> now, errs |-> errs, ctx |-> x]
    BY <1>3, AnalyzedDoc, Zenon
  <2>2. PICK session, errs, now, x :
          session = parsed.session /\ errs = parsed.errs /\ now = TRUE /\ x = ctx
    BY Zenon
  <2>3. [d EXCEPT !.session = session, !.errs = errs, !.ctx = x, !.current = now]
          = [open |-> d.open, text |-> d.text, session |-> session, current |-> now,
             errs |-> errs, ctx |-> x]
    BY <2>1, Zenon
  <2> QED
    BY <2>2, <2>3, Zenon
<1> HIDE DEF new
<1>9. next.doc.errs = parsed.errs /\ next.doc.ctx = ctx
  BY <1>7, <1>8
<1>10. next.doc.errs = {}
  BY DEF next
<1> QED
  BY <1>9, <1>10 DEF ctx, lint, next

(* A notification about config.lei repairs everything: the document then   *)
(* sees what the sources on disk export, for any bundles, dependencies,    *)
(* circles, source lists and older indexes, unless the index of a          *)
(* dependency cannot be read, or one was made of other files than its      *)
(* bundle lists now and none of these tells (index_stale_for_bundle_,      *)
(* invalidate_lint_caches_for_root_, ensure_one_bundle_index).             *)
THEOREM NotificationsRepair == Spec => NotificationRepairs
<1> DEFINE Repairs ==
      LET units == doc'.ctx.units
          src   == Listed(project.src, units)
          heard == /\ unseen /\ ~unseen'
                   /\ doc.open /\ doc'.errs = {} /\ doc'.ctx.ok
          known == /\ \A b \in Bundles \ {MainBundle} : project.idx[b].state # "unreadable"
                   /\ \A c \in DOMAIN units : ListKnown(src, project.idx, c)
      IN  heard /\ known => doc'.ctx.loaded = VisibleExports(src, Deps(units))
<1>1. Init => Inv(Cells)
  BY InitOK
<1>2. Inv(Cells) /\ [Next]_vars => Inv(Cells)'
  BY AllDrawn, NextOK
<1>3. Inv(Cells) /\ [Next]_vars => [Repairs]_vars
  <2> SUFFICES ASSUME Inv(Cells), [Next]_vars, unseen, ~unseen', doc.open, doc'.errs = {},
                      doc'.ctx.ok,
                      \A b \in Bundles \ {MainBundle} : project.idx[b].state # "unreadable",
                      Known(project, doc'.ctx.units)
               PROVE  doc'.ctx.loaded = Visible(project, doc'.ctx.units)
    BY Zenon DEF Known, Visible
  <2>1. unseen' # unseen /\ unseen' # TRUE
    OBVIOUS
  <2>2. PICK files : DidChangeWatchedFiles(files) /\ "lei" \in files
    BY <2>1 DEF Next, vars, DidOpen, DidChange, DidChangeDropped, DidClose, DidOpenLei,
                DidChangeLei, LeiOpenedOrChanged, DidCloseLei, DidChangeWatchedFiles, Request,
                WriteConfig, WriteSource, ReplaceCompiler
  <2>3. Becomes(RefreshProject(World, lei))
    BY <2>2 DEF DidChangeWatchedFiles
  <2>4. doc' = RefreshProject(World, lei).doc
    BY <2>3 DEF Becomes
  <2>5. /\ World.project = project /\ World.doc = doc /\ WorldShape(World) /\ DocShape(doc)
        /\ ProjectOK(project) /\ OverlayOK(lei) /\ doc.open \in BOOLEAN
    BY Parts
  <2> DEFINE ctx == BuildLintContext(project, NoCaches, lei).ctx
  <2>6. doc'.ctx = ctx
    <3>1. WorldShape(World) /\ DocShape(World.doc) /\ World.doc.open = TRUE
      BY <2>5
    <3>2. RefreshProject(World, lei).doc.errs = {}
      BY <2>4
    <3>3. RefreshProject(World, lei).doc.ctx = BuildLintContext(World.project, NoCaches, lei).ctx
      BY <3>1, <3>2, RefreshedContext
    <3> QED
      BY <2>4, <2>5, <3>3
  <2>7. ctx.ok /\ Known(project, ctx.units) => ctx.loaded = Visible(project, ctx.units)
    BY <2>5, FreshRight
  <2> HIDE DEF ctx
  <2> QED
    BY <2>6, <2>7
<1> HIDE DEF Repairs
<1>4. Spec => [][Repairs]_vars
  BY <1>1, <1>2, <1>3, PTL DEF Spec
<1> QED
  BY <1>4 DEF NotificationRepairs, Repairs
=============================================================================
