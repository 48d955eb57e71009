-------------------------- MODULE GraphCacheProofs --------------------------
(***************************************************************************)
(* Safety of the graph cache for every number of processes, modules,       *)
(* texts, edits and faults.                                                *)
(***************************************************************************)
EXTENDS GraphCache, WellFoundedInduction, TLAPS

-----------------------------------------------------------------------------
(* Types. *)

(* The text a module starts with is a text. *)
LEMMA FirstText ==
  (CHOOSE t \in Texts : \A u \in Texts : t <= u) \in Texts
<1> DEFINE Less == {ss \in Nat \X Nat : ss[1] < ss[2]}
<1>0. IsWellFoundedOn(Less, Nat)
  BY NatLessThanWellFounded, Zenon DEF OpToRel
<1>1. Texts \subseteq Nat /\ Texts # {}
  BY CacheAssumption
<1>2. \E t \in Texts : \A u \in Texts : ~(<<u, t>> \in Less)
  <2> HIDE DEF Less
  <2> QED
    BY <1>0, <1>1, WFMin
<1>3. \E t \in Texts : \A u \in Texts : t <= u
  <2>1. PICK t \in Texts : \A u \in Texts : ~(<<u, t>> \in Less)
    BY <1>2
  <2>2. ASSUME NEW u \in Texts PROVE t <= u
    <3>1. t \in Nat /\ u \in Nat /\ <<u, t>> \in Nat \X Nat
      BY <1>1
    <3>2. ~(u < t)
      BY <2>1, <3>1
    <3> QED
      BY <3>1, <3>2
  <2> QED
    BY <2>2
<1> QED
  BY <1>3

(* A process starts with a typed record. *)
LEMMA BlankType == Blank \in RunType
<1>1. NoModules \in [Modules -> Texts \union {NotLoaded}] /\ NoModules \in HashType
  BY DEF NoModules, HashType
<1>2. Nothing \in EvalType
  BY <1>1, CacheAssumption DEF Nothing, Evaluation, EvalType
<1> QED
  BY <1>1, <1>2 DEF Blank, RunType, MetaType, TextType, Kinds

(* The type invariant holds at first. *)
LEMMA TypeInit == Init => TypeInv
<1> SUFFICES ASSUME Init PROVE TypeInv
  OBVIOUS
<1> USE CacheAssumption DEF Init
<1>1. src \in [Modules -> Texts \union {Absent}]
  BY FirstText
<1>2. /\ listing \in 0..MaxEdits /\ edits \in 0..MaxEdits /\ faults \in 0..MaxFaults
      /\ listing <= edits
  OBVIOUS
<1>3. \A k \in Kinds : file[k] = Missing /\ tmp[k] = Missing
  OBVIOUS
<1>4. /\ file \in [Kinds -> TextType \union MetaType]
      /\ tmp \in [Kinds -> TextType \union MetaType]
  BY DEF TextType
<1>5. \A k \in Kinds : file[k] \in FileType(k) /\ tmp[k] \in FileType(k)
  BY <1>3 DEF FileType, TextType, MetaType
<1>6. pc \in [Procs -> Labels]
  BY DEF Labels
<1>7. run \in [Procs -> RunType]
  BY BlankType
<1>8. \A p \in Procs : pc[p] # "fill"
  OBVIOUS
<1>9. spoilt \subseteq Procs
  OBVIOUS
<1> QED
  BY <1>1, <1>2, <1>4, <1>5, <1>6, <1>7, <1>8, <1>9 DEF TypeInv, TypeOK

(* A write leaves a text of the file's own kind. *)
LEMMA OverType ==
  ASSUME NEW k \in Kinds, NEW old \in FileType(k), NEW new \in FileType(k),
         NEW c \in Over(old, new)
  PROVE  c \in FileType(k)
<1>1. CASE c = new
  BY <1>1
<1>2. CASE c = Torn
  BY <1>2 DEF FileType, TextType, MetaType
<1>3. CASE old.kind = "meta" /\ new.kind = "meta" /\ c = WithTail(new, old)
  <2>1. ASSUME NEW t \in FileType(k), t.kind = "meta"
        PROVE  /\ k = "meta"
               /\ t \in [kind : {"meta"}, hash : HashType, graph : EvalType, ninja : EvalType]
    BY <2>1 DEF FileType, TextType, MetaType, Missing, Empty, Torn
  <2>2. /\ k = "meta"
        /\ old \in [kind : {"meta"}, hash : HashType, graph : EvalType, ninja : EvalType]
        /\ new \in [kind : {"meta"}, hash : HashType, graph : EvalType, ninja : EvalType]
    BY <1>3, <2>1
  <2>3. [m \in Modules |-> IF new.hash[m] # NotLoaded THEN new.hash[m] ELSE old.hash[m]]
          \in HashType
    BY <2>2 DEF HashType
  <2>4. c \in [kind : {"meta"}, hash : HashType, graph : EvalType, ninja : EvalType]
    BY <1>3, <2>2, <2>3 DEF WithTail
  <2> QED
    BY <2>2, <2>4 DEF FileType, MetaType
<1> QED
  BY <1>1, <1>2, <1>3 DEF Over

(* A text whose end is lost is still of its kind. *)
LEMMA CutOverType ==
  ASSUME NEW k \in Kinds, NEW old \in FileType(k), NEW new \in FileType(k),
         NEW c \in CutOver(old, new)
  PROVE  c \in FileType(k)
<1>1. ASSUME NEW kept \in SUBSET Modules, new.kind = "meta"
      PROVE  Shortened(new, kept) \in FileType(k)
  <2>1. /\ k = "meta"
        /\ new \in [kind : {"meta"}, hash : HashType, graph : EvalType, ninja : EvalType]
    BY <1>1 DEF FileType, TextType, MetaType, Missing, Empty, Torn
  <2>2. [m \in Modules |-> IF m \in kept THEN new.hash[m] ELSE NotLoaded] \in HashType
    BY <2>1 DEF HashType
  <2> QED
    BY <2>1, <2>2 DEF Shortened, FileType, MetaType
<1>2. Torn \in FileType(k)
  BY DEF FileType, TextType, MetaType
<1>3. \A cut \in Cuts(new) : cut \in FileType(k)
  BY <1>1, <1>2 DEF Cuts
<1> QED
  BY <1>3, OverType DEF CutOver

(* What a write leaves, whole or cut, has the kind of the file. *)
LEMMA LeftType ==
  ASSUME NEW k \in Kinds, NEW old \in FileType(k), NEW new \in FileType(k),
         NEW whole, NEW c \in Left(old, new, whole)
  PROVE  c \in FileType(k)
BY OverType, CutOverType DEF Left

(* What a process writes has the kind of the file it writes. *)
LEMMA NewTextType ==
  ASSUME TypeOK, NEW p \in Procs
  PROVE  NewText(p) \in FileType(run[p].k) /\ Text(run[p].ev) \in TextType
<1>1. run[p] \in RunType
  BY DEF TypeOK
<1> QED
  BY <1>1 DEF NewText, Text, Meta, FileType, RunType, TextType, MetaType

(* Where a step leaves its process. *)
Moves(p, l, r) == Goto(p, l) /\ Set(p, r)

(* A move changes the label and the record of one process. *)
LEMMA MovesEffect ==
  ASSUME TypeOK, NEW p \in Procs, NEW l, NEW r, Moves(p, l, r)
  PROVE  /\ pc'[p] = l /\ run'[p] = r
         /\ \A q \in Procs : q # p => pc'[q] = pc[q] /\ run'[q] = run[q]
         /\ l \in Labels => pc' \in [Procs -> Labels]
         /\ r \in RunType => run' \in [Procs -> RunType]
BY DEF Moves, Goto, Set, TypeOK

(* A step of one process that leaves the files alone. *)
Local(p) ==
  /\ pc' \in [Procs -> Labels] /\ run' \in [Procs -> RunType]
  /\ pc'[p] # "fill"
  /\ \A q \in Procs : q # p => pc'[q] = pc[q] /\ run'[q] = run[q]
  /\ UNCHANGED <<src, listing, edits, file, tmp>>
  /\ faults' \in 0..MaxFaults /\ spoilt' \subseteq Procs

LocalAction(p) ==
  \/ ReadMeta(p) \/ ReadGraph(p) \/ ReadNinja(p) \/ ValidateTexts(p) \/ Hit(p)
  \/ \E m \in Modules : ValidateModule(p, m) \/ LoadModule(p, m) \/ HashModule(p, m)
  \/ Evaluated(p) \/ Hashed(p) \/ RetryFails(p) \/ LoadNinja(p) \/ Build(p)
  \/ StoreFails(p) \/ OutputFails(p) \/ Kill(p)
  \/ \E op \in {"emit", "build"} : Start(p, op)

(* Steps that write no file keep the files, the modules and the types. *)
LEMMA LocalActionIsLocal ==
  ASSUME TypeInv, NEW p \in Procs, LocalAction(p)
  PROVE  Local(p)
<1>0. /\ TypeOK /\ run[p] \in RunType /\ pc \in [Procs -> Labels] /\ pc[p] \in Labels
      /\ run \in [Procs -> RunType] /\ run = [run EXCEPT ![p] = run[p]]
      /\ pc = [pc EXCEPT ![p] = pc[p]]
      /\ src \in [Modules -> Texts \union {Absent}]
      /\ listing \in 0..MaxEdits /\ faults \in 0..MaxFaults /\ MaxFaults \in Nat
      /\ spoilt \subseteq Procs
  BY CacheAssumption DEF TypeInv, TypeOK
<1>00. file["meta"] \in MetaType /\ file["graph"] \in TextType /\ file["ninja"] \in TextType
  BY DEF TypeInv, TypeOK, Kinds, FileType
<1>1. ASSUME NEW l \in Labels \ {"fill"}, NEW r \in RunType, Moves(p, l, r),
             UNCHANGED <<src, listing, edits, file, tmp>>,
             faults' = faults \/ Fault, spoilt' \in {spoilt, spoilt \ {p}}
      PROVE  Local(p)
  <2>1. faults' \in 0..MaxFaults
    BY <1>0, <1>1 DEF Fault
  <2> QED
    BY <1>0, <1>1, <2>1, MovesEffect DEF Local
<1> USE DEF disk
<1>2. Blank \in RunType
  BY BlankType
<1>10. CASE ReadMeta(p)
  <2>1. [run[p] EXCEPT !.meta = file["meta"]] \in RunType
    BY <1>0, <1>00 DEF RunType
  <2>2. Moves(p, "read_graph", [run[p] EXCEPT !.meta = file["meta"]])
    BY <1>10 DEF ReadMeta, Moves
  <2> QED
    BY <1>1, <1>10, <2>1, <2>2 DEF ReadMeta, Labels
<1>11. CASE ReadGraph(p)
  <2>1. [run[p] EXCEPT !.graph = file["graph"]] \in RunType
    BY <1>0, <1>00 DEF RunType
  <2> QED
    BY <1>1, <1>11, <2>1 DEF ReadGraph, Moves, Labels
<1>12. CASE ReadNinja(p)
  <2>1. [run[p] EXCEPT !.ninja = file["ninja"]] \in RunType
    BY <1>0, <1>00 DEF RunType
  <2> QED
    BY <1>1, <1>2, <1>12, <2>1 DEF ReadNinja, Miss, Moves, Labels
<1>13. CASE ValidateTexts(p)
  <2>1. Moves(p, "hit", run[p]) \/ Moves(p, "eval", Blank)
    BY <1>0, <1>13 DEF ValidateTexts, Miss, Moves, Set
  <2> QED
    BY <1>0, <1>1, <1>2, <1>13, <2>1 DEF ValidateTexts, Labels
<1>14. CASE Hit(p) \/ Build(p)
  BY <1>1, <1>2, <1>14 DEF Hit, Build, Finish, Moves, Labels
<1>15. ASSUME NEW m \in Modules, ValidateModule(p, m)
       PROVE  Local(p)
  <2>1. [run[p] EXCEPT !.checked = @ \union {m}] \in RunType
    BY <1>0 DEF RunType
  <2>2. \/ Moves(p, "eval", Blank)
        \/ Moves(p, pc[p], [run[p] EXCEPT !.checked = @ \union {m}])
    BY <1>0, <1>15 DEF ValidateModule, Miss, Moves, Goto
  <2> QED
    BY <1>0, <1>1, <1>2, <1>15, <2>1, <2>2 DEF ValidateModule, Labels
<1>16. ASSUME NEW m \in Modules, LoadModule(p, m)
       PROVE  Local(p)
  <2>1. CASE src[m] = Absent
    BY <1>1, <1>2, <1>16, <2>1 DEF LoadModule, Finish, Moves, Labels
  <2>2. CASE src[m] # Absent
    <3>1. [run[p] EXCEPT !.mods[m] = src[m]] \in RunType
      BY <1>0, <2>2 DEF RunType
    <3>2. Moves(p, pc[p], [run[p] EXCEPT !.mods[m] = src[m]])
      BY <1>0, <1>16, <2>2 DEF LoadModule, Moves, Goto
    <3> QED
      BY <1>0, <1>1, <1>16, <3>1, <3>2 DEF LoadModule, Labels
  <2> QED
    BY <2>1, <2>2
<1>17. ASSUME NEW m \in Modules, HashModule(p, m)
       PROVE  Local(p)
  <2>1. [run[p] EXCEPT !.hash[m] = src[m]] \in RunType
    BY <1>0 DEF RunType, HashType
  <2>2. Moves(p, pc[p], [run[p] EXCEPT !.hash[m] = src[m]])
    BY <1>0, <1>17 DEF HashModule, Moves, Goto
  <2> QED
    BY <1>0, <1>1, <1>17, <2>1, <2>2 DEF HashModule, Labels
<1>18. CASE Evaluated(p)
  <2>1. Evaluation(run[p].mods, listing) \in EvalType
    BY <1>0, CacheAssumption DEF RunType, Evaluation, EvalType
  <2>2. [run[p] EXCEPT !.ev = Evaluation(run[p].mods, listing)] \in RunType
    BY <1>0, <2>1 DEF RunType
  <2> QED
    BY <1>1, <1>18, <2>2 DEF Evaluated, Moves, Labels
<1>19. CASE Hashed(p) \/ RetryFails(p)
  <2>1. Moves(p, "open", run[p]) \/ Moves(p, "out", run[p])
    BY <1>0, <1>19 DEF Hashed, RetryFails, Moves, Set
  <2> QED
    BY <1>0, <1>1, <1>19, <2>1 DEF Hashed, RetryFails, Labels
<1>20. CASE LoadNinja(p)
  <2>1. [run[p] EXCEPT !.ninja = file["ninja"]] \in RunType
    BY <1>0, <1>00 DEF RunType
  <2> QED
    BY <1>1, <1>2, <1>20, <2>1 DEF LoadNinja, Finish, Moves, Labels
<1>21. CASE StoreFails(p)
  <2>1. [run[p] EXCEPT !.fd = "closed"] \in RunType
    BY <1>0 DEF RunType
  <2> QED
    BY <1>1, <1>21, <2>1 DEF StoreFails, Moves, Labels
<1>22. CASE Kill(p) \/ OutputFails(p)
  BY <1>1, <1>2, <1>22 DEF Kill, OutputFails, Finish, Moves, Labels
<1>23. ASSUME NEW op \in {"emit", "build"}, Start(p, op)
       PROVE  Local(p)
  <2>1. [Blank EXCEPT !.op = op] \in RunType
    BY <1>2 DEF RunType
  <2>2. \E l \in {"eval", "read_meta"} : Moves(p, l, [Blank EXCEPT !.op = op])
    BY <1>23 DEF Start, Moves
  <2> QED
    BY <1>1, <1>23, <2>1, <2>2 DEF Start, Labels
<1> QED
  BY <1>10, <1>11, <1>12, <1>13, <1>14, <1>15, <1>16, <1>17, <1>18, <1>19, <1>20, <1>21,
     <1>22, <1>23
     DEF LocalAction

FilesType ==
  /\ file \in [Kinds -> TextType \union MetaType]
  /\ tmp \in [Kinds -> TextType \union MetaType]
  /\ \A k \in Kinds : file[k] \in FileType(k) /\ tmp[k] \in FileType(k)

(* Files hold texts or meta texts. *)
LEMMA FileTypeWithin == \A k \in Kinds : FileType(k) \subseteq TextType \union MetaType
BY DEF FileType

(* A write changes one file, and that to what Over allows. *)
LEMMA WriteFdEffect ==
  ASSUME TypeOK, NEW p \in Procs, NEW text \in FileType(run[p].k), NEW whole,
         WriteFd(p, text, whole)
  PROVE  /\ FilesType'
         /\ \A k \in Kinds :
              /\ file'[k] = file[k] \/ (k = run[p].k /\ file'[k] \in Left(file[k], text, whole))
              /\ tmp'[k] = tmp[k] \/ (k = run[p].k /\ tmp'[k] \in Left(tmp[k], text, whole))
<1>1. run[p] \in RunType /\ run[p].k \in Kinds
  BY DEF TypeOK, RunType
<1>2. FilesType
  BY DEF TypeOK, FilesType
<1>3. CASE run[p].fd = "tmp"
  <2>1. PICK c \in Left(tmp[run[p].k], text, whole) :
          tmp' = [tmp EXCEPT ![run[p].k] = c] /\ UNCHANGED file
    BY <1>3 DEF WriteFd
  <2>2. c \in FileType(run[p].k) /\ c \in TextType \union MetaType
    BY <1>1, <1>2, <2>1, LeftType, FileTypeWithin DEF FilesType
  <2> QED
    BY <1>1, <1>2, <2>1, <2>2 DEF FilesType
<1>4. CASE run[p].fd = "file"
  <2>1. PICK c \in Left(file[run[p].k], text, whole) :
          file' = [file EXCEPT ![run[p].k] = c] /\ UNCHANGED tmp
    BY <1>4 DEF WriteFd
  <2>2. c \in FileType(run[p].k) /\ c \in TextType \union MetaType
    BY <1>1, <1>2, <2>1, LeftType, FileTypeWithin DEF FilesType
  <2> QED
    BY <1>1, <1>2, <2>1, <2>2 DEF FilesType
<1>5. CASE run[p].fd \notin {"tmp", "file"}
  BY <1>2, <1>5 DEF WriteFd, FilesType
<1> QED
  BY <1>3, <1>4, <1>5

(* A step of one process on the files: the others keep all but their fd. *)
OnFiles(p) ==
  /\ pc' \in [Procs -> Labels] /\ run' \in [Procs -> RunType]
  /\ pc'[p] = "fill" => run'[p].k = "ninja"
  /\ \A q \in Procs : q # p =>
       pc'[q] = pc[q] /\ \E d : run'[q] = [run[q] EXCEPT !.fd = d]
  /\ FilesType'
  /\ faults' \in 0..MaxFaults /\ spoilt' \subseteq Procs
  /\ UNCHANGED <<src, listing, edits>>

FileAction(p) ==
  \/ OpenTmp(p) \/ WriteTmp(p) \/ CutTmp(p) \/ RenameTmp(p) \/ RenameFails(p) \/ RetryRename(p)
  \/ Output(p) \/ Fill(p) \/ CutFill(p)

(* Who is spoilt is a process, and a fault is counted. *)
LEMMA CountsType ==
  ASSUME TypeOK, NEW p \in Procs, FileAction(p)
  PROVE  faults' \in 0..MaxFaults /\ spoilt' \subseteq Procs
<1>1. \A k : Spoils(p, k) \subseteq Procs
  BY DEF Spoils, Builders
<1>2. SpoilsByFd(p) \subseteq Procs
  BY <1>1 DEF SpoilsByFd
<1>3. spoilt \subseteq Procs /\ faults \in 0..MaxFaults /\ MaxFaults \in Nat
  BY CacheAssumption DEF TypeOK
<1>4. faults' \in 0..MaxFaults
  <2>1. faults' = faults \/ Fault
    BY DEF FileAction, OpenTmp, WriteTmp, CutTmp, RenameTmp, RenameFails, RetryRename, Rename,
           Output, Fill, CutFill
  <2> QED
    BY <1>3, <2>1 DEF Fault
<1>5. spoilt' \subseteq Procs
  BY <1>1, <1>2, <1>3
     DEF FileAction, OpenTmp, WriteTmp, CutTmp, RenameTmp, RenameFails, RetryRename, Rename,
         Output, Fill, CutFill
<1> QED
  BY <1>4, <1>5

(* A move with a step on the files keeps the types. *)
LEMMA MovesOnFiles ==
  ASSUME TypeOK, NEW p \in Procs, NEW l \in Labels, NEW r \in RunType, Moves(p, l, r),
         l = "fill" => r.k = "ninja", FilesType', UNCHANGED <<src, listing, edits>>,
         faults' \in 0..MaxFaults, spoilt' \subseteq Procs
  PROVE  OnFiles(p)
<1>1. \A q \in Procs : run[q] \in RunType
  BY DEF TypeOK
<1>2. \A q \in Procs : run[q] = [run[q] EXCEPT !.fd = run[q].fd]
  BY <1>1 DEF RunType
<1>3. ASSUME NEW q \in Procs, q # p
      PROVE  pc'[q] = pc[q] /\ \E d : run'[q] = [run[q] EXCEPT !.fd = d]
  <2>1. pc'[q] = pc[q] /\ run'[q] = [run[q] EXCEPT !.fd = run[q].fd]
    BY <1>2, <1>3, MovesEffect
  <2> QED
    BY <2>1
<1>4. /\ pc' \in [Procs -> Labels] /\ run' \in [Procs -> RunType]
      /\ pc'[p] = "fill" => run'[p].k = "ninja"
  BY MovesEffect
<1> QED
  BY <1>3, <1>4 DEF OnFiles

(* A rename puts the tmp text into the file of its own kind. *)
LEMMA RenameOnFiles ==
  ASSUME TypeOK, NEW p \in Procs, Rename(p), faults' \in 0..MaxFaults, spoilt' \subseteq Procs
  PROVE  OnFiles(p)
<1> DEFINE k == run[p].k
<1>1. /\ \A q \in Procs : run[q] \in RunType
      /\ k \in Kinds /\ FilesType
  BY DEF TypeOK, RunType, FilesType
<1>2. FilesType'
  BY <1>1 DEF Rename, FilesType, FileType, TextType, MetaType
<1>3. /\ [run[p] EXCEPT !.k = After(k)] \in RunType
      /\ \A q \in Procs : [run[q] EXCEPT !.fd = Renamed(q, k)] \in RunType
  BY <1>1 DEF RunType, Kinds, After, Renamed
<1>4. run' \in [Procs -> RunType]
  BY <1>3 DEF Rename
<1>5. pc' \in [Procs -> Labels] /\ pc'[p] # "fill"
  BY DEF Rename, Goto, TypeOK, Labels
<1>6. ASSUME NEW q \in Procs, q # p
      PROVE  pc'[q] = pc[q] /\ \E d : run'[q] = [run[q] EXCEPT !.fd = d]
  BY <1>6 DEF Rename, Goto, TypeOK
<1> QED
  BY <1>2, <1>4, <1>5, <1>6 DEF OnFiles, Rename, disk

(* Steps on the files keep the types, whoever has which file open. *)
LEMMA FileActionOnFiles ==
  ASSUME TypeInv, NEW p \in Procs, FileAction(p)
  PROVE  OnFiles(p)
<1>1. /\ TypeOK /\ FilesType /\ \A q \in Procs : run[q] \in RunType
      /\ run[p].k \in Kinds /\ pc \in [Procs -> Labels]
  BY DEF TypeInv, TypeOK, FilesType, RunType
<1>0. faults' \in 0..MaxFaults /\ spoilt' \subseteq Procs
  BY <1>1, CountsType
<1> USE DEF disk
<1>2. CASE OpenTmp(p)
  <2>1. [run[p] EXCEPT !.fd = "tmp"] \in RunType
    BY <1>1 DEF RunType
  <2>2. FilesType'
    BY <1>1, <1>2 DEF OpenTmp, FilesType, FileType, TextType, MetaType
  <2>3. Moves(p, "write", [run[p] EXCEPT !.fd = "tmp"])
    BY <1>2 DEF OpenTmp, Moves
  <2> QED
    BY <1>0, <1>1, <1>2, <2>1, <2>2, <2>3, MovesOnFiles DEF OpenTmp, Labels
<1>3. CASE WriteTmp(p) \/ CutTmp(p)
  <2>1. [run[p] EXCEPT !.fd = "closed"] \in RunType
    BY <1>1 DEF RunType
  <2>2. FilesType'
    BY <1>1, <1>3, NewTextType, WriteFdEffect DEF WriteTmp, CutTmp
  <2>3. \E l \in {"rename", "out"} : Moves(p, l, [run[p] EXCEPT !.fd = "closed"])
    BY <1>3 DEF WriteTmp, CutTmp, Moves
  <2> QED
    BY <1>0, <1>1, <1>3, <2>1, <2>2, <2>3, MovesOnFiles DEF WriteTmp, CutTmp, Labels
<1>4. CASE RenameTmp(p) \/ RetryRename(p)
  BY <1>0, <1>1, <1>4, RenameOnFiles DEF RenameTmp, RetryRename
<1>5. CASE RenameFails(p)
  <2>1. FilesType'
    BY <1>1, <1>5 DEF RenameFails, FilesType, FileType, TextType, MetaType
  <2>2. \A q \in Procs : [run[q] EXCEPT !.fd = Unlinked(q, run[p].k)] \in RunType
    BY <1>1 DEF RunType, Unlinked
  <2>3. run' \in [Procs -> RunType]
    BY <1>5, <2>2 DEF RenameFails
  <2>4. pc' \in [Procs -> Labels] /\ pc'[p] # "fill"
    BY <1>1, <1>5 DEF RenameFails, Goto, Labels
  <2>5. ASSUME NEW q \in Procs, q # p
        PROVE  pc'[q] = pc[q] /\ \E d : run'[q] = [run[q] EXCEPT !.fd = d]
    BY <1>1, <1>5, <2>5 DEF RenameFails, Goto
  <2> QED
    BY <1>0, <1>5, <2>1, <2>3, <2>4, <2>5 DEF OnFiles, RenameFails
<1>6. CASE Output(p) /\ run[p].op = "build"
  <2> DEFINE r == [run[p] EXCEPT !.k = "ninja", !.fd = "file"]
  <2>1. r \in RunType /\ r.k = "ninja"
    BY <1>1 DEF RunType, Kinds
  <2>2. FilesType'
    BY <1>1, <1>6 DEF Output, FilesType, FileType, TextType, MetaType
  <2>3. Moves(p, "fill", r)
    BY <1>6 DEF Output, Moves
  <2> QED
    BY <1>0, <1>1, <1>6, <2>1, <2>2, <2>3, MovesOnFiles DEF Output, Labels
<1>7. CASE Output(p) /\ run[p].op # "build"
  <2>1. Moves(p, "off", Blank) /\ Blank \in RunType
    BY <1>7, BlankType DEF Output, Finish, Moves
  <2>2. FilesType'
    BY <1>1, <1>7 DEF Output, FilesType
  <2> QED
    BY <1>0, <1>1, <1>7, <2>1, <2>2, MovesOnFiles DEF Output, Labels
<1>8. CASE Fill(p) \/ CutFill(p)
  <2>1. [run[p] EXCEPT !.fd = "closed"] \in RunType /\ Blank \in RunType
    BY <1>1, BlankType DEF RunType
  <2>2. FileType(run[p].k) = TextType
    BY <1>8 DEF Fill, CutFill, TypeInv, FileType
  <2>3. FilesType'
    BY <1>1, <1>8, <2>2, NewTextType, WriteFdEffect DEF Fill, CutFill
  <2>4. Moves(p, "load", [run[p] EXCEPT !.fd = "closed"]) \/ Moves(p, "off", Blank)
    BY <1>8 DEF Fill, CutFill, Finish, Moves
  <2>5. UNCHANGED <<src, listing, edits>>
    BY <1>8 DEF Fill, CutFill
  <2> QED
    BY <1>0, <1>1, <2>1, <2>3, <2>4, <2>5, MovesOnFiles DEF Labels
<1> QED
  BY <1>2, <1>3, <1>4, <1>5, <1>6, <1>7, <1>8 DEF FileAction

(* Every step is the user's or one process's. *)
StepCases ==
  \/ \E p \in Procs : LocalAction(p)
  \/ \E p \in Procs : FileAction(p)
  \/ \E m \in Modules, t \in Texts \union {Absent} : Edit(m, t)
  \/ AddFile
  \/ UNCHANGED vars

(* Next is nothing but these steps. *)
LEMMA NextCases == [Next]_vars => StepCases
BY DEF Next, Step, StepCases, LocalAction, FileAction

(* Every step preserves the type invariant. *)
LEMMA TypeStep ==
  ASSUME TypeInv, StepCases
  PROVE  TypeInv'
<1>1. ASSUME NEW p \in Procs, LocalAction(p) PROVE TypeInv'
  BY <1>1, LocalActionIsLocal DEF Local, TypeInv, TypeOK
<1>2. ASSUME NEW p \in Procs, FileAction(p) PROVE TypeInv'
  <2>1. OnFiles(p)
    BY <1>2, FileActionOnFiles
  <2>2. \A q \in Procs : pc'[q] = "fill" => run'[q].k = "ninja"
    <3>1. \A q \in Procs : run[q] \in RunType /\ (pc[q] = "fill" => run[q].k = "ninja")
      BY DEF TypeInv, TypeOK
    <3>2. \A q \in Procs : \A d : [run[q] EXCEPT !.fd = d].k = run[q].k
      BY <3>1 DEF RunType
    <3> SUFFICES ASSUME NEW q \in Procs, pc'[q] = "fill" PROVE run'[q].k = "ninja"
      OBVIOUS
    <3>3. CASE q # p
      <4>1. pc[q] = "fill" /\ \E d : run'[q] = [run[q] EXCEPT !.fd = d]
        BY <2>1, <3>3 DEF OnFiles
      <4> QED
        BY <3>1, <3>2, <4>1
    <3> QED
      BY <2>1, <3>3 DEF OnFiles
  <2> QED
    BY <2>1, <2>2 DEF OnFiles, FilesType, TypeInv, TypeOK
<1>3. ASSUME NEW m \in Modules, NEW t \in Texts \union {Absent}, Edit(m, t) PROVE TypeInv'
  BY <1>3, CacheAssumption DEF Edit, CanEdit, TypeInv, TypeOK
<1>4. CASE AddFile
  BY <1>4, CacheAssumption DEF AddFile, CanEdit, TypeInv, TypeOK
<1>5. CASE UNCHANGED vars
  BY <1>5 DEF vars, TypeInv, TypeOK
<1> QED
  BY <1>1, <1>2, <1>3, <1>4, <1>5 DEF StepCases

(* The type invariant holds in every state. *)
LEMMA TypeInvHolds == Spec => []TypeInv
<1>1. TypeInv /\ [Next]_vars => TypeInv'
  BY TypeStep, NextCases
<1> QED
  BY <1>1, TypeInit, PTL DEF Spec

(* The types of the variables; nobody writes one kind of text into the     *)
(* file of another, however processes interleave in write_atomic_text.     *)
THEOREM CacheTypeCorrect == Spec => []TypeOK
<1>1. TypeInv => TypeOK
  BY DEF TypeInv
<1> QED
  BY <1>1, TypeInvHolds, PTL

-----------------------------------------------------------------------------
(* What a step can do to the meta files and to what processes know. *)

(* The meta files, the empty and the missing file, and what a process that *)
(* is about to write the meta text can leave.                              *)
MetaFrom(text) ==
  \/ text \in {file["meta"], tmp["meta"], Missing, Empty}
  \/ \E p \in Procs, old \in {file["meta"], tmp["meta"]} :
       /\ pc[p] = "write" /\ run[p].k = "meta"
       /\ \E whole \in {TRUE, ~ShortWrites} :
            text \in Left(old, Meta(run[p].hash, run[p].ev, run[p].ev), whole)

(* Every step leaves meta files of this kind. *)
LEMMA MetaFiles ==
  ASSUME TypeInv, StepCases
  PROVE  MetaFrom(file'["meta"]) /\ MetaFrom(tmp'["meta"])
<1> USE DEF MetaFrom
<1>1. /\ TypeOK /\ file \in [Kinds -> TextType \union MetaType]
      /\ tmp \in [Kinds -> TextType \union MetaType] /\ "meta" \in Kinds /\ "ninja" \in Kinds
      /\ \A p \in Procs : run[p].k \in Kinds
  BY DEF TypeInv, TypeOK, Kinds, RunType
<1>2. ASSUME NEW p \in Procs, LocalAction(p)
      PROVE  MetaFrom(file'["meta"]) /\ MetaFrom(tmp'["meta"])
  BY <1>2, LocalActionIsLocal DEF Local
<1>3. ASSUME NEW p \in Procs, FileAction(p)
      PROVE  MetaFrom(file'["meta"]) /\ MetaFrom(tmp'["meta"])
  <2>1. CASE OpenTmp(p)
    BY <1>1, <2>1 DEF OpenTmp
  <2>2. CASE WriteTmp(p) \/ CutTmp(p)
    <3>0. PICK whole \in {TRUE, ~ShortWrites} : WriteFd(p, NewText(p), whole)
      BY <2>2, CacheAssumption DEF WriteTmp, CutTmp
    <3>1. /\ file'["meta"] = file["meta"]
               \/ (run[p].k = "meta" /\ file'["meta"] \in Left(file["meta"], NewText(p), whole))
          /\ tmp'["meta"] = tmp["meta"]
               \/ (run[p].k = "meta" /\ tmp'["meta"] \in Left(tmp["meta"], NewText(p), whole))
      BY <1>1, <3>0, NewTextType, WriteFdEffect
    <3>2. run[p].k = "meta" => NewText(p) = Meta(run[p].hash, run[p].ev, run[p].ev)
      BY DEF NewText
    <3>3. pc[p] = "write"
      BY <2>2 DEF WriteTmp, CutTmp
    <3> QED
      BY <3>1, <3>2, <3>3
  <2>3. CASE RenameTmp(p) \/ RetryRename(p)
    BY <1>1, <2>3 DEF RenameTmp, RetryRename, Rename
  <2>4. CASE RenameFails(p)
    BY <1>1, <2>4 DEF RenameFails
  <2>5. CASE Output(p)
    BY <1>1, <2>5 DEF Output
  <2>6. CASE Fill(p) \/ CutFill(p)
    <3>1. run[p].k = "ninja"
      BY <2>6 DEF Fill, CutFill, TypeInv
    <3>2. Text(run[p].ev) \in FileType(run[p].k)
      BY <1>1, <3>1, NewTextType DEF FileType
    <3>3. PICK whole \in BOOLEAN : WriteFd(p, Text(run[p].ev), whole)
      BY <2>6 DEF Fill, CutFill
    <3>4. file'["meta"] = file["meta"] /\ tmp'["meta"] = tmp["meta"]
      BY <1>1, <3>1, <3>2, <3>3, WriteFdEffect
    <3> QED
      BY <3>4
  <2> QED
    BY <1>3, <2>1, <2>2, <2>3, <2>4, <2>5, <2>6 DEF FileAction
<1>4. ASSUME NEW m \in Modules, NEW t \in Texts \union {Absent}, Edit(m, t)
      PROVE  MetaFrom(file'["meta"]) /\ MetaFrom(tmp'["meta"])
  BY <1>4 DEF Edit
<1>5. CASE AddFile \/ UNCHANGED vars
  BY <1>5 DEF AddFile, vars
<1> QED
  BY <1>2, <1>3, <1>4, <1>5 DEF StepCases

(* What process q knows, but for where its open file is. *)
Knows(q) ==
  <<pc[q], run[q].meta, run[q].graph, run[q].ninja, run[q].mods, run[q].ev, run[q].hash,
    run[q].checked>>

(* A step of one process leaves what another knows. *)
LEMMA OthersKeep ==
  ASSUME TypeInv, NEW p \in Procs, LocalAction(p) \/ FileAction(p), NEW q \in Procs, q # p
  PROVE  Knows(q)' = Knows(q)
<1>1. run[q] \in RunType
  BY DEF TypeInv, TypeOK
<1>2. CASE LocalAction(p)
  BY <1>2, LocalActionIsLocal DEF Local, Knows
<1>3. CASE FileAction(p)
  <2>1. PICK d : pc'[q] = pc[q] /\ run'[q] = [run[q] EXCEPT !.fd = d]
    BY <1>3, FileActionOnFiles DEF OnFiles
  <2> QED
    BY <1>1, <2>1 DEF RunType, Knows
<1> QED
  BY <1>2, <1>3

(* A step on the files is part of a store or of the output. *)
LEMMA WriterKeeps ==
  ASSUME TypeInv, NEW p \in Procs, FileAction(p)
  PROVE  /\ pc'[p] \in {"off", "open", "write", "rename", "retry", "out", "fill", "load"}
         /\ pc'[p] \in {"open", "write", "rename", "retry"} =>
              pc[p] \in {"open", "write", "rename", "retry"}
         /\ \/ pc'[p] = "off" /\ run'[p] = Blank
            \/ run'[p].meta = run[p].meta /\ run'[p].ev = run[p].ev /\ run'[p].hash = run[p].hash
<1>1. /\ run \in [Procs -> RunType] /\ pc \in [Procs -> Labels] /\ run[p] \in RunType
  BY DEF TypeInv, TypeOK
<1>2. CASE OpenTmp(p)
  BY <1>1, <1>2 DEF OpenTmp, Goto, Set, RunType
<1>3. CASE WriteTmp(p) \/ CutTmp(p)
  BY <1>1, <1>3 DEF WriteTmp, CutTmp, Goto, Set, RunType
<1>4. CASE RenameTmp(p) \/ RetryRename(p)
  BY <1>1, <1>4 DEF RenameTmp, RetryRename, Rename, Goto, RunType
<1>5. CASE RenameFails(p)
  BY <1>1, <1>5 DEF RenameFails, Goto, RunType
<1>6. CASE Output(p)
  <2>1. CASE run[p].op = "build"
    <3>1. pc'[p] = "fill" /\ run'[p] = [run[p] EXCEPT !.k = "ninja", !.fd = "file"]
      BY <1>1, <1>6, <2>1 DEF Output, Goto, Set
    <3> QED
      BY <1>1, <3>1 DEF RunType
  <2>2. CASE run[p].op # "build"
    BY <1>1, <1>6, <2>2 DEF Output, Finish, Goto, Set
  <2> QED
    BY <2>1, <2>2
<1>7. CASE Fill(p) \/ CutFill(p)
  <2>1. \/ pc'[p] = "off" /\ run'[p] = Blank
        \/ pc'[p] = "load" /\ run'[p] = [run[p] EXCEPT !.fd = "closed"]
    BY <1>1, <1>7 DEF Fill, CutFill, Finish, Goto, Set
  <2> QED
    BY <1>1, <2>1 DEF RunType
<1> QED
  BY <1>2, <1>3, <1>4, <1>5, <1>6, <1>7 DEF FileAction

-----------------------------------------------------------------------------
(* A hit is one evaluation. *)

(* The pairing of texts holds at first. *)
LEMMA PairInit == Init => PairInv
BY DEF Init, PairInv, PairAt, Paired, Blank, Missing, Kinds

(* A written meta text is paired, whole or with the tail of another. *)
LEMMA PairedOver ==
  ASSUME NEW h, NEW e, NEW old, NEW text \in Over(old, Meta(h, e, e))
  PROVE  Paired(text)
<1>1. CASE text = Meta(h, e, e)
  BY <1>1 DEF Meta, Paired
<1>2. CASE text = Torn
  BY <1>2 DEF Torn, Paired
<1>3. CASE text = WithTail(Meta(h, e, e), old)
  BY <1>3 DEF WithTail, Meta, Paired
<1> QED
  BY <1>1, <1>2, <1>3 DEF Over

(* So is one that lost its end. *)
LEMMA PairedLeft ==
  ASSUME NEW h, NEW e, NEW old, Paired(old), NEW whole,
         NEW text \in Left(old, Meta(h, e, e), whole)
  PROVE  Paired(text)
<1>1. CASE text \in Over(old, Meta(h, e, e))
  BY <1>1, PairedOver
<1>2. CASE text \in CutOver(old, Meta(h, e, e))
  <2>1. ASSUME text # old
        PROVE  \E c \in Cuts(Meta(h, e, e)) : text \in Over(old, c)
    BY <1>2, <2>1 DEF CutOver
  <2>2. ASSUME text \in Over(old, Torn) PROVE Paired(text)
    BY <2>2 DEF Over, Paired, Torn
  <2>3. ASSUME NEW kept, text \in Over(old, Shortened(Meta(h, e, e), kept)) PROVE Paired(text)
    <3> DEFINE g == [m \in Modules |-> IF m \in kept THEN h[m] ELSE NotLoaded]
    <3>1. Shortened(Meta(h, e, e), kept) = Meta(g, e, e)
      BY DEF Shortened, Meta
    <3>2. text \in Over(old, Meta(g, e, e))
      BY <2>3, <3>1
    <3> HIDE DEF g
    <3> QED
      BY <3>2, PairedOver
  <2> QED
    BY <2>1, <2>2, <2>3 DEF Cuts
<1> QED
  BY <1>1, <1>2 DEF Left

(* Meta files stay paired. *)
LEMMA PairFiles ==
  ASSUME TypeInv, PairInv, StepCases
  PROVE  Paired(file'["meta"]) /\ Paired(tmp'["meta"])
<1>1. ASSUME NEW text, MetaFrom(text) PROVE Paired(text)
  <2>1. CASE text \in {file["meta"], tmp["meta"], Missing, Empty}
    BY <2>1 DEF PairInv, Paired, Missing, Empty
  <2> QED
    BY <1>1, <2>1, PairedLeft DEF MetaFrom, PairInv
<1> QED
  BY <1>1, MetaFiles

(* A process that reads keeps its texts paired. *)
LEMMA PairProcess ==
  ASSUME TypeInv, PairInv, NEW p \in Procs, LocalAction(p)
  PROVE  PairAt(p)'
<1>0. /\ run \in [Procs -> RunType] /\ pc \in [Procs -> Labels] /\ run[p] \in RunType
      /\ PairAt(p) /\ Paired(file["meta"])
  BY DEF TypeInv, TypeOK, PairInv
<1>1. ASSUME run'[p].meta = Missing, pc'[p] \notin {"validate", "hit"} PROVE PairAt(p)'
  BY <1>1 DEF PairAt, Paired, Missing
<1>2. ASSUME run'[p].meta = run[p].meta, pc'[p] \notin {"validate", "hit"} PROVE PairAt(p)'
  BY <1>0, <1>2 DEF PairAt
<1>3. Blank.meta = Missing /\ \A op : [Blank EXCEPT !.op = op].meta = Missing
  BY DEF Blank
<1>4. CASE ReadMeta(p)
  BY <1>0, <1>4 DEF ReadMeta, Goto, Set, RunType, PairAt
<1>5. CASE ReadGraph(p)
  BY <1>0, <1>2, <1>5 DEF ReadGraph, Goto, Set, RunType
<1>6. CASE ReadNinja(p)
  <2>1. CASE pc'[p] = "eval" /\ run'[p] = Blank
    BY <1>1, <1>3, <2>1
  <2>2. CASE /\ run[p].meta.kind = "meta" /\ pc'[p] = "validate"
             /\ run'[p] = [run[p] EXCEPT !.ninja = file["ninja"]]
    BY <1>0, <2>2 DEF RunType, PairAt
  <2> QED
    BY <1>0, <1>6, <2>1, <2>2 DEF ReadNinja, Miss, Goto, Set
<1>7. CASE ValidateTexts(p)
  <2>1. CASE pc'[p] = "eval" /\ run'[p] = Blank
    BY <1>1, <1>3, <2>1
  <2>2. CASE /\ HashMatches(run[p].graph, run[p].meta.graph)
             /\ HashMatches(run[p].ninja, run[p].meta.ninja)
             /\ pc'[p] = "hit" /\ run' = run
    BY <1>0, <1>7, <2>2 DEF ValidateTexts, HashMatches, PairAt
  <2> QED
    BY <1>0, <1>7, <2>1, <2>2 DEF ValidateTexts, Miss, Goto, Set
<1>8. ASSUME NEW m \in Modules, ValidateModule(p, m) PROVE PairAt(p)'
  <2>1. CASE pc'[p] = "eval" /\ run'[p] = Blank
    BY <1>1, <1>3, <2>1
  <2>2. CASE pc' = pc /\ run'[p] = [run[p] EXCEPT !.checked = @ \union {m}]
    BY <1>0, <1>8, <2>2 DEF ValidateModule, RunType, PairAt
  <2> QED
    BY <1>0, <1>8, <2>1, <2>2 DEF ValidateModule, Miss, Goto, Set
<1>9. ASSUME NEW m \in Modules, LoadModule(p, m) \/ HashModule(p, m) PROVE PairAt(p)'
  <2>1. CASE pc'[p] = "off" /\ run'[p] = Blank
    BY <1>1, <1>3, <2>1
  <2>2. CASE \/ run'[p] = [run[p] EXCEPT !.mods[m] = src[m]]
             \/ run'[p] = [run[p] EXCEPT !.hash[m] = src[m]]
    BY <1>0, <1>2, <1>9, <2>2 DEF LoadModule, HashModule, RunType, Finish, Goto, Set
  <2> QED
    BY <1>0, <1>9, <2>1, <2>2 DEF LoadModule, HashModule, Finish, Goto, Set
<1>10. CASE Evaluated(p) \/ Hashed(p) \/ RetryFails(p) \/ StoreFails(p)
  BY <1>0, <1>2, <1>10 DEF Evaluated, Hashed, RetryFails, StoreFails, Goto, Set, RunType
<1>11. CASE LoadNinja(p)
  <2>1. CASE pc'[p] = "off" /\ run'[p] = Blank
    BY <1>1, <1>3, <2>1
  <2>2. CASE pc'[p] = "build" /\ run'[p] = [run[p] EXCEPT !.ninja = file["ninja"]]
    BY <1>0, <1>2, <2>2 DEF RunType
  <2> QED
    BY <1>0, <1>11, <2>1, <2>2 DEF LoadNinja, Finish, Goto, Set
<1>12. CASE Hit(p) \/ Build(p) \/ Kill(p) \/ OutputFails(p)
  BY <1>0, <1>1, <1>3, <1>12 DEF Hit, Build, Kill, OutputFails, Finish, Goto, Set
<1>13. ASSUME NEW op \in {"emit", "build"}, Start(p, op) PROVE PairAt(p)'
  BY <1>0, <1>1, <1>3, <1>13 DEF Start, Goto, Set
<1> QED
  BY <1>4, <1>5, <1>6, <1>7, <1>8, <1>9, <1>10, <1>11, <1>12, <1>13 DEF LocalAction

(* Every step preserves the pairing. *)
LEMMA PairStep ==
  ASSUME TypeInv, PairInv, StepCases
  PROVE  PairInv'
<1>1. ASSUME NEW p \in Procs, LocalAction(p) PROVE \A q \in Procs : PairAt(q)'
  <2>1. ASSUME NEW q \in Procs, q # p PROVE PairAt(q)'
    BY <1>1, <2>1, OthersKeep DEF Knows, PairInv, PairAt
  <2> QED
    BY <1>1, <2>1, PairProcess
<1>2. ASSUME NEW p \in Procs, FileAction(p) PROVE \A q \in Procs : PairAt(q)'
  <2>1. ASSUME NEW q \in Procs, q # p PROVE PairAt(q)'
    BY <1>2, <2>1, OthersKeep DEF Knows, PairInv, PairAt
  <2>2. pc'[p] \notin {"validate", "hit"} /\ run'[p].meta \in {Missing, run[p].meta}
    BY <1>2, WriterKeeps DEF Blank
  <2>3. PairAt(p)'
    BY <2>2 DEF PairInv, PairAt, Paired, Missing
  <2> QED
    BY <2>1, <2>3
<1>3. ASSUME UNCHANGED <<pc, run>> PROVE \A q \in Procs : PairAt(q)'
  BY <1>3 DEF PairInv, PairAt
<1>4. \A q \in Procs : PairAt(q)'
  BY <1>1, <1>2, <1>3 DEF StepCases, Edit, AddFile, vars
<1> QED
  BY <1>4, PairFiles DEF PairInv

(* The pairing holds in every state. *)
LEMMA PairInvHolds == Spec => []PairInv
<1>1. TypeInv /\ PairInv /\ [Next]_vars => PairInv'
  BY PairStep, NextCases
<1> QED
  BY <1>1, PairInit, TypeInvHolds, PTL DEF Spec

(* load_graph_cache never returns a mixture: with any number of processes, *)
(* killed anywhere, a hit is the graph and the ninja text of one           *)
(* evaluation, both whole.                                                 *)
THEOREM HitsAreOneEvaluation == Spec => []HitIsOneEvaluation
<1>1. ASSUME PairInv, NEW p \in Procs, pc[p] = "hit"
      PROVE  run[p].ninja.kind = "text" /\ run[p].graph = run[p].ninja
  <2>1. /\ run[p].graph = Text(run[p].meta.graph) /\ run[p].ninja = Text(run[p].meta.ninja)
        /\ run[p].meta.graph = run[p].meta.ninja
    BY <1>1 DEF PairInv, PairAt, Paired
  <2> QED
    BY <2>1 DEF Text
<1>2. PairInv => HitIsOneEvaluation
  BY <1>1 DEF HitIsOneEvaluation
<1> QED
  BY <1>2, PairInvHolds, PTL

-----------------------------------------------------------------------------
(* A hit is fresh, when nobody edits while a run reads and no module looks *)
(* at the file system.                                                     *)

(* There is no stale text at first. *)
LEMMA FreshInit == Init => FreshInv
<1> SUFFICES ASSUME Init PROVE FreshInv
  OBVIOUS
<1>1. Sound(Missing) /\ Blank.meta = Missing
  BY DEF Sound, Missing, Blank
<1>2. /\ file["meta"] = Missing /\ tmp["meta"] = Missing
      /\ \A p \in Procs : pc[p] = "off" /\ run[p] = Blank
  BY DEF Init, Kinds
<1> QED
  BY <1>1, <1>2 DEF FreshInv, FreshAt

(* A store of hashes that are those of the evaluation leaves a sound meta  *)
(* text, even over a longer one.                                           *)
LEMMA SoundOver ==
  ASSUME NEW e \in EvalType, e.listing = 0, Whole(e.mods), NEW old,
         NEW text \in Over(old, Meta(e.mods, e, e))
  PROVE  Sound(text)
<1>1. CASE text = Meta(e.mods, e, e)
  BY <1>1 DEF Meta, Sound
<1>2. CASE text = Torn
  BY <1>2 DEF Torn, Sound
<1>3. CASE text = WithTail(Meta(e.mods, e, e), old)
  <2>1. text.graph = e
    BY <1>3 DEF WithTail, Meta
  <2>2. text.hash = [m \in Modules |-> IF e.mods[m] # NotLoaded THEN e.mods[m] ELSE old.hash[m]]
    BY <1>3 DEF WithTail, Meta
  <2>3. \A m \in LoadedIn(e.mods) : text.hash[m] = e.mods[m]
    BY <2>2 DEF LoadedIn
  <2> QED
    BY <2>1, <2>3 DEF Sound
<1> QED
  BY <1>1, <1>2, <1>3 DEF Over

(* Meta files stay sound. *)
LEMMA FreshFiles ==
  ASSUME ~ShortWrites, TypeInv, FreshInv, StepCases
  PROVE  Sound(file'["meta"]) /\ Sound(tmp'["meta"])
<1>1. ASSUME NEW text, MetaFrom(text) PROVE Sound(text)
  <2>1. CASE text \in {file["meta"], tmp["meta"], Missing, Empty}
    BY <2>1 DEF FreshInv, Sound, Missing, Empty
  <2>2. ASSUME NEW p \in Procs, NEW old, pc[p] = "write",
               text \in Over(old, Meta(run[p].hash, run[p].ev, run[p].ev))
        PROVE  Sound(text)
    <3>1. Storing(p) /\ run[p].ev \in EvalType
      BY <2>2 DEF FreshInv, FreshAt, TypeInv, TypeOK, RunType
    <3> QED
      BY <2>2, <3>1, SoundOver DEF Storing
  <2> QED
    BY <1>1, <2>1, <2>2 DEF MetaFrom, Left
<1> QED
  BY <1>1, MetaFiles

(* The steps of an evaluation, while the modules stay as they are. *)
LEMMA FreshLoad ==
  ASSUME TypeInv, FreshInv, NEW p \in Procs, NEW m \in Modules, LoadModule(p, m)
  PROVE  FreshAt(p)'
<1>0. /\ run \in [Procs -> RunType] /\ pc \in [Procs -> Labels] /\ run[p] \in RunType
      /\ src[m] \in Texts \union {Absent}
      /\ Sound(run[p].meta) /\ Evaluating(p) /\ pc[p] = "eval"
  BY DEF TypeInv, TypeOK, FreshInv, FreshAt, LoadModule
<1>1. CASE src[m] = Absent
  <2>1. pc'[p] = "off" /\ run'[p].meta = Missing
    BY <1>0, <1>1 DEF LoadModule, Finish, Goto, Set, Blank
  <2> QED
    BY <2>1 DEF FreshAt, Sound, Missing
<1>2. CASE src[m] # Absent
  <2> DEFINE mods == run[p].mods
             new == [mods EXCEPT ![m] = src[m]]
  <2>0. mods \in [Modules -> Texts \union {NotLoaded}] /\ Entry \in Modules
    BY <1>0, CacheAssumption DEF RunType
  <2>1. src[m] # NotLoaded
    BY <1>0, <1>2, CacheAssumption DEF NotLoaded, Absent
  <2>2. /\ pc'[p] = "eval" /\ run'[p] = [run[p] EXCEPT !.mods[m] = src[m]] /\ src' = src
    BY <1>0, <1>2 DEF LoadModule, Set, disk
  <2>3. run'[p].mods = new /\ run'[p].hash = run[p].hash /\ run'[p].meta = run[p].meta
    BY <1>0, <2>2 DEF RunType
  <2>4. LoadedIn(new) = LoadedIn(mods) \union {m}
    BY <2>0, <2>1 DEF LoadedIn
  <2>5. \A x \in LoadedIn(new) : new[x] = src[x]
    BY <1>0, <2>0, <2>4 DEF Evaluating, LoadedIn
  <2>6. Entry \in LoadedIn(new) /\ LoadedIn(new) \subseteq Loaded(new[Entry])
    <3>1. CASE m = Entry
      <4>1. LoadedIn(mods) = {}
        BY <1>0, <3>1 DEF Evaluating, LoadModule, LoadedIn
      <4> QED
        BY <2>4, <3>1, <4>1 DEF Loaded
    <3>2. CASE m # Entry
      <4>1. mods[Entry] # NotLoaded /\ m \in Loaded(mods[Entry]) /\ new[Entry] = mods[Entry]
        BY <2>0, <3>2 DEF LoadModule
      <4>2. Entry \in LoadedIn(mods)
        BY <2>0, <4>1 DEF LoadedIn
      <4> QED
        BY <1>0, <2>4, <4>1, <4>2 DEF Evaluating
    <3> QED
      BY <3>1, <3>2
  <2>7. Evaluating(p)'
    BY <1>0, <2>2, <2>3, <2>5, <2>6 DEF Evaluating, LoadedIn, Loaded, NoModules
  <2> QED
    BY <1>0, <2>2, <2>3, <2>7 DEF FreshAt
<1> QED
  BY <1>1, <1>2

(* A finished evaluation has loaded the entry and what it imports. *)
LEMMA FreshEvaluated ==
  ASSUME TypeInv, FreshInv, ~Globs, NEW p \in Procs, Evaluated(p)
  PROVE  FreshAt(p)'
<1>0. /\ run \in [Procs -> RunType] /\ pc \in [Procs -> Labels] /\ run[p] \in RunType
      /\ Sound(run[p].meta) /\ Evaluating(p) /\ Entry \in Modules
  BY CacheAssumption DEF TypeInv, TypeOK, FreshInv, FreshAt, Evaluated
<1>1. /\ pc'[p] = "hash" /\ src' = src
      /\ run'[p] = [run[p] EXCEPT !.ev = Evaluation(run[p].mods, listing)]
  BY <1>0 DEF Evaluated, Goto, Set, disk
<1>2. /\ run'[p].mods = run[p].mods /\ run'[p].hash = run[p].hash
      /\ run'[p].meta = run[p].meta /\ run'[p].ev = Evaluation(run[p].mods, 0)
  BY <1>0, <1>1 DEF RunType, Evaluation
<1>3. Whole(run[p].mods)
  BY <1>0 DEF Evaluated, Evaluating, Whole, LoadedIn
<1>4. LoadedIn(run[p].hash) = {}
  BY <1>0 DEF Evaluating, LoadedIn, NoModules
<1>5. Hashing(p)'
  BY <1>0, <1>1, <1>2, <1>3, <1>4
     DEF Hashing, Evaluating, Whole, LoadedIn, Loaded, Evaluation
<1> QED
  BY <1>0, <1>1, <1>2, <1>5 DEF FreshAt

(* A module is hashed as it was loaded, nobody having edited it. *)
LEMMA FreshHash ==
  ASSUME TypeInv, FreshInv, NEW p \in Procs, NEW m \in Modules, HashModule(p, m)
  PROVE  FreshAt(p)'
<1>0. /\ run \in [Procs -> RunType] /\ pc \in [Procs -> Labels] /\ run[p] \in RunType
      /\ src[m] \in Texts \union {Absent}
      /\ Sound(run[p].meta) /\ Hashing(p) /\ pc[p] = "hash"
  BY DEF TypeInv, TypeOK, FreshInv, FreshAt, HashModule
<1>1. /\ pc'[p] = "hash" /\ src' = src
      /\ run'[p] = [run[p] EXCEPT !.hash[m] = src[m]]
  BY <1>0 DEF HashModule, Set, disk
<1>2. /\ run'[p].mods = run[p].mods /\ run'[p].hash = [run[p].hash EXCEPT ![m] = src[m]]
      /\ run'[p].meta = run[p].meta /\ run'[p].ev = run[p].ev
  BY <1>0, <1>1 DEF RunType
<1>3. run[p].hash \in [Modules -> Texts \union {Absent, NotLoaded}]
  BY <1>0 DEF RunType, HashType
<1>4. LoadedIn(run'[p].hash) \subseteq LoadedIn(run[p].hash) \union {m}
  BY <1>2, <1>3 DEF LoadedIn
<1>5. \A x \in LoadedIn(run'[p].hash) : run'[p].hash[x] = src[x]
  BY <1>0, <1>2, <1>3, <1>4 DEF Hashing, LoadedIn
<1>6. LoadedIn(run'[p].hash) \subseteq LoadedIn(run[p].mods)
  BY <1>0, <1>4 DEF Hashing, HashModule
<1>7. Hashing(p)'
  BY <1>0, <1>1, <1>2, <1>5, <1>6 DEF Hashing, Whole, LoadedIn, Loaded, Evaluation
<1> QED
  BY <1>0, <1>1, <1>2, <1>7 DEF FreshAt

(* When all are hashed the hashes are those of the evaluation. *)
LEMMA FreshHashed ==
  ASSUME TypeInv, FreshInv, NEW p \in Procs, Hashed(p)
  PROVE  FreshAt(p)'
<1>0. /\ pc \in [Procs -> Labels] /\ run[p] \in RunType
      /\ Sound(run[p].meta) /\ Hashing(p)
  BY DEF TypeInv, TypeOK, FreshInv, FreshAt, Hashed
<1>1. pc'[p] = "open" /\ run' = run
  BY <1>0 DEF Hashed, Goto
<1>2. run[p].ev.mods = run[p].mods /\ run[p].ev.listing = 0
  BY <1>0 DEF Hashing, Evaluation
<1>3. /\ run[p].mods \in [Modules -> Texts \union {NotLoaded}]
      /\ run[p].hash \in [Modules -> Texts \union {Absent, NotLoaded}]
  BY <1>0 DEF RunType, HashType
<1>4. \A m \in Modules : run[p].hash[m] = run[p].mods[m]
  BY <1>0 DEF Hashed, Hashing, LoadedIn
<1>5. run[p].hash = run[p].mods
  BY <1>3, <1>4
<1>6. Storing(p)
  BY <1>0, <1>2, <1>5 DEF Hashing, Storing
<1> QED
  BY <1>0, <1>1, <1>6 DEF FreshAt, Storing, Whole, LoadedIn, Loaded

(* The other steps that leave the files alone. *)
LEMMA FreshProcess ==
  ASSUME TypeInv, FreshInv, ~Globs, NEW p \in Procs, LocalAction(p)
  PROVE  FreshAt(p)'
<1>0. /\ run \in [Procs -> RunType] /\ pc \in [Procs -> Labels] /\ run[p] \in RunType
      /\ FreshAt(p) /\ Sound(file["meta"])
  BY DEF TypeInv, TypeOK, FreshInv
<1> DEFINE Idle == {"off", "out", "fill", "load", "build"}
<1>1. ASSUME run'[p].meta \in {Missing, run[p].meta}, pc'[p] \in Idle PROVE FreshAt(p)'
  BY <1>0, <1>1 DEF FreshAt, Sound, Missing
<1>2. ASSUME NEW op, run'[p] = [Blank EXCEPT !.op = op],
             pc'[p] \in {"eval", "read_meta"}
      PROVE  FreshAt(p)'
  <2>1. /\ run'[p].meta = Missing /\ run'[p].checked = {} /\ run'[p].mods = NoModules
        /\ run'[p].hash = NoModules
    BY <1>2 DEF Blank
  <2>2. LoadedIn(NoModules) = {}
    BY DEF LoadedIn, NoModules
  <2>3. Evaluating(p)'
    BY <2>1, <2>2 DEF Evaluating, LoadedIn, NoModules
  <2> QED
    BY <1>2, <2>1, <2>3 DEF FreshAt, Sound, Missing
<1>3. Blank = [Blank EXCEPT !.op = "emit"] /\ Blank.meta = Missing
  BY DEF Blank
<1>4. CASE ReadMeta(p)
  <2>1. /\ pc'[p] = "read_graph" /\ run'[p].meta = file["meta"]
        /\ run'[p].checked = run[p].checked /\ pc[p] = "read_meta"
    BY <1>0, <1>4 DEF ReadMeta, Goto, Set, RunType
  <2> QED
    BY <1>0, <2>1 DEF FreshAt, Sound
<1>5. CASE ReadGraph(p)
  <2>1. /\ pc'[p] = "read_ninja" /\ run'[p].meta = run[p].meta
        /\ run'[p].checked = run[p].checked /\ pc[p] = "read_graph"
    BY <1>0, <1>5 DEF ReadGraph, Goto, Set, RunType
  <2> QED
    BY <1>0, <2>1 DEF FreshAt
<1>6. CASE ReadNinja(p)
  <2>1. CASE pc'[p] = "eval" /\ run'[p] = Blank
    BY <1>2, <1>3, <2>1
  <2>2. CASE pc'[p] = "validate" /\ run'[p] = [run[p] EXCEPT !.ninja = file["ninja"]]
    <3>1. run'[p].meta = run[p].meta /\ run'[p].checked = {}
      BY <1>0, <1>6, <2>2 DEF ReadNinja, FreshAt, RunType
    <3> QED
      BY <1>0, <2>2, <3>1 DEF FreshAt, Checking
  <2> QED
    BY <1>0, <1>6, <2>1, <2>2 DEF ReadNinja, Miss, Goto, Set
<1>7. CASE ValidateTexts(p)
  <2>1. CASE pc'[p] = "eval" /\ run'[p] = Blank
    BY <1>2, <1>3, <2>1
  <2>2. CASE pc'[p] = "hit" /\ run' = run
    <3>1. Checking(p)' /\ LoadedIn(run[p].meta.hash) \subseteq run[p].checked
      BY <1>0, <1>7, <2>2 DEF ValidateTexts, FreshAt, Checking, disk
    <3> QED
      BY <1>0, <2>2, <3>1 DEF FreshAt, LoadedIn
  <2> QED
    BY <1>0, <1>7, <2>1, <2>2 DEF ValidateTexts, Miss, Goto, Set
<1>8. ASSUME NEW m \in Modules, ValidateModule(p, m) PROVE FreshAt(p)'
  <2>1. CASE pc'[p] = "eval" /\ run'[p] = Blank
    BY <1>2, <1>3, <2>1
  <2>2. CASE /\ pc' = pc /\ run'[p] = [run[p] EXCEPT !.checked = @ \union {m}]
             /\ src[m] # Absent /\ src[m] = run[p].meta.hash[m]
    <3>1. /\ run'[p].meta = run[p].meta /\ run'[p].checked = run[p].checked \union {m}
          /\ pc[p] = "validate" /\ src' = src
      BY <1>0, <1>8, <2>2 DEF ValidateModule, RunType, disk
    <3>2. Checking(p)'
      BY <1>0, <2>2, <3>1 DEF FreshAt, Checking
    <3> QED
      BY <1>0, <2>2, <3>1, <3>2 DEF FreshAt
  <2> QED
    BY <1>0, <1>8, <2>1, <2>2 DEF ValidateModule, Miss, Goto, Set
<1>9. CASE RetryFails(p) \/ StoreFails(p)
  BY <1>0, <1>1, <1>9 DEF RetryFails, StoreFails, Goto, Set, RunType
<1>10. CASE LoadNinja(p)
  <2>1. \/ pc'[p] = "off" /\ run'[p] = Blank
        \/ pc'[p] = "build" /\ run'[p] = [run[p] EXCEPT !.ninja = file["ninja"]]
    BY <1>0, <1>10 DEF LoadNinja, Finish, Goto, Set
  <2> QED
    BY <1>0, <1>1, <1>3, <2>1 DEF RunType
<1>11. CASE Hit(p) \/ Build(p) \/ Kill(p) \/ OutputFails(p)
  BY <1>0, <1>1, <1>3, <1>11 DEF Hit, Build, Kill, OutputFails, Finish, Goto, Set
<1>12. ASSUME NEW op \in {"emit", "build"}, Start(p, op) PROVE FreshAt(p)'
  BY <1>0, <1>2, <1>12 DEF Start, Goto, Set
<1> QED
  BY <1>4, <1>5, <1>6, <1>7, <1>8, <1>9, <1>10, <1>11, <1>12,
     FreshLoad, FreshEvaluated, FreshHash, FreshHashed
     DEF LocalAction

(* What a process knows of modules that did not change stays true. *)
LEMMA FreshKept ==
  ASSUME NEW q \in Procs, FreshAt(q), Knows(q)' = Knows(q),
         src' = src \/ ~Reading(q)
  PROVE  FreshAt(q)'
<1>1. /\ pc'[q] = pc[q] /\ run'[q].meta = run[q].meta /\ run'[q].mods = run[q].mods
      /\ run'[q].ev = run[q].ev /\ run'[q].hash = run[q].hash
      /\ run'[q].checked = run[q].checked
  BY DEF Knows
<1>2. CASE src' = src
  BY <1>1, <1>2
     DEF FreshAt, Evaluating, Hashing, Storing, Checking, Sound, Whole, LoadedIn, Loaded,
         NoModules, Evaluation
<1>3. CASE ~Reading(q)
  BY <1>1, <1>3 DEF FreshAt, Reading, Storing, Sound, Whole, LoadedIn, Loaded
<1> QED
  BY <1>2, <1>3

(* Every step preserves what is known of the modules. *)
LEMMA FreshStep ==
  ASSUME QuietReads, ~Globs, ~ShortWrites, TypeInv, FreshInv, StepCases
  PROVE  FreshInv'
<1>1. ASSUME NEW p \in Procs, LocalAction(p), NEW q \in Procs PROVE FreshAt(q)'
  <2>1. CASE q # p
    BY <1>1, <2>1, OthersKeep, LocalActionIsLocal, FreshKept DEF Local, FreshInv
  <2> QED
    BY <1>1, <2>1, FreshProcess
<1>2. ASSUME NEW p \in Procs, FileAction(p), NEW q \in Procs PROVE FreshAt(q)'
  <2>0. src' = src
    BY <1>2, FileActionOnFiles DEF OnFiles
  <2>1. CASE q # p
    BY <1>2, <2>0, <2>1, OthersKeep, FreshKept DEF FreshInv
  <2>2. CASE q = p
    <3>1. /\ pc'[p] \in {"off", "open", "write", "rename", "retry", "out", "fill", "load"}
          /\ run'[p].meta = Missing \/ run'[p].meta = run[p].meta
          /\ pc'[p] \in {"open", "write", "rename", "retry"} =>
               /\ pc[p] \in {"open", "write", "rename", "retry"}
               /\ run'[p].ev = run[p].ev /\ run'[p].hash = run[p].hash
      BY <1>2, WriterKeeps DEF Blank
    <3>2. Sound(run'[p].meta)
      BY <3>1 DEF FreshInv, FreshAt, Sound, Missing
    <3>3. pc'[p] \in {"open", "write", "rename", "retry"} => Storing(p)'
      BY <3>1 DEF FreshInv, FreshAt, Storing, Whole, LoadedIn, Loaded
    <3> QED
      BY <2>2, <3>1, <3>2, <3>3 DEF FreshAt
  <2> QED
    BY <2>1, <2>2
<1>3. ASSUME NEW m \in Modules, NEW t \in Texts \union {Absent}, Edit(m, t), NEW q \in Procs
      PROVE  FreshAt(q)'
  BY <1>3, FreshKept DEF Edit, CanEdit, Knows, FreshInv
<1>4. ~AddFile
  BY DEF AddFile
<1>5. ASSUME UNCHANGED vars, NEW q \in Procs PROVE FreshAt(q)'
  BY <1>5, FreshKept DEF vars, Knows, FreshInv
<1>6. \A q \in Procs : FreshAt(q)'
  BY <1>1, <1>2, <1>3, <1>4, <1>5 DEF StepCases
<1> QED
  BY <1>6, FreshFiles DEF FreshInv

(* What a hit has validated is all that its evaluation read, and it is as  *)
(* the evaluation read it: the same evaluation now gives the same text.    *)
LEMMA FreshHit ==
  ASSUME ~Globs, TypeInv, PairInv, FreshInv, NEW p \in Procs, pc[p] = "hit"
  PROVE  CanEvaluate(src) /\ run[p].ninja = Text(Evaluate(src, listing))
<1> DEFINE e == run[p].meta.graph
           mods == e.mods
<1>1. /\ run[p].meta.kind = "meta" /\ e = run[p].meta.ninja
      /\ run[p].ninja = Text(e)
  BY DEF PairInv, PairAt, Paired
<1>2. /\ e.listing = 0 /\ Whole(mods)
      /\ \A m \in LoadedIn(mods) : run[p].meta.hash[m] = mods[m]
      /\ \A m \in run[p].checked : src[m] # Absent /\ src[m] = run[p].meta.hash[m]
      /\ LoadedIn(run[p].meta.hash) \subseteq run[p].checked
  BY <1>1 DEF FreshInv, FreshAt, Sound, Checking
<1>3. e \in EvalType /\ Entry \in Modules
  <2>1. run[p].meta \in MetaType
    BY DEF TypeInv, TypeOK, RunType
  <2> QED
    BY <1>1, <2>1, CacheAssumption DEF MetaType, Missing, Empty, Torn
<1>4. mods \in [Modules -> Texts \union {NotLoaded}] /\ e = [mods |-> mods, listing |-> 0]
  BY <1>2, <1>3 DEF EvalType
<1>5. \A m \in LoadedIn(mods) : src[m] # Absent /\ src[m] = mods[m]
  BY <1>2 DEF LoadedIn
<1>6. Entry \in LoadedIn(mods) /\ LoadedIn(mods) = Loaded(src[Entry])
  BY <1>2, <1>3, <1>5 DEF Whole, LoadedIn
<1>7. CanEvaluate(src)
  BY <1>5, <1>6 DEF CanEvaluate
<1>8. [m \in Modules |-> IF m \in Loaded(src[Entry]) THEN src[m] ELSE NotLoaded] = mods
  BY <1>4, <1>5, <1>6 DEF LoadedIn
<1>9. Evaluate(src, listing) = e
  BY <1>4, <1>8 DEF Evaluate, Evaluation
<1> QED
  BY <1>1, <1>7, <1>9

(* validate_cache_meta accepts a cache only if an evaluation of the files  *)
(* on disk would emit the very same text, for every number of processes    *)
(* that store into one cache and can be killed anywhere.  Assumed: nobody  *)
(* edits while a run reads its modules, the modules do not look at         *)
(* directories, which the meta file has no hash of, and no write loses its *)
(* end, which the meta file would not miss.                                *)
THEOREM HitsAreFresh ==
  ASSUME QuietReads, ~Globs, ~ShortWrites
  PROVE  Spec => []HitIsFresh
<1>1. TypeInv /\ FreshInv /\ [Next]_vars => FreshInv'
  BY FreshStep, NextCases
<1>2. TypeInv /\ PairInv /\ FreshInv => HitIsFresh
  BY FreshHit DEF HitIsFresh
<1> QED
  BY <1>1, <1>2, FreshInit, TypeInvHolds, PairInvHolds, PTL DEF Spec

-----------------------------------------------------------------------------
(* --build executes what it emitted, if nobody spoils its file. *)

(* What another process does to the file named ninja spoils a build that   *)
(* has it open or is about to read it.                                     *)
LEMMA OthersSpoil ==
  ASSUME TypeInv, NEW q \in Procs, FileAction(q), NEW p \in Procs, p # q,
         pc[p] \in {"fill", "load"}, p \notin spoilt'
  PROVE  file'["ninja"] = file["ninja"] /\ (pc[p] = "fill" => run'[p].fd = run[p].fd)
<1>0. /\ TypeOK /\ run \in [Procs -> RunType] /\ run[p] \in RunType /\ run[q] \in RunType
      /\ run[q].k \in Kinds /\ "ninja" \in Kinds
      /\ file \in [Kinds -> TextType \union MetaType]
      /\ pc[p] = "fill" => run[p].k = "ninja"
  BY DEF TypeInv, TypeOK, RunType, Kinds
<1>1. p \in Builders \ {q}
  BY DEF Builders
<1>2. ASSUME spoilt' = spoilt \union Spoils(q, run[q].k) PROVE run[q].k # "ninja"
  BY <1>1, <1>2 DEF Spoils
<1>3. ASSUME SpoilsByFd(q) \subseteq spoilt', NEW text, NEW whole, WriteFd(q, text, whole)
      PROVE  file'["ninja"] = file["ninja"]
  <2>1. ~(run[q].fd = "file" /\ run[q].k = "ninja")
    BY <1>1, <1>3 DEF SpoilsByFd, Spoils
  <2>2. CASE run[q].fd # "file"
    BY <1>3, <2>2 DEF WriteFd
  <2>3. CASE run[q].fd = "file" /\ run[q].k # "ninja"
    <3>1. \E c : file' = [file EXCEPT ![run[q].k] = c]
      BY <1>3, <2>3 DEF WriteFd
    <3> QED
      BY <1>0, <2>3, <3>1
  <2> QED
    BY <2>1, <2>2, <2>3
<1>4. CASE OpenTmp(q)
  BY <1>0, <1>4 DEF OpenTmp, Set
<1>5. CASE WriteTmp(q) \/ CutTmp(q)
  <2>1. SpoilsByFd(q) \subseteq spoilt' /\ \E whole : WriteFd(q, NewText(q), whole)
    BY <1>5 DEF WriteTmp, CutTmp
  <2>2. run'[p] = run[p]
    BY <1>0, <1>5 DEF WriteTmp, CutTmp, Set
  <2> QED
    BY <1>3, <2>1, <2>2
<1>6. CASE RenameTmp(q) \/ RetryRename(q)
  <2>1. Rename(q) /\ run[q].k # "ninja"
    BY <1>2, <1>6 DEF RenameTmp, RetryRename, Rename
  <2>2. file'["ninja"] = file["ninja"]
    BY <1>0, <2>1 DEF Rename
  <2>3. run'[p] = [run[p] EXCEPT !.fd = Renamed(p, run[q].k)]
    BY <2>1 DEF Rename
  <2>4. run'[p].fd = Renamed(p, run[q].k)
    BY <1>0, <2>3 DEF RunType
  <2> QED
    BY <1>0, <2>1, <2>2, <2>4 DEF Renamed
<1>7. CASE RenameFails(q)
  <2>1. run[q].k # "ninja"
    BY <1>2, <1>7 DEF RenameFails
  <2>2. run'[p] = [run[p] EXCEPT !.fd = Unlinked(p, run[q].k)]
    BY <1>7 DEF RenameFails
  <2>3. run'[p].fd = Unlinked(p, run[q].k)
    BY <1>0, <2>2 DEF RunType
  <2>4. file'["ninja"] = file["ninja"]
    BY <1>0, <1>7, <2>1 DEF RenameFails
  <2> QED
    BY <1>0, <2>1, <2>3, <2>4 DEF Unlinked
<1>8. CASE Output(q)
  <2>1. run[q].op # "build"
    BY <1>1, <1>8 DEF Output, Spoils
  <2> QED
    BY <1>0, <1>8, <2>1 DEF Output, Finish, Set
<1>9. CASE Fill(q) \/ CutFill(q)
  <2>1. SpoilsByFd(q) \subseteq spoilt' /\ \E whole : WriteFd(q, Text(run[q].ev), whole)
    BY <1>9 DEF Fill, CutFill
  <2>2. run'[p] = run[p]
    BY <1>0, <1>9 DEF Fill, CutFill, Finish, Set
  <2> QED
    BY <1>3, <2>1, <2>2
<1> QED
  BY <1>4, <1>5, <1>6, <1>7, <1>8, <1>9 DEF FileAction

(* A build that was spoilt by another step stays spoilt. *)
LEMMA SpoiltStays ==
  ASSUME NEW q \in Procs, LocalAction(q) \/ FileAction(q), NEW p \in Procs, p # q, p \in spoilt
  PROVE  p \in spoilt'
BY DEF LocalAction, FileAction, ReadMeta, ReadGraph, ReadNinja, ValidateTexts, Hit, ValidateModule,
       LoadModule, HashModule, Evaluated, Hashed, RetryFails, LoadNinja, Build, StoreFails,
       OutputFails, Kill, Start, OpenTmp, WriteTmp, CutTmp, RenameTmp, RenameFails, RetryRename,
       Rename, Output, Fill, CutFill

(* A step of another process leaves what is known of a build. *)
LEMMA BuildOthers ==
  ASSUME TypeInv, BuildInv, NEW q \in Procs, LocalAction(q) \/ FileAction(q),
         NEW p \in Procs, p # q
  PROVE  BuildAt(p)'
<1> SUFFICES ASSUME p \notin spoilt' PROVE BuildAt(p)'
  BY DEF BuildAt
<1>0. BuildAt(p) /\ p \notin spoilt
  BY SpoiltStays DEF BuildInv
<1>1. pc'[p] = pc[p] /\ run'[p].ev = run[p].ev /\ run'[p].ninja = run[p].ninja
  BY OthersKeep DEF Knows
<1>2. CASE LocalAction(q)
  <2>1. run'[p] = run[p] /\ file' = file
    BY <1>2, LocalActionIsLocal DEF Local
  <2> QED
    BY <1>0, <1>1, <2>1 DEF BuildAt, Text
<1>3. CASE FileAction(q)
  <2>1. CASE pc[p] \in {"fill", "load"}
    BY <1>0, <1>1, <1>3, <2>1, OthersSpoil DEF BuildAt, Text
  <2>2. CASE pc[p] \notin {"fill", "load"}
    BY <1>0, <1>1, <2>2 DEF BuildAt, Text
  <2> QED
    BY <2>1, <2>2
<1> QED
  BY <1>2, <1>3

(* A process preserves the file that it builds from. *)
LEMMA BuildOwn ==
  ASSUME TypeInv, BuildInv, NEW p \in Procs, LocalAction(p) \/ FileAction(p)
  PROVE  BuildAt(p)'
<1>0. /\ run \in [Procs -> RunType] /\ pc \in [Procs -> Labels] /\ run[p] \in RunType
      /\ BuildAt(p) /\ "ninja" \in Kinds /\ file \in [Kinds -> TextType \union MetaType]
      /\ pc[p] = "fill" => run[p].k = "ninja"
  BY DEF TypeInv, TypeOK, BuildInv, Kinds
<1>2. CASE pc'[p] \notin {"fill", "load", "build"}
  BY <1>2 DEF BuildAt
<1>3. CASE LoadNinja(p)
  <2>1. CASE pc'[p] = "off"
    BY <1>2, <2>1
  <2>2. CASE /\ pc'[p] = "build" /\ run'[p] = [run[p] EXCEPT !.ninja = file["ninja"]]
             /\ spoilt' = spoilt
    <3>1. run'[p].ninja = file["ninja"] /\ run'[p].ev = run[p].ev
      BY <1>0, <2>2 DEF RunType
    <3> QED
      BY <1>0, <1>3, <2>2, <3>1 DEF LoadNinja, BuildAt
  <2> QED
    BY <1>0, <1>3, <2>1, <2>2 DEF LoadNinja, Finish, Goto, Set
<1>4. CASE LocalAction(p) /\ ~LoadNinja(p)
  <2>1. pc'[p] \notin {"fill", "load", "build"}
    BY <1>0, <1>4
       DEF LocalAction, ReadMeta, ReadGraph, ReadNinja, ValidateTexts, Hit, ValidateModule,
           LoadModule, HashModule, Evaluated, Hashed, RetryFails, Build, StoreFails, Kill,
           OutputFails, Start, Miss, Finish, Goto
  <2> QED
    BY <1>2, <2>1
<1>5. CASE Output(p)
  <2>1. CASE run[p].op = "build"
    <3>1. /\ pc'[p] = "fill" /\ file'["ninja"] = Empty
          /\ run'[p] = [run[p] EXCEPT !.k = "ninja", !.fd = "file"]
      BY <1>0, <1>5, <2>1 DEF Output, Goto, Set
    <3>2. run'[p].k = "ninja" /\ run'[p].fd = "file"
      BY <1>0, <3>1 DEF RunType
    <3> QED
      BY <3>1, <3>2 DEF BuildAt
  <2>2. CASE run[p].op # "build"
    BY <1>0, <1>2, <1>5, <2>2 DEF Output, Finish, Goto
  <2> QED
    BY <2>1, <2>2
<1>6. CASE Fill(p)
  <2>0. CASE p \in spoilt'
    BY <2>0 DEF BuildAt
  <2>1. CASE p \notin spoilt'
    <3>1. run[p].fd = "file" /\ run[p].k = "ninja" /\ file["ninja"] = Empty
      BY <1>0, <1>6, <2>1 DEF Fill, BuildAt
    <3>2. PICK c \in Over(Empty, Text(run[p].ev)) : file' = [file EXCEPT !["ninja"] = c]
      BY <1>6, <3>1 DEF Fill, WriteFd, Left
    <3>3. c = Text(run[p].ev)
      BY <3>2 DEF Over, Empty, Text
    <3>4. pc'[p] = "load" /\ run'[p].ev = run[p].ev
      BY <1>0, <1>6 DEF Fill, Goto, Set, RunType
    <3> QED
      BY <1>0, <3>2, <3>3, <3>4 DEF BuildAt
  <2> QED
    BY <2>0, <2>1
<1>7. CASE CutFill(p)
  <2>1. CASE pc'[p] = "off"
    BY <1>2, <2>1
  <2>2. CASE p \in spoilt'
    BY <2>2 DEF BuildAt
  <2> QED
    BY <1>0, <1>7, <2>1, <2>2 DEF CutFill, Finish, Goto
<1>8. CASE FileAction(p) /\ ~Output(p) /\ ~Fill(p) /\ ~CutFill(p)
  <2>1. pc'[p] \notin {"fill", "load", "build"}
    BY <1>0, <1>8
       DEF FileAction, OpenTmp, WriteTmp, CutTmp, RenameTmp, RenameFails, RetryRename, Rename, Goto
  <2> QED
    BY <1>2, <2>1
<1> QED
  BY <1>3, <1>4, <1>5, <1>6, <1>7, <1>8

(* Every step preserves what is known of the builds. *)
LEMMA BuildStep ==
  ASSUME TypeInv, BuildInv, StepCases
  PROVE  BuildInv'
<1> SUFFICES ASSUME NEW p \in Procs PROVE BuildAt(p)'
  BY DEF BuildInv
<1>1. ASSUME NEW q \in Procs, LocalAction(q) \/ FileAction(q) PROVE BuildAt(p)'
  BY <1>1, BuildOthers, BuildOwn
<1>2. CASE UNCHANGED <<file, pc, run, spoilt>>
  BY <1>2 DEF BuildInv, BuildAt, Text
<1> QED
  BY <1>1, <1>2 DEF StepCases, Edit, AddFile, vars

(* A build executes the whole ninja text it emitted, for every number of   *)
(* processes on one cache and whatever runs that were killed or could not  *)
(* write left in the cache and in the .tmp files, unless its own write     *)
(* lost text at the close or another process wrote, replaced or removed    *)
(* its file between the opening and the reading of it.                     *)
THEOREM BuildsRunTheirGraph == Spec => []BuildRunsItsGraph
<1>1. Init => BuildInv
  BY DEF Init, BuildInv, BuildAt
<1>2. TypeInv /\ BuildInv /\ [Next]_vars => BuildInv'
  BY BuildStep, NextCases
<1>3. BuildInv => BuildRunsItsGraph
  BY DEF BuildInv, BuildAt, BuildRunsItsGraph
<1> QED
  BY <1>1, <1>2, <1>3, TypeInvHolds, PTL DEF Spec
=============================================================================
