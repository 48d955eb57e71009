----------------------------- MODULE GraphCache -----------------------------
(***************************************************************************)
(* The graph cache of the Lei build tool (tools/Lei/src/cache/             *)
(* graph_cache.cpp) under the command line that uses it (tools/Lei/src/    *)
(* cli/main.cpp).                                                          *)
(*                                                                         *)
(* Processes run `lei entry` or `lei entry --build` on one entry and plan. *)
(* A run reads the cache's three files, validates the module hashes in the *)
(* meta file against the disk and, on a miss, evaluates the modules,       *)
(* hashes them and stores graph, ninja and meta, each through one tmp file *)
(* and a rename.  Runs of several processes interleave, the user edits the *)
(* modules, and a process can be killed at any step.                       *)
(*                                                                         *)
(* A text is known by the evaluation it was produced from, and hash_text   *)
(* is injective on the texts that occur.                                   *)
(***************************************************************************)
EXTENDS Integers, FiniteSets

CONSTANTS
  Procs,       \* lei processes
  Modules,     \* .lei files
  Entry,       \* the entry module
  Texts,       \* what can be written in a module: positive numbers
  Imports,     \* the modules that the entry imports, by the entry's text
  Globs,       \* a module calls fs.glob, fs.exists or fs.read_text
  QuietReads,  \* nobody edits while a run is reading modules
  ShortWrites, \* a write can leave a part of its text in the file
  MaxEdits,    \* edits of the user (bound)
  MaxFaults    \* processes killed and writes that fail (bound)

Absent == 0       \* no such file on disk; hash_file returns ""
NotLoaded == -1   \* the run did not load the module

ASSUME CacheAssumption ==
  /\ Entry \in Modules
  /\ Texts \subseteq Nat \ {0} /\ Texts # {}
  /\ Imports \in [Texts -> SUBSET Modules]
  /\ Globs \in BOOLEAN /\ QuietReads \in BOOLEAN /\ ShortWrites \in BOOLEAN
  /\ MaxEdits \in Nat /\ MaxFaults \in Nat

VARIABLES
  src,      \* the modules on disk
  listing,  \* what fs.glob finds
  edits,    \* edits so far
  faults,   \* faults and failed writes so far
  file,     \* the cache's files
  tmp,      \* their .tmp files
  pc,       \* where a process is
  run,      \* what a process knows
  spoilt    \* history: processes that built from a file they did not alone
            \* and wholly write

disk == <<src, listing, edits>>
vars == <<src, listing, edits, faults, file, tmp, pc, run, spoilt>>

-----------------------------------------------------------------------------
(* Texts of files.  A file that was opened for writing is empty; one that  *)
(* two processes wrote into may be torn.                                   *)

Kinds == {"graph", "ninja", "meta"}
Missing == [kind |-> "missing"]
Empty == [kind |-> "empty"]
Torn == [kind |-> "torn"]
Text(e) == [kind |-> "text", ev |-> e]

(* encode_meta: the module hashes and the hashes of the other two texts. *)
Meta(h, g, n) == [kind |-> "meta", hash |-> h, graph |-> g, ninja |-> n]

(* The modules loaded when the entry has text v. *)
Loaded(v) == {Entry} \union Imports[v]

NoModules == [m \in Modules |-> NotLoaded]
LoadedIn(mods) == {m \in Modules : mods[m] # NotLoaded}

(* What an evaluation of these modules and this directory amounts to. *)
Evaluation(mods, l) == [mods |-> mods, listing |-> IF Globs THEN l ELSE 0]

CanEvaluate(s) ==
  /\ s[Entry] # Absent
  /\ \A m \in Loaded(s[Entry]) : s[m] # Absent

Evaluate(s, l) ==
  Evaluation([m \in Modules |-> IF m \in Loaded(s[Entry]) THEN s[m] ELSE NotLoaded], l)

Nothing == Evaluation(NoModules, 0)

Blank == [op |-> "emit", k |-> "graph", fd |-> "closed", mods |-> NoModules,
          ev |-> Nothing, hash |-> NoModules, checked |-> {},
          meta |-> Missing, graph |-> Missing, ninja |-> Missing]

Init ==
  /\ src = [m \in Modules |-> CHOOSE t \in Texts : \A u \in Texts : t <= u]
  /\ listing = 0
  /\ edits = 0 /\ faults = 0
  /\ file = [k \in Kinds |-> Missing]
  /\ tmp = [k \in Kinds |-> Missing]
  /\ pc = [p \in Procs |-> "off"]
  /\ run = [p \in Procs |-> Blank]
  /\ spoilt = {}

Goto(p, l) == pc' = [pc EXCEPT ![p] = l]
Set(p, r) == run' = [run EXCEPT ![p] = r]
Finish(p) == Goto(p, "off") /\ Set(p, Blank)
Fault == faults < MaxFaults /\ faults' = faults + 1

-----------------------------------------------------------------------------
(* The world outside. *)

Reading(p) == pc[p] \in {"validate", "hit", "eval", "hash"}

(* The user writes or deletes a module, or adds a file to a directory. *)
CanEdit ==
  /\ edits < MaxEdits
  /\ QuietReads => \A p \in Procs : ~Reading(p)

Edit(m, t) ==
  /\ CanEdit
  /\ src[m] # t
  /\ src' = [src EXCEPT ![m] = t]
  /\ edits' = edits + 1
  /\ UNCHANGED <<listing, faults, file, tmp, pc, run, spoilt>>

AddFile ==
  /\ Globs /\ CanEdit
  /\ listing' = listing + 1
  /\ edits' = edits + 1
  /\ UNCHANGED <<src, faults, file, tmp, pc, run, spoilt>>

(* A process is killed: what it wrote stays. *)
Kill(p) ==
  /\ pc[p] # "off" /\ Fault
  /\ Finish(p)
  /\ spoilt' = spoilt \ {p}
  /\ UNCHANGED <<disk, file, tmp>>

-----------------------------------------------------------------------------
(* main: --build does not look at the cache. *)
Start(p, op) ==
  /\ pc[p] = "off"
  /\ Goto(p, IF op = "build" THEN "eval" ELSE "read_meta")
  /\ Set(p, [Blank EXCEPT !.op = op])
  /\ UNCHANGED <<disk, faults, file, tmp, spoilt>>

(* load_graph_cache reads meta, graph and ninja one after the other. *)
ReadMeta(p) ==
  /\ pc[p] = "read_meta"
  /\ Set(p, [run[p] EXCEPT !.meta = file["meta"]])
  /\ Goto(p, "read_graph")
  /\ UNCHANGED <<disk, faults, file, tmp, spoilt>>

ReadGraph(p) ==
  /\ pc[p] = "read_graph"
  /\ Set(p, [run[p] EXCEPT !.graph = file["graph"]])
  /\ Goto(p, "read_ninja")
  /\ UNCHANGED <<disk, faults, file, tmp, spoilt>>

(* load_graph_cache returns nothing: what was read is dropped. *)
Miss(p) == Goto(p, "eval") /\ Set(p, Blank)

(* A file that is missing or a meta file that does not decode is a miss. *)
ReadNinja(p) ==
  /\ pc[p] = "read_ninja"
  /\ IF /\ run[p].meta.kind = "meta"
        /\ run[p].graph # Missing /\ file["ninja"] # Missing
     THEN Set(p, [run[p] EXCEPT !.ninja = file["ninja"]]) /\ Goto(p, "validate")
     ELSE Miss(p)
  /\ UNCHANGED <<disk, faults, file, tmp, spoilt>>

(* Wrong variant: the module only has to exist. *)
ValidateModule_Exists(p, m) ==
  /\ pc[p] = "validate"
  /\ m \in LoadedIn(run[p].meta.hash) \ run[p].checked
  /\ IF src[m] = Absent
     THEN Miss(p)
     ELSE Set(p, [run[p] EXCEPT !.checked = @ \union {m}]) /\ UNCHANGED pc
  /\ UNCHANGED <<disk, faults, file, tmp, spoilt>>

(* validate_cache_meta: one module of the meta file against the disk. *)
ValidateModule(p, m) ==
  /\ pc[p] = "validate"
  /\ m \in LoadedIn(run[p].meta.hash) \ run[p].checked
  /\ IF src[m] = Absent \/ src[m] # run[p].meta.hash[m]
     THEN Miss(p)
     ELSE Set(p, [run[p] EXCEPT !.checked = @ \union {m}]) /\ UNCHANGED pc
  /\ UNCHANGED <<disk, faults, file, tmp, spoilt>>

(* Wrong variant: the text only has to exist. *)
HashMatches_Exists(text, e) == text # Missing

(* hash_text of a text against the hash that the meta file has for it. *)
HashMatches(text, e) == text = Text(e)

(* The hashes of the other two texts decide between a hit and a miss. *)
ValidateTexts(p) ==
  /\ pc[p] = "validate"
  /\ LoadedIn(run[p].meta.hash) \subseteq run[p].checked
  /\ IF /\ HashMatches(run[p].graph, run[p].meta.graph)
        /\ HashMatches(run[p].ninja, run[p].meta.ninja)
     THEN Goto(p, "hit") /\ UNCHANGED run
     ELSE Miss(p)
  /\ UNCHANGED <<disk, faults, file, tmp, spoilt>>

(* On a hit main writes the cached ninja text to the output and is done. *)
Hit(p) ==
  /\ pc[p] = "hit"
  /\ Finish(p)
  /\ UNCHANGED <<disk, faults, file, tmp, spoilt>>

-----------------------------------------------------------------------------
(* The evaluator loads the entry, then the modules it imports, each once;  *)
(* a module that cannot be read ends the run with an error.                *)
LoadModule(p, m) ==
  LET mods == run[p].mods IN
  /\ pc[p] = "eval"
  /\ mods[m] = NotLoaded
  /\ m = Entry \/ (mods[Entry] # NotLoaded /\ m \in Loaded(mods[Entry]))
  /\ IF src[m] = Absent
     THEN Finish(p)
     ELSE Set(p, [run[p] EXCEPT !.mods[m] = src[m]]) /\ UNCHANGED pc
  /\ UNCHANGED <<disk, faults, file, tmp, spoilt>>

(* The graph, the exec graph and the ninja text follow from what was read. *)
Evaluated(p) ==
  LET mods == run[p].mods IN
  /\ pc[p] = "eval"
  /\ mods[Entry] # NotLoaded /\ Loaded(mods[Entry]) \subseteq LoadedIn(mods)
  /\ Set(p, [run[p] EXCEPT !.ev = Evaluation(mods, listing)])
  /\ Goto(p, "hash")
  /\ UNCHANGED <<disk, faults, file, tmp, spoilt>>

(* Wrong variant: the hash of a module is left empty. *)
HashModule_Empty(p, m) ==
  /\ pc[p] = "hash"
  /\ m \in LoadedIn(run[p].mods) \ LoadedIn(run[p].hash)
  /\ Set(p, [run[p] EXCEPT !.hash[m] = Absent])
  /\ UNCHANGED <<disk, faults, file, tmp, pc, spoilt>>

(* main hashes the files of the loaded modules, read once more. *)
HashModule(p, m) ==
  /\ pc[p] = "hash"
  /\ m \in LoadedIn(run[p].mods) \ LoadedIn(run[p].hash)
  /\ Set(p, [run[p] EXCEPT !.hash[m] = src[m]])
  /\ UNCHANGED <<disk, faults, file, tmp, pc, spoilt>>

Hashed(p) ==
  /\ pc[p] = "hash"
  /\ LoadedIn(run[p].mods) = LoadedIn(run[p].hash)
  /\ Goto(p, "open")
  /\ UNCHANGED <<disk, faults, file, tmp, run, spoilt>>

-----------------------------------------------------------------------------
(* store_graph_cache: write_atomic_text for graph, ninja and meta.  An     *)
(* open file is known by the name it has: rename gives the file behind tmp *)
(* the final name and takes the name from the file that had it.            *)

(* Wrong variant: the ninja text is written in place of the meta text. *)
NewText_NoMeta(p) == Text(run[p].ev)

(* The text that a store writes next. *)
NewText(p) ==
  IF run[p].k = "meta" THEN Meta(run[p].hash, run[p].ev, run[p].ev) ELSE Text(run[p].ev)

(* Opening the tmp file creates or truncates it. *)
OpenTmp(p) ==
  /\ pc[p] = "open"
  /\ tmp' = [tmp EXCEPT ![run[p].k] = Empty]
  /\ Set(p, [run[p] EXCEPT !.fd = "tmp"])
  /\ Goto(p, "write")
  /\ UNCHANGED <<disk, faults, file, spoilt>>

(* The tmp file cannot be opened or written: the store is given up. *)
StoreFails(p) ==
  /\ pc[p] \in {"open", "write"} /\ Fault
  /\ Set(p, [run[p] EXCEPT !.fd = "closed"])
  /\ Goto(p, "out")
  /\ UNCHANGED <<disk, file, tmp, spoilt>>

(* A meta text over a longer one: the last module lines of the other stay. *)
WithTail(new, old) ==
  [new EXCEPT !.hash = [m \in Modules |-> IF @[m] # NotLoaded THEN @[m] ELSE old.hash[m]]]

(* What a write makes of a file: two writers of one file mix their texts. *)
Over(old, new) ==
  {new} \union (IF old \in {Empty, new} THEN {} ELSE {Torn})
        \union {WithTail(new, o) : o \in {t \in {old} : {t.kind, new.kind} = {"meta"}}}

(* A text whose end is lost.  The module lines are the last of a meta text *)
(* and decode_meta does not miss those that are not there.                 *)
Shortened(text, kept) ==
  [text EXCEPT !.hash = [m \in Modules |-> IF m \in kept THEN @[m] ELSE NotLoaded]]

Cuts(text) ==
  {Torn} \union (IF text.kind = "meta" THEN {Shortened(text, kept) : kept \in SUBSET Modules}
                                       ELSE {})

(* What a write leaves of which only a part, or nothing, reaches the file. *)
CutOver(old, new) == {old} \union UNION {Over(old, c) : c \in Cuts(new)}

Left(old, new, whole) == IF whole THEN Over(old, new) ELSE CutOver(old, new)

(* The builds that have their ninja file open or are about to read it. *)
Builders == {q \in Procs : pc[q] \in {"fill", "load"}}

(* Process p changes the file of kind k under its final name. *)
Spoils(p, k) == IF k = "ninja" THEN Builders \ {p} ELSE {}

WriteFd(p, text, whole) ==
  LET k == run[p].k IN
  CASE run[p].fd = "tmp"  -> /\ \E c \in Left(tmp[k], text, whole) : tmp' = [tmp EXCEPT ![k] = c]
                             /\ UNCHANGED file
    [] run[p].fd = "file" -> /\ \E c \in Left(file[k], text, whole) : file' = [file EXCEPT ![k] = c]
                             /\ UNCHANGED tmp
    [] OTHER              -> UNCHANGED <<file, tmp>>

SpoilsByFd(p) == IF run[p].fd = "file" THEN Spoils(p, run[p].k) ELSE {}

(* The text reaches the file and the stream is closed. *)
WriteTmp(p) ==
  /\ pc[p] = "write"
  /\ WriteFd(p, NewText(p), TRUE)
  /\ Set(p, [run[p] EXCEPT !.fd = "closed"])
  /\ Goto(p, "rename")
  /\ spoilt' = spoilt \union SpoilsByFd(p)
  /\ UNCHANGED <<disk, faults>>

(* A part of the text does not.  good() is asked before the stream is      *)
(* closed: what fails to be written by the close goes unnoticed.           *)
CutTmp(p) ==
  /\ pc[p] = "write" /\ ShortWrites /\ Fault
  /\ WriteFd(p, NewText(p), FALSE)
  /\ Set(p, [run[p] EXCEPT !.fd = "closed"])
  /\ \E l \in {"rename", "out"} : Goto(p, l)
  /\ spoilt' = spoilt \union SpoilsByFd(p)
  /\ UNCHANGED disk

(* Where the open files are after the final name of kind k changed hands. *)
Renamed(q, k) ==
  IF run[q].k # k THEN run[q].fd
  ELSE CASE run[q].fd = "tmp" -> "file" [] run[q].fd = "file" -> "gone" [] OTHER -> run[q].fd

Unlinked(q, k) == IF run[q].k = k /\ run[q].fd = "file" THEN "gone" ELSE run[q].fd

(* The file is in place: on to the next one, or to the output. *)
After(k) == CASE k = "graph" -> "ninja" [] k = "ninja" -> "meta" [] k = "meta" -> "meta"

Rename(p) ==
  LET k == run[p].k IN
  /\ tmp[k] # Missing
  /\ file' = [file EXCEPT ![k] = tmp[k]]
  /\ tmp' = [tmp EXCEPT ![k] = Missing]
  /\ run' = [q \in Procs |->
              IF q = p THEN [run[p] EXCEPT !.k = After(k)]
              ELSE [run[q] EXCEPT !.fd = Renamed(q, k)]]
  /\ Goto(p, IF k = "meta" THEN "out" ELSE "open")
  /\ spoilt' = spoilt \union Spoils(p, k)
  /\ UNCHANGED <<disk, faults>>

RenameTmp(p) == pc[p] = "rename" /\ Rename(p)

(* Somebody else renamed the tmp file: the final file is removed ... *)
RenameFails(p) ==
  LET k == run[p].k IN
  /\ pc[p] = "rename" /\ tmp[k] = Missing
  /\ file' = [file EXCEPT ![k] = Missing]
  /\ run' = [q \in Procs |-> [run[q] EXCEPT !.fd = Unlinked(q, k)]]
  /\ Goto(p, "retry")
  /\ spoilt' = spoilt \union Spoils(p, k)
  /\ UNCHANGED <<disk, faults, tmp>>

(* ... and the rename is tried once more before the store is given up. *)
RetryRename(p) == pc[p] = "retry" /\ Rename(p)

RetryFails(p) ==
  /\ pc[p] = "retry" /\ tmp[run[p].k] = Missing
  /\ Goto(p, "out")
  /\ UNCHANGED <<disk, faults, file, tmp, run, spoilt>>

-----------------------------------------------------------------------------
(* The output, write_text_file.  A plain run writes a file of its own and  *)
(* is done, whether it could or not; --build writes the cached ninja file  *)
(* in place and runs it from there.  Opening it truncates it.              *)
Output(p) ==
  /\ pc[p] = "out"
  /\ IF run[p].op = "build"
     THEN /\ file' = [file EXCEPT !["ninja"] = Empty]
          /\ Set(p, [run[p] EXCEPT !.k = "ninja", !.fd = "file"])
          /\ Goto(p, "fill")
          /\ spoilt' = (spoilt \ {p}) \union Spoils(p, "ninja")
     ELSE Finish(p) /\ UNCHANGED <<file, spoilt>>
  /\ UNCHANGED <<disk, faults, tmp>>

(* The file cannot be opened, or its stream is not good: an error. *)
OutputFails(p) ==
  /\ pc[p] \in {"out", "fill"} /\ run[p].op = "build" /\ Fault
  /\ Finish(p)
  /\ spoilt' = spoilt \ {p}
  /\ UNCHANGED <<disk, file, tmp>>

(* Wrong variant: the text is not written before the file is read. *)
Fill_Buffered(p) ==
  /\ pc[p] = "fill"
  /\ Set(p, [run[p] EXCEPT !.fd = "closed"])
  /\ Goto(p, "load")
  /\ UNCHANGED <<disk, faults, file, tmp, spoilt>>

(* The stream is closed, and with that the text is in the file. *)
Fill(p) ==
  /\ pc[p] = "fill"
  /\ WriteFd(p, Text(run[p].ev), TRUE)
  /\ Set(p, [run[p] EXCEPT !.fd = "closed"])
  /\ Goto(p, "load")
  /\ spoilt' = spoilt \union SpoilsByFd(p)
  /\ UNCHANGED <<disk, faults>>

(* A part of the text is not.  good() is asked before the stream is closed *)
(* by its destructor: either the run ends with an error, or nobody notices *)
(* and the build goes on with what is in the file.                         *)
CutFill(p) ==
  /\ pc[p] = "fill" /\ ShortWrites /\ Fault
  /\ WriteFd(p, Text(run[p].ev), FALSE)
  /\ \/ /\ Finish(p)
        /\ spoilt' = (spoilt \ {p}) \union SpoilsByFd(p)
     \/ /\ Set(p, [run[p] EXCEPT !.fd = "closed"])
        /\ Goto(p, "load")
        /\ spoilt' = spoilt \union {p} \union SpoilsByFd(p)
  /\ UNCHANGED disk

(* run_embedded_ninja reads the file by its name; a missing file is an     *)
(* error, any text is executed as far as it has build lines.               *)
LoadNinja(p) ==
  /\ pc[p] = "load"
  /\ IF file["ninja"] = Missing
     THEN Finish(p) /\ spoilt' = spoilt \ {p}
     ELSE /\ Set(p, [run[p] EXCEPT !.ninja = file["ninja"]])
          /\ Goto(p, "build")
          /\ UNCHANGED spoilt
  /\ UNCHANGED <<disk, faults, file, tmp>>

Build(p) ==
  /\ pc[p] = "build"
  /\ Finish(p)
  /\ spoilt' = spoilt \ {p}
  /\ UNCHANGED <<disk, faults, file, tmp>>

-----------------------------------------------------------------------------

Step(p) ==
  \/ ReadMeta(p) \/ ReadGraph(p) \/ ReadNinja(p) \/ ValidateTexts(p) \/ Hit(p)
  \/ \E m \in Modules : ValidateModule(p, m) \/ LoadModule(p, m) \/ HashModule(p, m)
  \/ Evaluated(p) \/ Hashed(p)
  \/ OpenTmp(p) \/ WriteTmp(p) \/ RenameTmp(p) \/ RenameFails(p)
  \/ RetryRename(p) \/ RetryFails(p)
  \/ Output(p) \/ Fill(p) \/ LoadNinja(p) \/ Build(p)

Next ==
  \/ \E p \in Procs : \/ Step(p) \/ Kill(p)
                     \/ StoreFails(p) \/ CutTmp(p) \/ OutputFails(p) \/ CutFill(p)
  \/ \E p \in Procs, op \in {"emit", "build"} : Start(p, op)
  \/ \E m \in Modules, t \in Texts \union {Absent} : Edit(m, t)
  \/ AddFile

Spec == Init /\ [][Next]_vars

(* A process that runs goes on to its end. *)
FairSpec == Spec /\ \A p \in Procs : WF_vars(Step(p))

-----------------------------------------------------------------------------
(* Properties. *)

EvalType == [mods : [Modules -> Texts \union {NotLoaded}], listing : 0..MaxEdits]
HashType == [Modules -> Texts \union {Absent, NotLoaded}]
TextType == {Missing, Empty, Torn} \union [kind : {"text"}, ev : EvalType]
MetaType == {Missing, Empty, Torn}
            \union [kind : {"meta"}, hash : HashType, graph : EvalType, ninja : EvalType]
FileType(k) == IF k = "meta" THEN MetaType ELSE TextType

Labels == {"off", "read_meta", "read_graph", "read_ninja", "validate", "hit", "eval", "hash",
           "open", "write", "rename", "retry", "out", "fill", "load", "build"}

RunType == [op : {"emit", "build"}, k : Kinds, fd : {"closed", "tmp", "file", "gone"},
            mods : [Modules -> Texts \union {NotLoaded}], ev : EvalType, hash : HashType,
            checked : SUBSET Modules, meta : MetaType, graph : TextType, ninja : TextType]

(* The types of the variables; nobody ever writes one kind of text into    *)
(* the file of another.                                                    *)
TypeOK ==
  /\ src \in [Modules -> Texts \union {Absent}]
  /\ listing \in 0..MaxEdits /\ edits \in 0..MaxEdits /\ faults \in 0..MaxFaults
  /\ file \in [Kinds -> TextType \union MetaType]
  /\ tmp \in [Kinds -> TextType \union MetaType]
  /\ \A k \in Kinds : file[k] \in FileType(k) /\ tmp[k] \in FileType(k)
  /\ pc \in [Procs -> Labels]
  /\ run \in [Procs -> RunType]
  /\ spoilt \subseteq Procs

(* A hit is made of whole texts of one evaluation, whatever other          *)
(* processes stored, left half written or removed while it read the files. *)
HitIsOneEvaluation ==
  \A p \in Procs : pc[p] = "hit" =>
     run[p].ninja.kind = "text" /\ run[p].graph = run[p].ninja

(* The same input gives the same result: what a hit emits is what an       *)
(* evaluation of the files on disk would emit.  Not so if modules change   *)
(* while they are read or look at the file system, or if a meta text lost  *)
(* its end: QuietReads, ~Globs and ~ShortWrites.                           *)
HitIsFresh ==
  \A p \in Procs : pc[p] = "hit" =>
     CanEvaluate(src) /\ run[p].ninja = Text(Evaluate(src, listing))

(* What --build executes is the whole ninja text it emitted, whatever was  *)
(* left in the cache and whatever others store or leave half written, but  *)
(* for two cases: closing its file lost text unnoticed, or another process *)
(* wrote, replaced or removed that very file before it was read.           *)
BuildRunsItsGraph ==
  \A p \in Procs : pc[p] = "build" /\ p \notin spoilt => run[p].ninja = Text(run[p].ev)

(* The cache heals: after the last edit and the last fault a plain run     *)
(* that could evaluate the modules does not have to, but for one.          *)
Heals ==
  <>[](\A p \in Procs : pc[p] = "eval" /\ run[p].op = "emit" => ~CanEvaluate(src))
-----------------------------------------------------------------------------
(* The inductive invariants behind the safety properties. *)

(* The user adds a file by an edit, and --build fills the ninja file. *)
TypeInv ==
  /\ TypeOK
  /\ listing <= edits
  /\ \A p \in Procs : pc[p] = "fill" => run[p].k = "ninja"

(* A meta text names one evaluation for both other texts. *)
Paired(text) == text.kind = "meta" => text.graph = text.ninja

(* A process validates a meta text, and has a hit on the two texts that it *)
(* has the hashes of.                                                      *)
PairAt(p) ==
  /\ Paired(run[p].meta)
  /\ pc[p] \in {"validate", "hit"} => run[p].meta.kind = "meta"
  /\ pc[p] = "hit" =>
        /\ run[p].graph = Text(run[p].meta.graph)
        /\ run[p].ninja = Text(run[p].meta.ninja)

PairInv ==
  /\ Paired(file["meta"]) /\ Paired(tmp["meta"])
  /\ \A p \in Procs : PairAt(p)

(* What a finished evaluation has loaded: the entry and what it imports. *)
Whole(mods) ==
  mods[Entry] # NotLoaded /\ LoadedIn(mods) = Loaded(mods[Entry])

(* A meta text has the hash of every module that its evaluation read; it   *)
(* can have more, from the tail of another text.                           *)
Sound(text) ==
  text.kind = "meta" =>
    /\ text.graph.listing = 0
    /\ Whole(text.graph.mods)
    /\ \A m \in LoadedIn(text.graph.mods) : text.hash[m] = text.graph.mods[m]

(* What a process that reads modules has read is still on disk. *)
Evaluating(p) ==
  /\ run[p].hash = NoModules
  /\ LoadedIn(run[p].mods) # {} =>
        Entry \in LoadedIn(run[p].mods)
        /\ LoadedIn(run[p].mods) \subseteq Loaded(run[p].mods[Entry])
  /\ \A m \in LoadedIn(run[p].mods) : run[p].mods[m] = src[m]

Hashing(p) ==
  /\ Whole(run[p].mods)
  /\ run[p].ev = Evaluation(run[p].mods, 0)
  /\ \A m \in LoadedIn(run[p].mods) : run[p].mods[m] = src[m]
  /\ LoadedIn(run[p].hash) \subseteq LoadedIn(run[p].mods)
  /\ \A m \in LoadedIn(run[p].hash) : run[p].hash[m] = src[m]

Storing(p) ==
  /\ Whole(run[p].ev.mods)
  /\ run[p].ev.listing = 0
  /\ run[p].hash = run[p].ev.mods

Checking(p) ==
  \A m \in run[p].checked : src[m] # Absent /\ src[m] = run[p].meta.hash[m]

FreshAt(p) ==
  /\ Sound(run[p].meta)
  /\ pc[p] \in {"read_meta", "read_graph", "read_ninja"} => run[p].checked = {}
  /\ pc[p] = "eval" => Evaluating(p)
  /\ pc[p] = "hash" => Hashing(p)
  /\ pc[p] \in {"open", "write", "rename", "retry"} => Storing(p)
  /\ pc[p] \in {"validate", "hit"} => Checking(p)
  /\ pc[p] = "hit" => LoadedIn(run[p].meta.hash) \subseteq run[p].checked

FreshInv ==
  /\ Sound(file["meta"]) /\ Sound(tmp["meta"])
  /\ \A p \in Procs : FreshAt(p)

(* The file that --build fills and reads back is its own until somebody    *)
(* spoils it.                                                              *)
BuildAt(p) ==
  p \notin spoilt =>
    /\ pc[p] = "fill" => run[p].fd = "file" /\ file["ninja"] = Empty
    /\ pc[p] = "load" => file["ninja"] = Text(run[p].ev)
    /\ pc[p] = "build" => run[p].ninja = Text(run[p].ev)

BuildInv == \A p \in Procs : BuildAt(p)
=============================================================================
