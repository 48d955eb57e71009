---------------------------- MODULE ActorRuntime ----------------------------
(***************************************************************************)
(* The actor runtime of Parus (backend/src/prt/prt_hosted.cpp and          *)
(* prt_freestanding.cpp), driven by the call sequences that the compiler   *)
(* emits for actors (frontend/src/oir/oir_builder.cpp).                    *)
(*                                                                         *)
(* An ActorObject keeps two atomic counters, refcount (handle values) and  *)
(* active_contexts (calls in progress), a lock and the draft.  Threads     *)
(* clone and release handles and run methods: enter / draft access /       *)
(* leave.  Each atomic access to the object is a step of its own, so that  *)
(* the two decrements (release, leave) and the two loads of                *)
(* try_destroy_actor_ interleave freely.                                   *)
(***************************************************************************)
EXTENDS Integers, FiniteSets

CONSTANTS
  Threads,         \* threads of the program
  Actors,          \* objects that may be allocated; an address is not reused
  Slots,           \* handle variables a thread has for one actor
  MaxDepth,        \* nesting depth of actor method calls in a thread
  MaxCalls,        \* method calls a thread makes in all (bound)
  Hosted,          \* TRUE: prt_hosted.cpp, FALSE: prt_freestanding.cpp
  Calls,           \* <<a, b>>: a method of a may call a method of b
  BorrowReceiver,  \* a thread keeps the receiver's handle during a call
  None             \* not an actor, not a handle variable

Frames == Threads \X (1..MaxDepth)
Handles == Threads \X Slots

ASSUME ConstantsAssumption ==
  /\ IsFiniteSet(Threads) /\ IsFiniteSet(Actors)
  /\ IsFiniteSet(Slots) /\ Slots # {}
  /\ MaxDepth \in Nat \ {0}
  /\ MaxCalls \in Nat
  /\ Hosted \in BOOLEAN
  /\ Calls \subseteq Actors \X Actors
  /\ BorrowReceiver \in BOOLEAN
  /\ None \notin Actors /\ None \notin Slots

VARIABLES
  phase,     \* the allocation of an ActorObject: "none", "live", "freed"
  refcount,  \* ActorObject.refcount
  active,    \* ActorObject.active_contexts
  writer,    \* frames that own the lock exclusively
  readers,   \* frames that own the lock shared
  draft,     \* the draft: the number of increments it holds
  live,      \* g_live_actors
  refs,      \* handle values to each actor, by thread and variable
  frame,     \* method calls in progress
  reap,      \* where a thread is in try_destroy_actor_, and on which actor
  stores,    \* history: increments written to the draft of each actor
  calls      \* method calls each thread has started

object == <<phase, refcount, active>>
lock == <<writer, readers>>
vars == <<phase, refcount, active, writer, readers, draft, live, refs, frame,
          reap, stores, calls>>

-----------------------------------------------------------------------------
(* Calls in progress.  A frame is one call: the ActorContext together with *)
(* the position of its thread in enter, the method's body or leave.        *)

Modes == {"init", "sub", "pub"}
FramePc == {"idle", "counted", "body", "loaded", "stored", "unlocked"}

InFrame(f) == frame[f].pc # "idle"
FramesOn(a) == {f \in Frames : InFrame(f) /\ frame[f].actor = a}

(* The innermost call of a thread, the only one that can make a step. *)
IsTop(f) ==
  /\ InFrame(f)
  /\ \A d \in 1..MaxDepth : d > f[2] => ~InFrame(<<f[1], d>>)

(* The thread is not inside try_destroy_actor_. *)
Running(t) == reap[t].pc = "no"

(* Wrong variant: pub contexts take the lock shared as well. *)
Shared_AllMethods(m) == Hosted /\ m # "init"

(* The mode decides which lock a hosted context takes; the freestanding    *)
(* runtime ignores it and always takes its spin lock.                      *)
Shared(m) == Hosted /\ m = "sub"

(* While a call runs on a handle the compiled caller keeps that handle: a  *)
(* receiver is not among the arguments a call consumes.                    *)
Borrowed(t, a, s) ==
  \E d \in 1..MaxDepth :
     /\ InFrame(<<t, d>>)
     /\ frame[<<t, d>>].actor = a
     /\ frame[<<t, d>>].slot = s

(* A constructor's result is not visible to the program before init left. *)
Constructing(a) == \E f \in FramesOn(a) : frame[f].mode = "init"

(* The thread can start a call of a method of a: it is not in a call, or   *)
(* its innermost call is in the body of a method that may call a.          *)
CanCall(t, d, a) ==
  /\ Running(t)
  /\ \A e \in d..MaxDepth : ~InFrame(<<t, e>>)
  /\ d > 1 =>
       /\ frame[<<t, d - 1>>].pc \in {"body", "loaded", "stored"}
       /\ <<frame[<<t, d - 1>>].actor, a>> \in Calls

(* The program runs its own code: no call, or the body of a method. *)
InProgram(t) ==
  /\ Running(t)
  /\ \A d \in 1..MaxDepth :
       IsTop(<<t, d>>) => frame[<<t, d>>].pc \in {"body", "loaded", "stored"}

-----------------------------------------------------------------------------

Idle == [pc |-> "idle", actor |-> None, mode |-> "pub", slot |-> None, tmp |-> 0]

Init ==
  /\ phase = [a \in Actors |-> "none"]
  /\ refcount = [a \in Actors |-> 0]
  /\ active = [a \in Actors |-> 0]
  /\ writer = [a \in Actors |-> {}]
  /\ readers = [a \in Actors |-> {}]
  /\ draft = [a \in Actors |-> 0]
  /\ live = 0
  /\ refs = [a \in Actors |-> {}]
  /\ frame = [f \in Frames |-> Idle]
  /\ reap = [t \in Threads |-> [pc |-> "no", actor |-> None]]
  /\ stores = [a \in Actors |-> 0]
  /\ calls = [t \in Threads |-> 0]

OpenFrame(t, d, a, s, m) ==
  /\ calls[t] < MaxCalls
  /\ calls' = [calls EXCEPT ![t] = @ + 1]
  /\ frame' = [frame EXCEPT ![<<t, d>>] =
        [pc |-> "counted", actor |-> a, mode |-> m, slot |-> s, tmp |-> 0]]

(* __parus_actor_new, then the first step of the enter(init) that compiled *)
(* constructors call next: nobody else can reach the object in between.    *)
Construct(t, d, a, s) ==
  /\ phase[a] = "none"
  /\ CanCall(t, d, a)
  /\ OpenFrame(t, d, a, s, "init")
  /\ phase' = [phase EXCEPT ![a] = "live"]
  /\ refcount' = [refcount EXCEPT ![a] = 1]
  /\ active' = [active EXCEPT ![a] = 1]
  /\ live' = live + 1
  /\ refs' = [refs EXCEPT ![a] = {<<t, s>>}]
  /\ UNCHANGED <<lock, draft, reap, stores>>

(* Wrong variant: the new handle value is not counted. *)
Clone_Uncounted(t, a, s, r) ==
  /\ InProgram(t) /\ ~Constructing(a)
  /\ <<t, s>> \in refs[a] /\ <<t, r>> \notin refs[a]
  /\ refs' = [refs EXCEPT ![a] = @ \union {<<t, r>>}]
  /\ UNCHANGED <<object, lock, draft, live, frame, reap, stores, calls>>

(* __parus_actor_clone: one more handle value in a free variable. *)
Clone(t, a, s, r) ==
  /\ InProgram(t) /\ ~Constructing(a)
  /\ <<t, s>> \in refs[a] /\ <<t, r>> \notin refs[a]
  /\ refcount' = [refcount EXCEPT ![a] = @ + 1]
  /\ refs' = [refs EXCEPT ![a] = @ \union {<<t, r>>}]
  /\ UNCHANGED <<phase, active, lock, draft, live, frame, reap, stores, calls>>

(* The program moves a handle value to a variable of another thread. *)
Move(t, a, s, u, r) ==
  /\ InProgram(t) /\ ~Constructing(a)
  /\ u # t
  /\ <<t, s>> \in refs[a] /\ <<u, r>> \notin refs[a]
  /\ BorrowReceiver => ~Borrowed(t, a, s)
  /\ refs' = [refs EXCEPT ![a] = (@ \ {<<t, s>>}) \union {<<u, r>>}]
  /\ UNCHANGED <<object, lock, draft, live, frame, reap, stores, calls>>

(* Wrong variant: the old count is compared with 0 instead of 1. *)
Release_OffByOne(t, a, s) ==
  /\ InProgram(t) /\ ~Constructing(a)
  /\ <<t, s>> \in refs[a]
  /\ BorrowReceiver => ~Borrowed(t, a, s)
  /\ refs' = [refs EXCEPT ![a] = @ \ {<<t, s>>}]
  /\ refcount' = [refcount EXCEPT ![a] = IF @ = 0 THEN 0 ELSE @ - 1]
  /\ reap' = IF refcount[a] = 0
             THEN [reap EXCEPT ![t] = [pc |-> "refcount", actor |-> a]]
             ELSE reap
  /\ UNCHANGED <<phase, active, lock, draft, live, frame, stores, calls>>

(* __parus_actor_release: refcount.fetch_sub; the thread that took the     *)
(* count from 1 to 0 goes on to try_destroy_actor_.                        *)
Release(t, a, s) ==
  /\ InProgram(t) /\ ~Constructing(a)
  /\ <<t, s>> \in refs[a]
  /\ BorrowReceiver => ~Borrowed(t, a, s)
  /\ refs' = [refs EXCEPT ![a] = @ \ {<<t, s>>}]
  /\ refcount' = [refcount EXCEPT ![a] = IF @ = 0 THEN 0 ELSE @ - 1]
  /\ reap' = IF refcount[a] = 1
             THEN [reap EXCEPT ![t] = [pc |-> "refcount", actor |-> a]]
             ELSE reap
  /\ UNCHANGED <<phase, active, lock, draft, live, frame, stores, calls>>

-----------------------------------------------------------------------------
(* try_destroy_actor_ and destroy_actor_. *)

StopReap(t) == reap' = [reap EXCEPT ![t] = [pc |-> "no", actor |-> None]]
ReapAt(t, p) == reap' = [reap EXCEPT ![t].pc = p]

(* Wrong variant: refcount is not looked at. *)
CheckRefcount_Skipped(t) ==
  /\ reap[t].pc = "refcount"
  /\ ReapAt(t, "active")
  /\ UNCHANGED <<object, lock, draft, live, refs, frame, stores, calls>>

(* The load of refcount. *)
CheckRefcount(t) ==
  /\ reap[t].pc = "refcount"
  /\ IF refcount[reap[t].actor] # 0 THEN StopReap(t) ELSE ReapAt(t, "active")
  /\ UNCHANGED <<object, lock, draft, live, refs, frame, stores, calls>>

(* The load of active_contexts. *)
CheckActive(t) ==
  /\ reap[t].pc = "active"
  /\ IF active[reap[t].actor] # 0 THEN StopReap(t) ELSE ReapAt(t, "destroy")
  /\ UNCHANGED <<object, lock, draft, live, refs, frame, stores, calls>>

(* destroy_actor_: the lock is destroyed and the storage freed ... *)
Destroy(t) ==
  /\ reap[t].pc = "destroy"
  /\ phase' = [phase EXCEPT ![reap[t].actor] = "freed"]
  /\ ReapAt(t, "uncount")
  /\ UNCHANGED <<refcount, active, lock, draft, live, refs, frame, stores, calls>>

(* Wrong variant: g_live_actors is not decremented. *)
Uncount_Forgotten(t) ==
  /\ reap[t].pc = "uncount"
  /\ StopReap(t)
  /\ UNCHANGED <<object, lock, draft, live, refs, frame, stores, calls>>

(* ... and then g_live_actors is decremented. *)
Uncount(t) ==
  /\ reap[t].pc = "uncount"
  /\ live' = live - 1
  /\ StopReap(t)
  /\ UNCHANGED <<object, lock, draft, refs, frame, stores, calls>>

-----------------------------------------------------------------------------
(* __parus_actor_enter, the body of a method, __parus_actor_leave. *)

SetPc(f, p) == frame' = [frame EXCEPT ![f].pc = p]
CloseFrame(f) == frame' = [frame EXCEPT ![f] = Idle]

(* Wrong variant: the call is not counted. *)
Enter_Uncounted(t, d, a, s, m) ==
  /\ CanCall(t, d, a) /\ ~Constructing(a)
  /\ IF BorrowReceiver THEN <<t, s>> \in refs[a] ELSE refs[a] # {}
  /\ m # "init"
  /\ OpenFrame(t, d, a, s, m)
  /\ UNCHANGED <<object, lock, draft, live, refs, reap, stores>>

(* enter, first step: active_contexts.fetch_add. *)
Enter(t, d, a, s, m) ==
  /\ CanCall(t, d, a) /\ ~Constructing(a)
  /\ IF BorrowReceiver THEN <<t, s>> \in refs[a] ELSE refs[a] # {}
  /\ m # "init"
  /\ OpenFrame(t, d, a, s, m)
  /\ active' = [active EXCEPT ![a] = @ + 1]
  /\ UNCHANGED <<phase, refcount, lock, draft, live, refs, reap, stores>>

(* enter when malloc of the context fails: the count is taken back and     *)
(* null returned, without a try_destroy_actor_.                            *)
EnterFail(f) ==
  /\ Hosted
  /\ IsTop(f) /\ Running(f[1]) /\ frame[f].pc = "counted"
  /\ CloseFrame(f)
  /\ active' = [active EXCEPT ![frame[f].actor] = @ - 1]
  /\ UNCHANGED <<phase, refcount, lock, draft, live, refs, reap, stores, calls>>

(* Wrong variant: a writer does not wait for the readers. *)
LockFree_NoReaders(a, m) == writer[a] = {}

(* The lock is free for a context of this mode. *)
LockFree(a, m) == writer[a] = {} /\ (Shared(m) \/ readers[a] = {})

(* enter, last step: the lock is acquired and the context returned. *)
AcquireLock(f) ==
  LET a == frame[f].actor IN
  /\ IsTop(f) /\ Running(f[1]) /\ frame[f].pc = "counted"
  /\ LockFree(a, frame[f].mode)
  /\ IF Shared(frame[f].mode)
     THEN readers' = [readers EXCEPT ![a] = @ \union {f}] /\ UNCHANGED writer
     ELSE writer' = [writer EXCEPT ![a] = {f}] /\ UNCHANGED readers
  /\ SetPc(f, "body")
  /\ UNCHANGED <<object, draft, live, refs, reap, stores, calls>>

(* The thread of this call has the lock for writing. *)
OwnsWrite(f, a) == \E g \in writer[a] : g[1] = f[1]

(* pthread_rwlock_rdlock and _wrlock return EDEADLK to the thread that     *)
(* already owns the lock for writing; enter ignores the result and returns *)
(* a context that claims to hold the lock.                                 *)
AcquireIgnored(f) ==
  LET a == frame[f].actor IN
  /\ Hosted
  /\ IsTop(f) /\ Running(f[1]) /\ frame[f].pc = "counted"
  /\ OwnsWrite(f, a)
  /\ SetPc(f, "body")
  /\ UNCHANGED <<object, lock, draft, live, refs, reap, stores, calls>>

(* The body reads the draft, and a body that may write it increments it    *)
(* from what it read.  commit and recast do nothing in the runtime.        *)
LoadDraft(f) ==
  /\ IsTop(f) /\ Running(f[1]) /\ frame[f].pc = "body"
  /\ frame' = [frame EXCEPT ![f].pc = "loaded", ![f].tmp = draft[frame[f].actor]]
  /\ UNCHANGED <<object, lock, draft, live, refs, reap, stores, calls>>

StoreDraft(f) ==
  LET a == frame[f].actor IN
  /\ IsTop(f) /\ Running(f[1]) /\ frame[f].pc = "loaded"
  /\ frame[f].mode # "sub"
  /\ draft' = [draft EXCEPT ![a] = frame[f].tmp + 1]
  /\ stores' = [stores EXCEPT ![a] = @ + 1]
  /\ SetPc(f, "stored")
  /\ UNCHANGED <<object, lock, live, refs, reap, calls>>

(* Wrong variant: the context is freed and the lock is kept. *)
Unlock_Forgotten(f) ==
  /\ IsTop(f) /\ Running(f[1]) /\ frame[f].pc \in {"body", "loaded", "stored"}
  /\ SetPc(f, "unlocked")
  /\ UNCHANGED <<object, lock, draft, live, refs, reap, stores, calls>>

(* leave, first step: the lock is unlocked and the context freed.  Unlock  *)
(* releases the write lock its thread has, or else a read lock; unlocking  *)
(* a lock the thread does not own is undefined: it may or may not free it. *)
Unlock(f) ==
  LET a == frame[f].actor IN
  /\ IsTop(f) /\ Running(f[1]) /\ frame[f].pc \in {"body", "loaded", "stored"}
  /\ \/ /\ OwnsWrite(f, a)
        /\ writer' = [writer EXCEPT ![a] = {}] /\ UNCHANGED readers
     \/ /\ ~OwnsWrite(f, a) /\ f \in readers[a]
        /\ readers' = [readers EXCEPT ![a] = @ \ {f}] /\ UNCHANGED writer
     \/ /\ ~OwnsWrite(f, a) /\ f \notin readers[a]
        /\ writer' \in {writer, [writer EXCEPT ![a] = {}]} /\ UNCHANGED readers
  /\ SetPc(f, "unlocked")
  /\ UNCHANGED <<object, draft, live, refs, reap, stores, calls>>

(* leave, last step: active_contexts.fetch_sub; the last one out goes on   *)
(* to try_destroy_actor_.                                                  *)
Leave(f) ==
  LET a == frame[f].actor IN
  /\ IsTop(f) /\ Running(f[1]) /\ frame[f].pc = "unlocked"
  /\ CloseFrame(f)
  /\ active' = [active EXCEPT ![a] = @ - 1]
  /\ reap' = IF active[a] = 1
             THEN [reap EXCEPT ![f[1]] = [pc |-> "refcount", actor |-> a]]
             ELSE reap
  /\ UNCHANGED <<phase, refcount, lock, draft, live, refs, stores, calls>>

-----------------------------------------------------------------------------

(* The steps a thread must make to get out of the runtime or of a method. *)
RuntimeStep(t) ==
  \/ CheckRefcount(t) \/ CheckActive(t) \/ Destroy(t) \/ Uncount(t)
  \/ \E d \in 1..MaxDepth :
       \/ AcquireLock(<<t, d>>) \/ AcquireIgnored(<<t, d>>)
       \/ Unlock(<<t, d>>) \/ Leave(<<t, d>>)

(* The steps the program may make or not. *)
ProgramStep(t) ==
  \E a \in Actors, s \in Slots :
     \/ Release(t, a, s)
     \/ \E r \in Slots : Clone(t, a, s, r)
     \/ \E u \in Threads, r \in Slots : Move(t, a, s, u, r)
     \/ \E d \in 1..MaxDepth :
          \/ Construct(t, d, a, s)
          \/ \E m \in Modes : Enter(t, d, a, s, m)

BodyStep(t) ==
  \E d \in 1..MaxDepth :
     LoadDraft(<<t, d>>) \/ StoreDraft(<<t, d>>) \/ EnterFail(<<t, d>>)

Next == \E t \in Threads : ProgramStep(t) \/ RuntimeStep(t) \/ BodyStep(t)

Spec == Init /\ [][Next]_vars

(* Threads are scheduled and method bodies terminate. *)
Fairness == \A t \in Threads : WF_vars(RuntimeStep(t))

FairSpec == Spec /\ Fairness

-----------------------------------------------------------------------------
(* Properties. *)

FrameType ==
  [pc : FramePc, actor : Actors \union {None}, mode : Modes,
   slot : Slots \union {None}, tmp : Nat]

ReapPc == {"no", "refcount", "active", "destroy", "uncount"}

(* The types of the variables; a frame in progress and a thread in         *)
(* try_destroy_actor_ are on an actor.                                     *)
TypeOK ==
  /\ phase \in [Actors -> {"none", "live", "freed"}]
  /\ refcount \in [Actors -> Nat]
  /\ active \in [Actors -> Nat]
  /\ writer \in [Actors -> SUBSET Frames]
  /\ readers \in [Actors -> SUBSET Frames]
  /\ draft \in [Actors -> Nat]
  /\ live \in Int
  /\ refs \in [Actors -> SUBSET Handles]
  /\ frame \in [Frames -> FrameType]
  /\ \A f \in Frames : InFrame(f) => frame[f].actor \in Actors /\ frame[f].slot \in Slots
  /\ reap \in [Threads -> [pc : ReapPc, actor : Actors \union {None}]]
  /\ \A t \in Threads : reap[t].pc # "no" => reap[t].actor \in Actors
  /\ stores \in [Actors -> Nat]
  /\ calls \in [Threads -> 0..MaxCalls]

InBody(f) == frame[f].pc \in {"body", "loaded", "stored"}

(* pub and init contexts have the draft for themselves: a call that may    *)
(* write is in its body only while no other thread's call on that actor is. *)
Exclusion ==
  \A f, g \in Frames :
     (/\ f[1] # g[1]
      /\ InBody(f) /\ InBody(g)
      /\ frame[f].actor = frame[g].actor) => frame[f].mode = "sub" /\ frame[g].mode = "sub"

(* What a body read of the draft is still there when the body uses it, and *)
(* no increment is lost: concurrent actor mutation serializes.             *)
Serialized ==
  /\ \A a \in Actors : draft[a] = stores[a]
  /\ \A f \in Frames : frame[f].pc = "loaded" => draft[frame[f].actor] = frame[f].tmp

(* Whoever is still going to touch an ActorObject finds it allocated: the  *)
(* holders of handles, the calls in progress and the threads in            *)
(* try_destroy_actor_ before the free.                                     *)
NoUseAfterFree ==
  /\ \A a \in Actors : refs[a] # {} => phase[a] = "live"
  /\ \A f \in Frames : InFrame(f) => phase[frame[f].actor] = "live"
  /\ \A t \in Threads :
       reap[t].pc \in {"refcount", "active", "destroy"} => phase[reap[t].actor] = "live"

(* No handle is left, no call and no thread is in the runtime. *)
Quiescent ==
  /\ \A a \in Actors : refs[a] = {}
  /\ \A f \in Frames : ~InFrame(f)
  /\ \A t \in Threads : Running(t)

(* Once all handles are released every actor has been reclaimed exactly    *)
(* once: __parus_prt_debug_live_actors() is back at its old value.         *)
AllReclaimed == Quiescent => live = 0 /\ \A a \in Actors : phase[a] # "live"

(* An actor that nobody has a handle to is reclaimed. *)
DroppedIsReclaimed ==
  \A a \in Actors : (phase[a] = "live" /\ refs[a] = {}) ~> phase[a] = "freed"

(* Every call that entered the runtime leaves it: no deadlock on actor     *)
(* locks when the call graph of the program has no cycle.                  *)
EveryCallReturns == \A f \in Frames : InFrame(f) ~> ~InFrame(f)

(* The runtime implements the actor its programs see. *)
Shared_Actor == INSTANCE SharedActor
                WITH status <- phase, value <- draft, holders <- refs

(* Every step of the runtime is a step of the actor its programs see, or   *)
(* changes nothing they can see: whole increments, one at a time, on an    *)
(* actor that exists as long as a handle to it does.                       *)
ImplementsSharedActor == Shared_Actor!ASpec
-----------------------------------------------------------------------------
(* The inductive invariant behind the safety properties, for programs that *)
(* keep the receiver's handle during a call and whose calls never lead     *)
(* back into an actor they are already inside.                             *)

Disciplined ==
  /\ BorrowReceiver
  /\ \A a \in Actors : <<a, a>> \notin Calls
  /\ \A a, b, c \in Actors :
       <<a, b>> \in Calls /\ <<b, c>> \in Calls => <<a, c>> \in Calls

(* The counters count: handle values, and calls in progress. *)
Counts ==
  /\ \A a \in Actors : refcount[a] = Cardinality(refs[a])
  /\ \A a \in Actors : active[a] = Cardinality(FramesOn(a))

(* A call in progress has its receiver's handle, and handles are to live   *)
(* objects.                                                                *)
Held ==
  /\ \A f \in Frames : InFrame(f) => <<f[1], frame[f].slot>> \in refs[frame[f].actor]
  /\ \A a \in Actors : refs[a] # {} => phase[a] = "live"

Reaping(t, a) == reap[t].pc \in {"refcount", "active", "destroy"} /\ reap[t].actor = a

(* A thread in try_destroy_actor_ either has a handle itself, and will     *)
(* find refcount above zero, or is alone with an object without handles;   *)
(* an object without handles has such a thread.                            *)
ReaperAt(a) ==
  /\ \A t \in Threads :
       Reaping(t, a) =>
         \/ reap[t].pc = "refcount" /\ \E s \in Slots : <<t, s>> \in refs[a]
         \/ refs[a] = {} /\ phase[a] = "live"
  /\ \A t, u \in Threads : Reaping(t, a) /\ Reaping(u, a) /\ refs[a] = {} => t = u
  /\ phase[a] = "live" /\ refs[a] = {} => \E t \in Threads : Reaping(t, a)

Reaper == \A a \in Actors : ReaperAt(a)

(* Calls of a thread are nested, outer to inner along the call graph. *)
Nested ==
  \A t \in Threads : \A d, e \in 1..MaxDepth :
     d < e /\ InFrame(<<t, e>>) =>
       /\ InFrame(<<t, d>>)
       /\ <<frame[<<t, d>>].actor, frame[<<t, e>>].actor>> \in Calls

(* The lock's owners are the calls in their bodies. *)
LockOwners ==
  \A f \in Frames, a \in Actors :
    /\ f \in writer[a] <=> InBody(f) /\ frame[f].actor = a /\ ~Shared(frame[f].mode)
    /\ f \in readers[a] <=> InBody(f) /\ frame[f].actor = a /\ Shared(frame[f].mode)

LockExclusive ==
  \A a \in Actors :
    /\ writer[a] # {} => readers[a] = {}
    /\ \A f, g \in writer[a] : f = g

(* g_live_actors counts the objects, and the freed ones not yet taken off. *)
LiveActors == {a \in Actors : phase[a] = "live"}
Uncounting == {t \in Threads : reap[t].pc = "uncount"}
LiveCount == live = Cardinality(LiveActors) + Cardinality(Uncounting)

IndInv ==
  /\ TypeOK /\ Counts /\ Held /\ Reaper /\ Nested /\ LockOwners /\ LockExclusive
  /\ Serialized /\ LiveCount
=============================================================================
