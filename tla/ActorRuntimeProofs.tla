------------------------ MODULE ActorRuntimeProofs ------------------------
(***************************************************************************)
(* Safety of the actor runtime for every number of threads, actors and     *)
(* handle variables, every depth of calls and every acyclic call graph.    *)
(***************************************************************************)
EXTENDS ActorRuntime, FiniteSetTheorems, TLAPS

(* Every step is one of the actions; the proofs below split on them. *)
StepCases ==
  \/ \E t \in Threads, d \in 1..MaxDepth, a \in Actors, s \in Slots : Construct(t, d, a, s)
  \/ \E t \in Threads, a \in Actors, s, r \in Slots : Clone(t, a, s, r)
  \/ \E t, u \in Threads, a \in Actors, s, r \in Slots : Move(t, a, s, u, r)
  \/ \E t \in Threads, a \in Actors, s \in Slots : Release(t, a, s)
  \/ \E t \in Threads : CheckRefcount(t)
  \/ \E t \in Threads : CheckActive(t)
  \/ \E t \in Threads : Destroy(t)
  \/ \E t \in Threads : Uncount(t)
  \/ \E t \in Threads, d \in 1..MaxDepth, a \in Actors, s \in Slots, m \in Modes :
        Enter(t, d, a, s, m)
  \/ \E f \in Frames : EnterFail(f)
  \/ \E f \in Frames : AcquireLock(f)
  \/ \E f \in Frames : AcquireIgnored(f)
  \/ \E f \in Frames : LoadDraft(f)
  \/ \E f \in Frames : StoreDraft(f)
  \/ \E f \in Frames : Unlock(f)
  \/ \E f \in Frames : Leave(f)
  \/ UNCHANGED vars

(* Next is the disjunction of the actions. *)
LEMMA NextCases == [Next]_vars => StepCases
<1> SUFFICES ASSUME NEW t \in Threads, ProgramStep(t) \/ RuntimeStep(t) \/ BodyStep(t)
             PROVE  StepCases
  BY DEF Next, StepCases
<1>0. \A d \in 1..MaxDepth : <<t, d>> \in Frames
  BY DEF Frames
<1>1. CASE ProgramStep(t)
  BY <1>1 DEF ProgramStep, StepCases
<1>2. CASE RuntimeStep(t)
  BY <1>0, <1>2 DEF RuntimeStep, StepCases
<1>3. CASE BodyStep(t)
  BY <1>0, <1>3 DEF BodyStep, StepCases
<1> QED
  BY <1>1, <1>2, <1>3

(* The sets that the counters count are finite. *)
LEMMA Finite ==
  ASSUME TypeOK
  PROVE  /\ \A a \in Actors : IsFiniteSet(refs[a])
         /\ \A a \in Actors : IsFiniteSet(FramesOn(a))
         /\ IsFiniteSet(LiveActors)
         /\ IsFiniteSet(Uncounting)
<1>1. IsFiniteSet(1..MaxDepth)
  BY FS_Interval, ConstantsAssumption
<1>2. IsFiniteSet(Frames) /\ IsFiniteSet(Handles)
  BY <1>1, FS_Product, ConstantsAssumption DEF Frames, Handles
<1>3. \A a \in Actors : FramesOn(a) \in SUBSET Frames
  BY DEF FramesOn
<1>4. \A a \in Actors : refs[a] \in SUBSET Handles
  BY DEF TypeOK
<1>5. LiveActors \in SUBSET Actors /\ Uncounting \in SUBSET Threads
  BY DEF LiveActors, Uncounting
<1> QED
  BY <1>2, <1>3, <1>4, <1>5, FS_Subset, ConstantsAssumption

(* The initial state satisfies the invariant. *)
LEMMA InitIndInv == Init => IndInv
<1> SUFFICES ASSUME Init PROVE IndInv
  OBVIOUS
<1> USE ConstantsAssumption DEF Init, Idle
<1>1. TypeOK
  BY DEF TypeOK, FrameType, FramePc, Modes, ReapPc, InFrame
<1>2. Counts
  <2>1. \A a \in Actors : FramesOn(a) = {}
    BY DEF FramesOn, InFrame
  <2> QED
    BY <2>1, FS_EmptySet DEF Counts
<1>3. Held /\ Reaper /\ Nested
  BY DEF Held, Reaper, ReaperAt, Nested, InFrame, Reaping, Frames
<1>4. LockOwners /\ LockExclusive /\ Serialized
  BY DEF LockOwners, LockExclusive, Serialized, InBody
<1>5. LiveCount
  <2>1. LiveActors = {}
    BY DEF LiveActors
  <2>2. Uncounting = {}
    BY DEF Uncounting
  <2> QED
    BY <2>1, <2>2, FS_EmptySet DEF LiveCount
<1> QED
  BY <1>1, <1>2, <1>3, <1>4, <1>5 DEF IndInv

-----------------------------------------------------------------------------
(* An actor that a call is inside of counts that call. *)
LEMMA CallIsCounted ==
  ASSUME TypeOK, Counts, NEW f \in Frames, InFrame(f)
  PROVE  active[frame[f].actor] \in Nat \ {0}
<1> DEFINE a == frame[f].actor
<1>1. a \in Actors
  BY DEF TypeOK
<1>2. f \in FramesOn(a)
  BY DEF FramesOn
<1>3. Cardinality(FramesOn(a)) # 0
  BY <1>1, <1>2, Finite, FS_EmptySet
<1> QED
  BY <1>1, <1>3 DEF Counts, TypeOK

(* What the helpers on frames and on reap change. *)
LEMMA SetPcEffect ==
  ASSUME TypeOK, NEW f \in Frames, InFrame(f), NEW p \in FramePc \ {"idle"}, SetPc(f, p)
  PROVE  /\ frame' \in [Frames -> FrameType]
         /\ frame'[f] = [frame[f] EXCEPT !.pc = p]
         /\ \A g \in Frames : g # f => frame'[g] = frame[g]
         /\ \A g \in Frames : /\ frame'[g].actor = frame[g].actor
                              /\ frame'[g].mode = frame[g].mode
                              /\ frame'[g].slot = frame[g].slot
                              /\ frame'[g].tmp = frame[g].tmp
                              /\ g # f => frame'[g].pc = frame[g].pc
         /\ frame'[f].pc = p
         /\ \A g \in Frames : (frame'[g].pc # "idle") <=> InFrame(g)
BY DEF SetPc, TypeOK, FrameType, InFrame

(* A closed frame is idle and the others are as they were. *)
LEMMA CloseFrameEffect ==
  ASSUME TypeOK, NEW f \in Frames, CloseFrame(f)
  PROVE  /\ frame' \in [Frames -> FrameType]
         /\ frame'[f] = Idle
         /\ \A g \in Frames : g # f => frame'[g] = frame[g]
         /\ frame'[f].pc = "idle"
<1>1. Idle \in FrameType /\ Idle.pc = "idle"
  BY DEF Idle, FrameType, FramePc, Modes
<1> QED
  BY <1>1 DEF CloseFrame, TypeOK

(* A step of try_destroy_actor_ moves its own thread only. *)
LEMMA ReapEffect ==
  ASSUME TypeOK, NEW t \in Threads, NEW p \in ReapPc \ {"no"}, reap[t].pc # "no",
         StopReap(t) \/ ReapAt(t, p)
  PROVE  /\ reap' \in [Threads -> [pc : ReapPc, actor : Actors \union {None}]]
         /\ \A u \in Threads : u # t => reap'[u] = reap[u]
         /\ StopReap(t) => reap'[t].pc = "no"
         /\ ReapAt(t, p) => reap'[t].pc = p /\ reap'[t].actor = reap[t].actor
         /\ \A u \in Threads : reap'[u].pc # "no" => reap'[u].actor \in Actors
<1>1. CASE StopReap(t)
  BY <1>1 DEF StopReap, ReapAt, TypeOK, ReapPc
<1>2. CASE ReapAt(t, p)
  <2>1. reap' \in [Threads -> [pc : ReapPc, actor : Actors \union {None}]]
    BY <1>2 DEF ReapAt, TypeOK, ReapPc
  <2>2. reap'[t].pc = p /\ reap'[t].actor = reap[t].actor
    BY <1>2 DEF ReapAt, TypeOK
  <2>3. \A u \in Threads : u # t => reap'[u] = reap[u]
    BY <1>2 DEF ReapAt, TypeOK
  <2>4. reap[t].actor \in Actors /\ ~StopReap(t)
    BY <2>2 DEF TypeOK, StopReap
  <2> QED
    BY <1>2, <2>1, <2>2, <2>3, <2>4 DEF TypeOK
<1> QED
  BY <1>1, <1>2

(* The invariant that types are respected, one step per action. *)
LEMMA TypeStep ==
  ASSUME TypeOK, Counts, StepCases
  PROVE  TypeOK'
<1>0. \A f \in Frames : InFrame(f) => active[frame[f].actor] - 1 \in Nat
  <2> SUFFICES ASSUME NEW f \in Frames, InFrame(f)
               PROVE  active[frame[f].actor] - 1 \in Nat
    OBVIOUS
  <2>1. active[frame[f].actor] \in Nat \ {0}
    BY CallIsCounted
  <2> QED
    BY <2>1
<1> USE ConstantsAssumption DEF TypeOK, FrameType, FramePc, Modes, ReapPc, InFrame
<1>1. ASSUME NEW t \in Threads, NEW d \in 1..MaxDepth, NEW a \in Actors, NEW s \in Slots,
             Construct(t, d, a, s)
      PROVE  TypeOK'
  BY <1>1 DEF Construct, OpenFrame, Frames, Handles, lock
<1>2. ASSUME NEW t \in Threads, NEW a \in Actors, NEW s \in Slots, NEW r \in Slots,
             Clone(t, a, s, r)
      PROVE  TypeOK'
  BY <1>2 DEF Clone, Handles, lock
<1>3. ASSUME NEW t \in Threads, NEW u \in Threads, NEW a \in Actors, NEW s \in Slots,
             NEW r \in Slots, Move(t, a, s, u, r)
      PROVE  TypeOK'
  BY <1>3 DEF Move, Handles, lock, object
<1>4. ASSUME NEW t \in Threads, NEW a \in Actors, NEW s \in Slots, Release(t, a, s)
      PROVE  TypeOK'
  BY <1>4 DEF Release, lock
<1>5. ASSUME NEW t \in Threads, CheckRefcount(t)
      PROVE  TypeOK'
  BY <1>5, ReapEffect DEF CheckRefcount, lock, object
<1>6. ASSUME NEW t \in Threads, CheckActive(t)
      PROVE  TypeOK'
  BY <1>6, ReapEffect DEF CheckActive, lock, object
<1>7. ASSUME NEW t \in Threads, Destroy(t)
      PROVE  TypeOK'
  BY <1>7 DEF Destroy, ReapAt, lock
<1>8. ASSUME NEW t \in Threads, Uncount(t)
      PROVE  TypeOK'
  BY <1>8 DEF Uncount, StopReap, lock, object
<1>9. ASSUME NEW t \in Threads, NEW d \in 1..MaxDepth, NEW a \in Actors, NEW s \in Slots,
             NEW m \in Modes, Enter(t, d, a, s, m)
      PROVE  TypeOK'
  BY <1>9 DEF Enter, OpenFrame, Frames, lock
<1>10. ASSUME NEW f \in Frames, EnterFail(f)
       PROVE  TypeOK'
  <2>0. active[frame[f].actor] - 1 \in Nat /\ frame[f].actor \in Actors
    BY <1>10, <1>0 DEF EnterFail, IsTop
  <2>1. active' \in [Actors -> Nat]
    BY <1>10, <2>0 DEF EnterFail
  <2> QED
    BY <1>10, <2>1, CloseFrameEffect DEF EnterFail, lock
<1>11. ASSUME NEW f \in Frames, AcquireLock(f)
       PROVE  TypeOK'
  <2>1. writer' \in [Actors -> SUBSET Frames] /\ readers' \in [Actors -> SUBSET Frames]
    <3>1. frame[f].actor \in Actors
      BY <1>11 DEF AcquireLock, IsTop
    <3>2. CASE Shared(frame[f].mode)
      BY <1>11, <3>1, <3>2 DEF AcquireLock
    <3>3. CASE ~Shared(frame[f].mode)
      BY <1>11, <3>1, <3>3 DEF AcquireLock
    <3> QED
      BY <3>2, <3>3
  <2> QED
    BY <1>11, <2>1, SetPcEffect DEF AcquireLock, IsTop, object
<1>12. ASSUME NEW f \in Frames, AcquireIgnored(f)
       PROVE  TypeOK'
  BY <1>12, SetPcEffect DEF AcquireIgnored, IsTop, object, lock
<1>13. ASSUME NEW f \in Frames, LoadDraft(f)
       PROVE  TypeOK'
  <2>1. draft[frame[f].actor] \in Nat
    BY <1>13 DEF LoadDraft, IsTop
  <2>2. frame' \in [Frames -> FrameType]
    <3>1. [frame[f] EXCEPT !.pc = "loaded", !.tmp = draft[frame[f].actor]] \in FrameType
      <4>1. frame[f] \in FrameType
        OBVIOUS
      <4> QED
        BY <2>1, <4>1
    <3>2. frame' = [frame EXCEPT ![f] =
                      [frame[f] EXCEPT !.pc = "loaded", !.tmp = draft[frame[f].actor]]]
      BY <1>13 DEF LoadDraft
    <3> QED
      BY <3>1, <3>2
  <2>3. \A g \in Frames : /\ frame'[g].actor = frame[g].actor /\ frame'[g].slot = frame[g].slot
                          /\ (frame'[g].pc # "idle") <=> InFrame(g)
    BY <1>13, <2>1 DEF LoadDraft, IsTop
  <2> QED
    BY <1>13, <2>2, <2>3 DEF LoadDraft, object, lock
<1>14. ASSUME NEW f \in Frames, StoreDraft(f)
       PROVE  TypeOK'
  <2>1. draft' \in [Actors -> Nat] /\ stores' \in [Actors -> Nat]
    BY <1>14 DEF StoreDraft, IsTop
  <2> QED
    BY <1>14, <2>1, SetPcEffect DEF StoreDraft, IsTop, object, lock
<1>15. ASSUME NEW f \in Frames, Unlock(f)
       PROVE  TypeOK'
  <2>1. writer' \in [Actors -> SUBSET Frames] /\ readers' \in [Actors -> SUBSET Frames]
    <3>1. [writer EXCEPT ![frame[f].actor] = {}] \in [Actors -> SUBSET Frames]
      OBVIOUS
    <3>2. [readers EXCEPT ![frame[f].actor] = @ \ {f}] \in [Actors -> SUBSET Frames]
      OBVIOUS
    <3> QED
      BY <1>15, <3>1, <3>2 DEF Unlock
  <2> QED
    BY <1>15, <2>1, SetPcEffect DEF Unlock, IsTop, object
<1>16. ASSUME NEW f \in Frames, Leave(f)
       PROVE  TypeOK'
  <2>1. f[1] \in Threads /\ frame[f].actor \in Actors
    BY <1>16 DEF Frames, Leave, IsTop
  <2>0. active[frame[f].actor] - 1 \in Nat
    BY <1>16, <1>0 DEF Leave, IsTop
  <2>2. active' \in [Actors -> Nat]
    BY <1>16, <2>0, <2>1 DEF Leave
  <2>3. /\ reap' \in [Threads -> [pc : ReapPc, actor : Actors \union {None}]]
        /\ \A t \in Threads : reap'[t].pc # "no" => reap'[t].actor \in Actors
    BY <1>16, <2>1 DEF Leave
  <2> QED
    BY <1>16, <2>2, <2>3, CloseFrameEffect DEF Leave, lock
<1>17. ASSUME UNCHANGED vars
       PROVE  TypeOK'
  BY <1>17 DEF vars
<1> QED
  BY <1>1, <1>2, <1>3, <1>4, <1>5, <1>6, <1>7, <1>8, <1>9, <1>10, <1>11, <1>12,
     <1>13, <1>14, <1>15, <1>16, <1>17 DEF StepCases

-----------------------------------------------------------------------------
(* How the actions move calls: a call is opened, closed, or keeps its      *)
(* place.                                                                  *)

Opens(t, d, a, s, m) ==
  /\ <<t, d>> \in Frames
  /\ ~InFrame(<<t, d>>)
  /\ frame' \in [Frames -> FrameType]
  /\ frame'[<<t, d>>].pc = "counted" /\ frame'[<<t, d>>].actor = a
  /\ frame'[<<t, d>>].slot = s /\ frame'[<<t, d>>].mode = m
  /\ \A g \in Frames : g # <<t, d>> => frame'[g] = frame[g]

Closes(f) ==
  /\ InFrame(f) /\ ~InBody(f)
  /\ IsTop(f)
  /\ frame'[f].pc = "idle"
  /\ \A g \in Frames : g # f => frame'[g] = frame[g]

Stays ==
  \A g \in Frames : /\ (frame'[g].pc # "idle") <=> InFrame(g)
                    /\ frame'[g].actor = frame[g].actor
                    /\ frame'[g].mode = frame[g].mode
                    /\ frame'[g].slot = frame[g].slot

(* Construct opens the call of init. *)
LEMMA ConstructOpens ==
  ASSUME TypeOK, NEW t \in Threads, NEW d \in 1..MaxDepth, NEW a \in Actors,
         NEW s \in Slots, Construct(t, d, a, s)
  PROVE  Opens(t, d, a, s, "init")
<1>1. <<t, d>> \in Frames
  BY DEF Frames
<1> QED
  BY <1>1, ConstantsAssumption
  DEF Construct, CanCall, OpenFrame, Opens, TypeOK, FrameType, FramePc, Modes

(* Enter opens a call. *)
LEMMA EnterOpens ==
  ASSUME TypeOK, NEW t \in Threads, NEW d \in 1..MaxDepth, NEW a \in Actors,
         NEW s \in Slots, NEW m \in Modes, Enter(t, d, a, s, m)
  PROVE  Opens(t, d, a, s, m)
<1>1. <<t, d>> \in Frames
  BY DEF Frames
<1> QED
  BY <1>1, ConstantsAssumption DEF Enter, CanCall, OpenFrame, Opens, TypeOK, FrameType, FramePc

(* A failed enter and leave close the innermost call of a thread. *)
LEMMA LeaversClose ==
  ASSUME TypeOK, NEW f \in Frames, EnterFail(f) \/ Leave(f)
  PROVE  Closes(f)
BY CloseFrameEffect DEF EnterFail, Leave, Closes, IsTop, InFrame, InBody

(* The steps of a call in progress leave it on its actor. *)
LEMMA BodyStays ==
  ASSUME TypeOK, NEW f \in Frames,
         AcquireLock(f) \/ AcquireIgnored(f) \/ LoadDraft(f) \/ StoreDraft(f) \/ Unlock(f)
  PROVE  Stays
<1>1. CASE LoadDraft(f)
  <2>1. frame[f].pc = "body"
    BY <1>1 DEF LoadDraft
  <2> QED
    BY <1>1, <2>1 DEF LoadDraft, Stays, InFrame, TypeOK, FrameType
<1>2. CASE ~LoadDraft(f)
  <2>1. InFrame(f) /\ \E p \in FramePc \ {"idle"} : SetPc(f, p)
    BY <1>2 DEF AcquireLock, AcquireIgnored, StoreDraft, Unlock, IsTop, FramePc
  <2>2. PICK p \in FramePc \ {"idle"} : SetPc(f, p)
    BY <2>1
  <2> QED
    BY <2>1, <2>2, SetPcEffect DEF Stays
<1> QED
  BY <1>1, <1>2

(* The set of calls on an actor follows. *)
LEMMA FramesOnOpened ==
  ASSUME TypeOK, NEW t \in Threads, NEW d \in 1..MaxDepth, NEW a \in Actors,
         NEW s, NEW m, Opens(t, d, a, s, m)
  PROVE  /\ FramesOn(a)' = FramesOn(a) \union {<<t, d>>}
         /\ <<t, d>> \notin FramesOn(a)
         /\ \A b \in Actors : b # a => FramesOn(b)' = FramesOn(b)
BY DEF Opens, FramesOn, InFrame

(* A closed call is taken off its actor and no other. *)
LEMMA FramesOnClosed ==
  ASSUME TypeOK, NEW f \in Frames, NEW a \in Actors, frame[f].actor = a, Closes(f)
  PROVE  /\ FramesOn(a)' = FramesOn(a) \ {f}
         /\ f \in FramesOn(a)
         /\ \A b \in Actors : b # a => FramesOn(b)' = FramesOn(b)
BY DEF Closes, FramesOn, InFrame

(* Calls that stay where they are keep the sets of calls. *)
LEMMA FramesOnStays ==
  ASSUME Stays
  PROVE  \A b \in Actors : FramesOn(b)' = FramesOn(b)
BY DEF Stays, FramesOn, InFrame

(* An action that is none of those above leaves the calls alone. *)
LEMMA OthersKeep ==
  /\ \A t \in Threads, a \in Actors, s, r \in Slots : Clone(t, a, s, r) => UNCHANGED <<frame, active>>
  /\ \A t, u \in Threads, a \in Actors, s, r \in Slots : Move(t, a, s, u, r) => UNCHANGED <<frame, active>>
  /\ \A t \in Threads, a \in Actors, s \in Slots : Release(t, a, s) => UNCHANGED <<frame, active>>
  /\ \A t \in Threads :
       CheckRefcount(t) \/ CheckActive(t) \/ Destroy(t) \/ Uncount(t) => UNCHANGED <<frame, active, refs, refcount>>
BY DEF Clone, Move, Release, CheckRefcount, CheckActive, Destroy, Uncount, object

(* refcount counts the handle values. *)
LEMMA RefcountStep ==
  ASSUME TypeOK, Counts, Held, StepCases
  PROVE  (\A a \in Actors : refcount[a] = Cardinality(refs[a]))'
<1> USE DEF Counts
<1>1. ASSUME NEW t \in Threads, NEW d \in 1..MaxDepth, NEW a \in Actors, NEW s \in Slots,
             Construct(t, d, a, s)
      PROVE  \A b \in Actors : refcount'[b] = Cardinality(refs'[b])
  BY <1>1, FS_Singleton DEF Construct, TypeOK
<1>2. ASSUME NEW t \in Threads, NEW a \in Actors, NEW s \in Slots, NEW r \in Slots,
             Clone(t, a, s, r)
      PROVE  \A b \in Actors : refcount'[b] = Cardinality(refs'[b])
  <2>1. Cardinality(refs[a] \union {<<t, r>>}) = Cardinality(refs[a]) + 1
    BY <1>2, Finite, FS_AddElement DEF Clone
  <2> QED
    BY <1>2, <2>1 DEF Clone, TypeOK
<1>3. ASSUME NEW t \in Threads, NEW u \in Threads, NEW a \in Actors, NEW s \in Slots,
             NEW r \in Slots, Move(t, a, s, u, r)
      PROVE  \A b \in Actors : refcount'[b] = Cardinality(refs'[b])
  <2>0. IsFiniteSet(refs[a])
    BY Finite
  <2>1. /\ IsFiniteSet(refs[a] \ {<<t, s>>})
        /\ Cardinality(refs[a] \ {<<t, s>>}) = Cardinality(refs[a]) - 1
    BY <1>3, <2>0, FS_RemoveElement DEF Move
  <2>2. Cardinality((refs[a] \ {<<t, s>>}) \union {<<u, r>>})
          = Cardinality(refs[a] \ {<<t, s>>}) + 1
    BY <1>3, <2>1, FS_AddElement DEF Move
  <2>3. Cardinality(refs[a]) \in Nat
    BY <2>0, FS_CardinalityType
  <2> QED
    BY <1>3, <2>1, <2>2, <2>3 DEF Move, TypeOK, object
<1>4. ASSUME NEW t \in Threads, NEW a \in Actors, NEW s \in Slots, Release(t, a, s)
      PROVE  \A b \in Actors : refcount'[b] = Cardinality(refs'[b])
  <2>0. IsFiniteSet(refs[a])
    BY Finite
  <2>1. Cardinality(refs[a] \ {<<t, s>>}) = Cardinality(refs[a]) - 1
    BY <1>4, <2>0, FS_RemoveElement DEF Release
  <2>2. Cardinality(refs[a]) # 0
    BY <1>4, <2>0, FS_EmptySet DEF Release
  <2> QED
    BY <1>4, <2>1, <2>2 DEF Release, TypeOK
<1>5. CASE UNCHANGED <<refs, refcount>>
  BY <1>5
<1>6. ASSUME NEW f \in Frames,
             \/ EnterFail(f) \/ AcquireLock(f) \/ AcquireIgnored(f) \/ LoadDraft(f)
             \/ StoreDraft(f) \/ Unlock(f) \/ Leave(f)
      PROVE  UNCHANGED <<refs, refcount>>
  BY <1>6 DEF EnterFail, AcquireLock, AcquireIgnored, LoadDraft, StoreDraft, Unlock, Leave, object
<1>7. ASSUME NEW t \in Threads, NEW d \in 1..MaxDepth, NEW a \in Actors, NEW s \in Slots,
             NEW m \in Modes, Enter(t, d, a, s, m)
      PROVE  UNCHANGED <<refs, refcount>>
  BY <1>7 DEF Enter
<1>8. UNCHANGED vars => UNCHANGED <<refs, refcount>>
  BY DEF vars
<1> QED
  BY <1>1, <1>2, <1>3, <1>4, <1>5, <1>6, <1>7, <1>8, OthersKeep DEF StepCases

(* active_contexts counts the calls in progress. *)
LEMMA ActiveStep ==
  ASSUME TypeOK, Counts, Held, StepCases
  PROVE  (\A a \in Actors : active[a] = Cardinality(FramesOn(a)))'
<1> SUFFICES \A b \in Actors : active'[b] = Cardinality(FramesOn(b)')
  OBVIOUS
<1>0. \A b \in Actors : active[b] = Cardinality(FramesOn(b)) /\ IsFiniteSet(FramesOn(b))
  BY Finite DEF Counts
<1>1. ASSUME NEW t \in Threads, NEW d \in 1..MaxDepth, NEW a \in Actors, NEW s \in Slots,
             Construct(t, d, a, s)
      PROVE  \A b \in Actors : active'[b] = Cardinality(FramesOn(b)')
  <2>1. FramesOn(a) = {}
    BY <1>1 DEF FramesOn, Held, Construct
  <2>2. FramesOn(a)' = {<<t, d>>} /\ \A b \in Actors : b # a => FramesOn(b)' = FramesOn(b)
    <3>1. Opens(t, d, a, s, "init")
      BY <1>1, ConstructOpens
    <3>2. /\ FramesOn(a)' = FramesOn(a) \union {<<t, d>>}
          /\ \A b \in Actors : b # a => FramesOn(b)' = FramesOn(b)
      BY <3>1, FramesOnOpened
    <3> QED
      BY <2>1, <3>2
  <2> QED
    BY <1>0, <1>1, <2>2, FS_Singleton DEF Construct, TypeOK
<1>2. ASSUME NEW t \in Threads, NEW d \in 1..MaxDepth, NEW a \in Actors, NEW s \in Slots,
             NEW m \in Modes, Enter(t, d, a, s, m)
      PROVE  \A b \in Actors : active'[b] = Cardinality(FramesOn(b)')
  <2>1. /\ FramesOn(a)' = FramesOn(a) \union {<<t, d>>} /\ <<t, d>> \notin FramesOn(a)
        /\ \A b \in Actors : b # a => FramesOn(b)' = FramesOn(b)
    BY <1>2, EnterOpens, FramesOnOpened
  <2>2. Cardinality(FramesOn(a)') = active[a] + 1
    BY <1>0, <2>1, FS_AddElement
  <2> QED
    BY <1>0, <1>2, <2>1, <2>2 DEF Enter, TypeOK
<1>3. ASSUME NEW f \in Frames, EnterFail(f) \/ Leave(f)
      PROVE  \A b \in Actors : active'[b] = Cardinality(FramesOn(b)')
  <2>0. PICK a \in Actors : frame[f].actor = a
    BY <1>3 DEF EnterFail, Leave, IsTop, TypeOK
  <2>1. /\ FramesOn(a)' = FramesOn(a) \ {f} /\ f \in FramesOn(a)
        /\ \A b \in Actors : b # a => FramesOn(b)' = FramesOn(b)
    BY <1>3, <2>0, LeaversClose, FramesOnClosed
  <2>2. Cardinality(FramesOn(a)') = active[a] - 1
    BY <1>0, <2>1, FS_RemoveElement
  <2>3. active' = [active EXCEPT ![a] = @ - 1]
    BY <1>3, <2>0 DEF EnterFail, Leave
  <2> QED
    BY <1>0, <2>1, <2>2, <2>3 DEF TypeOK
<1>4. ASSUME NEW f \in Frames,
             AcquireLock(f) \/ AcquireIgnored(f) \/ LoadDraft(f) \/ StoreDraft(f) \/ Unlock(f)
      PROVE  \A b \in Actors : active'[b] = Cardinality(FramesOn(b)')
  <2>1. active' = active
    BY <1>4 DEF AcquireLock, AcquireIgnored, LoadDraft, StoreDraft, Unlock, object
  <2> QED
    BY <1>0, <1>4, <2>1, BodyStays, FramesOnStays
<1>5. CASE UNCHANGED <<frame, active>>
  <2>1. \A b \in Actors : FramesOn(b)' = FramesOn(b)
    BY <1>5 DEF FramesOn, InFrame
  <2> QED
    BY <1>0, <1>5, <2>1
<1>6. UNCHANGED vars => UNCHANGED <<frame, active>>
  BY DEF vars
<1> QED
  BY <1>1, <1>2, <1>3, <1>4, <1>5, <1>6, OthersKeep DEF StepCases

-----------------------------------------------------------------------------
(* A call is identified by its thread and depth. *)
LEMMA FramePair ==
  ASSUME NEW f \in Frames
  PROVE  f[1] \in Threads /\ f[2] \in 1..MaxDepth /\ f = <<f[1], f[2]>>
BY DEF Frames

(* Steps that leave handles, objects and reapers alone. *)
LEMMA BodyKeeps ==
  ASSUME NEW f \in Frames,
         AcquireLock(f) \/ AcquireIgnored(f) \/ LoadDraft(f) \/ StoreDraft(f) \/ Unlock(f)
  PROVE  UNCHANGED <<refs, refcount, active, phase, reap, live>>
BY DEF AcquireLock, AcquireIgnored, LoadDraft, StoreDraft, Unlock, object

(* A call in progress keeps its receiver's handle, and handles are to live *)
(* objects.                                                                *)
LEMMA HeldStep ==
  ASSUME TypeOK, Held, Reaper, Disciplined, StepCases
  PROVE  Held'
<1> DEFINE HeldAt(g) == frame'[g].pc # "idle" => <<g[1], frame'[g].slot>> \in refs'[frame'[g].actor]
<1> SUFFICES /\ \A g \in Frames : HeldAt(g)
             /\ \A b \in Actors : refs'[b] # {} => phase'[b] = "live"
  BY DEF Held, InFrame
<1>0. /\ \A g \in Frames : InFrame(g) => frame[g].actor \in Actors
      /\ \A g \in Frames : InFrame(g) => <<g[1], frame[g].slot>> \in refs[frame[g].actor]
      /\ \A b \in Actors : refs[b] # {} => phase[b] = "live"
  BY DEF Held, TypeOK
<1>1. ASSUME NEW t \in Threads, NEW d \in 1..MaxDepth, NEW a \in Actors, NEW s \in Slots,
             Construct(t, d, a, s)
      PROVE  /\ \A g \in Frames : HeldAt(g)
             /\ \A b \in Actors : refs'[b] # {} => phase'[b] = "live"
  <2>1. Opens(t, d, a, s, "init")
    BY <1>1, ConstructOpens
  <2>2. refs[a] = {} /\ refs' = [refs EXCEPT ![a] = {<<t, s>>}]
    BY <1>0, <1>1 DEF Construct
  <2>3. \A g \in Frames : InFrame(g) => frame[g].actor # a
    BY <1>0, <2>2
  <2>4. HeldAt(<<t, d>>)
    BY <2>1, <2>2 DEF Opens, TypeOK
  <2>5. \A g \in Frames : g # <<t, d>> => HeldAt(g)
    BY <1>0, <2>1, <2>2, <2>3 DEF Opens, InFrame, TypeOK
  <2> QED
    BY <1>0, <1>1, <2>4, <2>5 DEF Construct, TypeOK
<1>2. ASSUME NEW t \in Threads, NEW a \in Actors, NEW s \in Slots, NEW r \in Slots,
             Clone(t, a, s, r)
      PROVE  /\ \A g \in Frames : HeldAt(g)
             /\ \A b \in Actors : refs'[b] # {} => phase'[b] = "live"
  BY <1>0, <1>2 DEF Clone, TypeOK, InFrame
<1>3. ASSUME NEW t \in Threads, NEW u \in Threads, NEW a \in Actors, NEW s \in Slots,
             NEW r \in Slots, Move(t, a, s, u, r)
      PROVE  /\ \A g \in Frames : HeldAt(g)
             /\ \A b \in Actors : refs'[b] # {} => phase'[b] = "live"
  <2>1. ASSUME NEW g \in Frames, InFrame(g), frame[g].actor = a
        PROVE  <<g[1], frame[g].slot>> # <<t, s>>
    BY <1>3, <2>1, FramePair DEF Move, Borrowed, Disciplined
  <2> QED
    BY <1>0, <1>3, <2>1 DEF Move, TypeOK, InFrame, object
<1>4. ASSUME NEW t \in Threads, NEW a \in Actors, NEW s \in Slots, Release(t, a, s)
      PROVE  /\ \A g \in Frames : HeldAt(g)
             /\ \A b \in Actors : refs'[b] # {} => phase'[b] = "live"
  <2>1. ASSUME NEW g \in Frames, InFrame(g), frame[g].actor = a
        PROVE  <<g[1], frame[g].slot>> # <<t, s>>
    BY <1>4, <2>1, FramePair DEF Release, Borrowed, Disciplined
  <2> QED
    BY <1>0, <1>4, <2>1 DEF Release, TypeOK, InFrame
<1>5. ASSUME NEW t \in Threads, Destroy(t)
      PROVE  /\ \A g \in Frames : HeldAt(g)
             /\ \A b \in Actors : refs'[b] # {} => phase'[b] = "live"
  <2>1. reap[t].actor \in Actors /\ refs[reap[t].actor] = {}
    BY <1>5 DEF Destroy, Reaper, ReaperAt, Reaping, TypeOK
  <2> QED
    BY <1>0, <1>5, <2>1 DEF Destroy, TypeOK, InFrame
<1>6. ASSUME NEW t \in Threads, NEW d \in 1..MaxDepth, NEW a \in Actors, NEW s \in Slots,
             NEW m \in Modes, Enter(t, d, a, s, m)
      PROVE  /\ \A g \in Frames : HeldAt(g)
             /\ \A b \in Actors : refs'[b] # {} => phase'[b] = "live"
  <2>1. Opens(t, d, a, s, m)
    BY <1>6, EnterOpens
  <2>2. <<t, s>> \in refs[a] /\ refs' = refs /\ phase' = phase
    BY <1>6 DEF Enter, Disciplined
  <2>3. HeldAt(<<t, d>>)
    BY <2>1, <2>2 DEF Opens
  <2>4. \A g \in Frames : g # <<t, d>> => HeldAt(g)
    BY <1>0, <2>1, <2>2 DEF Opens, InFrame
  <2> QED
    BY <1>0, <2>2, <2>3, <2>4
<1>7. ASSUME NEW f \in Frames, EnterFail(f) \/ Leave(f)
      PROVE  /\ \A g \in Frames : HeldAt(g)
             /\ \A b \in Actors : refs'[b] # {} => phase'[b] = "live"
  <2>1. Closes(f)
    BY <1>7, LeaversClose
  <2>2. refs' = refs /\ phase' = phase
    BY <1>7 DEF EnterFail, Leave
  <2> QED
    BY <1>0, <2>1, <2>2 DEF Closes, InFrame
<1>8. ASSUME NEW f \in Frames,
             AcquireLock(f) \/ AcquireIgnored(f) \/ LoadDraft(f) \/ StoreDraft(f) \/ Unlock(f)
      PROVE  /\ \A g \in Frames : HeldAt(g)
             /\ \A b \in Actors : refs'[b] # {} => phase'[b] = "live"
  <2>1. Stays
    BY <1>8, BodyStays
  <2>2. refs' = refs /\ phase' = phase
    BY <1>8, BodyKeeps
  <2> QED
    BY <1>0, <2>1, <2>2 DEF Stays
<1>9. ASSUME UNCHANGED <<frame, refs, phase>>
      PROVE  /\ \A g \in Frames : HeldAt(g)
             /\ \A b \in Actors : refs'[b] # {} => phase'[b] = "live"
  BY <1>0, <1>9 DEF InFrame
<1>10. ASSUME \/ UNCHANGED vars
              \/ \E t \in Threads : CheckRefcount(t) \/ CheckActive(t) \/ Uncount(t)
       PROVE  UNCHANGED <<frame, refs, phase>>
  BY <1>10 DEF vars, CheckRefcount, CheckActive, Uncount, object
<1> QED
  BY <1>1, <1>2, <1>3, <1>4, <1>5, <1>6, <1>7, <1>8, <1>9, <1>10 DEF StepCases

-----------------------------------------------------------------------------
(* refcount is zero exactly when no handle value is left, and one exactly  *)
(* when a single one is.                                                   *)
LEMMA RefcountMeans ==
  ASSUME TypeOK, Counts, NEW a \in Actors
  PROVE  /\ refcount[a] = 0 <=> refs[a] = {}
         /\ \A h : h \in refs[a] => (refcount[a] = 1 <=> refs[a] \ {h} = {})
<1>1. IsFiniteSet(refs[a]) /\ refcount[a] = Cardinality(refs[a])
  BY Finite DEF Counts
<1>2. refcount[a] = 0 <=> refs[a] = {}
  BY <1>1, FS_EmptySet
<1>3. ASSUME NEW h, h \in refs[a]
      PROVE  refcount[a] = 1 <=> refs[a] \ {h} = {}
  <2>1. IsFiniteSet(refs[a] \ {h}) /\ Cardinality(refs[a] \ {h}) = refcount[a] - 1
    BY <1>1, <1>3, FS_RemoveElement
  <2>2. Cardinality(refs[a] \ {h}) = 0 <=> refs[a] \ {h} = {}
    BY <2>1, FS_EmptySet
  <2>3. refcount[a] \in Nat
    BY DEF TypeOK
  <2> QED
    BY <2>1, <2>2, <2>3
<1> QED
  BY <1>2, <1>3

(* Without handles there are no calls in progress. *)
LEMMA NoHandleNoCall ==
  ASSUME TypeOK, Counts, Held, NEW a \in Actors, refs[a] = {}
  PROVE  active[a] = 0
<1>1. FramesOn(a) = {}
  BY DEF FramesOn, Held
<1> QED
  BY <1>1, FS_EmptySet DEF Counts

(* What the invariant says of an actor is kept by steps that do not touch  *)
(* its handles, its object and the threads in try_destroy_actor_ on it.    *)
LEMMA ReaperUntouched ==
  ASSUME NEW b \in Actors, ReaperAt(b), refs'[b] = refs[b], phase'[b] = phase[b],
         \A u \in Threads : Reaping(u, b)' <=> Reaping(u, b),
         \A u \in Threads : Reaping(u, b) => reap'[u].pc = reap[u].pc
  PROVE  ReaperAt(b)'
BY DEF ReaperAt

(* A thread in try_destroy_actor_ has a handle, or is alone with an object *)
(* that has none; and an object without handles has such a thread.         *)
LEMMA ReaperStep ==
  ASSUME TypeOK, Counts, Held, Reaper, Disciplined, StepCases
  PROVE  Reaper'
<1> SUFFICES \A b \in Actors : ReaperAt(b)'
  BY DEF Reaper
<1>0. \A b \in Actors : ReaperAt(b)
  BY DEF Reaper
<1>a. \A t \in Threads : reap[t].pc # "no" => reap[t].actor \in Actors
  BY DEF TypeOK
<1>b. ASSUME NEW t \in Threads, NEW b \in Actors, Reaping(t, b)
      PROVE  phase[b] = "live"
  <2>1. \/ \E s \in Slots : <<t, s>> \in refs[b]
        \/ phase[b] = "live"
    BY <1>0, <1>b DEF ReaperAt
  <2> QED
    BY <2>1 DEF Held
<1>c. ASSUME reap' = reap, NEW b \in Actors, refs'[b] = refs[b], phase'[b] = phase[b]
      PROVE  ReaperAt(b)'
  BY <1>0, <1>c, ReaperUntouched DEF Reaping
(* A thread that is not in try_destroy_actor_ gives another handle away:   *)
(* the threads that are there keep theirs.                                 *)
<1>d. ASSUME NEW t \in Threads, NEW a \in Actors, NEW h \in refs[a],
             reap[t].pc = "no", h[1] = t
      PROVE  \A v \in Threads : Reaping(v, a) =>
               v # t /\ reap[v].pc = "refcount" /\ \E q \in Slots : <<v, q>> \in refs[a]
  BY <1>0, <1>d DEF ReaperAt, Reaping
<1>1. ASSUME NEW t \in Threads, NEW d \in 1..MaxDepth, NEW a \in Actors, NEW s \in Slots,
             Construct(t, d, a, s)
      PROVE  \A b \in Actors : ReaperAt(b)'
  <2>1. \A u \in Threads : ~Reaping(u, a)
    BY <1>1, <1>b DEF Construct
  <2>2. refs'[a] # {} /\ reap' = reap
    BY <1>1 DEF Construct, TypeOK
  <2>3. ReaperAt(a)'
    BY <2>1, <2>2 DEF ReaperAt, Reaping
  <2>4. \A b \in Actors : b # a => refs'[b] = refs[b] /\ phase'[b] = phase[b]
    BY <1>1 DEF Construct, TypeOK
  <2> QED
    BY <1>c, <2>2, <2>3, <2>4
<1>2. ASSUME NEW t \in Threads, NEW a \in Actors, NEW s \in Slots, NEW r \in Slots,
             Clone(t, a, s, r)
      PROVE  \A b \in Actors : ReaperAt(b)'
  <2>1. /\ refs'[a] = refs[a] \union {<<t, r>>} /\ refs[a] # {} /\ reap' = reap /\ phase' = phase
        /\ \A b \in Actors : b # a => refs'[b] = refs[b]
    BY <1>2 DEF Clone, TypeOK
  <2>2. \A v \in Threads : Reaping(v, a) =>
          reap[v].pc = "refcount" /\ \E q \in Slots : <<v, q>> \in refs[a]
    BY <1>0, <2>1 DEF ReaperAt
  <2>3. ReaperAt(a)'
    BY <2>1, <2>2 DEF ReaperAt, Reaping
  <2> QED
    BY <1>c, <2>1, <2>3
<1>3. ASSUME NEW t \in Threads, NEW u \in Threads, NEW a \in Actors, NEW s \in Slots,
             NEW r \in Slots, Move(t, a, s, u, r)
      PROVE  \A b \in Actors : ReaperAt(b)'
  <2>1. /\ reap[t].pc = "no" /\ <<t, s>> \in refs[a] /\ reap' = reap /\ phase' = phase
        /\ refs'[a] = (refs[a] \ {<<t, s>>}) \union {<<u, r>>}
        /\ \A b \in Actors : b # a => refs'[b] = refs[b]
    BY <1>3 DEF Move, InProgram, Running, TypeOK, object
  <2>2. \A v \in Threads : Reaping(v, a) =>
          v # t /\ reap[v].pc = "refcount" /\ \E q \in Slots : <<v, q>> \in refs[a]
    BY <1>d, <2>1
  <2>3. \A v \in Threads : Reaping(v, a) =>
          reap[v].pc = "refcount" /\ \E q \in Slots : <<v, q>> \in refs'[a]
    BY <2>1, <2>2
  <2>4. ReaperAt(a)'
    BY <2>1, <2>3 DEF ReaperAt, Reaping
  <2> QED
    BY <1>c, <2>1, <2>4
<1>4. ASSUME NEW t \in Threads, NEW a \in Actors, NEW s \in Slots, Release(t, a, s)
      PROVE  \A b \in Actors : ReaperAt(b)'
  <2>1. /\ reap[t].pc = "no" /\ <<t, s>> \in refs[a] /\ phase[a] = "live" /\ phase' = phase
        /\ refs'[a] = refs[a] \ {<<t, s>>} /\ \A b \in Actors : b # a => refs'[b] = refs[b]
    BY <1>4 DEF Release, InProgram, Running, TypeOK, Held
  <2>2. \A v \in Threads : Reaping(v, a) =>
          v # t /\ reap[v].pc = "refcount" /\ \E q \in Slots : <<v, q>> \in refs[a]
    BY <1>d, <2>1
  <2>3. \A v \in Threads : Reaping(v, a) =>
          reap[v].pc = "refcount" /\ \E q \in Slots : <<v, q>> \in refs'[a]
    BY <2>1, <2>2
  <2>5. CASE refcount[a] = 1
    <3>1. refs'[a] = {}
      BY <2>1, <2>5, RefcountMeans
    <3>2. \A v \in Threads : ~Reaping(v, a)
      BY <2>3, <3>1
    <3>3. reap' = [reap EXCEPT ![t] = [pc |-> "refcount", actor |-> a]]
      BY <1>4, <2>5 DEF Release
    <3>4. /\ reap'[t].pc = "refcount" /\ reap'[t].actor = a
          /\ \A v \in Threads : v # t => reap'[v] = reap[v]
      BY <3>3 DEF TypeOK
    <3>5. ReaperAt(a)'
      BY <2>1, <3>1, <3>2, <3>4 DEF ReaperAt, Reaping
    <3>6. ASSUME NEW b \in Actors, b # a
          PROVE  ReaperAt(b)'
      <4>1. \A v \in Threads : /\ Reaping(v, b)' <=> Reaping(v, b)
                               /\ Reaping(v, b) => reap'[v].pc = reap[v].pc
        BY <2>1, <3>4, <3>6 DEF Reaping
      <4> QED
        BY <1>0, <2>1, <3>6, <4>1, ReaperUntouched
    <3> QED
      BY <3>5, <3>6
  <2>6. CASE refcount[a] # 1
    <3>1. refs'[a] # {}
      BY <2>1, <2>6, RefcountMeans
    <3>2. reap' = reap
      BY <1>4, <2>6 DEF Release
    <3>3. ReaperAt(a)'
      BY <2>1, <2>3, <3>1, <3>2 DEF ReaperAt, Reaping
    <3> QED
      BY <1>c, <2>1, <3>2, <3>3
  <2> QED
    BY <2>5, <2>6
(* A step of try_destroy_actor_ by t on a concerns a only. *)
<1>e. ASSUME NEW t \in Threads, NEW b \in Actors, reap[t].actor # b, reap[t].pc # "no",
             refs' = refs, phase'[b] = phase[b],
             \A u \in Threads : u # t => reap'[u] = reap[u],
             reap'[t].pc = "no" \/ reap'[t].actor = reap[t].actor
      PROVE  ReaperAt(b)'
  <2>1. \A v \in Threads : /\ Reaping(v, b)' <=> Reaping(v, b)
                           /\ Reaping(v, b) => reap'[v].pc = reap[v].pc
    BY <1>e DEF Reaping
  <2> QED
    BY <1>0, <1>e, <2>1, ReaperUntouched
<1>5. ASSUME NEW t \in Threads, CheckRefcount(t)
      PROVE  \A b \in Actors : ReaperAt(b)'
  <2>0. PICK a \in Actors : reap[t].actor = a
    BY <1>5, <1>a DEF CheckRefcount
  <2>1. Reaping(t, a) /\ refs' = refs /\ phase' = phase /\ reap[t].pc # "no"
    BY <1>5, <2>0 DEF CheckRefcount, object, Reaping
  <2>2. \A u \in Threads : u # t => reap'[u] = reap[u]
    BY <1>5 DEF CheckRefcount, StopReap, ReapAt, TypeOK
  <2>3. CASE refcount[a] # 0
    <3>1. refs[a] # {}
      BY <2>3, RefcountMeans
    <3>2. reap'[t].pc = "no"
      BY <1>5, <2>0, <2>3 DEF CheckRefcount, StopReap, TypeOK
    <3>3. \A v \in Threads : Reaping(v, a)' =>
            /\ Reaping(v, a) /\ reap'[v].pc = reap[v].pc
      BY <2>2, <3>2 DEF Reaping
    <3>4. \A v \in Threads : Reaping(v, a) =>
            reap[v].pc = "refcount" /\ \E s \in Slots : <<v, s>> \in refs[a]
      BY <1>0, <3>1 DEF ReaperAt
    <3>5. ReaperAt(a)'
      BY <2>1, <3>1, <3>3, <3>4 DEF ReaperAt
    <3> QED
      BY <1>e, <2>0, <2>1, <2>2, <3>2, <3>5
  <2>4. CASE refcount[a] = 0
    <3>1. refs[a] = {}
      BY <2>4, RefcountMeans
    <3>2. reap'[t].pc = "active" /\ reap'[t].actor = reap[t].actor
      BY <1>5, <2>0, <2>4 DEF CheckRefcount, ReapAt, TypeOK
    <3>3. \A u \in Threads : Reaping(u, a)' <=> Reaping(u, a)
      BY <2>0, <2>1, <2>2, <3>2 DEF Reaping
    <3>4. phase[a] = "live"
      BY <1>b, <2>1
    <3>5. ReaperAt(a)'
      BY <1>0, <2>1, <3>1, <3>3, <3>4 DEF ReaperAt
    <3> QED
      BY <1>e, <2>0, <2>1, <2>2, <3>2, <3>5
  <2> QED
    BY <2>3, <2>4
<1>6. ASSUME NEW t \in Threads, CheckActive(t)
      PROVE  \A b \in Actors : ReaperAt(b)'
  <2>0. PICK a \in Actors : reap[t].actor = a
    BY <1>6, <1>a DEF CheckActive
  <2>1. Reaping(t, a) /\ refs' = refs /\ phase' = phase /\ reap[t].pc = "active"
    BY <1>6, <2>0 DEF CheckActive, object, Reaping
  <2>2. refs[a] = {} /\ phase[a] = "live"
    BY <1>0, <2>1 DEF ReaperAt
  <2>3. active[a] = 0
    BY <2>2, NoHandleNoCall
  <2>4. reap'[t].pc = "destroy" /\ reap'[t].actor = reap[t].actor
    BY <1>6, <2>0, <2>3 DEF CheckActive, ReapAt, TypeOK
  <2>5. \A u \in Threads : u # t => reap'[u] = reap[u]
    BY <1>6 DEF CheckActive, StopReap, ReapAt, TypeOK
  <2>6. \A u \in Threads : Reaping(u, a)' <=> Reaping(u, a)
    BY <2>0, <2>1, <2>4, <2>5 DEF Reaping
  <2>7. ReaperAt(a)'
    BY <1>0, <2>1, <2>2, <2>6 DEF ReaperAt
  <2> QED
    BY <1>e, <2>0, <2>1, <2>4, <2>5, <2>7
<1>7. ASSUME NEW t \in Threads, Destroy(t)
      PROVE  \A b \in Actors : ReaperAt(b)'
  <2>0. PICK a \in Actors : reap[t].actor = a
    BY <1>7, <1>a DEF Destroy
  <2>1. Reaping(t, a) /\ refs' = refs /\ reap[t].pc = "destroy"
    BY <1>7, <2>0 DEF Destroy, Reaping
  <2>2. \A u \in Threads : Reaping(u, a) => u = t
    BY <1>0, <2>1 DEF ReaperAt
  <2>3. /\ reap'[t].pc = "uncount" /\ reap'[t].actor = reap[t].actor
        /\ \A u \in Threads : u # t => reap'[u] = reap[u]
    BY <1>7 DEF Destroy, ReapAt, TypeOK
  <2>4. phase'[a] = "freed" /\ \A b \in Actors : b # a => phase'[b] = phase[b]
    BY <1>7, <2>0 DEF Destroy, TypeOK
  <2>5. \A u \in Threads : ~Reaping(u, a)'
    BY <2>2, <2>3 DEF Reaping
  <2>6. ReaperAt(a)'
    BY <2>4, <2>5 DEF ReaperAt
  <2> QED
    BY <1>e, <2>0, <2>1, <2>3, <2>4, <2>6
<1>8. ASSUME NEW t \in Threads, Uncount(t)
      PROVE  \A b \in Actors : ReaperAt(b)'
  <2>1. /\ reap'[t].pc = "no" /\ reap[t].pc = "uncount"
        /\ \A u \in Threads : u # t => reap'[u] = reap[u]
    BY <1>8 DEF Uncount, StopReap, TypeOK
  <2>2. refs' = refs /\ phase' = phase
    BY <1>8 DEF Uncount, object
  <2>3. \A b \in Actors, v \in Threads : /\ Reaping(v, b)' <=> Reaping(v, b)
                                         /\ Reaping(v, b) => reap'[v].pc = reap[v].pc
    BY <2>1 DEF Reaping
  <2> QED
    BY <1>0, <2>2, <2>3, ReaperUntouched
<1>9. ASSUME NEW f \in Frames, Leave(f)
      PROVE  \A b \in Actors : ReaperAt(b)'
  <2>0. PICK a \in Actors, t \in Threads : frame[f].actor = a /\ f[1] = t
    BY <1>9, FramePair DEF Leave, IsTop, TypeOK
  <2>1. reap[t].pc = "no" /\ refs' = refs /\ phase' = phase
    BY <1>9, <2>0 DEF Leave, Running
  <2>2. \E q \in Slots : <<t, q>> \in refs[a]
    BY <1>9, <2>0 DEF Leave, IsTop, Held, TypeOK
  <2>3. CASE reap' = reap
    BY <1>c, <2>1, <2>3
  <2>4. CASE reap' = [reap EXCEPT ![t] = [pc |-> "refcount", actor |-> a]]
    <3>1. /\ reap'[t].pc = "refcount" /\ reap'[t].actor = a
          /\ \A u \in Threads : u # t => reap'[u] = reap[u]
      BY <2>4 DEF TypeOK
    <3>2. ReaperAt(a)'
      BY <1>0, <2>1, <2>2, <3>1 DEF ReaperAt, Reaping
    <3>3. ASSUME NEW b \in Actors, b # a
          PROVE  ReaperAt(b)'
      <4>1. \A v \in Threads : /\ Reaping(v, b)' <=> Reaping(v, b)
                               /\ Reaping(v, b) => reap'[v].pc = reap[v].pc
        BY <2>1, <3>1, <3>3 DEF Reaping
      <4> QED
        BY <1>0, <2>1, <4>1, ReaperUntouched
    <3> QED
      BY <3>2, <3>3
  <2> QED
    BY <1>9, <2>0, <2>3, <2>4 DEF Leave
<1>10. ASSUME UNCHANGED <<reap, refs, phase>>
       PROVE  \A b \in Actors : ReaperAt(b)'
  BY <1>10, <1>c
<1>11. ASSUME NEW f \in Frames,
              \/ EnterFail(f) \/ AcquireLock(f) \/ AcquireIgnored(f) \/ LoadDraft(f)
              \/ StoreDraft(f) \/ Unlock(f)
       PROVE  UNCHANGED <<reap, refs, phase>>
  BY <1>11, BodyKeeps DEF EnterFail
<1>12. ASSUME NEW t \in Threads, NEW d \in 1..MaxDepth, NEW a \in Actors, NEW s \in Slots,
             NEW m \in Modes, Enter(t, d, a, s, m)
       PROVE  UNCHANGED <<reap, refs, phase>>
  BY <1>12 DEF Enter
<1>13. UNCHANGED vars => UNCHANGED <<reap, refs, phase>>
  BY DEF vars
<1> QED
  BY <1>1, <1>2, <1>3, <1>4, <1>5, <1>6, <1>7, <1>8, <1>9, <1>10, <1>11, <1>12, <1>13
  DEF StepCases

-----------------------------------------------------------------------------
(* A new call is opened on top of the calls of its thread, along the call  *)
(* graph.                                                                  *)
LEMMA NestedOpened ==
  ASSUME TypeOK, Nested, Disciplined, NEW t \in Threads, NEW d \in 1..MaxDepth,
         NEW a \in Actors, NEW s, NEW m, CanCall(t, d, a), Opens(t, d, a, s, m)
  PROVE  Nested'
<1> SUFFICES ASSUME NEW u \in Threads, NEW i \in 1..MaxDepth, NEW j \in 1..MaxDepth,
                    i < j, InFrame(<<u, j>>)'
             PROVE  InFrame(<<u, i>>)' /\ <<frame[<<u, i>>].actor, frame[<<u, j>>].actor>>' \in Calls
  BY DEF Nested
<1>0. <<u, i>> \in Frames /\ <<u, j>> \in Frames /\ <<t, d>> \in Frames
  BY DEF Frames
<1>1. CASE <<u, j>> = <<t, d>>
  <2>1. u = t /\ j = d /\ d > 1 /\ d - 1 \in 1..MaxDepth
    BY <1>1, ConstantsAssumption
  <2>2. <<t, d - 1>> \in Frames
    BY <2>1 DEF Frames
  <2>3. /\ InFrame(<<t, d - 1>>) /\ <<frame[<<t, d - 1>>].actor, a>> \in Calls
        /\ frame[<<t, d - 1>>].actor \in Actors
    BY <2>1, <2>2 DEF CanCall, InFrame, TypeOK
  <2>4. InFrame(<<t, i>>) /\ <<frame[<<t, i>>].actor, a>> \in Calls
    <3>1. CASE i = d - 1
      BY <2>3, <3>1
    <3>2. CASE i # d - 1
      <4>1. i < d - 1
        BY <2>1, <3>2, ConstantsAssumption
      <4>2. /\ InFrame(<<t, i>>)
            /\ <<frame[<<t, i>>].actor, frame[<<t, d - 1>>].actor>> \in Calls
        BY <2>1, <2>3, <4>1 DEF Nested
      <4>3. frame[<<t, i>>].actor \in Actors
        BY <1>0, <2>1, <4>2 DEF TypeOK
      <4> QED
        BY <2>3, <4>2, <4>3 DEF Disciplined
    <3> QED
      BY <3>1, <3>2
  <2>5. <<u, i>> # <<t, d>>
    BY <2>1
  <2>6. frame'[<<u, i>>] = frame[<<u, i>>] /\ frame'[<<u, j>>].actor = a
    BY <1>0, <1>1, <2>5 DEF Opens
  <2> QED
    BY <2>1, <2>4, <2>6 DEF InFrame
<1>2. CASE <<u, j>> # <<t, d>>
  <2>1. frame'[<<u, j>>] = frame[<<u, j>>]
    BY <1>0, <1>2 DEF Opens
  <2>2. InFrame(<<u, j>>)
    BY <2>1 DEF InFrame
  <2>3. InFrame(<<u, i>>) /\ <<frame[<<u, i>>].actor, frame[<<u, j>>].actor>> \in Calls
    BY <2>2 DEF Nested
  <2>4. <<u, i>> # <<t, d>>
    BY <2>3 DEF Opens
  <2>5. frame'[<<u, i>>] = frame[<<u, i>>]
    BY <1>0, <2>4 DEF Opens
  <2> QED
    BY <2>1, <2>3, <2>5 DEF InFrame
<1> QED
  BY <1>1, <1>2

(* Calls stay nested. *)
LEMMA NestedStep ==
  ASSUME TypeOK, Nested, Disciplined, StepCases
  PROVE  Nested'
<1>1. ASSUME NEW t \in Threads, NEW d \in 1..MaxDepth, NEW a \in Actors, NEW s \in Slots,
             Construct(t, d, a, s)
      PROVE  Nested'
  <2>1. CanCall(t, d, a)
    BY <1>1 DEF Construct
  <2> QED
    BY <1>1, <2>1, ConstructOpens, NestedOpened
<1>2. ASSUME NEW t \in Threads, NEW d \in 1..MaxDepth, NEW a \in Actors, NEW s \in Slots,
             NEW m \in Modes, Enter(t, d, a, s, m)
      PROVE  Nested'
  <2>1. CanCall(t, d, a)
    BY <1>2 DEF Enter
  <2> QED
    BY <1>2, <2>1, EnterOpens, NestedOpened
<1>3. ASSUME NEW f \in Frames, EnterFail(f) \/ Leave(f)
      PROVE  Nested'
  <2>1. Closes(f)
    BY <1>3, LeaversClose
  <2> SUFFICES ASSUME NEW u \in Threads, NEW i \in 1..MaxDepth, NEW j \in 1..MaxDepth,
                      i < j, InFrame(<<u, j>>)'
               PROVE  InFrame(<<u, i>>)' /\ <<frame[<<u, i>>].actor, frame[<<u, j>>].actor>>' \in Calls
    BY DEF Nested
  <2>2. <<u, i>> \in Frames /\ <<u, j>> \in Frames
    BY DEF Frames
  <2>3. <<u, j>> # f /\ frame'[<<u, j>>] = frame[<<u, j>>] /\ InFrame(<<u, j>>)
    BY <2>1, <2>2 DEF Closes, InFrame
  <2>4. <<u, i>> # f
    BY <2>1, <2>3 DEF Closes, IsTop
  <2>5. frame'[<<u, i>>] = frame[<<u, i>>]
    BY <2>1, <2>2, <2>4 DEF Closes
  <2> QED
    BY <2>3, <2>5 DEF Nested, InFrame
<1>4. ASSUME NEW f \in Frames,
             AcquireLock(f) \/ AcquireIgnored(f) \/ LoadDraft(f) \/ StoreDraft(f) \/ Unlock(f)
      PROVE  Nested'
  <2>1. Stays
    BY <1>4, BodyStays
  <2>2. \A t \in Threads, d \in 1..MaxDepth : <<t, d>> \in Frames
    BY DEF Frames
  <2> QED
    BY <2>1, <2>2 DEF Stays, Nested, InFrame
<1>5. CASE UNCHANGED frame
  BY <1>5 DEF Nested, InFrame
<1>6. UNCHANGED vars => UNCHANGED frame
  BY DEF vars
<1> QED
  BY <1>1, <1>2, <1>3, <1>4, <1>5, <1>6, OthersKeep DEF StepCases

-----------------------------------------------------------------------------
(* A call whose thread already owns the lock for writing would be a call   *)
(* back into an actor the thread is inside of: the call graph excludes it. *)
LEMMA NeverIgnored ==
  ASSUME TypeOK, Nested, LockOwners, Disciplined, NEW f \in Frames
  PROVE  ~AcquireIgnored(f)
<1> SUFFICES ASSUME AcquireIgnored(f) PROVE FALSE
  OBVIOUS
<1>1. PICK a \in Actors : frame[f].actor = a
  BY DEF AcquireIgnored, IsTop, TypeOK
<1>2. PICK g \in writer[a] : g[1] = f[1]
  BY <1>1 DEF AcquireIgnored, OwnsWrite
<1>3. g \in Frames
  BY <1>2 DEF TypeOK
<1>4. InBody(g) /\ frame[g].actor = a
  BY <1>2, <1>3 DEF LockOwners
<1>5. InFrame(g) /\ InFrame(f) /\ g # f /\ IsTop(f)
  BY <1>4 DEF InBody, InFrame, AcquireIgnored, IsTop
<1>6. /\ f = <<f[1], f[2]>> /\ g = <<f[1], g[2]>> /\ f[1] \in Threads
      /\ f[2] \in 1..MaxDepth /\ g[2] \in 1..MaxDepth
  BY <1>2, <1>3, FramePair
<1>7. g[2] < f[2]
  <2>1. ~(g[2] > f[2])
    BY <1>5, <1>6 DEF IsTop
  <2>2. g[2] # f[2]
    BY <1>5, <1>6
  <2> QED
    BY <1>6, <2>1, <2>2, ConstantsAssumption
<1>8. <<frame[g].actor, frame[f].actor>> \in Calls
  <2>1. InFrame(<<f[1], f[2]>>)
    BY <1>5, <1>6
  <2>2. <<frame[<<f[1], g[2]>>].actor, frame[<<f[1], f[2]>>].actor>> \in Calls
    BY <1>6, <1>7, <2>1 DEF Nested
  <2> QED
    BY <1>6, <2>2
<1> QED
  BY <1>1, <1>4, <1>8 DEF Disciplined

(* Steps that neither begin nor end a body leave the lock's owners right. *)
LEMMA LockKept ==
  ASSUME LockOwners, LockExclusive, UNCHANGED lock,
         \A g \in Frames : InBody(g)' <=> InBody(g),
         \A g \in Frames : InBody(g) => /\ frame'[g].actor = frame[g].actor
                                        /\ frame'[g].mode = frame[g].mode
  PROVE  LockOwners' /\ LockExclusive'
<1>1. LockExclusive'
  BY DEF LockExclusive, lock
<1>2. LockOwners'
  <2> SUFFICES ASSUME NEW f \in Frames, NEW a \in Actors
               PROVE  /\ f \in writer'[a] <=> InBody(f)' /\ frame'[f].actor = a /\ ~Shared(frame'[f].mode)
                      /\ f \in readers'[a] <=> InBody(f)' /\ frame'[f].actor = a /\ Shared(frame'[f].mode)
    BY DEF LockOwners, Shared
  <2>1. CASE InBody(f)
    BY <2>1 DEF LockOwners, lock
  <2>2. CASE ~InBody(f)
    BY <2>2 DEF LockOwners, lock
  <2> QED
    BY <2>1, <2>2
<1> QED
  BY <1>1, <1>2

(* enter takes the lock when nobody who excludes the new owner has it. *)
LEMMA LockAcquired ==
  ASSUME TypeOK, LockOwners, LockExclusive, NEW f \in Frames, AcquireLock(f)
  PROVE  LockOwners' /\ LockExclusive'
<1>1. PICK a \in Actors : frame[f].actor = a
  BY DEF AcquireLock, IsTop, TypeOK
<1>2. /\ \A g \in Frames : frame'[g].actor = frame[g].actor /\ frame'[g].mode = frame[g].mode
      /\ \A g \in Frames : g # f => frame'[g].pc = frame[g].pc
      /\ frame'[f].pc = "body"
  <2>1. SetPc(f, "body") /\ InFrame(f) /\ "body" \in FramePc \ {"idle"}
    BY DEF AcquireLock, IsTop, FramePc
  <2> QED
    BY <2>1, SetPcEffect
<1>3. /\ ~InBody(f) /\ InBody(f)'
      /\ \A g \in Frames : g # f => (InBody(g)' <=> InBody(g))
  BY <1>2 DEF AcquireLock, InBody
<1>4. f \notin writer[a] /\ f \notin readers[a]
  BY <1>3 DEF LockOwners
<1>5. writer[a] = {} /\ (Shared(frame[f].mode) \/ readers[a] = {})
  BY <1>1 DEF AcquireLock, LockFree
<1>6. CASE Shared(frame[f].mode)
  <2>1. /\ writer' = writer /\ readers'[a] = readers[a] \union {f}
        /\ \A b \in Actors : b # a => readers'[b] = readers[b]
    BY <1>1, <1>6 DEF AcquireLock, TypeOK
  <2>2. LockExclusive'
    BY <1>5, <2>1 DEF LockExclusive
  <2>3. LockOwners'
    <3> SUFFICES ASSUME NEW g \in Frames, NEW b \in Actors
                 PROVE  /\ g \in writer'[b] <=> InBody(g)' /\ frame'[g].actor = b /\ ~Shared(frame'[g].mode)
                        /\ g \in readers'[b] <=> InBody(g)' /\ frame'[g].actor = b /\ Shared(frame'[g].mode)
      BY DEF LockOwners, Shared
    <3>1. /\ g \in writer[b] <=> InBody(g) /\ frame[g].actor = b /\ ~Shared(frame[g].mode)
          /\ g \in readers[b] <=> InBody(g) /\ frame[g].actor = b /\ Shared(frame[g].mode)
      BY DEF LockOwners
    <3>2. CASE g = f
      BY <1>1, <1>2, <1>3, <1>6, <2>1, <3>1, <3>2
    <3>3. CASE g # f
      BY <1>2, <1>3, <2>1, <3>1, <3>3
    <3> QED
      BY <3>2, <3>3
  <2> QED
    BY <2>2, <2>3
<1>7. CASE ~Shared(frame[f].mode)
  <2>1. /\ readers' = readers /\ writer'[a] = {f}
        /\ \A b \in Actors : b # a => writer'[b] = writer[b]
    BY <1>1, <1>7 DEF AcquireLock, TypeOK
  <2>2. LockExclusive'
    BY <1>5, <1>7, <2>1 DEF LockExclusive
  <2>3. LockOwners'
    <3> SUFFICES ASSUME NEW g \in Frames, NEW b \in Actors
                 PROVE  /\ g \in writer'[b] <=> InBody(g)' /\ frame'[g].actor = b /\ ~Shared(frame'[g].mode)
                        /\ g \in readers'[b] <=> InBody(g)' /\ frame'[g].actor = b /\ Shared(frame'[g].mode)
      BY DEF LockOwners, Shared
    <3>1. /\ g \in writer[b] <=> InBody(g) /\ frame[g].actor = b /\ ~Shared(frame[g].mode)
          /\ g \in readers[b] <=> InBody(g) /\ frame[g].actor = b /\ Shared(frame[g].mode)
      BY DEF LockOwners
    <3>2. CASE g = f
      BY <1>1, <1>2, <1>3, <1>7, <2>1, <3>1, <3>2
    <3>3. CASE g # f
      BY <1>2, <1>3, <1>5, <2>1, <3>1, <3>3
    <3> QED
      BY <3>2, <3>3
  <2> QED
    BY <2>2, <2>3
<1> QED
  BY <1>6, <1>7

(* leave gives up the lock of its own call and no other. *)
LEMMA LockReleased ==
  ASSUME TypeOK, LockOwners, LockExclusive, NEW f \in Frames, Unlock(f)
  PROVE  LockOwners' /\ LockExclusive'
<1>1. PICK a \in Actors : frame[f].actor = a
  BY DEF Unlock, IsTop, TypeOK
<1>2. /\ \A g \in Frames : frame'[g].actor = frame[g].actor /\ frame'[g].mode = frame[g].mode
      /\ \A g \in Frames : g # f => frame'[g].pc = frame[g].pc
      /\ frame'[f].pc = "unlocked"
  <2>1. SetPc(f, "unlocked") /\ InFrame(f) /\ "unlocked" \in FramePc \ {"idle"}
    BY DEF Unlock, IsTop, FramePc
  <2> QED
    BY <2>1, SetPcEffect
<1>3. /\ InBody(f) /\ ~InBody(f)'
      /\ \A g \in Frames : g # f => (InBody(g)' <=> InBody(g))
  BY <1>2 DEF Unlock, InBody
<1>4. /\ writer'[a] = writer[a] \ {f} /\ readers'[a] = readers[a] \ {f}
      /\ \A b \in Actors : b # a => writer'[b] = writer[b] /\ readers'[b] = readers[b]
  <2>1. CASE Shared(frame[f].mode)
    <3>1. f \in readers[a] /\ writer[a] = {}
      BY <1>1, <1>3, <2>1 DEF LockOwners, LockExclusive
    <3>2. ~OwnsWrite(f, a)
      BY <3>1 DEF OwnsWrite
    <3>3. readers' = [readers EXCEPT ![a] = @ \ {f}] /\ writer' = writer
      BY <1>1, <3>1, <3>2 DEF Unlock
    <3> QED
      BY <3>1, <3>3 DEF TypeOK
  <2>2. CASE ~Shared(frame[f].mode)
    <3>1. f \in writer[a]
      BY <1>1, <1>3, <2>2 DEF LockOwners
    <3>2. writer[a] = {f} /\ readers[a] = {}
      BY <3>1 DEF LockExclusive
    <3>3. writer' = [writer EXCEPT ![a] = {}] /\ readers' = readers
      BY <1>1, <3>1 DEF Unlock, OwnsWrite
    <3> QED
      BY <3>2, <3>3 DEF TypeOK
  <2> QED
    BY <2>1, <2>2
<1>5. LockExclusive'
  BY <1>4 DEF LockExclusive
<1>6. LockOwners'
  <2> SUFFICES ASSUME NEW g \in Frames, NEW b \in Actors
               PROVE  /\ g \in writer'[b] <=> InBody(g)' /\ frame'[g].actor = b /\ ~Shared(frame'[g].mode)
                      /\ g \in readers'[b] <=> InBody(g)' /\ frame'[g].actor = b /\ Shared(frame'[g].mode)
    BY DEF LockOwners, Shared
  <2>1. /\ g \in writer[b] <=> InBody(g) /\ frame[g].actor = b /\ ~Shared(frame[g].mode)
        /\ g \in readers[b] <=> InBody(g) /\ frame[g].actor = b /\ Shared(frame[g].mode)
    BY DEF LockOwners
  <2>2. CASE g = f
    BY <1>1, <1>3, <1>4, <2>1, <2>2
  <2>3. CASE g # f
    BY <1>2, <1>3, <1>4, <2>1, <2>3
  <2> QED
    BY <2>2, <2>3
<1> QED
  BY <1>5, <1>6

(* The lock's owners are the calls in their bodies, one writer or readers. *)
LEMMA LockStep ==
  ASSUME TypeOK, Nested, LockOwners, LockExclusive, Disciplined, StepCases
  PROVE  LockOwners' /\ LockExclusive'
<1>1. ASSUME NEW t \in Threads, NEW d \in 1..MaxDepth, NEW a \in Actors, NEW s, NEW m,
             Opens(t, d, a, s, m), UNCHANGED lock
      PROVE  LockOwners' /\ LockExclusive'
  <2>1. /\ \A g \in Frames : InBody(g)' <=> InBody(g)
        /\ \A g \in Frames : InBody(g) => frame'[g].actor = frame[g].actor /\ frame'[g].mode = frame[g].mode
    BY <1>1 DEF Opens, InBody, InFrame
  <2> QED
    BY <1>1, <2>1, LockKept
<1>2. ASSUME NEW t \in Threads, NEW d \in 1..MaxDepth, NEW a \in Actors, NEW s \in Slots,
             Construct(t, d, a, s)
      PROVE  LockOwners' /\ LockExclusive'
  <2>1. UNCHANGED lock
    BY <1>2 DEF Construct
  <2> QED
    BY <1>1, <1>2, <2>1, ConstructOpens
<1>3. ASSUME NEW t \in Threads, NEW d \in 1..MaxDepth, NEW a \in Actors, NEW s \in Slots,
             NEW m \in Modes, Enter(t, d, a, s, m)
      PROVE  LockOwners' /\ LockExclusive'
  <2>1. UNCHANGED lock
    BY <1>3 DEF Enter
  <2> QED
    BY <1>1, <1>3, <2>1, EnterOpens
<1>4. ASSUME NEW f \in Frames, EnterFail(f) \/ Leave(f)
      PROVE  LockOwners' /\ LockExclusive'
  <2>1. Closes(f) /\ UNCHANGED lock
    BY <1>4, LeaversClose DEF EnterFail, Leave
  <2>2. /\ \A g \in Frames : InBody(g)' <=> InBody(g)
        /\ \A g \in Frames : InBody(g) => frame'[g].actor = frame[g].actor /\ frame'[g].mode = frame[g].mode
    BY <2>1 DEF Closes, InBody
  <2> QED
    BY <2>1, <2>2, LockKept
<1>5. ASSUME NEW f \in Frames, LoadDraft(f) \/ StoreDraft(f)
      PROVE  LockOwners' /\ LockExclusive'
  <2>1. Stays
    BY <1>5, BodyStays
  <2>2. UNCHANGED lock
    BY <1>5 DEF LoadDraft, StoreDraft
  <2>3. /\ \A g \in Frames : g # f => frame'[g].pc = frame[g].pc
        /\ InBody(f) /\ InBody(f)'
    BY <1>5 DEF LoadDraft, StoreDraft, SetPc, TypeOK, FrameType, InBody
  <2>4. /\ \A g \in Frames : InBody(g)' <=> InBody(g)
        /\ \A g \in Frames : InBody(g) => frame'[g].actor = frame[g].actor /\ frame'[g].mode = frame[g].mode
    BY <2>1, <2>3 DEF Stays, InBody
  <2> QED
    BY <2>2, <2>4, LockKept
<1>6. ASSUME UNCHANGED <<frame, lock>>
      PROVE  LockOwners' /\ LockExclusive'
  BY <1>6, LockKept DEF InBody
<1>7. /\ \A t \in Threads, a \in Actors, s, r \in Slots : Clone(t, a, s, r) => UNCHANGED <<frame, lock>>
      /\ \A t, u \in Threads, a \in Actors, s, r \in Slots : Move(t, a, s, u, r) => UNCHANGED <<frame, lock>>
      /\ \A t \in Threads, a \in Actors, s \in Slots : Release(t, a, s) => UNCHANGED <<frame, lock>>
      /\ \A t \in Threads : CheckRefcount(t) \/ CheckActive(t) \/ Destroy(t) \/ Uncount(t) => UNCHANGED <<frame, lock>>
      /\ UNCHANGED vars => UNCHANGED <<frame, lock>>
  BY DEF Clone, Move, Release, CheckRefcount, CheckActive, Destroy, Uncount, vars, lock
<1> QED
  BY <1>2, <1>3, <1>4, <1>5, <1>6, <1>7, LockAcquired, LockReleased, NeverIgnored DEF StepCases

-----------------------------------------------------------------------------
(* A body that may write is alone: no other body on its actor is anywhere  *)
(* between reading the draft and leaving.                                  *)
LEMMA WriterAlone ==
  ASSUME TypeOK, LockOwners, LockExclusive, NEW f \in Frames, NEW g \in Frames,
         InBody(f), InBody(g), frame[f].actor = frame[g].actor, frame[f].mode # "sub"
  PROVE  g = f
<1>1. PICK a \in Actors : frame[f].actor = a
  BY DEF InBody, InFrame, TypeOK
<1>2. f \in writer[a]
  BY <1>1 DEF LockOwners, Shared
<1>3. readers[a] = {}
  BY <1>2 DEF LockExclusive
<1>4. g \in writer[a]
  BY <1>1, <1>3 DEF LockOwners
<1> QED
  BY <1>2, <1>4 DEF LockExclusive

(* No increment of the draft is lost. *)
LEMMA SerializedStep ==
  ASSUME TypeOK, LockOwners, LockExclusive, Serialized, StepCases
  PROVE  Serialized'
<1>0. /\ \A a \in Actors : draft[a] = stores[a]
      /\ \A g \in Frames : frame[g].pc = "loaded" => draft[frame[g].actor] = frame[g].tmp
  BY DEF Serialized
<1>1. ASSUME UNCHANGED <<draft, stores>>, NEW f \in Frames, frame'[f].pc # "loaded",
             \A g \in Frames : g # f => frame'[g] = frame[g]
      PROVE  Serialized'
  BY <1>0, <1>1 DEF Serialized
<1>2. ASSUME NEW t \in Threads, NEW d \in 1..MaxDepth, NEW a \in Actors, NEW s \in Slots,
             Construct(t, d, a, s)
      PROVE  Serialized'
  <2>1. Opens(t, d, a, s, "init")
    BY <1>2, ConstructOpens
  <2>2. UNCHANGED <<draft, stores>>
    BY <1>2 DEF Construct
  <2> QED
    BY <1>1, <2>1, <2>2 DEF Opens
<1>3. ASSUME NEW t \in Threads, NEW d \in 1..MaxDepth, NEW a \in Actors, NEW s \in Slots,
             NEW m \in Modes, Enter(t, d, a, s, m)
      PROVE  Serialized'
  <2>1. Opens(t, d, a, s, m)
    BY <1>3, EnterOpens
  <2>2. UNCHANGED <<draft, stores>>
    BY <1>3 DEF Enter
  <2> QED
    BY <1>1, <2>1, <2>2 DEF Opens
<1>4. ASSUME NEW f \in Frames, EnterFail(f) \/ Leave(f)
      PROVE  Serialized'
  <2>1. Closes(f)
    BY <1>4, LeaversClose
  <2>2. UNCHANGED <<draft, stores>>
    BY <1>4 DEF EnterFail, Leave
  <2> QED
    BY <1>1, <2>1, <2>2 DEF Closes
<1>5. ASSUME NEW f \in Frames, AcquireLock(f) \/ AcquireIgnored(f) \/ Unlock(f)
      PROVE  Serialized'
  <2>1. InFrame(f) /\ UNCHANGED <<draft, stores>>
    BY <1>5 DEF AcquireLock, AcquireIgnored, Unlock, IsTop
  <2>2. PICK p \in {"body", "unlocked"} : SetPc(f, p)
    BY <1>5 DEF AcquireLock, AcquireIgnored, Unlock
  <2>3. frame'[f].pc # "loaded" /\ \A g \in Frames : g # f => frame'[g] = frame[g]
    BY <2>1, <2>2, SetPcEffect DEF FramePc
  <2> QED
    BY <1>1, <2>1, <2>3
<1>6. ASSUME NEW f \in Frames, LoadDraft(f)
      PROVE  Serialized'
  <2>1. draft' = draft /\ stores' = stores
    BY <1>6 DEF LoadDraft
  <2>2. /\ frame'[f].actor = frame[f].actor /\ frame'[f].tmp = draft[frame[f].actor]
        /\ \A g \in Frames : g # f => frame'[g] = frame[g]
    BY <1>6 DEF LoadDraft, TypeOK, FrameType
  <2> QED
    BY <1>0, <2>1, <2>2 DEF Serialized
<1>7. ASSUME NEW f \in Frames, StoreDraft(f)
      PROVE  Serialized'
  <2>0. PICK a \in Actors : frame[f].actor = a
    BY <1>7 DEF StoreDraft, IsTop, TypeOK
  <2>1. /\ draft'[a] = frame[f].tmp + 1 /\ stores'[a] = stores[a] + 1
        /\ \A b \in Actors : b # a => draft'[b] = draft[b] /\ stores'[b] = stores[b]
    BY <1>7, <2>0 DEF StoreDraft, TypeOK
  <2>2. draft[a] = frame[f].tmp
    BY <1>0, <1>7, <2>0 DEF StoreDraft
  <2>3. \A b \in Actors : draft'[b] = stores'[b]
    BY <1>0, <2>1, <2>2
  <2>4. frame'[f].pc = "stored" /\ \A g \in Frames : g # f => frame'[g] = frame[g]
    BY <1>7 DEF StoreDraft, SetPc, TypeOK, FrameType
  <2>5. ASSUME NEW g \in Frames, g # f, frame[g].pc = "loaded"
        PROVE  frame[g].actor # a /\ frame[g].actor \in Actors
    <3>1. InBody(f) /\ InBody(g) /\ frame[f].mode # "sub" /\ InFrame(g)
      BY <1>7, <2>5 DEF StoreDraft, InBody, InFrame
    <3> QED
      BY <2>0, <2>5, <3>1, WriterAlone DEF TypeOK
  <2>6. \A g \in Frames : frame'[g].pc = "loaded" => draft'[frame'[g].actor] = frame'[g].tmp
    BY <1>0, <2>1, <2>4, <2>5
  <2> QED
    BY <2>3, <2>6 DEF Serialized
<1>8. CASE UNCHANGED <<frame, draft, stores>>
  BY <1>0, <1>8 DEF Serialized
<1>9. /\ \A t \in Threads, a \in Actors, s, r \in Slots : Clone(t, a, s, r) => UNCHANGED <<frame, draft, stores>>
      /\ \A t, u \in Threads, a \in Actors, s, r \in Slots : Move(t, a, s, u, r) => UNCHANGED <<frame, draft, stores>>
      /\ \A t \in Threads, a \in Actors, s \in Slots : Release(t, a, s) => UNCHANGED <<frame, draft, stores>>
      /\ \A t \in Threads :
           CheckRefcount(t) \/ CheckActive(t) \/ Destroy(t) \/ Uncount(t) => UNCHANGED <<frame, draft, stores>>
      /\ UNCHANGED vars => UNCHANGED <<frame, draft, stores>>
  BY DEF Clone, Move, Release, CheckRefcount, CheckActive, Destroy, Uncount, vars
<1> QED
  BY <1>2, <1>3, <1>4, <1>5, <1>6, <1>7, <1>8, <1>9 DEF StepCases

(* g_live_actors follows the allocations and the frees. *)
LEMMA LiveCountStep ==
  ASSUME TypeOK, Held, Reaper, LiveCount, StepCases
  PROVE  LiveCount'
<1>0. /\ live = Cardinality(LiveActors) + Cardinality(Uncounting)
      /\ IsFiniteSet(LiveActors) /\ IsFiniteSet(Uncounting)
      /\ Cardinality(LiveActors) \in Nat /\ Cardinality(Uncounting) \in Nat
  BY Finite, FS_CardinalityType DEF LiveCount
<1>1. ASSUME NEW t \in Threads, NEW d \in 1..MaxDepth, NEW a \in Actors, NEW s \in Slots,
             Construct(t, d, a, s)
      PROVE  LiveCount'
  <2>1. LiveActors' = LiveActors \union {a} /\ a \notin LiveActors
    BY <1>1 DEF Construct, LiveActors, TypeOK
  <2>2. Cardinality(LiveActors') = Cardinality(LiveActors) + 1
    BY <1>0, <2>1, FS_AddElement
  <2>3. Uncounting' = Uncounting /\ live' = live + 1
    BY <1>1 DEF Construct, Uncounting
  <2> QED
    BY <1>0, <2>2, <2>3 DEF LiveCount
<1>2. ASSUME NEW t \in Threads, Destroy(t)
      PROVE  LiveCount'
  <2>0. PICK a \in Actors : reap[t].actor = a
    BY <1>2 DEF Destroy, TypeOK
  <2>1. phase[a] = "live"
    BY <1>2, <2>0 DEF Destroy, Reaper, ReaperAt, Reaping
  <2>2. LiveActors' = LiveActors \ {a} /\ a \in LiveActors
    BY <1>2, <2>0, <2>1 DEF Destroy, LiveActors, TypeOK
  <2>3. Uncounting' = Uncounting \union {t} /\ t \notin Uncounting
    BY <1>2 DEF Destroy, ReapAt, Uncounting, TypeOK
  <2>4. Cardinality(LiveActors') = Cardinality(LiveActors) - 1
    BY <1>0, <2>2, FS_RemoveElement
  <2>5. Cardinality(Uncounting') = Cardinality(Uncounting) + 1
    BY <1>0, <2>3, FS_AddElement
  <2>6. live' = live
    BY <1>2 DEF Destroy
  <2> QED
    BY <1>0, <2>4, <2>5, <2>6 DEF LiveCount
<1>3. ASSUME NEW t \in Threads, Uncount(t)
      PROVE  LiveCount'
  <2>1. Uncounting' = Uncounting \ {t} /\ t \in Uncounting
    BY <1>3 DEF Uncount, StopReap, Uncounting, TypeOK
  <2>2. Cardinality(Uncounting') = Cardinality(Uncounting) - 1
    BY <1>0, <2>1, FS_RemoveElement
  <2>3. LiveActors' = LiveActors /\ live' = live - 1
    BY <1>3 DEF Uncount, LiveActors, object
  <2> QED
    BY <1>0, <2>2, <2>3 DEF LiveCount
<1>4. ASSUME UNCHANGED <<phase, live>>, NEW t \in Threads,
             \A u \in Threads : u # t => reap'[u] = reap[u],
             reap[t].pc # "uncount", reap'[t].pc # "uncount"
      PROVE  LiveCount'
  <2>1. LiveActors' = LiveActors /\ Uncounting' = Uncounting /\ live' = live
    BY <1>4 DEF LiveActors, Uncounting
  <2> QED
    BY <1>0, <2>1 DEF LiveCount
<1>5. ASSUME UNCHANGED <<phase, live, reap>>
      PROVE  LiveCount'
  <2>1. LiveActors' = LiveActors /\ Uncounting' = Uncounting /\ live' = live
    BY <1>5 DEF LiveActors, Uncounting
  <2> QED
    BY <1>0, <2>1 DEF LiveCount
<1>6. ASSUME NEW t \in Threads, CheckRefcount(t) \/ CheckActive(t)
      PROVE  LiveCount'
  <2>1. \A u \in Threads : u # t => reap'[u] = reap[u]
    BY <1>6 DEF CheckRefcount, CheckActive, StopReap, ReapAt, TypeOK
  <2>2. reap[t].pc # "uncount" /\ reap'[t].pc # "uncount"
    BY <1>6 DEF CheckRefcount, CheckActive, StopReap, ReapAt, TypeOK
  <2>3. UNCHANGED <<phase, live>>
    BY <1>6 DEF CheckRefcount, CheckActive, object
  <2> QED
    BY <1>4, <2>1, <2>2, <2>3
<1>7. ASSUME NEW t \in Threads, NEW a \in Actors, reap[t].pc = "no", UNCHANGED <<phase, live>>,
             \/ reap' = reap
             \/ reap' = [reap EXCEPT ![t] = [pc |-> "refcount", actor |-> a]]
      PROVE  LiveCount'
  <2>1. \A u \in Threads : u # t => reap'[u] = reap[u]
    BY <1>7 DEF TypeOK
  <2>2. reap'[t].pc # "uncount"
    BY <1>7 DEF TypeOK
  <2> QED
    BY <1>4, <1>7, <2>1, <2>2
<1>8. ASSUME NEW t \in Threads, NEW a \in Actors, NEW s \in Slots, Release(t, a, s)
      PROVE  LiveCount'
  BY <1>7, <1>8 DEF Release, InProgram, Running
<1>9. ASSUME NEW f \in Frames, Leave(f)
      PROVE  LiveCount'
  <2>0. PICK a \in Actors, t \in Threads : frame[f].actor = a /\ f[1] = t
    BY <1>9, FramePair DEF Leave, IsTop, TypeOK
  <2> QED
    BY <1>7, <1>9, <2>0 DEF Leave, Running
<1>10. ASSUME NEW f \in Frames,
              \/ EnterFail(f) \/ AcquireLock(f) \/ AcquireIgnored(f) \/ LoadDraft(f)
              \/ StoreDraft(f) \/ Unlock(f)
       PROVE  UNCHANGED <<phase, live, reap>>
  BY <1>10, BodyKeeps DEF EnterFail
<1>11. /\ \A t \in Threads, a \in Actors, s, r \in Slots : Clone(t, a, s, r) => UNCHANGED <<phase, live, reap>>
       /\ \A t, u \in Threads, a \in Actors, s, r \in Slots : Move(t, a, s, u, r) => UNCHANGED <<phase, live, reap>>
       /\ \A t \in Threads, d \in 1..MaxDepth, a \in Actors, s \in Slots, m \in Modes :
            Enter(t, d, a, s, m) => UNCHANGED <<phase, live, reap>>
       /\ UNCHANGED vars => UNCHANGED <<phase, live, reap>>
  BY DEF Clone, Move, Enter, object, vars
<1> QED
  BY <1>1, <1>2, <1>3, <1>5, <1>6, <1>8, <1>9, <1>10, <1>11 DEF StepCases

-----------------------------------------------------------------------------
(* The invariant is inductive. *)
LEMMA IndInvStep ==
  ASSUME Disciplined, IndInv, [Next]_vars
  PROVE  IndInv'
<1>1. /\ TypeOK /\ Counts /\ Held /\ Reaper /\ Nested /\ LockOwners /\ LockExclusive
      /\ Serialized /\ LiveCount
  BY DEF IndInv
<1>2. StepCases
  BY NextCases
<1>3. TypeOK'
  BY <1>1, <1>2, TypeStep
<1>4. Counts'
  BY <1>1, <1>2, RefcountStep, ActiveStep DEF Counts
<1>5. Held'
  BY <1>1, <1>2, HeldStep
<1>6. Reaper'
  BY <1>1, <1>2, ReaperStep
<1>7. Nested'
  BY <1>1, <1>2, NestedStep
<1>8. LockOwners' /\ LockExclusive'
  BY <1>1, <1>2, LockStep
<1>9. Serialized'
  BY <1>1, <1>2, SerializedStep
<1>10. LiveCount'
  BY <1>1, <1>2, LiveCountStep
<1> QED
  BY <1>3, <1>4, <1>5, <1>6, <1>7, <1>8, <1>9, <1>10 DEF IndInv

(* Every reachable state of a disciplined program satisfies the invariant. *)
THEOREM IndInvHolds ==
  ASSUME Disciplined
  PROVE  Spec => []IndInv
<1>1. Init => IndInv
  BY InitIndInv
<1>2. IndInv /\ [Next]_vars => IndInv'
  BY IndInvStep
<1> QED
  BY <1>1, <1>2, PTL DEF Spec

(* The variables of the runtime keep their types: in particular neither    *)
(* counter of an ActorObject is ever decremented below zero.               *)
THEOREM TypeCorrect ==
  ASSUME Disciplined
  PROVE  Spec => []TypeOK
<1>1. IndInv => TypeOK
  BY DEF IndInv
<1> QED
  BY <1>1, IndInvHolds, PTL

(* A method that may write runs while no other thread is in a method of    *)
(* the same actor.                                                         *)
THEOREM MutualExclusion ==
  ASSUME Disciplined
  PROVE  Spec => []Exclusion
<1>1. ASSUME IndInv PROVE Exclusion
  <2> SUFFICES ASSUME NEW f \in Frames, NEW g \in Frames, f[1] # g[1],
                      InBody(f), InBody(g), frame[f].actor = frame[g].actor
               PROVE  frame[f].mode = "sub" /\ frame[g].mode = "sub"
    BY DEF Exclusion
  <2>1. TypeOK /\ LockOwners /\ LockExclusive
    BY <1>1 DEF IndInv
  <2>2. f # g
    OBVIOUS
  <2> QED
    BY <2>1, <2>2, WriterAlone
<1> QED
  BY <1>1, IndInvHolds, PTL

(* No increment of an actor's draft is lost and no body works on a value   *)
(* of the draft that another call has overwritten.                         *)
THEOREM MutationSerializes ==
  ASSUME Disciplined
  PROVE  Spec => []Serialized
<1>1. IndInv => Serialized
  BY DEF IndInv
<1> QED
  BY <1>1, IndInvHolds, PTL

(* Handle values, calls in progress and threads in try_destroy_actor_      *)
(* never refer to freed storage.                                           *)
THEOREM MemorySafety ==
  ASSUME Disciplined
  PROVE  Spec => []NoUseAfterFree
<1>1. ASSUME IndInv PROVE NoUseAfterFree
  <2>1. TypeOK /\ Held /\ Reaper
    BY <1>1 DEF IndInv
  <2>2. \A f \in Frames : InFrame(f) => phase[frame[f].actor] = "live"
    BY <2>1 DEF TypeOK, Held
  <2>3. ASSUME NEW t \in Threads, reap[t].pc \in {"refcount", "active", "destroy"}
        PROVE  phase[reap[t].actor] = "live"
    <3>1. PICK a \in Actors : reap[t].actor = a
      BY <2>1, <2>3 DEF TypeOK
    <3>2. ReaperAt(a) /\ Reaping(t, a)
      BY <2>1, <2>3, <3>1 DEF Reaper, Reaping
    <3>3. refs[a] # {} \/ phase[a] = "live"
      BY <3>2 DEF ReaperAt
    <3> QED
      BY <2>1, <3>1, <3>3 DEF Held
  <2> QED
    BY <2>1, <2>2, <2>3 DEF NoUseAfterFree, Held
<1> QED
  BY <1>1, IndInvHolds, PTL

(* When all handles are gone and all threads are out of the runtime, every *)
(* actor has been freed and g_live_actors is back at zero.                 *)
THEOREM EverythingReclaimed ==
  ASSUME Disciplined
  PROVE  Spec => []AllReclaimed
<1>1. ASSUME IndInv, Quiescent PROVE live = 0 /\ \A a \in Actors : phase[a] # "live"
  <2>1. \A a \in Actors : phase[a] # "live"
    BY <1>1 DEF IndInv, Reaper, ReaperAt, Reaping, Quiescent, Running
  <2>2. LiveActors = {}
    BY <2>1 DEF LiveActors
  <2>3. Uncounting = {}
    BY <1>1 DEF Uncounting, Quiescent, Running
  <2> QED
    BY <1>1, <2>1, <2>2, <2>3, FS_EmptySet DEF IndInv, LiveCount
<1>2. IndInv => AllReclaimed
  BY <1>1 DEF AllReclaimed
<1> QED
  BY <1>2, IndInvHolds, PTL

-----------------------------------------------------------------------------
(* The refinement.  Handles are passed on, whole increments are made and    *)
(* objects reclaimed by one step each; every other step is invisible.       *)

(* A step that leaves phase, draft and refs alone is invisible. *)
Invisible == UNCHANGED <<phase, draft, refs>>

(* The actions on handles are the three ways to use Pass, and Create. *)
LEMMA HandleStepsRefine ==
  ASSUME TypeOK, NEW t \in Threads, NEW a \in Actors, NEW s \in Slots,
         \/ \E d \in 1..MaxDepth : Construct(t, d, a, s)
         \/ \E r \in Slots : Clone(t, a, s, r)
         \/ \E u \in Threads, r \in Slots : Move(t, a, s, u, r)
         \/ Release(t, a, s)
  PROVE  Shared_Actor!ANext
<1>0. \A u \in Threads, r \in Slots : <<u, r>> \in Handles
  BY DEF Handles
<1>1. ASSUME NEW d \in 1..MaxDepth, Construct(t, d, a, s)
      PROVE  Shared_Actor!Create(a, <<t, s>>)
  BY <1>1 DEF Construct, Shared_Actor!Create
<1>2. ASSUME NEW r \in Slots, Clone(t, a, s, r)
      PROVE  Shared_Actor!Pass(a, {}, {<<t, r>>})
  BY <1>2 DEF Clone, TypeOK, Shared_Actor!Pass
<1>3. ASSUME NEW u \in Threads, NEW r \in Slots, Move(t, a, s, u, r)
      PROVE  Shared_Actor!Pass(a, {<<t, s>>}, {<<u, r>>})
  BY <1>3 DEF Move, object, Shared_Actor!Pass
<1>4. ASSUME Release(t, a, s)
      PROVE  Shared_Actor!Pass(a, {<<t, s>>}, {})
  BY <1>4 DEF Release, TypeOK, Shared_Actor!Pass
<1>5. \A u \in Threads, r \in Slots : {<<u, r>>} \in SUBSET Handles /\ {} \in SUBSET Handles
  BY <1>0
<1> QED
  BY <1>0, <1>1, <1>2, <1>3, <1>4, <1>5 DEF Shared_Actor!ANext

(* Only an object without handles is freed. *)
LEMMA DestroyRefines ==
  ASSUME TypeOK, Reaper, NEW t \in Threads, Destroy(t)
  PROVE  Shared_Actor!ANext
<1>1. PICK a \in Actors : reap[t].actor = a
  BY DEF TypeOK, Destroy
<1>2. refs[a] = {} /\ phase[a] = "live"
  BY <1>1 DEF Reaper, ReaperAt, Reaping, Destroy
<1>3. Shared_Actor!Reclaim(a)
  BY <1>1, <1>2 DEF Destroy, Shared_Actor!Reclaim
<1> QED
  BY <1>3 DEF Shared_Actor!ANext

(* A body writes the successor of the value that the draft still has. *)
LEMMA StoreRefines ==
  ASSUME TypeOK, Held, Serialized, NEW f \in Frames, StoreDraft(f)
  PROVE  Shared_Actor!ANext
<1>1. PICK a \in Actors : frame[f].actor = a
  BY DEF TypeOK, StoreDraft, IsTop
<1>2. refs[a] # {} /\ phase[a] = "live"
  BY <1>1 DEF Held, StoreDraft, IsTop
<1>3. draft[a] = frame[f].tmp
  BY <1>1 DEF Serialized, StoreDraft
<1>4. Shared_Actor!Update(a)
  BY <1>1, <1>2, <1>3 DEF StoreDraft, object, TypeOK, Shared_Actor!Update
<1> QED
  BY <1>4 DEF Shared_Actor!ANext

(* The loads, the locks and the counter are not seen in the object. *)
LEMMA OtherStepsInvisible ==
  /\ \A t \in Threads :
       CheckRefcount(t) \/ CheckActive(t) \/ Uncount(t) => Invisible
  /\ \A t \in Threads, d \in 1..MaxDepth, a \in Actors, s \in Slots, m \in Modes :
       Enter(t, d, a, s, m) => Invisible
  /\ \A f \in Frames :
       \/ EnterFail(f) \/ AcquireLock(f) \/ AcquireIgnored(f) \/ LoadDraft(f)
       \/ Unlock(f) \/ Leave(f)
       => Invisible
  /\ UNCHANGED vars => Invisible
BY DEF CheckRefcount, CheckActive, Uncount, Enter, EnterFail, AcquireLock, AcquireIgnored,
       LoadDraft, Unlock, Leave, Invisible, object, vars

(* The runtime, with its counters, its lock and its two-step destruction,  *)
(* implements the actor that a program sees: every step of any program is  *)
(* one step of SharedActor or changes nothing that it shows.               *)
THEOREM RuntimeImplementsSharedActor ==
  ASSUME Disciplined
  PROVE  Spec => ImplementsSharedActor
<1>1. Init => Shared_Actor!AInit
  BY DEF Init, Shared_Actor!AInit
<1>2. ASSUME IndInv, [Next]_vars
      PROVE  [Shared_Actor!ANext]_(Shared_Actor!avars)
  <2>0. TypeOK /\ Held /\ Reaper /\ Serialized /\ StepCases
    BY <1>2, NextCases DEF IndInv
  <2>1. Invisible \/ Shared_Actor!ANext
    BY <2>0, HandleStepsRefine, DestroyRefines, StoreRefines, OtherStepsInvisible
       DEF StepCases
  <2> QED
    BY <2>1 DEF Invisible, Shared_Actor!avars
<1> QED
  BY <1>1, <1>2, IndInvHolds, PTL DEF Spec, ImplementsSharedActor, Shared_Actor!ASpec
=============================================================================
