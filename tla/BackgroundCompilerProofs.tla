---------------------- MODULE BackgroundCompilerProofs ----------------------
(***************************************************************************)
(* The background compiler has one task when it should and none inside a    *)
(* NoBackgroundCompilerScope, for any mutators, functions and nesting.      *)
(***************************************************************************)
EXTENDS BackgroundCompiler, FiniteSetTheorems, TLAPS

Places == {"dart", "stopping", "stopped", "gone"}
Stages == {"free", "queued", "entered", "compiling", "retry", "exit", "left"}

Types ==
  /\ running \in BOOLEAN /\ done \in BOOLEAN /\ pool_open \in BOOLEAN
  /\ scopes \in [Mutators -> 0 .. MaxNesting]
  /\ pc \in [Mutators \cup {Closer} -> Places]
  /\ task \in [TaskIds -> Stages]

\* The open NoBackgroundCompilerScopes, which disabled_depth_ counts.
OpenScopes == {s \in Mutators \X (1 .. MaxNesting) : s[2] <= scopes[s[1]]}

DepthIsExact == IsFiniteSet(OpenScopes) /\ disabled_depth = Cardinality(OpenScopes)

\* One task, unless done_ is set.
OneTask ==
  /\ done => \A k \in TaskIds : task[k] = "free"
  /\ ~done => \E k \in TaskIds : task[k] # "free" /\ \A l \in TaskIds \ {k} : task[l] = "free"

QueueIsServed == function_queue # <<>> /\ pool_open => running

MutatorsGone == \A t \in Mutators : pc[t] = "gone"

\* Who is responsible for a compiler that is neither running nor done.
StopHasOwner ==
  ~running /\ ~done =>
    MutatorsGone \/ \E t \in Mutators : pc[t] = "stopping" /\ scopes[t] > 0

\* A thread inside a scope waited for done_, and only the last thread stops for good.
ScopesAreQuiet ==
  /\ \A t \in Mutators : pc[t] = "dart" /\ scopes[t] > 0 => done
  /\ pc[Closer] # "dart" => MutatorsGone
  /\ pc[Closer] = "stopped" => done

Inv == Types /\ DepthIsExact /\ OneTask /\ QueueIsServed /\ StopHasOwner /\ ScopesAreQuiet

USE DEF fields, Goto, Set

-----------------------------------------------------------------------------
\* Where compilation is enabled nobody is inside a scope.
LEMMA EnabledMeansNoScope ==
  ASSUME Inv, disabled_depth = 0, NEW t \in Mutators
  PROVE  scopes[t] = 0
  <1> SUFFICES ASSUME scopes[t] # 0 PROVE FALSE OBVIOUS
  <1>1. scopes[t] \in 0 .. MaxNesting /\ MaxNesting \in Nat
    BY BackgroundCompilerAssumption DEF Inv, Types
  <1>2. <<t, 1>> \in OpenScopes
    BY <1>1 DEF OpenScopes
  <1>3. OpenScopes = {}
    BY FS_EmptySet DEF Inv, DepthIsExact
  <1> QED BY <1>2, <1>3

\* Opening and closing a scope changes the count by one.
LEMMA ScopeOpens ==
  ASSUME Inv, NEW t \in Mutators, scopes[t] < MaxNesting,
         scopes' = [scopes EXCEPT ![t] = @ + 1], disabled_depth' = disabled_depth + 1
  PROVE  DepthIsExact' /\ scopes' \in [Mutators -> 0 .. MaxNesting] /\ scopes'[t] > 0
  <1>1. scopes \in [Mutators -> 0 .. MaxNesting] /\ MaxNesting \in Nat
    BY BackgroundCompilerAssumption DEF Inv, Types
  <1>2. scopes' \in [Mutators -> 0 .. MaxNesting] /\ scopes'[t] = scopes[t] + 1
    BY <1>1
  <1> DEFINE p == <<t, scopes[t] + 1>>
  <1>3. p \notin OpenScopes
    BY <1>1 DEF OpenScopes
  <1>4. OpenScopes' = OpenScopes \cup {p}
    <2>1. \A s \in Mutators \X (1 .. MaxNesting) : s \in OpenScopes' <=> s \in OpenScopes \/ s = p
      <3> TAKE s \in Mutators \X (1 .. MaxNesting)
      <3>1. s = <<s[1], s[2]>> /\ s[1] \in Mutators /\ s[2] \in 1 .. MaxNesting
        OBVIOUS
      <3>2. s \in OpenScopes' <=> s[2] <= scopes'[s[1]]
        BY DEF OpenScopes
      <3>3. s \in OpenScopes <=> s[2] <= scopes[s[1]]
        BY DEF OpenScopes
      <3>4. CASE s[1] = t
        <4>1. s = p <=> s[2] = scopes[t] + 1
          BY <3>1, <3>4
        <4>2. s[2] <= scopes[t] + 1 <=> s[2] <= scopes[t] \/ s[2] = scopes[t] + 1
          BY <1>1, <3>1
        <4> QED BY <1>2, <3>2, <3>3, <3>4, <4>1, <4>2
      <3>5. CASE s[1] # t
        BY <1>1, <3>1, <3>2, <3>3, <3>5
      <3> QED BY <3>4, <3>5
    <2>2. p \in Mutators \X (1 .. MaxNesting)
      BY <1>1
    <2>3. OpenScopes \subseteq Mutators \X (1 .. MaxNesting)
          /\ OpenScopes' \subseteq Mutators \X (1 .. MaxNesting)
      BY DEF OpenScopes
    <2> QED BY <2>1, <2>2, <2>3
  <1>5. IsFiniteSet(OpenScopes') /\ Cardinality(OpenScopes') = Cardinality(OpenScopes) + 1
    BY <1>3, <1>4, FS_AddElement DEF Inv, DepthIsExact
  <1> QED BY <1>1, <1>2, <1>5 DEF Inv, DepthIsExact

LEMMA ScopeCloses ==
  ASSUME Inv, NEW t \in Mutators, scopes[t] > 0,
         scopes' = [scopes EXCEPT ![t] = @ - 1], disabled_depth' = disabled_depth - 1
  PROVE  DepthIsExact' /\ scopes' \in [Mutators -> 0 .. MaxNesting]
  <1>1. scopes \in [Mutators -> 0 .. MaxNesting] /\ MaxNesting \in Nat
    BY BackgroundCompilerAssumption DEF Inv, Types
  <1>2. scopes' \in [Mutators -> 0 .. MaxNesting] /\ scopes'[t] = scopes[t] - 1
    BY <1>1
  <1> DEFINE p == <<t, scopes[t]>>
  <1>3. p \in OpenScopes
    BY <1>1 DEF OpenScopes
  <1>4. OpenScopes' = OpenScopes \ {p}
    <2>1. \A s \in Mutators \X (1 .. MaxNesting) : s \in OpenScopes' <=> s \in OpenScopes /\ s # p
      <3> TAKE s \in Mutators \X (1 .. MaxNesting)
      <3>1. s = <<s[1], s[2]>> /\ s[1] \in Mutators /\ s[2] \in 1 .. MaxNesting
        OBVIOUS
      <3>2. s \in OpenScopes' <=> s[2] <= scopes'[s[1]]
        BY DEF OpenScopes
      <3>3. s \in OpenScopes <=> s[2] <= scopes[s[1]]
        BY DEF OpenScopes
      <3>4. CASE s[1] = t
        <4>1. s = p <=> s[2] = scopes[t]
          BY <3>1, <3>4
        <4>2. s[2] <= scopes[t] - 1 <=> s[2] <= scopes[t] /\ s[2] # scopes[t]
          BY <1>1, <3>1
        <4> QED BY <1>2, <3>2, <3>3, <3>4, <4>1, <4>2
      <3>5. CASE s[1] # t
        BY <1>1, <3>1, <3>2, <3>3, <3>5
      <3> QED BY <3>4, <3>5
    <2>2. OpenScopes \subseteq Mutators \X (1 .. MaxNesting)
          /\ OpenScopes' \subseteq Mutators \X (1 .. MaxNesting)
      BY DEF OpenScopes
    <2> QED BY <2>1, <2>2
  <1>5. IsFiniteSet(OpenScopes') /\ Cardinality(OpenScopes') = Cardinality(OpenScopes) - 1
    BY <1>3, <1>4, FS_RemoveElement DEF Inv, DepthIsExact
  <1> QED BY <1>1, <1>2, <1>5 DEF Inv, DepthIsExact

-----------------------------------------------------------------------------
\* The steps of the task: it stays the only one until it hands over or is done.
LEMMA TaskMoves ==
  ASSUME Inv, NEW k \in TaskIds, task[k] # "free", NEW l \in Stages \ {"free"}, Set(k, l)
  PROVE  task' \in [TaskIds -> Stages]
         /\ (~done /\ \E m \in TaskIds : task'[m] # "free"
                         /\ \A n \in TaskIds \ {m} : task'[n] = "free")
  <1>1. ~done /\ \A m \in TaskIds \ {k} : task[m] = "free"
    BY DEF Inv, OneTask
  <1> QED BY <1>1 DEF Inv, Types

LEMMA TaskKeeps ==
  ASSUME Inv, NEW k \in TaskIds, TaskStep(k)
  PROVE  Inv'
  <1> DEFINE Others == UNCHANGED <<done, disabled_depth, pc, scopes, pool_open>>
  <1>1. ASSUME Others, UNCHANGED running, NEW l \in Stages \ {"free"}, task[k] # "free",
               Set(k, l), QueueIsServed'
        PROVE  Inv'
    <2>1. task' \in [TaskIds -> Stages] /\ OneTask'
      BY <1>1, TaskMoves DEF OneTask
    <2> QED BY <1>1, <2>1
            DEF Inv, Types, DepthIsExact, OpenScopes, StopHasOwner, MutatorsGone, ScopesAreQuiet
  <1>2. CASE EnterGroup(k)
    BY <1>1, <1>2 DEF EnterGroup, Stages, Inv, QueueIsServed
  <1>3. CASE TakeFunction(k)
    <2>1. QueueIsServed' /\ Others /\ UNCHANGED running /\ task[k] # "free"
      BY <1>3 DEF TakeFunction, Inv, QueueIsServed
    <2>2. Set(k, "compiling") \/ Set(k, "exit")
      BY <1>3 DEF TakeFunction
    <2>3. {"compiling", "exit"} \subseteq Stages \ {"free"}
      BY DEF Stages
    <2> QED BY <1>1, <2>1, <2>2, <2>3
  <1>4. CASE Compile(k)
    <2>1. QueueIsServed' /\ Others /\ UNCHANGED running /\ task[k] # "free"
      BY <1>4 DEF Compile, Inv, QueueIsServed
    <2>2. Set(k, "retry") \/ Set(k, "exit")
      BY <1>4 DEF Compile
    <2>3. {"retry", "exit"} \subseteq Stages \ {"free"}
      BY DEF Stages
    <2> QED BY <1>1, <2>1, <2>2, <2>3
  <1>5. CASE PutBack(k)
    <2>1. QueueIsServed'
      BY <1>5 DEF PutBack, Inv, QueueIsServed
    <2> QED BY <1>1, <1>5, <2>1 DEF PutBack, Stages
  <1>6. CASE ExitGroup(k)
    BY <1>1, <1>6 DEF ExitGroup, Stages, Inv, QueueIsServed
  <1>7. CASE Finish(k)
    <2>0. ~done /\ \A m \in TaskIds \ {k} : task[m] = "free"
      BY <1>7 DEF Finish, Inv, OneTask
    <2>1. CASE running /\ function_queue # <<>> /\ pool_open
      <3>1. PICK l \in TaskIds : /\ task[l] = "free"
                                 /\ task' = [task EXCEPT ![k] = "free", ![l] = "queued"]
        BY <1>7, <2>1 DEF Finish
      <3>2. l # k
        BY <1>7, <3>1 DEF Finish
      <3>3. Others /\ UNCHANGED <<running, function_queue>>
        BY <1>7, <2>1 DEF Finish
      <3>4. /\ task' \in [TaskIds -> Stages] /\ task'[l] = "queued"
            /\ \A m \in TaskIds \ {l} : task'[m] = "free"
        BY <2>0, <3>1, <3>2 DEF Inv, Types, Stages
      <3>5. OneTask'
        BY <2>0, <3>3, <3>4 DEF OneTask
      <3> QED BY <3>3, <3>4, <3>5
              DEF Inv, Types, DepthIsExact, OpenScopes, QueueIsServed, StopHasOwner,
                  MutatorsGone, ScopesAreQuiet
    <2>2. CASE ~(running /\ function_queue # <<>> /\ pool_open)
      <3>1. /\ Set(k, "free") /\ running' = FALSE /\ done' = TRUE
            /\ UNCHANGED <<function_queue, disabled_depth, pc, scopes, pool_open>>
        BY <1>7, <2>2 DEF Finish
      <3>2. task' \in [TaskIds -> Stages] /\ \A m \in TaskIds : task'[m] = "free"
        BY <2>0, <3>1 DEF Inv, Types, Stages
      <3>3. OneTask' /\ StopHasOwner'
        BY <3>1, <3>2 DEF OneTask, StopHasOwner
      <3>4. QueueIsServed'
        BY <2>2, <3>1 DEF Inv, QueueIsServed
      <3> QED BY <3>1, <3>2, <3>3, <3>4
              DEF Inv, Types, DepthIsExact, OpenScopes, MutatorsGone, ScopesAreQuiet
    <2> QED BY <2>1, <2>2
  <1> QED BY <1>2, <1>3, <1>4, <1>5, <1>6, <1>7 DEF TaskStep

-----------------------------------------------------------------------------
\* The steps of the threads.
LEMMA EnqueueKeeps ==
  ASSUME Inv, NEW t \in Mutators, NEW f \in Functions, EnqueueCompilation(t, f)
  PROVE  Inv'
  <1>1. /\ pc[t] = "dart" /\ disabled_depth = 0
        /\ UNCHANGED <<disabled_depth, pc, scopes, pool_open>>
    BY DEF EnqueueCompilation
  <1>2. \A u \in Mutators : scopes[u] = 0
    BY <1>1, EnabledMeansNoScope
  <1>3. running \/ done
    BY <1>1, <1>2 DEF Inv, StopHasOwner, MutatorsGone
  <1>4. pc[Closer] = "dart"
    BY <1>1 DEF Inv, ScopesAreQuiet, MutatorsGone
  <1>5. running'
    BY <1>3 DEF EnqueueCompilation, NeedsTask, Inv, Types
  <1>6. task' \in [TaskIds -> Stages] /\ OneTask' /\ done' \in BOOLEAN /\ running' \in BOOLEAN
    <2>1. CASE NeedsTask
      <3>1. done /\ ~done' /\ running' = TRUE
        BY <2>1 DEF EnqueueCompilation, NeedsTask
      <3>2. PICK k \in TaskIds : task' = [task EXCEPT ![k] = "queued"]
        BY <2>1 DEF EnqueueCompilation, RunTask
      <3>3. task'[k] = "queued" /\ \A l \in TaskIds \ {k} : task'[l] = "free"
        BY <3>1, <3>2 DEF Inv, Types, OneTask
      <3>4. done' = FALSE
        BY <2>1 DEF EnqueueCompilation
      <3> QED BY <3>1, <3>2, <3>3, <3>4 DEF Inv, Types, OneTask, Stages
    <2>2. CASE ~NeedsTask
      BY <2>2 DEF EnqueueCompilation, Inv, Types, OneTask
    <2> QED BY <2>1, <2>2
  <1>7. ScopesAreQuiet'
    BY <1>1, <1>2, <1>4 DEF ScopesAreQuiet
  <1> QED BY <1>1, <1>5, <1>6, <1>7
          DEF Inv, Types, DepthIsExact, OpenScopes, QueueIsServed, StopHasOwner

\* Disable and Stop, where a task is on its way.
LEMMA StopKeeps ==
  ASSUME Inv, NEW t \in Mutators \cup {Closer}, StopLocked(t), UNCHANGED <<done, task, pool_open>>
  PROVE  /\ running' = FALSE /\ QueueIsServed' /\ OneTask'
         /\ pc' = [pc EXCEPT ![t] = IF done THEN After(t) ELSE "stopping"]
  BY DEF StopLocked, Inv, OneTask, QueueIsServed

LEMMA DisableKeeps ==
  ASSUME Inv, NEW t \in Mutators, Disable(t)
  PROVE  Inv'
  <1>0. /\ pc[t] = "dart" /\ scopes[t] < MaxNesting
        /\ scopes' = [scopes EXCEPT ![t] = @ + 1] /\ disabled_depth' = disabled_depth + 1
        /\ UNCHANGED <<done, task, pool_open>>
        /\ t # Closer /\ pc \in [Mutators \cup {Closer} -> Places] /\ MaxNesting \in Nat
        /\ scopes \in [Mutators -> 0 .. MaxNesting]
    BY BackgroundCompilerAssumption DEF Disable, Inv, Types
  <1>1. DepthIsExact' /\ scopes' \in [Mutators -> 0 .. MaxNesting] /\ scopes'[t] > 0
    BY <1>0, ScopeOpens
  <1>2. pc[Closer] = "dart"
    BY <1>0 DEF Inv, ScopesAreQuiet, MutatorsGone
  <1>3. CASE done
    <2>1. UNCHANGED <<function_queue, running, pc>>
      BY <1>3 DEF Disable
    <2> QED BY <1>0, <1>1, <1>2, <1>3, <2>1
            DEF Inv, Types, OneTask, QueueIsServed, StopHasOwner, ScopesAreQuiet
  <1>4. CASE ~done
    <2>1. StopLocked(t)
      BY <1>4 DEF Disable
    <2>2. running' = FALSE /\ QueueIsServed' /\ OneTask' /\ pc' = [pc EXCEPT ![t] = "stopping"]
      BY <1>0, <1>4, <2>1, StopKeeps
    <2>3. /\ pc' \in [Mutators \cup {Closer} -> Places] /\ pc'[t] = "stopping"
          /\ \A u \in Mutators \ {t} : pc'[u] = pc[u] /\ scopes'[u] = scopes[u]
          /\ pc'[Closer] = "dart"
      BY <1>0, <1>2, <2>2 DEF Places
    <2>4. StopHasOwner'
      BY <1>1, <2>3 DEF StopHasOwner
    <2>5. ScopesAreQuiet'
      BY <1>0, <2>3 DEF Inv, ScopesAreQuiet
    <2> QED BY <1>0, <1>1, <2>2, <2>3, <2>4, <2>5 DEF Inv, Types
  <1> QED BY <1>3, <1>4

LEMMA EnableKeeps ==
  ASSUME Inv, NEW t \in Mutators, Enable(t)
  PROVE  Inv'
  <1>1. /\ pc[t] = "dart" /\ scopes[t] > 0
        /\ scopes' = [scopes EXCEPT ![t] = @ - 1] /\ disabled_depth' = disabled_depth - 1
        /\ UNCHANGED <<function_queue, running, done, task, pc, pool_open>>
        /\ scopes \in [Mutators -> 0 .. MaxNesting]
    BY DEF Enable, Inv, Types
  <1>2. DepthIsExact' /\ scopes' \in [Mutators -> 0 .. MaxNesting]
    BY <1>1, ScopeCloses
  <1>3. done /\ done'
    BY <1>1 DEF Inv, ScopesAreQuiet
  <1>4. ScopesAreQuiet' /\ StopHasOwner'
    BY <1>1, <1>3 DEF Inv, ScopesAreQuiet, StopHasOwner, MutatorsGone
  <1> QED BY <1>1, <1>2, <1>4 DEF Inv, Types, OneTask, QueueIsServed

LEMMA StopWakesKeeps ==
  ASSUME Inv, NEW t \in Mutators \cup {Closer}, StopWakes(t)
  PROVE  Inv'
  <1>1. /\ pc[t] = "stopping" /\ UNCHANGED <<fields, task, scopes, pool_open>>
        /\ UNCHANGED pc \/ (done /\ pc' = [pc EXCEPT ![t] = After(t)])
        /\ pc \in [Mutators \cup {Closer} -> Places]
    BY DEF StopWakes, Inv, Types
  <1>2. CASE UNCHANGED pc
    BY <1>1, <1>2 DEF Inv, Types, DepthIsExact, OpenScopes, OneTask, QueueIsServed, StopHasOwner,
                      ScopesAreQuiet, MutatorsGone
  <1>3. CASE done /\ pc' = [pc EXCEPT ![t] = After(t)]
    <2>1. pc' \in [Mutators \cup {Closer} -> Places] /\ done'
      BY <1>1, <1>3 DEF After, Places
    <2>2. ScopesAreQuiet'
      BY <1>1, <1>3, <2>1, BackgroundCompilerAssumption
      DEF Inv, ScopesAreQuiet, After, MutatorsGone
    <2> QED BY <1>1, <2>1, <2>2 DEF Inv, Types, DepthIsExact, OpenScopes, OneTask, QueueIsServed,
                                    StopHasOwner
  <1> QED BY <1>1, <1>2, <1>3

LEMMA StopForGoodKeeps ==
  ASSUME Inv, Stop
  PROVE  Inv'
  <1>1. /\ pc[Closer] = "dart" /\ MutatorsGone /\ StopLocked(Closer)
        /\ UNCHANGED <<done, disabled_depth, task, scopes, pool_open>>
        /\ pc \in [Mutators \cup {Closer} -> Places] /\ Closer \notin Mutators
    BY BackgroundCompilerAssumption DEF Stop, MutatorsGone, Inv, Types
  <1>2. /\ running' = FALSE /\ QueueIsServed' /\ OneTask'
        /\ pc' = [pc EXCEPT ![Closer] = IF done THEN "stopped" ELSE "stopping"]
    BY <1>1, StopKeeps DEF After
  <1>3. pc' \in [Mutators \cup {Closer} -> Places] /\ MutatorsGone'
        /\ (pc'[Closer] = "stopped" => done)
    BY <1>1, <1>2 DEF Places, MutatorsGone
  <1>4. StopHasOwner' /\ ScopesAreQuiet'
    BY <1>1, <1>3 DEF StopHasOwner, ScopesAreQuiet, MutatorsGone
  <1> QED BY <1>1, <1>2, <1>3, <1>4 DEF Inv, Types, DepthIsExact, OpenScopes

LEMMA InvNext == Inv /\ [Next]_vars => Inv'
  <1> SUFFICES ASSUME Inv, [Next]_vars PROVE Inv' OBVIOUS
  <1>1. ASSUME NEW t \in Mutators, MutatorLeaves(t) PROVE Inv'
    <2>1. /\ pc[t] = "dart" /\ scopes[t] = 0 /\ pc' = [pc EXCEPT ![t] = "gone"]
          /\ UNCHANGED <<fields, task, scopes, pool_open>> /\ t # Closer
          /\ pc \in [Mutators \cup {Closer} -> Places]
      BY <1>1, BackgroundCompilerAssumption DEF MutatorLeaves, Inv, Types
    <2>2. /\ pc' \in [Mutators \cup {Closer} -> Places] /\ pc'[Closer] = pc[Closer]
          /\ \A u \in Mutators \ {t} : pc'[u] = pc[u]
          /\ ~MutatorsGone /\ running' = running /\ done' = done /\ scopes' = scopes
      BY <2>1 DEF Places, MutatorsGone
    <2>3. StopHasOwner'
      <3>1. SUFFICES ASSUME ~running, ~done
                     PROVE  \E u \in Mutators : pc'[u] = "stopping" /\ scopes'[u] > 0
        BY <2>2 DEF StopHasOwner
      <3>2. PICK u \in Mutators : pc[u] = "stopping" /\ scopes[u] > 0
        BY <2>2, <3>1 DEF Inv, StopHasOwner
      <3> QED BY <2>1, <2>2, <3>2
    <2>4. ScopesAreQuiet'
      <3>1. ASSUME NEW u \in Mutators, pc'[u] = "dart", scopes'[u] > 0 PROVE done'
        <4>1. u # t
          BY <2>1, <3>1
        <4> QED BY <2>1, <2>2, <3>1, <4>1 DEF Inv, ScopesAreQuiet
      <3>2. pc'[Closer] = "dart"
        BY <2>2 DEF Inv, ScopesAreQuiet
      <3> QED BY <3>1, <3>2 DEF ScopesAreQuiet
    <2> QED BY <2>1, <2>2, <2>3, <2>4
            DEF Inv, Types, DepthIsExact, OpenScopes, OneTask, QueueIsServed
  <1>2. CASE PoolShutsDown
    BY <1>2 DEF PoolShutsDown, Inv, Types, DepthIsExact, OpenScopes, OneTask, QueueIsServed,
                StopHasOwner, ScopesAreQuiet, MutatorsGone
  <1>3. CASE UNCHANGED vars
    BY <1>3 DEF vars, Inv, Types, DepthIsExact, OpenScopes, OneTask, QueueIsServed,
                StopHasOwner, ScopesAreQuiet, MutatorsGone
  <1> QED BY <1>1, <1>2, <1>3, TaskKeeps, EnqueueKeeps, DisableKeeps, EnableKeeps, StopWakesKeeps,
             StopForGoodKeeps DEF Next

LEMMA InvInit == Init => Inv
  <1> SUFFICES ASSUME Init PROVE Inv OBVIOUS
  <1>1. Types
    <2>1. scopes \in [Mutators -> 0 .. MaxNesting]
      BY BackgroundCompilerAssumption DEF Init
    <2>2. pc \in [Mutators \cup {Closer} -> Places] /\ task \in [TaskIds -> Stages]
      BY DEF Init, Places, Stages
    <2>3. running \in BOOLEAN /\ done \in BOOLEAN /\ pool_open \in BOOLEAN
      BY DEF Init
    <2> QED BY <2>1, <2>2, <2>3 DEF Types
  <1>2. OpenScopes = {}
    BY BackgroundCompilerAssumption DEF Init, OpenScopes
  <1>3. DepthIsExact
    BY <1>2, FS_EmptySet DEF Init, DepthIsExact
  <1> QED BY <1>1, <1>3 DEF Init, Inv, OneTask, QueueIsServed, StopHasOwner, ScopesAreQuiet

LEMMA Invariance == Spec => []Inv
  BY InvInit, InvNext, PTL DEF Spec

-----------------------------------------------------------------------------
\* The background compiler has one BackgroundCompilerTask unless done_ is set,
\* which serves the queue, and a mutator that enqueues finds it running or done.
THEOREM TaskIsUnique == Spec => []OneTaskServes
  <1>1. Inv => OneTaskServes
    <2> SUFFICES ASSUME Inv PROVE OneTaskServes OBVIOUS
    <2>1. Cardinality({k \in TaskIds : task[k] # "free"}) = IF done THEN 0 ELSE 1
      <3>1. CASE done
        <4>1. {k \in TaskIds : task[k] # "free"} = {}
          BY <3>1 DEF Inv, OneTask
        <4> QED BY <3>1, <4>1, FS_EmptySet
      <3>2. CASE ~done
        <4>1. PICK k \in TaskIds : {l \in TaskIds : task[l] # "free"} = {k}
          BY <3>2 DEF Inv, OneTask
        <4> QED BY <3>2, <4>1, FS_Singleton
      <3> QED BY <3>1, <3>2
    <2>2. disabled_depth = 0 /\ (\E t \in Mutators : pc[t] = "dart") => running \/ done
      BY EnabledMeansNoScope DEF Inv, StopHasOwner, MutatorsGone
    <2> QED BY <2>1, <2>2 DEF OneTaskServes, Inv, QueueIsServed
  <1> QED BY <1>1, Invariance, PTL

\* No task of the background compiler is alive while a thread is inside a
\* NoBackgroundCompilerScope, nested ones included, or after the final Stop.
THEOREM ScopesHaveNoTask == Spec => []DisabledIsQuiet
  <1>1. Inv => DisabledIsQuiet
    BY DEF Inv, ScopesAreQuiet, OneTask, DisabledIsQuiet
  <1> QED BY <1>1, Invariance, PTL
=============================================================================
