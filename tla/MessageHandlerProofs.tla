------------------------ MODULE MessageHandlerProofs ------------------------
(***************************************************************************)
(* A message handler has one task, which leaves nothing behind that it     *)
(* should have done; control messages come first; and the handler is       *)
(* deleted once and not used afterwards, for any messages, ports and       *)
(* handlers.                                                               *)
(***************************************************************************)
EXTENDS MessageHandler, FiniteSetTheorems, WellFoundedInduction, TLAPS

-----------------------------------------------------------------------------
(* The inductive invariant *)

\* Where the handler's thread is in no call of HandleMessages.
Outside == {"new", "idle", "notify_start", "notify_exit", "resume", "main", "exit",
            "shutdown", "close_all", "delete", "gone"}

\* Where it is on its way out.
Ending == {"shutdown", "close_all", "delete", "gone"}

\* A call of HandleMessages has been interrupted by another.
Nested == Len(frames) = 2

below == frames[2]

Contents(q) == {q[i] : i \in 1..Len(q)}

Types == TypeOK /\ IsFiniteSet(resume_caps)

\* Each frame is of a call that the code makes: TaskCallback's normal call and
\* HandleNextMessage let events through, the others do not.
FrameOK(f) ==
  /\ f.caller \in {"start", "paused_exit", "exit", "interrupt"} => ~f.normal
  /\ f.caller \in {"start", "paused_exit", "exit"} => IsIsolate
  /\ f.caller \in {"start", "paused_exit", "exit", "main"} => OnPool
  /\ f.caller = "next" => ~OnPool
  /\ f.caller = "main" => f.normal /\ f.multiple
  /\ ~IsIsolate => f.max = kOK /\ f.status = kOK

\* Only code that handles an event is interrupted.
FramesOK ==
  /\ frames = <<>> <=> pc \in Outside
  /\ Nested => frames # <<>>
  /\ frames # <<>> => FrameOK(top)
  /\ frames # <<>> /\ ~Nested => top.caller # "interrupt"
  /\ Nested => /\ top.caller = "interrupt" /\ IsIsolate
               /\ FrameOK(below) /\ below.caller \in {"main", "next"}
               /\ below.msg # None /\ IsEvent(below.msg)
  /\ pc = "handle" => top.msg # None /\ (top.oob => ~IsEvent(top.msg))
  /\ pc = "running" => /\ ~Nested /\ top.caller \in {"main", "next"}
                       /\ top.msg # None /\ IsEvent(top.msg)

\* A poster has the mutex, and its port stays open until it gives the mutex up.
PostsOK ==
  \A m \in Messages :
    /\ post[m] \in {"found", "queued"} => mutex = m /\ ports[Dest[m]] = "open"
    /\ post[m] = "posted" => ports[Dest[m]] # "unborn"
    /\ post[m] # "new" => m \in handler.messages

Sent(m) == m \in handler.messages /\ post[m] \in {"queued", "posted"}

\* What is in the queues and in the frames has been posted.
MessagesOK ==
  /\ \A m \in Contents(queue) : Sent(m)
  /\ \A m \in Contents(oob_queue) : Sent(m) /\ ~IsEvent(m)
  /\ frames # <<>> /\ top.msg # None => Sent(top.msg)
  /\ Nested => Sent(below.msg)

\* pool_ is set while the handler is on the pool, and task_running_ while a task
\* waits or runs.
TasksOK ==
  /\ pool <=> OnPool /\ pc \notin {"new"} \cup Ending
  /\ task_running => pool
  /\ InTask => task_running /\ tasks = 0
  /\ ~InTask /\ task_running => tasks = 1
  /\ ~task_running => tasks = 0
  /\ pc \in {"shutdown", "close_all", "notify_start", "notify_exit"} => IsIsolate
  /\ pc \in {"notify_start", "notify_exit", "resume", "main", "exit"} => OnPool
  /\ ~IsIsolate => OnPool /\ status = kOK

\* Where the isolate may be paused on start or on exit.
PausesOK ==
  /\ is_paused_on_start =>
       \/ pc = "idle" /\ IsIsolate /\ should_pause_on_start
       \/ frames # <<>> /\ top.caller = "start"
  /\ is_paused_on_exit =>
       /\ IsIsolate
       /\ \/ pc \in {"idle", "notify_start", "resume"}
          \/ frames # <<>> /\ top.caller \in {"start", "paused_exit", "exit"}
  /\ is_paused_on_start \/ is_paused_on_exit => OnPool
  /\ frames # <<>> => /\ top.caller = "start" => is_paused_on_start
                      /\ top.caller \in {"paused_exit", "exit"} => is_paused_on_exit

\* A call of HandleMessages that returns leaves no control message, and the normal
\* call of TaskCallback no event either unless the isolate is paused; the monitor
\* is kept until the task has ended.
LeftOK ==
  /\ pc = "return" => oob_queue = <<>>
  /\ pc = "return" /\ top.caller = "main" /\ top.max = kOK => queue = <<>> \/ paused > 0
  /\ pc = "exit" /\ status = kOK => oob_queue = <<>> /\ (queue = <<>> \/ paused > 0)
  /\ pool /\ ~task_running =>
       /\ oob_queue = <<>>
       /\ queue = <<>> \/ paused > 0 \/ is_paused_on_start \/ is_paused_on_exit
       /\ KeepAlive \/ is_paused_on_start \/ is_paused_on_exit

\* Before a kill that is to come before the next event there is no event.
Lead(q) ==
  \A i \in 1..Len(q) :
    Type[q[i]] = "kill_before" => \A j \in 1..i : ~IsEvent(q[j])

\* An event is taken only where it may be handled.
EventOK ==
  /\ Lead(queue)
  /\ pc = "handle" /\ IsEvent(top.msg) =>
       /\ top.caller \in {"main", "next"} /\ paused = 0
       /\ \A m \in Contents(queue) : Type[m] # "kill_before"

NoOpenPort == \A p \in Ports : ports[p] # "open"

\* How far the deletion is.  Only a native port's handler is deleted by the thread
\* that closes the port.
DeletionOK ==
  /\ IsIsolate =>
       /\ closer = "open" /\ ~delete_me
       /\ pc \in {"close_all", "delete", "gone"} => NoOpenPort
       /\ pc = "gone" => deleted = 1
       /\ pc # "gone" => deleted = 0
  /\ ~IsIsolate =>
       /\ closer # "open" => NoOpenPort /\ pc # "new"
       /\ delete_me => closer = "done"
       /\ closer \in {"open", "closed"} => deleted = 0 /\ pc \notin Ending
       /\ closer = "delete" => deleted = 0 /\ pc = "idle" /\ ~task_running
       /\ closer = "done" /\ ~delete_me => deleted = 1 /\ pc = "idle" /\ ~task_running
       /\ delete_me => /\ task_running \/ pc \in {"delete", "gone"}
                       /\ pc = "gone" => deleted = 1
                       /\ pc # "gone" => deleted = 0

IInv ==
  /\ Types /\ FramesOK /\ PostsOK /\ MessagesOK /\ TasksOK /\ PausesOK /\ LeftOK
  /\ EventOK /\ DeletionOK

-----------------------------------------------------------------------------
(* Queues *)

USE ZenonT(30)

LEMMA LeastNat ==
  ASSUME NEW S, S \subseteq Nat, S # {}
  PROVE  \E x \in S : \A y \in S : x <= y
<1> DEFINE R == OpToRel(<, Nat)
<1>1. IsWellFoundedOn(R, Nat)
  BY NatLessThanWellFounded
<1> HIDE DEF R
<1>2. PICK x \in S : \A y \in S : ~(<<y, x>> \in R)
  BY <1>1, WFMin
<1>3. \A y \in S : ~(<<y, x>> \in R) => x <= y
  BY SMT DEF R, OpToRel
<1> QED BY <1>2, <1>3

LEMMA EmptyQueue == Contents(<<>>) = {} /\ Lead(<<>>)
  BY SMT DEF Contents, Lead

LEMMA QueueMembers ==
  ASSUME NEW q \in Seq(Messages) PROVE Contents(q) \subseteq Messages
  BY SMT DEF Contents

LEMMA AppendContents ==
  ASSUME NEW q \in Seq(Messages), NEW m \in Messages
  PROVE  /\ Append(q, m) \in Seq(Messages) /\ Append(q, m) # <<>>
         /\ Contents(Append(q, m)) = Contents(q) \cup {m}
<1> DEFINE a == Append(q, m)
<1>1. /\ a \in Seq(Messages) /\ Len(a) = Len(q) + 1 /\ a[Len(q) + 1] = m
      /\ \A i \in 1..Len(q) : a[i] = q[i]
  BY SMT
<1>2. Len(q) \in Nat
  BY SMT
<1> HIDE DEF a
<1>3. Contents(a) = Contents(q) \cup {m}
  BY <1>1, <1>2, SMT DEF Contents
<1>4. a # <<>>
  BY <1>1, <1>2, SMT
<1> QED BY <1>1, <1>3, <1>4 DEF a

\* An event or a kill as an event goes to the end.
LEMMA AppendLeads ==
  ASSUME NEW q \in Seq(Messages), NEW m \in Messages, Type[m] # "kill_before", Lead(q)
  PROVE  Lead(Append(q, m))
  BY SMT DEF Lead

LEMMA TailContents ==
  ASSUME NEW q \in Seq(Messages), q # <<>>
  PROVE  /\ Tail(q) \in Seq(Messages) /\ Head(q) \in Messages
         /\ Head(q) \in Contents(q) /\ Contents(Tail(q)) \subseteq Contents(q)
  BY SMT DEF Contents

LEMMA TailLeads ==
  ASSUME NEW q \in Seq(Messages), q # <<>>, Lead(q)
  PROVE  /\ Lead(Tail(q))
         /\ IsEvent(Head(q)) => \A m \in Contents(q) : Type[m] # "kill_before"
<1>1. Lead(Tail(q))
  BY SMT DEF Lead
<1>2. ASSUME IsEvent(Head(q)), NEW i \in 1..Len(q) PROVE Type[q[i]] # "kill_before"
  BY <1>2, SMT DEF Lead
<1> QED BY <1>1, <1>2 DEF Contents

LEMMA CountUpTo ==
  ASSUME NEW n \in Nat PROVE Cardinality(1..n) = n
<1>1. 1 \in Int /\ n \in Int
  BY SMT
<1>2. Cardinality(1..n) = IF 1 > n THEN 0 ELSE n - 1 + 1
  BY <1>1, FS_Interval
<1> QED BY <1>2, SMT

\* The messages that EnqueueBefore goes past are the delayed control messages at
\* the head of the queue, all of them and no other.
LEMMA LeadingIsExact ==
  ASSUME NEW q \in Seq(Messages)
  PROVE  /\ Leading(q) \in 0..Len(q)
         /\ \A i \in 1..Leading(q) : ~IsEvent(q[i])
         /\ Leading(q) < Len(q) => IsEvent(q[Leading(q) + 1])
<1> DEFINE events == {i \in 1..Len(q) : IsEvent(q[i])}
           ahead == {i \in 1..Len(q) : \A j \in 1..i : IllegalPort(q[j])}
<1>0. Leading(q) = Cardinality(ahead) /\ Len(q) \in Nat
  BY SMT DEF Leading
<1>1. CASE events = {}
  <2>1. \A i \in 1..Len(q) : ~IsEvent(q[i])
    BY <1>1
  <2>2. ahead = 1..Len(q)
    BY <2>1, <1>0, SMT DEF IllegalPort
  <2>3. Cardinality(1..Len(q)) = Len(q)
    BY <1>0, CountUpTo
  <2> HIDE DEF ahead, events
  <2>4. Leading(q) = Len(q)
    BY <1>0, <2>2, <2>3
  <2> QED BY <1>0, <2>1, <2>4, SMT
<1>2. CASE events # {}
  <2>1. events \subseteq Nat
    BY SMT
  <2>2. PICK x \in events : \A y \in events : x <= y
    BY <1>2, <2>1, LeastNat
  <2>3. x \in 1..Len(q) /\ IsEvent(q[x])
    BY <2>2
  <2>4. \A i \in 1..(x - 1) : ~IsEvent(q[i])
    BY <2>2, <2>3, <1>0, SMT
  <2>5. ahead = 1..(x - 1)
    BY <2>3, <2>4, <1>0, SMT DEF IllegalPort
  <2>6. Cardinality(1..(x - 1)) = x - 1
    <3>1. x - 1 \in Nat BY <2>3, <1>0, SMT
    <3> QED BY <3>1, CountUpTo
  <2> HIDE DEF ahead, events
  <2>7. Leading(q) = x - 1
    BY <1>0, <2>5, <2>6
  <2> QED BY <1>0, <2>3, <2>4, <2>7, SMT
<1> QED BY <1>1, <1>2

LEMMA SubSeqFacts ==
  ASSUME NEW q \in Seq(Messages), NEW a \in Nat, NEW c \in Nat,
         1 <= a, a <= c + 1, c <= Len(q)
  PROVE  /\ SubSeq(q, a, c) \in Seq(Messages)
         /\ Len(SubSeq(q, a, c)) = c + 1 - a
         /\ \A i \in 1..(c + 1 - a) : SubSeq(q, a, c)[i] = q[a + i - 1]
  BY SMT

LEMMA ConcatFacts ==
  ASSUME NEW q \in Seq(Messages), NEW r \in Seq(Messages)
  PROVE  /\ q \o r \in Seq(Messages) /\ Len(q \o r) = Len(q) + Len(r)
         /\ \A i \in 1..Len(q) : (q \o r)[i] = q[i]
         /\ \A i \in 1..Len(r) : (q \o r)[Len(q) + i] = r[i]
  BY SMT

\* A kill before the next event is put ahead of all events, and nothing is lost.
LEMMA EnqueueBeforeLeads ==
  ASSUME NEW q \in Seq(Messages), NEW m \in Messages, ~IsEvent(m), Lead(q)
  PROVE  /\ EnqueueBefore(q, m) \in Seq(Messages)
         /\ Contents(EnqueueBefore(q, m)) = Contents(q) \cup {m}
         /\ Lead(EnqueueBefore(q, m))
<1> DEFINE l == Leading(q)
           b == EnqueueBefore(q, m)
<1>1. l \in 0..Len(q) /\ Len(q) \in Nat
  BY LeadingIsExact, SMT
<1>2. /\ \A i \in 1..l : ~IsEvent(q[i])
      /\ l < Len(q) => IsEvent(q[l + 1])
  BY LeadingIsExact
<1>3. /\ b \in Seq(Messages) /\ Len(b) = Len(q) + 1 /\ b[l + 1] = m
      /\ \A i \in 1..l : b[i] = q[i]
      /\ \A i \in (l + 1)..Len(q) : b[i + 1] = q[i]
  <2> DEFINE s == SubSeq(q, 1, l)
             r == SubSeq(q, l + 1, Len(q))
             n == Len(q)
  <2>1. b = s \o <<m>> \o r /\ Len(q) = n
    BY DEF EnqueueBefore
  <2> HIDE DEF l
  <2>2. s \in Seq(Messages) /\ Len(s) = l /\ \A i \in 1..l : s[i] = q[i]
    BY <1>1, SubSeqFacts, SMT
  <2>3. /\ r \in Seq(Messages) /\ Len(r) = n - l
        /\ \A i \in 1..(n - l) : r[i] = q[l + 1 + i - 1]
    BY <1>1, SubSeqFacts, SMT
  <2>4. <<m>> \in Seq(Messages) /\ Len(<<m>>) = 1 /\ <<m>>[1] = m
    BY SMT
  <2> HIDE DEF s, r, b, n
  <2>5. /\ s \o <<m>> \in Seq(Messages) /\ Len(s \o <<m>>) = l + 1
        /\ \A i \in 1..l : (s \o <<m>>)[i] = q[i]
        /\ (s \o <<m>>)[l + 1] = m
    <3> DEFINE e == <<m>>
    <3>1. e \in Seq(Messages) /\ Len(e) = 1 /\ e[1] = m
      BY <2>4
    <3> HIDE DEF e
    <3>2. 1 \in 1..Len(e) BY <3>1, SMT
    <3>3. s \in Seq(Messages) /\ Len(s) = l
      BY <2>2
    <3>4. s \o e \in Seq(Messages) /\ Len(s \o e) = Len(s) + Len(e)
      BY <3>1, <3>3, ConcatFacts
    <3>5. \A i \in 1..Len(s) : (s \o e)[i] = s[i]
      BY <3>1, <3>3, ConcatFacts
    <3>6. (s \o e)[Len(s) + 1] = e[1]
      BY <3>1, <3>2, <3>3, ConcatFacts
    <3>7. s \o e \in Seq(Messages) /\ Len(s \o e) = l + 1 /\ (s \o e)[l + 1] = m
      BY <3>1, <3>3, <3>4, <3>6
    <3>8. \A i \in 1..l : (s \o e)[i] = q[i]
      BY <2>2, <3>5
    <3> QED BY <3>7, <3>8 DEF e
  <2>6. /\ b \in Seq(Messages) /\ Len(b) = l + 1 + (n - l)
        /\ \A i \in 1..(l + 1) : b[i] = (s \o <<m>>)[i]
        /\ \A i \in 1..(n - l) : b[l + 1 + i] = r[i]
    <3> DEFINE t == s \o <<m>>
    <3>1. b = t \o r /\ t \in Seq(Messages) /\ Len(t) = l + 1
      BY <2>1, <2>5
    <3> HIDE DEF t
    <3>2. /\ t \o r \in Seq(Messages) /\ Len(t \o r) = Len(t) + Len(r)
          /\ \A i \in 1..Len(t) : (t \o r)[i] = t[i]
          /\ \A i \in 1..Len(r) : (t \o r)[Len(t) + i] = r[i]
      BY <3>1, <2>3, ConcatFacts
    <3>3. /\ b \in Seq(Messages) /\ Len(b) = l + 1 + (n - l)
          /\ \A i \in 1..(l + 1) : b[i] = t[i]
          /\ \A i \in 1..(n - l) : b[l + 1 + i] = r[i]
      BY <3>1, <3>2, <2>3
    <3> QED BY <3>3 DEF t
  <2>7. n \in Nat /\ l \in 0..n
    BY <1>1, <2>1
  <2>8. /\ Len(b) = n + 1 /\ b[l + 1] = m
        /\ \A i \in 1..l : b[i] = q[i]
    BY <2>5, <2>6, <2>7, SMT
  <2>9. ASSUME NEW i \in (l + 1)..n PROVE b[i + 1] = q[i]
    <3>1. i - l \in 1..(n - l) /\ l + 1 + (i - l) = i + 1 /\ l + 1 + (i - l) - 1 = i
      BY <2>7, SMT
    <3>2. b[l + 1 + (i - l)] = r[i - l]
      BY <2>6, <3>1
    <3>3. r[i - l] = q[l + 1 + (i - l) - 1]
      BY <2>3, <3>1
    <3> QED BY <3>1, <3>2, <3>3
  <2> QED BY <2>1, <2>6, <2>8, <2>9
<1> HIDE DEF l, b
<1>4. \A i \in 1..Len(q) : Type[q[i]] = "kill_before" => i <= l
  BY <1>1, <1>2, SMT DEF Lead
<1>5. Contents(b) = Contents(q) \cup {m}
  <2>1. \A i \in 1..Len(q) : \E j \in 1..Len(b) : b[j] = q[i]
    <3> TAKE i \in 1..Len(q)
    <3>1. CASE i <= l BY <1>1, <1>3, <3>1, SMT
    <3>2. CASE i > l
      <4>1. i + 1 \in 1..Len(b) /\ b[i + 1] = q[i]
        BY <1>1, <1>3, <3>2, SMT
      <4> QED BY <4>1
    <3> QED BY <1>1, <3>1, <3>2, SMT
  <2>2. l + 1 \in 1..Len(b) /\ b[l + 1] = m
    BY <1>1, <1>3, SMT
  <2>3. \A j \in 1..Len(b) : b[j] = m \/ \E i \in 1..Len(q) : b[j] = q[i]
    <3> TAKE j \in 1..Len(b)
    <3>1. CASE j <= l BY <1>1, <1>3, <3>1, SMT
    <3>2. CASE j = l + 1 BY <3>2, <1>3
    <3>3. CASE j > l + 1
      <4>1. j - 1 \in (l + 1)..Len(q) /\ j - 1 \in 1..Len(q) /\ (j - 1) + 1 = j
        BY <1>1, <1>3, <3>3, SMT
      <4>2. b[(j - 1) + 1] = q[j - 1]
        BY <1>3, <4>1
      <4> QED BY <4>1, <4>2
    <3> QED BY <1>1, <3>1, <3>2, <3>3, SMT
  <2>4. \A x : x \in Contents(b) => x \in Contents(q) \/ x = m
    BY <2>3 DEF Contents
  <2>5. \A x : x \in Contents(q) => x \in Contents(b)
    BY <2>1 DEF Contents
  <2>6. m \in Contents(b)
    BY <2>2 DEF Contents
  <2> QED BY <2>4, <2>5, <2>6
<1>6. Lead(b)
  <2> SUFFICES ASSUME NEW i \in 1..Len(b), Type[b[i]] = "kill_before", NEW j \in 1..i
               PROVE  ~IsEvent(b[j])
    BY DEF Lead
  <2>1. i <= l + 1
    <3> SUFFICES ASSUME i > l + 1 PROVE FALSE BY <1>1, SMT
    <3>1. i - 1 \in (l + 1)..Len(q) /\ i - 1 \in 1..Len(q) /\ (i - 1) + 1 = i
      BY <1>1, <1>3, SMT
    <3>2. b[i] = q[i - 1]
      BY <1>3, <3>1
    <3> QED BY <1>1, <1>4, <3>1, <3>2, SMT
  <2>2. j \in 1..l \/ j = l + 1
    BY <1>1, <2>1, SMT
  <2> QED BY <1>2, <1>3, <2>2
<1> QED BY <1>3, <1>5, <1>6 DEF b

-----------------------------------------------------------------------------
(* Calls of HandleMessages *)

LEMMA StatusFacts ==
  kOK \in Statuses /\ kError \in Statuses /\ kShutdown \in Statuses /\ kShutdown # kOK /\ kError # kOK
  BY SMT DEF Statuses, kOK, kError, kShutdown

LEMMA HandlerFacts ==
  ASSUME handler \in Handlers
  PROVE  /\ handler.messages \subseteq Messages
         /\ IsIsolate \in BOOLEAN /\ OnPool \in BOOLEAN
         /\ ~IsIsolate => OnPool /\ \A m \in handler.messages : Type[m] = "event"
<1>1. handler \in HandlerSet
  BY HandlerAssumption
<1>2. /\ handler.messages \in SUBSET Messages
      /\ handler.isolate \in BOOLEAN /\ handler.pool \in BOOLEAN
  BY <1>1, SMT DEF HandlerSet
<1> QED BY <1>2, HandlerAssumption DEF IsIsolate, OnPool

LEMMA FrameTypes ==
  ASSUME NEW f \in Frames
  PROVE  /\ f.caller \in Callers /\ f.normal \in BOOLEAN /\ f.multiple \in BOOLEAN
         /\ f.max \in Statuses /\ f.msg \in Messages \cup {None} /\ f.oob \in BOOLEAN
         /\ f.status \in Statuses
  BY SMT DEF Frames

LEMMA LenFacts ==
  ASSUME NEW S, NEW s \in Seq(S), Len(s) <= 2
  PROVE  /\ Len(s) = 0 \/ Len(s) = 1 \/ Len(s) = 2
         /\ s = <<>> <=> Len(s) = 0
<1>1. Len(s) \in Nat
  BY SMT
<1>2. \A n \in Nat : n <= 2 => n = 0 \/ n = 1 \/ n = 2
  BY SMT
<1>3. s = <<>> <=> Len(s) = 0
  BY SMT
<1> QED BY <1>1, <1>2, <1>3

LEMMA SmallNumbers == 0 # 1 /\ 0 # 2 /\ 1 # 2 /\ 0 + 1 = 1 /\ 1 + 1 = 2 /\ 1 <= 2 /\ 2 <= 2
                      /\ 0 <= 2 /\ 1 - 1 = 0 /\ 2 - 1 = 1
  BY SMT

LEMMA TopTypes ==
  ASSUME frames \in Seq(Frames), Len(frames) <= 2
  PROVE  /\ frames # <<>> => top \in Frames
         /\ Nested => frames # <<>> /\ below \in Frames
<1>1. Len(frames) \in Nat /\ \A i \in 1..Len(frames) : frames[i] \in Frames
  BY SMT
<1>2. frames # <<>> => Len(frames) # 0
  BY SMT
<1>3. Nested => frames # <<>>
  BY LenFacts, SmallNumbers DEF Nested
<1> QED BY <1>1, <1>2, <1>3, SMT DEF top, below, Nested

\* A call puts a frame on top.
LEMMA CallFrame ==
  ASSUME frames \in Seq(Frames), Len(frames) <= 2, ~Nested,
         NEW c \in Callers, NEW n \in BOOLEAN, NEW k \in BOOLEAN, Call(c, n, k)
  PROVE  /\ frames' \in Seq(Frames) /\ Len(frames') <= 2 /\ frames' # <<>>
         /\ top'.caller = c /\ top'.normal = n /\ top'.multiple = k
         /\ top'.max = kOK /\ top'.msg = None /\ top'.oob = FALSE /\ top'.status = kOK
         /\ Nested' <=> frames # <<>>
         /\ Nested' => below' = top
         /\ pc' = "enter"
<1> DEFINE f == [caller |-> c, normal |-> n, multiple |-> k,
                 max |-> kOK, msg |-> None, oob |-> FALSE, status |-> kOK]
<1>1. frames' = <<f>> \o frames /\ pc' = "enter"
  BY DEF Call
<1>2. f \in Frames
  BY StatusFacts, SMT DEF Frames
<1>3. /\ f.caller = c /\ f.normal = n /\ f.multiple = k
      /\ f.max = kOK /\ f.msg = None /\ f.oob = FALSE /\ f.status = kOK
  BY SMT
<1> HIDE DEF f
<1>4. Len(frames) = 0 \/ Len(frames) = 1
  BY LenFacts DEF Nested
<1>5. /\ frames' \in Seq(Frames) /\ Len(frames') = Len(frames) + 1
      /\ frames'[1] = f /\ (Len(frames) = 1 => frames'[2] = frames[1])
  BY <1>1, <1>2, <1>4, SMT
<1>6. frames = <<>> <=> Len(frames) = 0
  BY LenFacts
<1>7. Len(frames') <= 2
  BY <1>4, <1>5, SmallNumbers
<1>8. frames' # <<>>
  BY <1>4, <1>5, <1>7, LenFacts, SmallNumbers
<1>9. Nested' <=> frames # <<>>
  BY <1>4, <1>5, <1>6, SmallNumbers DEF Nested
<1>10. Nested' => below' = top
  BY <1>4, <1>5, SmallNumbers DEF Nested, below, top
<1>11. top' = f
  BY <1>5 DEF top
<1> QED BY <1>1, <1>3, <1>5, <1>7, <1>8, <1>9, <1>10, <1>11

\* The frame on top changes.
LEMMA SetFrame ==
  ASSUME frames \in Seq(Frames), Len(frames) <= 2, frames # <<>>,
         NEW f \in Frames, frames' = [frames EXCEPT ![1] = f]
  PROVE  /\ frames' \in Seq(Frames) /\ Len(frames') <= 2 /\ frames' # <<>>
         /\ top' = f /\ (Nested' <=> Nested) /\ (Nested' => below' = below)
<1>1. Len(frames) \in Nat /\ Len(frames) # 0
  BY SMT
<1>2. /\ frames' \in Seq(Frames) /\ Len(frames') = Len(frames) /\ frames'[1] = f
      /\ Len(frames) = 2 => frames'[2] = frames[2]
  BY <1>1, SMT
<1>3. frames' # <<>>
  BY <1>1, <1>2, SMT
<1> QED BY <1>2, <1>3 DEF top, below, Nested

\* HandleMessage returns.
LEMMA ReturnsFrame ==
  ASSUME frames \in Seq(Frames), Len(frames) <= 2, frames # <<>>,
         NEW s \in Statuses, HandleReturns(s)
  PROVE  /\ frames' \in Seq(Frames) /\ Len(frames') <= 2 /\ frames' # <<>>
         /\ top'.caller = top.caller /\ top'.normal = top.normal
         /\ top'.multiple = top.multiple /\ top'.max = top.max /\ top'.msg = top.msg
         /\ top'.oob = top.oob /\ top'.status = s
         /\ (Nested' <=> Nested) /\ (Nested' => below' = below)
         /\ pc' = "handled"
<1> DEFINE f == [top EXCEPT !.status = s]
<1>1. top \in Frames
  BY TopTypes
<1>2. f \in Frames
  BY <1>1, SMT DEF Frames
<1>3. /\ f.caller = top.caller /\ f.normal = top.normal
      /\ f.multiple = top.multiple /\ f.max = top.max /\ f.msg = top.msg
      /\ f.oob = top.oob /\ f.status = s
  BY <1>1, SMT DEF Frames
<1>4. frames' = [frames EXCEPT ![1] = f] /\ pc' = "handled"
  BY DEF HandleReturns, top
<1> HIDE DEF f
<1>5. /\ frames' \in Seq(Frames) /\ Len(frames') <= 2 /\ frames' # <<>>
      /\ top' = f /\ (Nested' <=> Nested) /\ (Nested' => below' = below)
  BY <1>2, <1>4, SetFrame
<1> QED BY <1>3, <1>4, <1>5

\* A call of HandleMessages returns.
LEMMA PopFrame ==
  ASSUME frames \in Seq(Frames), Len(frames) <= 2, frames # <<>>
  PROVE  /\ Tail(frames) \in Seq(Frames) /\ Len(Tail(frames)) <= 2
         /\ Len(Tail(frames)) # 2
         /\ Tail(frames) = <<>> <=> ~Nested
         /\ Nested => Tail(frames)[1] = below
<1>1. Len(frames) = 1 \/ Len(frames) = 2
  BY LenFacts
<1>2. Tail(frames) \in Seq(Frames) /\ Len(Tail(frames)) = Len(frames) - 1
  BY SMT
<1>3. Len(frames) = 2 => Tail(frames)[1] = frames[2]
  BY SMT
<1>4. Len(Tail(frames)) <= 2 /\ Len(Tail(frames)) # 2
  BY <1>1, <1>2, SmallNumbers
<1>5. Tail(frames) = <<>> <=> Len(Tail(frames)) = 0
  BY <1>2, <1>4, LenFacts
<1>6. Tail(frames) = <<>> <=> ~Nested
  BY <1>1, <1>2, <1>5, SmallNumbers DEF Nested
<1> QED BY <1>2, <1>3, <1>4, <1>6 DEF Nested, below

-----------------------------------------------------------------------------
(* HandleMessage returns *)

\* Inside a call of HandleMessages.
Inside == {"enter", "handle", "running", "handled", "return"}

LEMMA TypeFacts ==
  ASSUME IInv
  PROVE  /\ handler \in Handlers /\ frames \in Seq(Frames) /\ Len(frames) <= 2
         /\ queue \in Seq(Messages) /\ oob_queue \in Seq(Messages)
         /\ status \in Statuses /\ remembered \in Statuses
         /\ tasks \in Nat /\ callbacks \in Nat /\ deleted \in Nat
         /\ frames # <<>> => top \in Frames
         /\ Nested => below \in Frames
<1>1. /\ handler \in Handlers /\ frames \in Seq(Frames) /\ Len(frames) <= 2
      /\ queue \in Seq(Messages) /\ oob_queue \in Seq(Messages)
      /\ status \in Statuses /\ remembered \in Statuses
      /\ tasks \in Nat /\ callbacks \in Nat /\ deleted \in Nat
  BY DEF IInv, Types, TypeOK
<1> QED BY <1>1, TopTypes

LEMMA Booleans ==
  ASSUME IInv
  PROVE  /\ should_pause_on_start \in BOOLEAN /\ should_pause_on_exit \in BOOLEAN
         /\ is_paused_on_start \in BOOLEAN /\ is_paused_on_exit \in BOOLEAN
         /\ task_running \in BOOLEAN /\ delete_me \in BOOLEAN
         /\ pool \in BOOLEAN /\ interrupt \in BOOLEAN
  BY DEF IInv, Types, TypeOK

\* The thread is inside HandleMessages: the handler is in its task or without a
\* pool, and nobody but this thread ends it.
LEMMA InsideFacts ==
  ASSUME IInv, pc \in Inside
  PROVE  /\ frames # <<>> /\ top \in Frames
         /\ pool => task_running
         /\ ~IsIsolate => closer # "delete" /\ (closer = "done" => delete_me) /\ task_running
         /\ deleted = 0
<1>1. frames # <<>> /\ top \in Frames
  BY TypeFacts DEF IInv, FramesOK, Outside, Inside
<1>2. OnPool => InTask
  BY DEF InTask, Inside, Locked
<1>3. pool => task_running
  BY <1>2 DEF IInv, TasksOK
<1>4. ~IsIsolate => closer # "delete" /\ (closer = "done" => delete_me) /\ task_running
  BY <1>2 DEF IInv, TasksOK, DeletionOK, Inside
<1>5. deleted = 0
  BY <1>4, TypeFacts DEF IInv, DeletionOK, Inside, TypeOK, Types
<1> QED BY <1>1, <1>3, <1>4, <1>5

\* A step of the thread from inside HandleMessages to inside.
LEMMA StepInside ==
  ASSUME IInv, pc \in Inside, pc' \in Inside,
         UNCHANGED <<handler, ports, mutex, post, task_running, pool, tasks, status,
                     delete_me, closer, deleted>>
  PROVE  TasksOK' /\ DeletionOK' /\ PostsOK'
<1>1. InTask' <=> InTask
  BY DEF InTask, Inside, Locked, OnPool
<1>2. TasksOK'
  BY <1>1 DEF IInv, TasksOK, Inside, Ending, OnPool, IsIsolate
<1>3. DeletionOK'
  BY InsideFacts DEF IInv, DeletionOK, NoOpenPort, Inside, Ending, IsIsolate
<1>4. PostsOK'
  BY DEF IInv, PostsOK
<1> QED BY <1>2, <1>3, <1>4

LEMMA HandleMessageReturns ==
  ASSUME IInv, pc \in {"handle", "running"},
         NEW s \in Statuses, ~IsIsolate => s = kOK, HandleReturns(s),
         UNCHANGED <<handler, ports, mutex, post, oob_queue, is_paused_on_start,
                     is_paused_on_exit, task_running, pool, tasks, status, delete_me,
                     closer, deleted>>
  PROVE  /\ frames' \in Seq(Frames) /\ Len(frames') <= 2 /\ pc' = "handled"
         /\ FramesOK' /\ PostsOK' /\ TasksOK' /\ PausesOK' /\ LeftOK' /\ DeletionOK'
         /\ (\A m \in Contents(queue') : Sent(m)) => MessagesOK'
         /\ Lead(queue') => EventOK'
<1>0. pc \in Inside /\ frames # <<>> /\ (pool => task_running)
  BY InsideFacts DEF Inside
<1>1. /\ frames' \in Seq(Frames) /\ Len(frames') <= 2 /\ frames' # <<>>
      /\ top'.caller = top.caller /\ top'.normal = top.normal
      /\ top'.multiple = top.multiple /\ top'.max = top.max /\ top'.msg = top.msg
      /\ top'.oob = top.oob /\ top'.status = s
      /\ (Nested' <=> Nested) /\ (Nested' => below' = below)
      /\ pc' = "handled"
  BY <1>0, TypeFacts, ReturnsFrame
<1>2. FrameOK(top)' /\ (Nested => FrameOK(below)')
  <2>1. FrameOK(top) /\ (Nested => FrameOK(below))
    BY <1>0 DEF IInv, FramesOK
  <2>2. FrameOK(top)'
    BY <2>1, <1>1 DEF FrameOK, IsIsolate, OnPool
  <2> QED BY <2>1, <2>2, <1>1 DEF FrameOK, IsIsolate, OnPool
<1>3. FramesOK'
  BY <1>0, <1>1, <1>2 DEF IInv, FramesOK, Outside, IsIsolate, IsEvent
<1>4. PausesOK'
  BY <1>0, <1>1 DEF IInv, PausesOK, IsIsolate, OnPool
<1>5. LeftOK'
  BY <1>0, <1>1 DEF LeftOK
<1>6. TasksOK' /\ DeletionOK' /\ PostsOK'
  BY <1>0, <1>1, StepInside DEF Inside
<1>7. (\A m \in Contents(queue') : Sent(m)) => MessagesOK'
  BY <1>0, <1>1 DEF IInv, MessagesOK, Sent
<1>8. Lead(queue') => EventOK'
  BY <1>1 DEF EventOK
<1> QED BY <1>1, <1>3, <1>4, <1>5, <1>6, <1>7, <1>8

-----------------------------------------------------------------------------
(* HandleMessage *)

\* A native port's handler is only sent events.
LEMMA MessageFacts ==
  ASSUME IInv, pc \in {"handle", "running"}
  PROVE  /\ top.msg \in Messages /\ Sent(top.msg)
         /\ ~IsIsolate => Type[top.msg] = "event"
<1>1. frames # <<>>
  BY DEF IInv, FramesOK, Outside
<1>2. Sent(top.msg)
  BY <1>1 DEF IInv, MessagesOK, FramesOK
<1> QED BY <1>2, TypeFacts, HandlerFacts DEF Sent

LEMMA CapAdded ==
  ASSUME IInv, NEW c
  PROVE  LET caps == resume_caps \cup {c}
         IN  /\ IsFiniteSet(caps)
             /\ c \notin resume_caps => Cardinality(caps) = paused + 1
             /\ c \in resume_caps => Cardinality(caps) = paused
<1>1. IsFiniteSet(resume_caps) /\ paused = Cardinality(resume_caps)
  BY DEF IInv, Types, TypeOK
<1>2. c \in resume_caps => resume_caps \cup {c} = resume_caps
  OBVIOUS
<1>3. /\ IsFiniteSet(resume_caps \cup {c})
      /\ Cardinality(resume_caps \cup {c}) =
           IF c \in resume_caps THEN Cardinality(resume_caps) ELSE Cardinality(resume_caps) + 1
  BY <1>1, FS_AddElement
<1> QED BY <1>1, <1>2, <1>3

LEMMA CapRemoved ==
  ASSUME IInv, NEW c
  PROVE  LET caps == resume_caps \ {c}
         IN  /\ IsFiniteSet(caps)
             /\ c \in resume_caps => Cardinality(caps) = paused - 1
             /\ c \notin resume_caps => Cardinality(caps) = paused
<1>1. IsFiniteSet(resume_caps) /\ paused = Cardinality(resume_caps)
  BY DEF IInv, Types, TypeOK
<1>2. /\ IsFiniteSet(resume_caps \ {c})
      /\ Cardinality(resume_caps \ {c}) =
           IF c \in resume_caps THEN Cardinality(resume_caps) - 1 ELSE Cardinality(resume_caps)
  BY <1>1, FS_RemoveElement
<1> QED BY <1>1, <1>2

LEMMA HandlePauseKeeps ==
  ASSUME IInv, HandlePause PROVE IInv'
<1>1. /\ pc \in {"handle", "running"} /\ kOK \in Statuses
      /\ ~IsIsolate => kOK = kOK
      /\ HandleReturns(kOK)
      /\ UNCHANGED <<handler, ports, mutex, post, oob_queue, is_paused_on_start,
                  is_paused_on_exit, task_running, pool, tasks, status, delete_me,
                  closer, deleted>>
  BY StatusFacts, MessageFacts DEF HandlePause, map, queues, pauses, should, is, task, notes, close
<1>2. /\ frames' \in Seq(Frames) /\ Len(frames') <= 2 /\ pc' = "handled"
      /\ FramesOK' /\ PostsOK' /\ TasksOK' /\ PausesOK' /\ LeftOK' /\ DeletionOK'
      /\ (\A m \in Contents(queue') : Sent(m)) => MessagesOK'
      /\ Lead(queue') => EventOK'
  BY <1>1, HandleMessageReturns
<1>3. MessagesOK'
  BY <1>2 DEF HandlePause, IInv, MessagesOK, queues
<1>4. EventOK'
  BY <1>2 DEF HandlePause, IInv, EventOK, queues
<1>5. Types'
  <2>1. IsFiniteSet(resume_caps') /\ paused' = Cardinality(resume_caps')
    BY CapAdded DEF HandlePause
  <2> QED BY <1>1, <1>2, <2>1 DEF HandlePause, IInv, Types, TypeOK, map, queues, pauses, should, is, task, notes, close
<1> QED BY <1>2, <1>3, <1>4, <1>5 DEF IInv

LEMMA HandleResumeKeeps ==
  ASSUME IInv, HandleResume PROVE IInv'
<1>1. /\ pc \in {"handle", "running"} /\ kOK \in Statuses
      /\ ~IsIsolate => kOK = kOK
      /\ HandleReturns(kOK)
      /\ UNCHANGED <<handler, ports, mutex, post, oob_queue, is_paused_on_start,
                  is_paused_on_exit, task_running, pool, tasks, status, delete_me,
                  closer, deleted>>
  BY StatusFacts, MessageFacts DEF HandleResume, RemoveResumeCapability, map, queues, pauses, should, is, task, notes, close
<1>2. /\ frames' \in Seq(Frames) /\ Len(frames') <= 2 /\ pc' = "handled"
      /\ FramesOK' /\ PostsOK' /\ TasksOK' /\ PausesOK' /\ LeftOK' /\ DeletionOK'
      /\ (\A m \in Contents(queue') : Sent(m)) => MessagesOK'
      /\ Lead(queue') => EventOK'
  BY <1>1, HandleMessageReturns
<1>3. MessagesOK'
  BY <1>2 DEF HandleResume, RemoveResumeCapability, IInv, MessagesOK, queues
<1>4. EventOK'
  BY <1>2 DEF HandleResume, RemoveResumeCapability, IInv, EventOK, queues
<1>5. Types'
  <2>1. IsFiniteSet(resume_caps') /\ paused' = Cardinality(resume_caps')
    BY CapRemoved DEF HandleResume, RemoveResumeCapability
  <2> QED BY <1>1, <1>2, <2>1 DEF HandleResume, RemoveResumeCapability, IInv, Types, TypeOK, map, queues, pauses, should, is, task, notes, close
<1> QED BY <1>2, <1>3, <1>4, <1>5 DEF IInv

LEMMA HandleServiceResumeKeeps ==
  ASSUME IInv, HandleServiceResume PROVE IInv'
<1>1. /\ pc \in {"handle", "running"} /\ kOK \in Statuses
      /\ ~IsIsolate => kOK = kOK
      /\ HandleReturns(kOK)
      /\ UNCHANGED <<handler, ports, mutex, post, oob_queue, is_paused_on_start,
                  is_paused_on_exit, task_running, pool, tasks, status, delete_me,
                  closer, deleted>>
  BY StatusFacts, MessageFacts DEF HandleServiceResume, map, queues, pauses, should, is, task, notes, close
<1>2. /\ frames' \in Seq(Frames) /\ Len(frames') <= 2 /\ pc' = "handled"
      /\ FramesOK' /\ PostsOK' /\ TasksOK' /\ PausesOK' /\ LeftOK' /\ DeletionOK'
      /\ (\A m \in Contents(queue') : Sent(m)) => MessagesOK'
      /\ Lead(queue') => EventOK'
  BY <1>1, HandleMessageReturns
<1>3. MessagesOK'
  BY <1>2 DEF HandleServiceResume, IInv, MessagesOK, queues
<1>4. EventOK'
  BY <1>2 DEF HandleServiceResume, IInv, EventOK, queues
<1>5. Types'
  <2>1. should_pause_on_start' \in BOOLEAN /\ should_pause_on_exit' \in BOOLEAN
    BY Booleans DEF HandleServiceResume
  <2> QED BY <1>1, <1>2, <2>1 DEF HandleServiceResume, IInv, Types, TypeOK, map, queues, pauses, should, is, task, notes, close
<1> QED BY <1>2, <1>3, <1>4, <1>5 DEF IInv

LEMMA HandleKillKeeps ==
  ASSUME IInv, HandleKill PROVE IInv'
<1>1. /\ pc \in {"handle", "running"} /\ KillStatus(top.msg) \in Statuses
      /\ ~IsIsolate => KillStatus(top.msg) = kOK
      /\ HandleReturns(KillStatus(top.msg))
      /\ UNCHANGED <<handler, ports, mutex, post, oob_queue, is_paused_on_start,
                  is_paused_on_exit, task_running, pool, tasks, status, delete_me,
                  closer, deleted>>
  BY StatusFacts, MessageFacts DEF HandleKill, KillStatus, map, queues, pauses, should, is, task, notes, close
<1>2. /\ frames' \in Seq(Frames) /\ Len(frames') <= 2 /\ pc' = "handled"
      /\ FramesOK' /\ PostsOK' /\ TasksOK' /\ PausesOK' /\ LeftOK' /\ DeletionOK'
      /\ (\A m \in Contents(queue') : Sent(m)) => MessagesOK'
      /\ Lead(queue') => EventOK'
  BY <1>1, HandleMessageReturns
<1>3. MessagesOK'
  BY <1>2 DEF HandleKill, IInv, MessagesOK, queues
<1>4. EventOK'
  BY <1>2 DEF HandleKill, IInv, EventOK, queues
<1>5. Types'
  <2>1. handled' \subseteq Messages
    BY <1>1, MessageFacts DEF HandleKill, IInv, Types, TypeOK
  <2> QED BY <1>1, <1>2, <2>1 DEF HandleKill, IInv, Types, TypeOK, map, queues, pauses, should, is, task, notes, close
<1> QED BY <1>2, <1>3, <1>4, <1>5 DEF IInv

LEMMA DelayKillKeeps ==
  ASSUME IInv, DelayKill PROVE IInv'
<1>1. /\ pc \in {"handle", "running"} /\ kOK \in Statuses
      /\ ~IsIsolate => kOK = kOK
      /\ HandleReturns(kOK)
      /\ UNCHANGED <<handler, ports, mutex, post, oob_queue, is_paused_on_start,
                  is_paused_on_exit, task_running, pool, tasks, status, delete_me,
                  closer, deleted>>
  <2>1. UNCHANGED <<task_running, pool, tasks>>
    <3>1. pool => task_running
      BY InsideFacts DEF DelayKill, Inside
    <3> QED BY <3>1, Booleans DEF DelayKill, StartTask
  <2> QED BY <2>1, StatusFacts DEF DelayKill, map, queues, pauses, should, is, task, notes, close
<1>2. /\ frames' \in Seq(Frames) /\ Len(frames') <= 2 /\ pc' = "handled"
      /\ FramesOK' /\ PostsOK' /\ TasksOK' /\ PausesOK' /\ LeftOK' /\ DeletionOK'
      /\ (\A m \in Contents(queue') : Sent(m)) => MessagesOK'
      /\ Lead(queue') => EventOK'
  BY <1>1, HandleMessageReturns
<1>a. /\ top.msg \in Messages /\ Sent(top.msg) /\ ~IsEvent(top.msg)
      /\ queue \in Seq(Messages) /\ Lead(queue)
  BY <1>1, MessageFacts, TypeFacts DEF DelayKill, IsEvent, EventTypes, IInv, EventOK
<1>b. /\ queue' \in Seq(Messages) /\ Contents(queue') = Contents(queue) \cup {top.msg}
      /\ Lead(queue')
  BY <1>a, EnqueueBeforeLeads, AppendContents, AppendLeads DEF DelayKill
<1>3. MessagesOK'
  BY <1>2, <1>a, <1>b DEF IInv, MessagesOK
<1>4. EventOK'
  BY <1>2, <1>b
<1>5. Types'
  <2>1. callbacks' \in Nat
    <3>1. callbacks + 1 \in Nat
      BY TypeFacts, SMT
    <3> QED BY <3>1, TypeFacts DEF DelayKill, MessageNotify
  <2>2. interrupt' = interrupt
    BY DEF DelayKill, MessageNotify, ScheduleInterrupts
  <2> QED BY <1>1, <1>2, <1>b, <2>1, <2>2 DEF DelayKill, IInv, Types, TypeOK, map, queues, pauses, should, is, task, notes, close
<1> QED BY <1>2, <1>3, <1>4, <1>5 DEF IInv

LEMMA EventReturnsKeeps ==
  ASSUME IInv, EventReturns PROVE IInv'
<1>1. PICK s \in Statuses :
        /\ pc \in {"handle", "running"} /\ (~IsIsolate => s = kOK) /\ HandleReturns(s)
        /\ UNCHANGED <<handler, ports, mutex, post, oob_queue, is_paused_on_start,
                  is_paused_on_exit, task_running, pool, tasks, status, delete_me,
                  closer, deleted>>
  BY StatusFacts DEF EventReturns, map, queues, pauses, should, is, task, notes, close
<1>2. /\ frames' \in Seq(Frames) /\ Len(frames') <= 2 /\ pc' = "handled"
      /\ FramesOK' /\ PostsOK' /\ TasksOK' /\ PausesOK' /\ LeftOK' /\ DeletionOK'
      /\ (\A m \in Contents(queue') : Sent(m)) => MessagesOK'
      /\ Lead(queue') => EventOK'
  BY <1>1, HandleMessageReturns
<1>3. MessagesOK'
  BY <1>2 DEF EventReturns, IInv, MessagesOK, queues
<1>4. EventOK'
  BY <1>2 DEF EventReturns, IInv, EventOK, queues
<1>5. Types'
  BY <1>1, <1>2 DEF EventReturns, IInv, Types, TypeOK, map, queues, pauses, should, is, task, notes, close
<1> QED BY <1>2, <1>3, <1>4, <1>5 DEF IInv

LEMMA HandleEventKeeps ==
  ASSUME IInv, HandleEvent PROVE IInv'
<1>1. CASE Dropped(top.msg)
  <2>1. /\ pc \in {"handle", "running"} /\ HandleReturns(kOK) /\ kOK \in Statuses
        /\ UNCHANGED handled
        /\ UNCHANGED <<handler, ports, mutex, post, oob_queue, is_paused_on_start,
                    is_paused_on_exit, task_running, pool, tasks, status, delete_me,
                    closer, deleted>>
    BY <1>1, StatusFacts DEF HandleEvent, map, queues, pauses, should, is, task, notes, close
  <2>2. /\ frames' \in Seq(Frames) /\ Len(frames') <= 2 /\ pc' = "handled"
        /\ FramesOK' /\ PostsOK' /\ TasksOK' /\ PausesOK' /\ LeftOK' /\ DeletionOK'
        /\ (\A m \in Contents(queue') : Sent(m)) => MessagesOK'
        /\ Lead(queue') => EventOK'
    BY <2>1, HandleMessageReturns
  <2>3. MessagesOK'
    BY <2>2 DEF HandleEvent, IInv, MessagesOK, queues
  <2>4. EventOK'
    BY <2>2 DEF HandleEvent, IInv, EventOK, queues
  <2>5. Types'
    BY <2>1, <2>2 DEF HandleEvent, IInv, Types, TypeOK, map, queues, pauses, should, is, task, notes, close
  <2> QED BY <2>2, <2>3, <2>4, <2>5 DEF IInv
<1>2. CASE ~Dropped(top.msg)
  <2>1. /\ pc = "handle" /\ pc' = "running" /\ IsEvent(top.msg)
        /\ handled' = handled \cup {top.msg}
        /\ UNCHANGED <<frames, handler, ports, mutex, post, queue, oob_queue,
             is_paused_on_start, is_paused_on_exit, task_running, pool, tasks, status,
             delete_me, closer, deleted, paused>>
    BY <1>2 DEF HandleEvent, map, queues, pauses, should, is, task, notes, close
  <2>2. /\ pc \in Inside /\ pc' \in Inside /\ frames # <<>> /\ (pool => task_running)
        /\ top' = top /\ below' = below /\ (Nested' <=> Nested)
    BY <2>1, InsideFacts DEF Inside, top, below, Nested
  <2>3. /\ top.caller \in {"main", "next"} /\ top.msg # None
    BY <2>1 DEF IInv, EventOK, FramesOK
  <2>4. FramesOK'
    <3>1. ~Nested
      BY <2>3 DEF IInv, FramesOK
    <3> QED BY <2>1, <2>2, <2>3, <3>1 DEF IInv, FramesOK, FrameOK, Outside, IsIsolate, OnPool, IsEvent
  <2>5. PausesOK' /\ LeftOK' /\ EventOK' /\ MessagesOK'
    BY <2>1, <2>2 DEF IInv, PausesOK, LeftOK, EventOK, MessagesOK, Sent, IsIsolate, OnPool
  <2>6. TasksOK' /\ DeletionOK' /\ PostsOK'
    BY <2>1, <2>2, StepInside
  <2>7. handled' \subseteq Messages
    BY <2>1, MessageFacts DEF IInv, Types, TypeOK
  <2>8. Types'
    BY <2>1, <2>7 DEF HandleEvent, IInv, Types, TypeOK, map, queues, pauses, should, is, task, notes, close
  <2> QED BY <2>4, <2>5, <2>6, <2>8 DEF IInv
<1> QED BY <1>1, <1>2

-----------------------------------------------------------------------------
(* DequeueMessage *)

WithMessage(f, m, o) == [f EXCEPT !.msg = m, !.oob = o]
WithStatus(f, x, n) == [f EXCEPT !.max = x, !.normal = n]

LEMMA TakeFrame ==
  ASSUME NEW f \in Frames, NEW m \in Messages \cup {None}, NEW o \in BOOLEAN
  PROVE  LET g == WithMessage(f, m, o)
         IN  /\ g \in Frames
             /\ g.caller = f.caller /\ g.normal = f.normal /\ g.multiple = f.multiple
             /\ g.max = f.max /\ g.msg = m /\ g.oob = o /\ g.status = f.status
<1> DEFINE g == WithMessage(f, m, o)
<1>1. g \in Frames
  BY DEF Frames, WithMessage
<1>2. /\ g.caller = f.caller /\ g.normal = f.normal /\ g.multiple = f.multiple
      /\ g.max = f.max /\ g.msg = m /\ g.oob = o /\ g.status = f.status
  BY SMT DEF Frames, WithMessage
<1> QED BY <1>1, <1>2

LEMMA HandledFrame ==
  ASSUME NEW f \in Frames, NEW x \in Statuses, NEW n \in BOOLEAN
  PROVE  LET g == WithStatus(f, x, n)
         IN  /\ g \in Frames
             /\ g.caller = f.caller /\ g.normal = n /\ g.multiple = f.multiple
             /\ g.max = x /\ g.msg = f.msg /\ g.oob = f.oob /\ g.status = f.status
<1> DEFINE g == WithStatus(f, x, n)
<1>1. g \in Frames
  BY DEF Frames, WithStatus
<1>2. /\ g.caller = f.caller /\ g.normal = n /\ g.multiple = f.multiple
      /\ g.max = x /\ g.msg = f.msg /\ g.oob = f.oob /\ g.status = f.status
  BY SMT DEF Frames, WithStatus
<1> QED BY <1>1, <1>2

\* What a call of HandleMessages does with the next message, or when it has none.
\* What DequeueMessage takes for a call, and what it leaves in the call's frame.
LEMMA Dequeues ==
  ASSUME IInv, pc \in {"enter", "handled"}, NEW f \in Frames, Dequeue(f)
  PROVE  /\ frames' \in Seq(Frames) /\ Len(frames') <= 2 /\ frames' # <<>>
         /\ (Nested' <=> Nested) /\ (Nested' => below' = below)
         /\ top'.caller = f.caller /\ top'.normal = f.normal
         /\ top'.multiple = f.multiple /\ top'.max = f.max /\ top'.status = f.status
         /\ top'.msg \in Messages \cup {None} /\ top'.oob \in BOOLEAN
         /\ \/ /\ oob_queue # <<>> /\ top'.msg = Head(oob_queue) /\ top'.oob = TRUE
               /\ oob_queue' = Tail(oob_queue) /\ queue' = queue /\ pc' = "handle"
            \/ /\ oob_queue = <<>> /\ AllowEvents(f) /\ queue # <<>>
               /\ top'.msg = Head(queue) /\ top'.oob = FALSE
               /\ queue' = Tail(queue) /\ oob_queue' = oob_queue /\ pc' = "handle"
            \/ /\ oob_queue = <<>> /\ (AllowEvents(f) => queue = <<>>)
               /\ top'.msg = None /\ top'.oob = FALSE
               /\ queue' = queue /\ oob_queue' = oob_queue /\ pc' = "return"
<1>0. /\ pc \in Inside /\ frames # <<>> /\ (pool => task_running)
      /\ frames \in Seq(Frames) /\ Len(frames) <= 2
      /\ queue \in Seq(Messages) /\ oob_queue \in Seq(Messages)
  BY InsideFacts, TypeFacts DEF Inside
<1>1. \A m \in Messages \cup {None}, o \in BOOLEAN :
        /\ WithMessage(f, m, o) \in Frames
        /\ WithMessage(f, m, o).caller = f.caller /\ WithMessage(f, m, o).normal = f.normal
        /\ WithMessage(f, m, o).multiple = f.multiple /\ WithMessage(f, m, o).max = f.max
        /\ WithMessage(f, m, o).msg = m /\ WithMessage(f, m, o).oob = o /\ WithMessage(f, m, o).status = f.status
  BY TakeFrame, SMT
<1>2. PICK m \in Messages \cup {None}, o \in BOOLEAN :
        /\ frames' = [frames EXCEPT ![1] = WithMessage(f, m, o)]
        /\ \/ /\ oob_queue # <<>> /\ m = Head(oob_queue) /\ o = TRUE
              /\ oob_queue' = Tail(oob_queue) /\ queue' = queue /\ pc' = "handle"
           \/ /\ oob_queue = <<>> /\ AllowEvents(f) /\ queue # <<>>
              /\ m = Head(queue) /\ o = FALSE
              /\ queue' = Tail(queue) /\ oob_queue' = oob_queue /\ pc' = "handle"
           \/ /\ oob_queue = <<>> /\ (AllowEvents(f) => queue = <<>>)
              /\ m = None /\ o = FALSE
              /\ queue' = queue /\ oob_queue' = oob_queue /\ pc' = "return"
  <2>1. oob_queue # <<>> => Head(oob_queue) \in Messages
    BY <1>0, TailContents
  <2>2. queue # <<>> => Head(queue) \in Messages
    BY <1>0, TailContents
  <2>3. CASE oob_queue # <<>>
    BY <2>1, <2>3 DEF Dequeue, queues, WithMessage
  <2>4. CASE oob_queue = <<>> /\ AllowEvents(f) /\ queue # <<>>
    BY <2>2, <2>4 DEF Dequeue, queues, WithMessage
  <2>5. CASE oob_queue = <<>> /\ (AllowEvents(f) => queue = <<>>)
    BY <2>5 DEF Dequeue, queues, WithMessage
  <2> QED BY <2>3, <2>4, <2>5
<1>3. /\ frames' \in Seq(Frames) /\ Len(frames') <= 2 /\ frames' # <<>>
      /\ top' = WithMessage(f, m, o) /\ (Nested' <=> Nested) /\ (Nested' => below' = below)
  BY <1>0, <1>1, <1>2, SetFrame
<1>4. /\ top'.caller = f.caller /\ top'.normal = f.normal
      /\ top'.multiple = f.multiple /\ top'.max = f.max
      /\ top'.msg = m /\ top'.oob = o /\ top'.status = f.status
  BY <1>1, <1>3
<1> QED BY <1>2, <1>3, <1>4

LEMMA DequeueKeeps ==
  ASSUME IInv, pc \in {"enter", "handled"}, NEW f \in Frames, f.caller = top.caller,
         FrameOK(f), Dequeue(f),
         UNCHANGED <<map, pauses, should, is, task, notes, close, status, handled>>
  PROVE  IInv'
<1>0. /\ pc \in Inside /\ frames # <<>> /\ (pool => task_running)
      /\ frames \in Seq(Frames) /\ Len(frames) <= 2
      /\ queue \in Seq(Messages) /\ oob_queue \in Seq(Messages)
  BY InsideFacts, TypeFacts DEF Inside
<1> DEFINE m == top'.msg
           o == top'.oob
<1>3. /\ frames' \in Seq(Frames) /\ Len(frames') <= 2 /\ frames' # <<>>
      /\ (Nested' <=> Nested) /\ (Nested' => below' = below)
  BY Dequeues
<1>4. /\ top'.caller = f.caller /\ top'.normal = f.normal
      /\ top'.multiple = f.multiple /\ top'.max = f.max
      /\ top'.msg = m /\ top'.oob = o /\ top'.status = f.status
      /\ m \in Messages \cup {None} /\ o \in BOOLEAN
  BY Dequeues
<1>2. \/ /\ oob_queue # <<>> /\ m = Head(oob_queue) /\ o = TRUE
         /\ oob_queue' = Tail(oob_queue) /\ queue' = queue /\ pc' = "handle"
      \/ /\ oob_queue = <<>> /\ AllowEvents(f) /\ queue # <<>>
         /\ m = Head(queue) /\ o = FALSE
         /\ queue' = Tail(queue) /\ oob_queue' = oob_queue /\ pc' = "handle"
      \/ /\ oob_queue = <<>> /\ (AllowEvents(f) => queue = <<>>)
         /\ m = None /\ o = FALSE
         /\ queue' = queue /\ oob_queue' = oob_queue /\ pc' = "return"
  BY Dequeues
<1> HIDE DEF m, o
<1>5. /\ pc' \in {"handle", "return"} /\ pc' \in Inside
      /\ UNCHANGED <<handler, ports, mutex, post, paused, is_paused_on_start,
           is_paused_on_exit, task_running, pool, tasks, status, delete_me, closer,
           deleted>>
  BY <1>2 DEF Inside, map, queues, pauses, should, is, task, notes, close
<1>6. m # None => /\ Sent(m) /\ m \in Messages /\ pc' = "handle"
                  /\ o = TRUE => ~IsEvent(m)
                  /\ o = FALSE => AllowEvents(f) /\ m = Head(queue) /\ queue # <<>> /\ queue' = Tail(queue)
  <2>1. oob_queue # <<>> => Sent(Head(oob_queue)) /\ ~IsEvent(Head(oob_queue))
    BY <1>0, TailContents DEF IInv, MessagesOK
  <2>2. queue # <<>> => Sent(Head(queue))
    BY <1>0, TailContents DEF IInv, MessagesOK
  <2> QED BY <1>2, <1>4, <2>1, <2>2
<1>7. pc' = "handle" => m # None
  BY <1>0, <1>2, TailContents, HandlerAssumption
<1>8. FramesOK'
  <2>1. FrameOK(top)' /\ (Nested => FrameOK(below)')
    BY <1>0, <1>3, <1>4, <1>5 DEF IInv, FramesOK, FrameOK, IsIsolate, OnPool
  <2> QED BY <1>0, <1>3, <1>4, <1>5, <1>6, <1>7, <2>1 DEF IInv, FramesOK, Outside, IsIsolate, IsEvent
<1>9. TasksOK' /\ DeletionOK' /\ PostsOK'
  BY <1>0, <1>5, StepInside
<1>10. PausesOK'
  BY <1>0, <1>3, <1>4, <1>5 DEF IInv, PausesOK, Inside, IsIsolate, OnPool
<1>11. /\ queue' \in Seq(Messages) /\ oob_queue' \in Seq(Messages)
       /\ Contents(queue') \subseteq Contents(queue)
       /\ Contents(oob_queue') \subseteq Contents(oob_queue)
  BY <1>0, <1>2, TailContents
<1>12. MessagesOK'
  BY <1>0, <1>3, <1>4, <1>5, <1>6, <1>11 DEF IInv, MessagesOK, Sent
<1>13. LeftOK'
  <2>1. pc' = "return" => /\ oob_queue' = <<>> /\ queue' = queue
                          /\ AllowEvents(f) => queue = <<>>
    BY <1>2
  <2>2. paused = 0 \/ paused > 0
    <3>1. paused \in Nat
      BY FS_CardinalityType DEF IInv, Types, TypeOK
    <3> QED BY <3>1, SMT
  <2>3. f.caller = "main" => f.normal
    BY DEF FrameOK
  <2>4. pc' = "return" /\ top'.caller = "main" /\ top'.max = kOK => queue' = <<>> \/ paused' > 0
    BY <1>4, <1>5, <2>1, <2>2, <2>3 DEF AllowEvents
  <2> QED BY <1>0, <1>5, <2>1, <2>4 DEF LeftOK
<1>14. EventOK'
  <2>1. Lead(queue')
    BY <1>0, <1>2, TailLeads DEF IInv, EventOK
  <2>2. ASSUME pc' = "handle", IsEvent(m)
        PROVE  f.caller \in {"main", "next"} /\ paused = 0 /\ \A k \in Contents(queue') : Type[k] # "kill_before"
    <3>1. AllowEvents(f) /\ m = Head(queue) /\ queue # <<>> /\ queue' = Tail(queue)
      BY <1>4, <1>6, <1>7, <2>2
    <3>2. f.normal /\ paused = 0
      BY <3>1 DEF AllowEvents
    <3>3. f.caller \in {"main", "next"}
      BY <3>2, FrameTypes DEF FrameOK, Callers
    <3>4. \A k \in Contents(queue) : Type[k] # "kill_before"
      BY <1>0, <2>2, <3>1, TailLeads DEF IInv, EventOK
    <3> QED BY <1>11, <3>2, <3>3, <3>4
  <2> QED BY <1>4, <1>5, <2>1, <2>2 DEF EventOK, IsEvent
<1>15. Types'
  BY <1>3, <1>5, <1>11 DEF IInv, Types, TypeOK, Locked, map, queues, pauses, should, is, task, notes, close
<1> QED BY <1>8, <1>9, <1>10, <1>12, <1>13, <1>14, <1>15 DEF IInv

LEMMA EnterKeeps ==
  ASSUME IInv, Enter PROVE IInv'
<1>1. pc = "enter" /\ top \in Frames /\ FrameOK(top)
  BY InsideFacts DEF Enter, Inside, IInv, FramesOK, Outside
<1>2. Dequeue(top) /\ UNCHANGED <<map, pauses, should, is, task, notes, close, status, handled>>
  BY DEF Enter
<1> QED BY <1>1, <1>2, DequeueKeeps

\* The frame of a call after the status of a message is added to it.
Merged == [top EXCEPT !.max = IF top.status > top.max THEN top.status ELSE top.max,
                      !.normal = top.normal /\ (top.oob \/ top.multiple)]

LEMMA MergedFrame ==
  ASSUME top \in Frames
  PROVE  /\ Merged \in Frames /\ Merged.caller = top.caller /\ Merged.msg = top.msg
         /\ Merged.oob = top.oob /\ Merged.multiple = top.multiple
         /\ Merged.status = top.status
         /\ Merged.normal = (top.normal /\ (top.oob \/ top.multiple))
         /\ Merged.max = IF top.status > top.max THEN top.status ELSE top.max
         /\ Merged.max = kOK <=> top.max = kOK /\ top.status = kOK
<1> DEFINE f == Merged
           x == IF top.status > top.max THEN top.status ELSE top.max
           n == top.normal /\ (top.oob \/ top.multiple)
<1>1. x \in Statuses /\ n \in BOOLEAN /\ top.max \in Statuses /\ top.status \in Statuses
  BY FrameTypes
<1>2. f = WithStatus(top, x, n)
  BY DEF WithStatus, Merged
<1>3. x = kOK <=> top.max = kOK /\ top.status = kOK
  BY <1>1, SMT DEF Statuses, kOK, kError, kShutdown
<1> HIDE DEF f, x, n
<1>4. /\ f \in Frames /\ f.caller = top.caller /\ f.msg = top.msg /\ f.oob = top.oob
      /\ f.multiple = top.multiple /\ f.status = top.status /\ f.normal = n /\ f.max = x
  BY <1>1, <1>2, HandledFrame, SMT
<1> QED BY <1>3, <1>4 DEF f, x, n

LEMMA HandledKeeps ==
  ASSUME IInv, Handled PROVE IInv'
<1> DEFINE f == Merged
<1>0. /\ pc = "handled" /\ pc \in Inside /\ frames # <<>> /\ top \in Frames /\ FrameOK(top)
      /\ pool => task_running
      /\ frames \in Seq(Frames) /\ Len(frames) <= 2
      /\ UNCHANGED <<map, pauses, should, is, task, notes, close, status, handled>>
  BY InsideFacts, TypeFacts DEF Handled, Inside, IInv, FramesOK, Outside
<1>1. /\ f \in Frames /\ f.caller = top.caller /\ f.msg = top.msg /\ f.oob = top.oob
      /\ f.multiple = top.multiple /\ f.status = top.status
      /\ f.normal = (top.normal /\ (top.oob \/ top.multiple))
      /\ f.max = kOK <=> top.max = kOK /\ top.status = kOK
  BY <1>0, MergedFrame
<1>2. FrameOK(f)
  <2>1. top.max = kOK /\ top.status = kOK => f.max = kOK
    BY <1>1
  <2> HIDE DEF f
  <2> QED BY <1>0, <1>1, <2>1 DEF FrameOK
<1>3. CASE top.status # kShutdown
  <2>1. Dequeue(f)
    BY <1>3 DEF Handled, Merged
  <2> HIDE DEF f
  <2> QED BY <1>0, <1>1, <1>2, <2>1, DequeueKeeps
<1>4. CASE top.status = kShutdown
  <2>1. /\ frames' = [frames EXCEPT ![1] = f] /\ pc' = "return"
        /\ oob_queue' = <<>> /\ queue' = queue
    BY <1>4 DEF Handled, Merged
  <2>2. f.max # kOK
    BY <1>1, <1>4, StatusFacts
  <2> HIDE DEF f
  <2>3. /\ frames' \in Seq(Frames) /\ Len(frames') <= 2 /\ frames' # <<>>
        /\ top' = f /\ (Nested' <=> Nested) /\ (Nested' => below' = below)
    BY <1>0, <1>1, <2>1, SetFrame
  <2>4. /\ pc' \in Inside
        /\ UNCHANGED <<handler, ports, mutex, post, paused, is_paused_on_start,
             is_paused_on_exit, task_running, pool, tasks, status, delete_me, closer,
             deleted>>
    BY <1>0, <2>1 DEF Inside, map, queues, pauses, should, is, task, notes, close
  <2>5. FramesOK'
    <3>1. FrameOK(top)' /\ (Nested => FrameOK(below)')
      BY <1>2, <2>3, <2>4 DEF IInv, FramesOK, FrameOK, IsIsolate, OnPool
    <3> QED BY <1>0, <1>1, <2>1, <2>3, <2>4, <3>1 DEF IInv, FramesOK, Outside, IsIsolate, IsEvent
  <2>6. TasksOK' /\ DeletionOK' /\ PostsOK'
    BY <1>0, <2>4, StepInside
  <2>7. PausesOK'
    BY <1>0, <1>1, <2>3, <2>4 DEF IInv, PausesOK, Inside, IsIsolate, OnPool
  <2>8. MessagesOK' /\ oob_queue' \in Seq(Messages)
    <3>1. Contents(oob_queue') = {} /\ <<>> \in Seq(Messages)
      BY <2>1, EmptyQueue, SMT
    <3> QED BY <1>0, <1>1, <2>1, <2>3, <2>4, <3>1 DEF IInv, MessagesOK, Sent
  <2>9. LeftOK' /\ EventOK'
    BY <1>0, <2>1, <2>2, <2>3, <2>4 DEF IInv, LeftOK, EventOK
  <2>10. Types'
    BY <1>0, <2>1, <2>3, <2>8 DEF IInv, Types, TypeOK, Locked, map, queues, pauses, should, is, task, notes, close
  <2> QED BY <2>5, <2>6, <2>7, <2>8, <2>9, <2>10 DEF IInv
<1> QED BY <1>3, <1>4

-----------------------------------------------------------------------------
(* Calls of HandleMessages *)

LEMMA CallKeeps ==
  ASSUME IInv, ~Nested,
         NEW c \in Callers, NEW n \in BOOLEAN, NEW k \in BOOLEAN, Call(c, n, k),
         UNCHANGED <<handler, post, queue, oob_queue>>,
         n => c \in {"main", "next"}, c = "main" => n /\ k,
         c \in {"start", "paused_exit", "exit"} => IsIsolate,
         c \in {"start", "paused_exit", "exit", "main"} => OnPool,
         c = "next" => ~OnPool,
         c = "interrupt" <=> frames # <<>>, frames # <<>> => pc = "running" /\ IsIsolate
  PROVE  /\ frames' \in Seq(Frames) /\ Len(frames') <= 2 /\ frames' # <<>>
         /\ pc' = "enter" /\ top'.caller = c
         /\ FramesOK' /\ MessagesOK' /\ EventOK'
<1>1. /\ frames' \in Seq(Frames) /\ Len(frames') <= 2 /\ frames' # <<>>
      /\ top'.caller = c /\ top'.normal = n /\ top'.multiple = k
      /\ top'.max = kOK /\ top'.msg = None /\ top'.oob = FALSE /\ top'.status = kOK
      /\ Nested' <=> frames # <<>>
      /\ Nested' => below' = top
      /\ pc' = "enter"
  BY TypeFacts, CallFrame
<1>2. FrameOK(top)'
  BY <1>1 DEF FrameOK, IsIsolate, OnPool
<1>3. Nested' => FrameOK(below)'
  BY <1>1 DEF IInv, FramesOK, FrameOK, IsIsolate, OnPool
<1>4. FramesOK'
  BY <1>1, <1>2, <1>3 DEF IInv, FramesOK, Outside, IsIsolate, IsEvent
<1>5. MessagesOK'
  BY <1>1 DEF IInv, MessagesOK, FramesOK, Sent
<1>6. EventOK'
  BY <1>1 DEF IInv, EventOK
<1> QED BY <1>1, <1>4, <1>5, <1>6

LEMMA InterruptKeeps ==
  ASSUME IInv, Interrupt PROVE IInv'
<1>1. /\ pc = "running" /\ IsIsolate /\ interrupt' = FALSE /\ Call("interrupt", FALSE, FALSE)
      /\ UNCHANGED <<handler, ports, mutex, post, queue, oob_queue, is_paused_on_start,
           is_paused_on_exit, task_running, pool, tasks, status, delete_me, closer, deleted>>
  BY DEF Interrupt, map, queues, pauses, should, is, task, notes, close
<1>2. pc \in Inside /\ frames # <<>> /\ ~Nested /\ (pool => task_running)
  BY <1>1, InsideFacts DEF Inside, IInv, FramesOK
<1>3. "interrupt" \in Callers
  BY DEF Callers
<1>4. /\ frames' \in Seq(Frames) /\ Len(frames') <= 2 /\ frames' # <<>>
      /\ pc' = "enter" /\ top'.caller = "interrupt"
      /\ FramesOK' /\ MessagesOK' /\ EventOK'
  BY <1>1, <1>2, <1>3, CallKeeps
<1>5. TasksOK' /\ DeletionOK' /\ PostsOK'
  BY <1>1, <1>2, <1>4, StepInside DEF Inside
<1>6. top.caller \in {"main", "next"}
  BY <1>1 DEF IInv, FramesOK
<1>7. PausesOK'
  BY <1>1, <1>2, <1>4, <1>6 DEF IInv, PausesOK, IsIsolate, OnPool
<1>8. LeftOK'
  BY <1>1, <1>2, <1>4 DEF LeftOK
<1>9. Types'
  BY <1>1, <1>4 DEF Interrupt, IInv, Types, TypeOK, map, queues, pauses, should, is, task, notes, close
<1> QED BY <1>4, <1>5, <1>7, <1>8, <1>9 DEF IInv

LEMMA InterruptReturns ==
  ASSUME IInv, ReturnInterrupt
  PROVE  /\ Nested /\ ~Nested' /\ IsIsolate /\ pc = "return"
         /\ FrameOK(below) /\ below.caller \in {"main", "next"}
         /\ below.msg # None /\ IsEvent(below.msg) /\ Sent(below.msg)
         /\ frames' \in Seq(Frames) /\ Len(frames') <= 2 /\ frames' # <<>>
         /\ top'.caller = below.caller /\ top'.normal = below.normal
         /\ top'.multiple = below.multiple /\ top'.max = below.max /\ top'.msg = below.msg
         /\ \/ pc' = "running" /\ top.max = kOK
            \/ pc' = "handled" /\ top.max # kOK /\ top'.status = top.max
<1>1. /\ pc = "return" /\ top.caller = "interrupt"
      /\ UNCHANGED <<handler, ports, mutex, post, queue, oob_queue, is_paused_on_start,
           is_paused_on_exit, task_running, pool, tasks, status, delete_me, closer, deleted>>
  BY DEF ReturnInterrupt, map, queues, pauses, should, is, task, notes, close
<1>2. /\ pc \in Inside /\ frames # <<>> /\ (pool => task_running) /\ top \in Frames
      /\ frames \in Seq(Frames) /\ Len(frames) <= 2
  BY <1>1, InsideFacts, TypeFacts DEF Inside
<1>3. Nested /\ IsIsolate /\ below \in Frames /\ top.max \in Statuses
  BY <1>1, <1>2, TypeFacts, FrameTypes DEF IInv, FramesOK
<1>4. /\ below.caller \in {"main", "next"} /\ below.msg # None /\ IsEvent(below.msg)
      /\ FrameOK(below) /\ Sent(below.msg)
  BY <1>3 DEF IInv, FramesOK, MessagesOK
<1>5. /\ Tail(frames) \in Seq(Frames) /\ Len(Tail(frames)) <= 2 /\ Len(Tail(frames)) # 2
      /\ Tail(frames) # <<>> /\ Tail(frames)[1] = below
  BY <1>2, <1>3, PopFrame
<1>6. /\ frames' \in Seq(Frames) /\ Len(frames') <= 2 /\ frames' # <<>> /\ ~Nested'
      /\ top'.caller = below.caller /\ top'.normal = below.normal
      /\ top'.multiple = below.multiple /\ top'.max = below.max /\ top'.msg = below.msg
      /\ \/ pc' = "running" /\ top.max = kOK
         \/ pc' = "handled" /\ top.max # kOK /\ top'.status = top.max
  <2>1. CASE top.max = kOK
    <3>1. frames' = Tail(frames) /\ pc' = "running"
      BY <2>1 DEF ReturnInterrupt
    <3> QED BY <1>5, <2>1, <3>1 DEF Nested, top
  <2>2. CASE top.max # kOK
    <3> DEFINE t == Tail(frames)
               g == [below EXCEPT !.status = top.max]
    <3>1. frames' = [t EXCEPT ![1].status = top.max] /\ pc' = "handled"
      BY <2>2 DEF ReturnInterrupt
    <3>2. frames' = [t EXCEPT ![1] = g]
      <4>1. t[1] = below
        BY <1>5
      <4> HIDE DEF t
      <4> QED BY <3>1, <4>1
    <3>3. /\ g.caller = below.caller /\ g.normal = below.normal
          /\ g.multiple = below.multiple /\ g.max = below.max /\ g.msg = below.msg
          /\ g.status = top.max
      BY <1>3, SMT DEF Frames
    <3>4. g \in Frames
      BY <1>3 DEF Frames
    <3>5. t \in Seq(Frames) /\ Len(t) <= 2 /\ Len(t) # 2 /\ t # <<>>
      BY <1>5
    <3> HIDE DEF t, g
    <3>6. /\ frames' \in Seq(Frames) /\ Len(frames') = Len(t) /\ frames'[1] = g
      <4>1. Len(t) \in Nat /\ Len(t) # 0
        BY <3>5, LenFacts, SMT
      <4> QED BY <3>2, <3>4, <3>5, <4>1, SMT
    <3>7. frames' # <<>>
      BY <3>5, <3>6, LenFacts
    <3> QED BY <2>2, <3>1, <3>3, <3>5, <3>6, <3>7 DEF Nested, top
  <2> QED BY <2>1, <2>2
<1> QED BY <1>1, <1>3, <1>4, <1>6

LEMMA ReturnInterruptKeeps ==
  ASSUME IInv, ReturnInterrupt PROVE IInv'
<1>1. /\ pc = "return" /\ top.caller = "interrupt"
      /\ UNCHANGED <<handler, ports, mutex, post, queue, oob_queue, is_paused_on_start,
           is_paused_on_exit, task_running, pool, tasks, status, delete_me, closer, deleted>>
  BY DEF ReturnInterrupt, map, queues, pauses, should, is, task, notes, close
<1>2. pc \in Inside /\ frames # <<>> /\ (pool => task_running)
  BY <1>1, InsideFacts, TypeFacts DEF Inside
<1>3. IsIsolate
  BY InterruptReturns
<1>4. /\ below.caller \in {"main", "next"} /\ below.msg # None /\ IsEvent(below.msg)
      /\ FrameOK(below) /\ Sent(below.msg)
  BY InterruptReturns
<1>6. /\ frames' \in Seq(Frames) /\ Len(frames') <= 2 /\ frames' # <<>> /\ ~Nested'
      /\ top'.caller = below.caller /\ top'.normal = below.normal
      /\ top'.multiple = below.multiple /\ top'.max = below.max /\ top'.msg = below.msg
      /\ pc' \in {"running", "handled"}
  BY InterruptReturns
<1>7. FrameOK(top)'
  BY <1>1, <1>3, <1>4, <1>6 DEF FrameOK, IsIsolate, OnPool
<1>8. FramesOK'
  BY <1>1, <1>4, <1>6, <1>7 DEF FramesOK, Outside, IsIsolate, IsEvent
<1>9. TasksOK' /\ DeletionOK' /\ PostsOK'
  BY <1>1, <1>2, <1>6, StepInside DEF Inside
<1>10. PausesOK' /\ LeftOK' /\ EventOK' /\ MessagesOK'
  BY <1>1, <1>2, <1>4, <1>6 DEF IInv, PausesOK, LeftOK, EventOK, MessagesOK, IsIsolate, OnPool, Sent
<1>11. Types'
  BY <1>1, <1>6 DEF ReturnInterrupt, IInv, Types, TypeOK, map, queues, pauses, should, is, task, notes, close
<1> QED BY <1>8, <1>9, <1>10, <1>11 DEF IInv

-----------------------------------------------------------------------------
(* Ports and posting *)

\* A step that leaves the thread, the pauses and the tasks alone.
LEMMA ThreadRests ==
  ASSUME IInv, UNCHANGED <<handler, pc, status, frames, task_running, pool, tasks,
                           should_pause_on_start, is_paused_on_start, is_paused_on_exit>>
  PROVE  FramesOK' /\ TasksOK' /\ PausesOK'
<1>1. top' = top /\ below' = below /\ (Nested' <=> Nested)
  BY DEF top, below, Nested
<1>2. FramesOK'
  BY <1>1 DEF IInv, FramesOK, FrameOK, IsIsolate, OnPool, IsEvent
<1>3. TasksOK'
  BY DEF IInv, TasksOK, InTask, IsIsolate, OnPool
<1>4. PausesOK'
  BY <1>1 DEF IInv, PausesOK, IsIsolate, OnPool
<1> QED BY <1>2, <1>3, <1>4

LEMMA MessagesRest ==
  ASSUME IInv, UNCHANGED <<handler, frames, queue, oob_queue>>,
         \A m \in Messages : post[m] \in {"queued", "posted"} => post'[m] \in {"queued", "posted"}
  PROVE  MessagesOK'
<1>1. top' = top /\ below' = below /\ (Nested' <=> Nested)
  BY DEF top, below, Nested
<1>2. \A m \in handler.messages : Sent(m) => Sent(m)'
  BY TypeFacts, HandlerFacts DEF Sent
<1> QED BY <1>1, <1>2 DEF IInv, MessagesOK, Sent

LEMMA EventRests ==
  ASSUME IInv, UNCHANGED <<pc, frames, queue, paused>>
  PROVE  EventOK'
  BY DEF IInv, EventOK, top

\* An isolate's ports: they are open after they are unborn and closed in the end.
LEMMA PortsKeep ==
  ASSUME IInv, mutex = None, ports' \in [Ports -> {"unborn", "open", "closed"}],
         UNCHANGED <<handler, mutex, post>>,
         \A p \in Ports : ports[p] # "unborn" => ports'[p] # "unborn"
  PROVE  PostsOK'
<1>1. \A m \in Messages : post[m] \notin {"found", "queued"}
  BY HandlerAssumption DEF IInv, PostsOK
<1>2. \A m \in Messages : Dest[m] \in Ports
  BY HandlerAssumption
<1> QED BY <1>1, <1>2 DEF IInv, PostsOK

LEMMA OpenPortKeeps ==
  ASSUME IInv, NEW p \in Ports, OpenPort(p) PROVE IInv'
<1>1. /\ pc = "running" /\ IsIsolate /\ mutex = None /\ ports[p] = "unborn"
      /\ ports' = [ports EXCEPT ![p] = "open"]
      /\ UNCHANGED <<handler, mutex, post, queue, oob_queue, resume_caps, paused,
           should_pause_on_start, should_pause_on_exit, remembered, handled, callbacks, interrupt,
           is_paused_on_start, is_paused_on_exit, task_running, pool, tasks, pc, status,
           frames, delete_me, closer, deleted>>
  BY DEF OpenPort, map, queues, pauses, should, is, task, notes, close, thread
<1>2. ports \in [Ports -> {"unborn", "open", "closed"}]
  BY DEF IInv, Types, TypeOK
<1>3. /\ ports' \in [Ports -> {"unborn", "open", "closed"}]
      /\ \A r \in Ports : ports[r] # "unborn" => ports'[r] # "unborn"
  BY <1>1, <1>2
<1>4. PostsOK'
  BY <1>1, <1>3, PortsKeep
<1>5. FramesOK' /\ TasksOK' /\ PausesOK'
  BY <1>1, ThreadRests
<1>6. MessagesOK' /\ EventOK'
  BY <1>1, MessagesRest, EventRests
<1>7. LeftOK' /\ DeletionOK'
  <2>1. pool => task_running
    BY <1>1, InsideFacts DEF Inside
  <2> QED BY <1>1, <2>1 DEF IInv, LeftOK, DeletionOK, IsIsolate
<1>8. Types'
  BY <1>1, <1>3 DEF IInv, Types, TypeOK
<1> QED BY <1>4, <1>5, <1>6, <1>7, <1>8 DEF IInv

LEMMA ClosePortKeeps ==
  ASSUME IInv, NEW p \in Ports, ClosePort(p) PROVE IInv'
<1>1. /\ pc = "running" /\ IsIsolate /\ mutex = None /\ ports[p] = "open"
      /\ ports' = [ports EXCEPT ![p] = "closed"]
      /\ UNCHANGED <<handler, mutex, post, queue, oob_queue, resume_caps, paused,
           should_pause_on_start, should_pause_on_exit, remembered, handled, callbacks, interrupt,
           is_paused_on_start, is_paused_on_exit, task_running, pool, tasks, pc, status,
           frames, delete_me, closer, deleted>>
  BY DEF ClosePort, map, queues, pauses, should, is, task, notes, close, thread
<1>2. ports \in [Ports -> {"unborn", "open", "closed"}]
  BY DEF IInv, Types, TypeOK
<1>3. /\ ports' \in [Ports -> {"unborn", "open", "closed"}]
      /\ \A r \in Ports : ports[r] # "unborn" => ports'[r] # "unborn"
  BY <1>1, <1>2
<1>4. PostsOK'
  BY <1>1, <1>3, PortsKeep
<1>5. FramesOK' /\ TasksOK' /\ PausesOK'
  BY <1>1, ThreadRests
<1>6. MessagesOK' /\ EventOK'
  BY <1>1, MessagesRest, EventRests
<1>7. LeftOK' /\ DeletionOK'
  <2>1. pool => task_running
    BY <1>1, InsideFacts DEF Inside
  <2> QED BY <1>1, <2>1 DEF IInv, LeftOK, DeletionOK, IsIsolate
<1>8. Types'
  BY <1>1, <1>3 DEF IInv, Types, TypeOK
<1> QED BY <1>4, <1>5, <1>6, <1>7, <1>8 DEF IInv

LEMMA PostLookupKeeps ==
  ASSUME IInv, NEW m \in Messages, PostLookup(m) PROVE IInv'
<1>1. /\ m \in handler.messages /\ post[m] = "new" /\ mutex = None
      /\ UNCHANGED <<handler, ports, queue, oob_queue, resume_caps, paused,
           should_pause_on_start, should_pause_on_exit, remembered, handled, callbacks, interrupt,
           is_paused_on_start, is_paused_on_exit, task_running, pool, tasks, pc, status,
           frames, delete_me, closer, deleted>>
  BY DEF PostLookup, map, queues, pauses, should, is, task, notes, close, thread
<1>2. \/ /\ ports[Dest[m]] = "open" /\ mutex' = m /\ post' = [post EXCEPT ![m] = "found"]
      \/ /\ ports[Dest[m]] = "closed" /\ mutex' = mutex /\ post' = [post EXCEPT ![m] = "refused"]
  BY DEF PostLookup
<1>3. post \in [Messages -> {"new", "refused", "found", "queued", "posted"}] /\ mutex \in Messages \cup {None}
  BY DEF IInv, Types, TypeOK
<1>4. /\ post' \in [Messages -> {"new", "refused", "found", "queued", "posted"}]
      /\ mutex' \in Messages \cup {None}
      /\ \A k \in Messages : post'[k] # post[k] =>
           /\ k = m
           /\ \/ post'[k] = "found" /\ mutex' = m /\ ports[Dest[m]] = "open"
              \/ post'[k] = "refused"
  BY <1>1, <1>2, <1>3
<1>5. \A k \in Messages : post[k] \notin {"found", "queued"}
  BY <1>1, HandlerAssumption DEF IInv, PostsOK
<1>6. PostsOK'
  BY <1>1, <1>4, <1>5 DEF IInv, PostsOK
<1>7. FramesOK' /\ TasksOK' /\ PausesOK' /\ EventOK'
  BY <1>1, ThreadRests, EventRests
<1>8. MessagesOK'
  <2>1. \A k \in Messages : post[k] \in {"queued", "posted"} => post'[k] \in {"queued", "posted"}
    BY <1>1, <1>3, <1>4
  <2> QED BY <1>1, <2>1, MessagesRest
<1>9. LeftOK' /\ DeletionOK'
  BY <1>1 DEF IInv, LeftOK, DeletionOK, IsIsolate, KeepAlive, HasLivePorts, NoOpenPort, top
<1>10. Types'
  BY <1>1, <1>4 DEF IInv, Types, TypeOK
<1> QED BY <1>6, <1>7, <1>8, <1>9, <1>10 DEF IInv

\* A message is put in a queue: the port is open, so the handler is not being
\* deleted, and whoever needs a task starts one.
LEMMA PostEnqueueKeeps ==
  ASSUME IInv, NEW m \in Messages, PostEnqueue(m) PROVE IInv'
<1>1. /\ post[m] = "found" /\ pc \notin Locked /\ post' = [post EXCEPT ![m] = "queued"]
      /\ UNCHANGED <<handler, ports, mutex, resume_caps, paused, should_pause_on_start,
           should_pause_on_exit, remembered, handled, callbacks, interrupt, pool,
           is_paused_on_start, is_paused_on_exit, pc, status,
           frames, delete_me, closer, deleted>>
  BY DEF PostEnqueue, MonitorFree, StartTask, map, queues, pauses, should, is, task, notes, close, thread
<1>0. /\ task_running' = (task_running \/ pool)
      /\ tasks' = IF pool /\ ~task_running THEN tasks + 1 ELSE tasks
  BY DEF PostEnqueue, StartTask
<1>2. /\ IsEvent(m) => queue' = Append(queue, m) /\ oob_queue' = oob_queue
      /\ ~IsEvent(m) => oob_queue' = Append(oob_queue, m) /\ queue' = queue
  BY DEF PostEnqueue
<1>3. /\ queue \in Seq(Messages) /\ oob_queue \in Seq(Messages)
      /\ queue' \in Seq(Messages) /\ oob_queue' \in Seq(Messages)
  BY <1>2, TypeFacts, AppendContents
<1>4. /\ IsEvent(m) => Contents(queue') = Contents(queue) \cup {m} /\ oob_queue' = oob_queue
      /\ ~IsEvent(m) => Contents(oob_queue') = Contents(oob_queue) \cup {m} /\ queue' = queue
  BY <1>2, <1>3, AppendContents
<1>5. /\ post \in [Messages -> {"new", "refused", "found", "queued", "posted"}]
      /\ m \in handler.messages /\ mutex = m /\ ports[Dest[m]] = "open" /\ Dest[m] \in Ports
  BY <1>1, HandlerAssumption DEF IInv, Types, TypeOK, PostsOK
<1>6. /\ post' \in [Messages -> {"new", "refused", "found", "queued", "posted"}]
      /\ post'[m] = "queued" /\ \A k \in Messages : k # m => post'[k] = post[k]
  BY <1>1, <1>5
<1>7. PostsOK'
  BY <1>1, <1>5, <1>6 DEF IInv, PostsOK
<1>8. top' = top /\ below' = below /\ (Nested' <=> Nested)
  BY <1>1 DEF top, below, Nested
<1>9. FramesOK'
  BY <1>1, <1>8 DEF IInv, FramesOK, FrameOK, IsIsolate, OnPool, IsEvent
<1>10. PausesOK'
  BY <1>1, <1>8 DEF IInv, PausesOK, IsIsolate, OnPool
<1>11. MessagesOK'
  <2>1. \A k \in handler.messages : Sent(k) => Sent(k)'
    BY <1>1, <1>6, TypeFacts, HandlerFacts DEF Sent
  <2>2. Sent(m)'
    BY <1>1, <1>5, <1>6 DEF Sent
  <2>3. \A k \in Contents(queue') : Sent(k)'
    BY <1>4, <2>1, <2>2 DEF IInv, MessagesOK, Sent
  <2>4. \A k \in Contents(oob_queue') : Sent(k)' /\ ~IsEvent(k)
    BY <1>4, <2>1, <2>2 DEF IInv, MessagesOK, Sent
  <2>5. (frames' # <<>> /\ top'.msg # None => Sent(top.msg)') /\ (Nested' => Sent(below.msg)')
    BY <1>1, <1>8, <2>1 DEF IInv, MessagesOK, Sent
  <2> QED BY <2>3, <2>4, <2>5 DEF MessagesOK, IsEvent
<1>12. InTask' <=> InTask
  BY <1>1 DEF InTask, OnPool
<1>13. TasksOK' /\ tasks' \in Nat /\ task_running' \in BOOLEAN
  <2>1. tasks = 0 => tasks + 1 = 1 /\ 1 \in Nat
    BY SMT
  <2>2. task_running \in BOOLEAN /\ pool \in BOOLEAN /\ tasks \in Nat
    BY Booleans, TypeFacts
  <2>3. CASE pool /\ ~task_running
    <3>1. tasks = 0 /\ ~InTask
      BY <2>3 DEF IInv, TasksOK
    <3>2. tasks' = 1 /\ task_running'
      BY <1>0, <2>1, <2>3, <3>1
    <3> QED BY <1>1, <1>12, <2>1, <2>3, <3>1, <3>2 DEF IInv, TasksOK, IsIsolate, OnPool
  <2>4. CASE ~(pool /\ ~task_running)
    <3>1. tasks' = tasks /\ (task_running' <=> task_running) /\ task_running' \in BOOLEAN
      BY <1>0, <2>2, <2>4
    <3> QED BY <1>1, <1>12, <2>2, <3>1 DEF IInv, TasksOK, IsIsolate, OnPool
  <2> QED BY <2>3, <2>4
<1>14. LeftOK'
  BY <1>0, <1>1 DEF LeftOK, Locked
<1>15. EventOK'
  <2>1. IsEvent(m) => Type[m] # "kill_before"
    BY DEF IsEvent, EventTypes
  <2>2. Lead(queue')
    BY <1>2, <1>3, <2>1, AppendLeads DEF IInv, EventOK
  <2>3. \A k \in Contents(queue') : k \in Contents(queue) \/ Type[k] # "kill_before"
    BY <1>4, <2>1
  <2> QED BY <1>1, <1>8, <2>2, <2>3 DEF IInv, EventOK
<1>16. DeletionOK'
  <2>1. ~NoOpenPort
    BY <1>5 DEF NoOpenPort
  <2> QED BY <1>1, <2>1 DEF IInv, DeletionOK, IsIsolate, NoOpenPort
<1>17. Types'
  BY <1>1, <1>3, <1>6, <1>13 DEF IInv, Types, TypeOK
<1> QED BY <1>7, <1>9, <1>10, <1>11, <1>13, <1>14, <1>15, <1>16, <1>17 DEF IInv

LEMMA PostNotifyKeeps ==
  ASSUME IInv, NEW m \in Messages, PostNotify(m) PROVE IInv'
<1>1. /\ post[m] = "queued" /\ post' = [post EXCEPT ![m] = "posted"] /\ mutex' = None
      /\ MessageNotify(~IsEvent(m))
      /\ UNCHANGED <<handler, ports, queue, oob_queue, resume_caps, paused,
           should_pause_on_start, should_pause_on_exit, remembered, handled,
           is_paused_on_start, is_paused_on_exit, task_running, pool, tasks, pc, status,
           frames, delete_me, closer, deleted>>
  BY DEF PostNotify, map, queues, pauses, should, is, task, notes, close, thread
<1>2. /\ post \in [Messages -> {"new", "refused", "found", "queued", "posted"}]
      /\ mutex = m /\ ports[Dest[m]] = "open" /\ m \in handler.messages
  BY <1>1 DEF IInv, Types, TypeOK, PostsOK
<1>3. /\ post' \in [Messages -> {"new", "refused", "found", "queued", "posted"}]
      /\ post'[m] = "posted" /\ \A k \in Messages : k # m => post'[k] = post[k]
  BY <1>1, <1>2
<1>4. PostsOK'
  BY <1>1, <1>2, <1>3 DEF IInv, PostsOK
<1>5. FramesOK' /\ TasksOK' /\ PausesOK' /\ EventOK'
  BY <1>1, ThreadRests, EventRests
<1>6. MessagesOK'
  <2>1. \A k \in Messages : post[k] \in {"queued", "posted"} => post'[k] \in {"queued", "posted"}
    BY <1>3
  <2> QED BY <1>1, <2>1, MessagesRest
<1>7. LeftOK' /\ DeletionOK'
  BY <1>1 DEF IInv, LeftOK, DeletionOK, IsIsolate, KeepAlive, HasLivePorts, NoOpenPort, top
<1>8. callbacks' \in Nat /\ interrupt' \in BOOLEAN
  <2>1. callbacks \in Nat /\ callbacks + 1 \in Nat
    BY TypeFacts, SMT
  <2> QED BY <1>1, <2>1, Booleans DEF MessageNotify, ScheduleInterrupts
<1>9. Types'
  BY <1>1, <1>3, <1>8 DEF IInv, Types, TypeOK
<1> QED BY <1>4, <1>5, <1>6, <1>7, <1>9 DEF IInv

-----------------------------------------------------------------------------
(* Dart_CloseNativePort *)

LEMMA CloseNativePortKeeps ==
  ASSUME IInv, CloseNativePort PROVE IInv'
<1>1. /\ ~IsIsolate /\ closer = "open" /\ pc # "new" /\ mutex = None
      /\ ports' = [p \in Ports |-> "closed"] /\ closer' = "closed"
      /\ UNCHANGED <<handler, mutex, post, queue, oob_queue, resume_caps, paused,
           should_pause_on_start, should_pause_on_exit, remembered, handled, callbacks, interrupt,
           is_paused_on_start, is_paused_on_exit, task_running, pool, tasks, pc, status,
           frames, delete_me, deleted>>
  BY DEF CloseNativePort, map, queues, pauses, should, is, task, notes, close, thread
<1>2. /\ ports' \in [Ports -> {"unborn", "open", "closed"}]
      /\ \A r \in Ports : ports'[r] = "closed"
  BY <1>1
<1>3. PostsOK'
  BY <1>1, <1>2, PortsKeep
<1>4. FramesOK' /\ TasksOK' /\ PausesOK' /\ EventOK'
  BY <1>1, ThreadRests, EventRests
<1>5. MessagesOK'
  BY <1>1, MessagesRest
<1>6. LeftOK'
  BY <1>1 DEF IInv, LeftOK, KeepAlive, IsIsolate, top
<1>7. DeletionOK'
  BY <1>1, <1>2 DEF IInv, DeletionOK, NoOpenPort, IsIsolate
<1>8. Types'
  BY <1>1, <1>2 DEF IInv, Types, TypeOK
<1> QED BY <1>3, <1>4, <1>5, <1>6, <1>7, <1>8 DEF IInv

LEMMA RequestDeletionKeeps ==
  ASSUME IInv, RequestDeletion PROVE IInv'
<1>1. /\ closer = "closed" /\ pc \notin Locked
      /\ UNCHANGED <<handler, ports, mutex, post, queue, oob_queue, resume_caps, paused,
           should_pause_on_start, should_pause_on_exit, remembered, handled, callbacks, interrupt,
           is_paused_on_start, is_paused_on_exit, task_running, pool, tasks, pc, status,
           frames, deleted>>
  BY DEF RequestDeletion, MonitorFree, map, queues, pauses, should, is, task, notes, close, thread
<1>2. \/ task_running /\ delete_me' /\ closer' = "done"
      \/ ~task_running /\ closer' = "delete" /\ (delete_me' <=> delete_me)
  BY DEF RequestDeletion, HasTask
<1>0. delete_me' \in BOOLEAN
  BY Booleans DEF RequestDeletion
<1>3. PostsOK' /\ MessagesOK'
  BY <1>1, MessagesRest DEF IInv, PostsOK
<1>4. FramesOK' /\ TasksOK' /\ PausesOK' /\ EventOK'
  BY <1>1, ThreadRests, EventRests
<1>5. LeftOK'
  BY <1>1, <1>2 DEF IInv, LeftOK, KeepAlive, IsIsolate, HasLivePorts, top
<1>6. ~IsIsolate /\ ~delete_me /\ NoOpenPort /\ pc # "new" /\ deleted = 0 /\ pc \notin Ending
  BY <1>1 DEF IInv, DeletionOK
<1>7. ~task_running => pc = "idle"
  <2>1. OnPool
    BY <1>6 DEF IInv, TasksOK
  <2>2. ~task_running => ~InTask
    BY DEF IInv, TasksOK
  <2>3. pc \in Locked \cup {"new", "idle", "enter", "handle", "running", "handled",
       "notify_start", "notify_exit", "shutdown", "close_all", "delete", "gone"}
    BY DEF IInv, Types, TypeOK
  <2> QED BY <1>6, <2>1, <2>2, <2>3 DEF InTask, Ending
<1>8. DeletionOK'
  BY <1>1, <1>2, <1>6, <1>7 DEF DeletionOK, NoOpenPort, IsIsolate, Ending
<1>9. Types'
  BY <1>1, <1>2, <1>0 DEF IInv, Types, TypeOK
<1> QED BY <1>3, <1>4, <1>5, <1>8, <1>9 DEF IInv

LEMMA CloserDeletesKeeps ==
  ASSUME IInv, CloserDeletes PROVE IInv'
<1>1. /\ closer = "delete" /\ closer' = "done" /\ deleted' = deleted + 1
      /\ UNCHANGED <<handler, ports, mutex, post, queue, oob_queue, resume_caps, paused,
           should_pause_on_start, should_pause_on_exit, remembered, handled, callbacks, interrupt,
           is_paused_on_start, is_paused_on_exit, task_running, pool, tasks, pc, status,
           frames, delete_me>>
  BY DEF CloserDeletes, map, queues, pauses, should, is, task, notes, close, thread
<1>2. ~IsIsolate /\ ~delete_me /\ NoOpenPort /\ deleted = 0 /\ pc = "idle" /\ ~task_running
  BY <1>1 DEF IInv, DeletionOK
<1>3. deleted' = 1 /\ deleted' \in Nat
  BY <1>1, <1>2, SMT
<1>4. PostsOK' /\ MessagesOK'
  BY <1>1, MessagesRest DEF IInv, PostsOK
<1>5. FramesOK' /\ TasksOK' /\ PausesOK' /\ EventOK'
  BY <1>1, ThreadRests, EventRests
<1>6. LeftOK'
  BY <1>1 DEF IInv, LeftOK, KeepAlive, IsIsolate, HasLivePorts, top
<1>7. DeletionOK'
  BY <1>1, <1>2, <1>3 DEF DeletionOK, NoOpenPort, IsIsolate
<1>8. Types'
  BY <1>1, <1>3 DEF IInv, Types, TypeOK
<1> QED BY <1>4, <1>5, <1>6, <1>7, <1>8 DEF IInv

-----------------------------------------------------------------------------
(* TaskCallback *)

LEMMA InTaskFacts ==
  ASSUME IInv, InTask
  PROVE  /\ OnPool /\ pool /\ task_running /\ tasks = 0 /\ deleted = 0
         /\ pc \notin {"new", "idle"} \cup Ending
         /\ ~IsIsolate => /\ closer # "delete" /\ (closer = "done" => delete_me)
                          /\ status = kOK
<1>1. OnPool /\ pool /\ task_running /\ tasks = 0
  BY DEF IInv, TasksOK, InTask
<1>2. pc \notin {"new", "idle"} \cup Ending
  BY DEF InTask, Locked, Ending
<1>3. closer \in {"open", "closed", "delete", "done"}
  BY DEF IInv, Types, TypeOK
<1> QED BY <1>1, <1>2, <1>3 DEF IInv, DeletionOK, TasksOK, Ending

\* The task goes on,
LEMMA StepInTask ==
  ASSUME IInv, InTask, InTask',
         UNCHANGED <<handler, ports, mutex, post, task_running, pool, tasks, delete_me,
                     closer, deleted>>,
         pc' \in {"notify_start", "notify_exit"} => IsIsolate, ~IsIsolate => status' = kOK
  PROVE  TasksOK' /\ DeletionOK' /\ PostsOK'
<1>1. pc' \notin {"new", "idle"} \cup Ending
  BY DEF InTask, Locked, Ending
<1>2. TasksOK'
  BY <1>1, InTaskFacts DEF TasksOK, OnPool, IsIsolate, Ending
<1>3. DeletionOK'
  BY <1>1, InTaskFacts DEF IInv, DeletionOK, NoOpenPort, IsIsolate, Ending
<1> QED BY <1>2, <1>3 DEF IInv, PostsOK

\* or ends,
LEMMA StepEndsTask ==
  ASSUME IInv, InTask, TaskEnds,
         UNCHANGED <<handler, ports, mutex, post, delete_me, closer, deleted>>,
         ~IsIsolate => ~delete_me /\ status' = kOK
  PROVE  TasksOK' /\ DeletionOK' /\ PostsOK'
<1>1. pc' = "idle" /\ ~task_running' /\ pool' = pool /\ tasks' = tasks
  BY DEF TaskEnds
<1>2. ~InTask'
  BY <1>1 DEF InTask, Locked
<1>3. TasksOK'
  BY <1>1, <1>2, InTaskFacts DEF TasksOK, OnPool, IsIsolate, Ending
<1>4. DeletionOK'
  BY <1>1, InTaskFacts DEF IInv, DeletionOK, NoOpenPort, IsIsolate, Ending
<1> QED BY <1>3, <1>4 DEF IInv, PostsOK

\* or the handler ends with it.
LEMMA StepEndsHandler ==
  ASSUME IInv, InTask, HandlerEnds,
         UNCHANGED <<handler, ports, mutex, post, delete_me, closer, deleted>>,
         ~IsIsolate => delete_me /\ status' = kOK
  PROVE  TasksOK' /\ DeletionOK' /\ PostsOK' /\ pc' \in {"shutdown", "delete"} /\ ~pool'
<1>1. /\ pc' \in {"shutdown", "delete"} /\ ~task_running' /\ ~pool' /\ tasks' = tasks
      /\ IsIsolate <=> pc' = "shutdown"
  BY DEF HandlerEnds
<1>2. ~InTask'
  BY <1>1 DEF InTask, Locked
<1>3. TasksOK'
  BY <1>1, <1>2, InTaskFacts DEF TasksOK, OnPool, IsIsolate, Ending
<1>4. DeletionOK'
  BY <1>1, InTaskFacts DEF IInv, DeletionOK, NoOpenPort, IsIsolate, Ending
<1> QED BY <1>1, <1>3, <1>4 DEF IInv, PostsOK

\* The thread is outside HandleMessages.
LEMMA OutsideKeeps ==
  ASSUME IInv, frames' = <<>>, pc' \in Outside, UNCHANGED <<handler, post, queue, oob_queue>>
  PROVE  /\ FramesOK' /\ MessagesOK' /\ EventOK'
         /\ frames' \in Seq(Frames) /\ Len(frames') <= 2
<1>1. frames' \in Seq(Frames) /\ Len(frames') <= 2 /\ Len(frames') # 2
  BY SMT
<1>2. ~Nested'
  BY <1>1 DEF Nested
<1>3. FramesOK'
  BY <1>2 DEF FramesOK, Outside
<1>4. MessagesOK'
  BY <1>2 DEF IInv, MessagesOK, Sent
<1>5. EventOK'
  BY DEF IInv, EventOK, Outside
<1> QED BY <1>1, <1>3, <1>4, <1>5

LEMMA PopsTo ==
  ASSUME IInv, pc = "return", top.caller # "interrupt", frames' = Tail(frames)
  PROVE  frames' = <<>>
  BY TypeFacts, PopFrame DEF IInv, FramesOK, Outside

LEMMA RunKeeps ==
  ASSUME IInv, Run PROVE IInv'
<1>1. /\ OnPool /\ pc = "new" /\ pool' /\ pool' \in BOOLEAN /\ task_running'
      /\ task_running' \in BOOLEAN /\ tasks' = tasks + 1
      /\ pc' = "idle"
      /\ UNCHANGED <<map, queues, pauses, should, is, notes, close, status, frames, handled>>
  BY DEF Run
<1>2. UNCHANGED <<handler, ports, mutex, post, queue, oob_queue, is_paused_on_start,
                  is_paused_on_exit, delete_me, closer, deleted, status, frames>>
  BY <1>1 DEF map, queues, pauses, should, is, task, notes, close, thread
<1>3. frames' = <<>> /\ pc' \in Outside
  BY <1>1, <1>2 DEF IInv, FramesOK, Outside
<1>4. /\ FramesOK' /\ MessagesOK' /\ EventOK'
      /\ frames' \in Seq(Frames) /\ Len(frames') <= 2
  BY <1>2, <1>3, OutsideKeeps
<1>5. ~InTask /\ ~InTask'
  BY <1>1 DEF InTask, Locked
<1>6. tasks = 0 /\ tasks' = 1 /\ tasks' \in Nat
  <2>1. ~pool /\ ~task_running /\ tasks = 0
    BY <1>1 DEF IInv, TasksOK
  <2>2. 0 + 1 = 1 /\ 1 \in Nat
    BY SMT
  <2> QED BY <1>1, <2>1, <2>2
<1>7. TasksOK'
  BY <1>1, <1>2, <1>5, <1>6 DEF IInv, TasksOK, OnPool, IsIsolate, Ending
<1>8. PausesOK' /\ LeftOK'
  BY <1>1, <1>2, <1>3 DEF IInv, PausesOK, LeftOK, IsIsolate, OnPool, FramesOK, Outside
<1>9. PostsOK' /\ DeletionOK'
  BY <1>1, <1>2 DEF IInv, PostsOK, DeletionOK, NoOpenPort, IsIsolate, Ending
<1>10. Types'
  BY <1>1, <1>4, <1>6 DEF IInv, Types, TypeOK, map, queues, pauses, should, is, task, notes, close, thread
<1> QED BY <1>4, <1>7, <1>8, <1>9, <1>10 DEF IInv

LEMMA TaskStartsKeeps ==
  ASSUME IInv, TaskStarts PROVE IInv'
<1>1. /\ pc = "idle" /\ tasks > 0 /\ tasks' = tasks - 1 /\ status' = kOK
      /\ UNCHANGED <<handler, ports, mutex, post, queue, oob_queue, paused,
           should_pause_on_start, is_paused_on_start, is_paused_on_exit, task_running,
           pool, delete_me, closer, deleted>>
  BY DEF TaskStarts, map, queues, pauses, should, is, task, notes, close, thread
<1>2. /\ ~InTask /\ tasks # 0 /\ task_running /\ tasks = 1 /\ tasks' = 0 /\ tasks' \in Nat
      /\ pool /\ OnPool
  <2>1. ~InTask
    BY <1>1 DEF InTask, Locked
  <2>2. tasks # 0
    BY <1>1, TypeFacts, SMT
  <2>3. task_running /\ tasks = 1 /\ pool /\ OnPool
    BY <2>1, <2>2 DEF IInv, TasksOK
  <2>4. 1 - 1 = 0 /\ 0 \in Nat
    BY SMT
  <2> QED BY <1>1, <2>1, <2>2, <2>3, <2>4
<1>3. frames = <<>> /\ ~Nested
  BY <1>1 DEF IInv, FramesOK, Outside
<1>7. /\ pc' \in {"notify_start", "enter", "resume"}
      /\ pc' = "notify_start" => IsIsolate
      /\ frames' \in Seq(Frames) /\ Len(frames') <= 2
      /\ FramesOK' /\ MessagesOK' /\ EventOK' /\ PausesOK' /\ LeftOK'
  <2>1. CASE ShouldPauseOnStart(kOK) /\ ~is_paused_on_start
    <3>1. pc' = "notify_start" /\ frames' = frames /\ IsIsolate
      BY <2>1 DEF TaskStarts, ShouldPauseOnStart
    <3>2. /\ FramesOK' /\ MessagesOK' /\ EventOK'
          /\ frames' \in Seq(Frames) /\ Len(frames') <= 2
      BY <1>1, <1>3, <3>1, OutsideKeeps DEF Outside
    <3>3. PausesOK' /\ LeftOK'
      BY <1>1, <1>2, <1>3, <2>1, <3>1 DEF IInv, PausesOK, LeftOK, IsIsolate, OnPool
    <3> QED BY <3>1, <3>2, <3>3
  <2>2. CASE ShouldPauseOnStart(kOK) /\ is_paused_on_start
    <3>1. Call("start", FALSE, FALSE) /\ IsIsolate
      BY <2>2 DEF TaskStarts, ShouldPauseOnStart
    <3>2. "start" \in Callers
      BY DEF Callers
    <3>3. /\ frames' \in Seq(Frames) /\ Len(frames') <= 2 /\ frames' # <<>>
          /\ pc' = "enter" /\ top'.caller = "start"
          /\ FramesOK' /\ MessagesOK' /\ EventOK'
      BY <1>1, <1>2, <1>3, <3>1, <3>2, CallKeeps
    <3>4. PausesOK' /\ LeftOK'
      BY <1>1, <1>2, <1>3, <2>2, <3>1, <3>3 DEF IInv, PausesOK, LeftOK, IsIsolate, OnPool
    <3> QED BY <3>3, <3>4
  <2>3. CASE ~ShouldPauseOnStart(kOK)
    <3>1. pc' = "resume" /\ frames' = frames
      BY <2>3 DEF TaskStarts
    <3>2. /\ FramesOK' /\ MessagesOK' /\ EventOK'
          /\ frames' \in Seq(Frames) /\ Len(frames') <= 2
      BY <1>1, <1>3, <3>1, OutsideKeeps DEF Outside
    <3>3. ~is_paused_on_start
      BY <1>1, <1>3, <2>3, StatusFacts DEF IInv, PausesOK, ShouldPauseOnStart
    <3>4. PausesOK' /\ LeftOK'
      BY <1>1, <1>2, <1>3, <3>1, <3>3 DEF IInv, PausesOK, LeftOK, IsIsolate, OnPool
    <3> QED BY <3>1, <3>2, <3>4
  <2> QED BY <2>1, <2>2, <2>3
<1>8. InTask'
  BY <1>1, <1>2, <1>7 DEF InTask, OnPool, Locked
<1>9. TasksOK'
  BY <1>1, <1>2, <1>7, <1>8 DEF IInv, TasksOK, OnPool, IsIsolate, Ending
<1>10. PostsOK' /\ DeletionOK'
  BY <1>1, <1>2, <1>7 DEF IInv, PostsOK, DeletionOK, NoOpenPort, IsIsolate, Ending
<1>11. Types'
  BY <1>1, <1>2, <1>7, StatusFacts DEF TaskStarts, IInv, Types, TypeOK, Locked, map, queues, pauses, should, is, task, notes, close, thread
<1> QED BY <1>7, <1>9, <1>10, <1>11 DEF IInv

\* Without a pool the thread is only in HandleMessages or on its way out.
LEMMA OnPoolOnly ==
  ASSUME IInv, pc \in {"notify_start", "notify_exit", "resume", "main", "exit"}
  PROVE  OnPool
  BY DEF IInv, TasksOK

LEMMA NotifyPauseOnStartKeeps ==
  ASSUME IInv, NotifyPauseOnStart PROVE IInv'
<1>1. /\ pc = "notify_start" /\ is_paused_on_start' /\ is_paused_on_start' \in BOOLEAN
      /\ Call("start", FALSE, FALSE)
      /\ UNCHANGED <<handler, ports, mutex, post, queue, oob_queue, resume_caps, paused,
           should_pause_on_start, should_pause_on_exit, callbacks, interrupt, handled,
           delete_me, closer, deleted>>
      /\ UNCHANGED <<is_paused_on_exit, remembered, task_running, pool, tasks, status>>
  BY DEF NotifyPauseOnStart, map, queues, pauses, should, is, task, notes, close, thread
<1>2. frames = <<>> /\ ~Nested /\ IsIsolate
  BY <1>1 DEF IInv, FramesOK, TasksOK, Outside
<1>3. InTask
  BY <1>1, OnPoolOnly DEF InTask
<1>4. "start" \in Callers
  BY DEF Callers
<1>5. OnPool /\ task_running
  BY <1>3, InTaskFacts
<1>6. /\ frames' \in Seq(Frames) /\ Len(frames') <= 2 /\ frames' # <<>>
      /\ pc' = "enter" /\ top'.caller = "start"
      /\ FramesOK' /\ MessagesOK' /\ EventOK'
  BY <1>1, <1>2, <1>4, <1>5, CallKeeps
<1>7. InTask'
  BY <1>1, <1>5, <1>6 DEF InTask, OnPool
<1>8. TasksOK' /\ DeletionOK' /\ PostsOK'
  BY <1>1, <1>2, <1>3, <1>6, <1>7, StepInTask
<1>9. PausesOK' /\ LeftOK'
  BY <1>1, <1>2, <1>5, <1>6 DEF IInv, PausesOK, LeftOK, IsIsolate, OnPool
<1>10. Types'
  BY <1>1, <1>6 DEF IInv, Types, TypeOK
<1> QED BY <1>6, <1>8, <1>9, <1>10 DEF IInv

LEMMA NotifyPauseOnExitKeeps ==
  ASSUME IInv, NotifyPauseOnExit PROVE IInv'
<1>1. /\ pc = "notify_exit" /\ is_paused_on_exit' /\ is_paused_on_exit' \in BOOLEAN
      /\ Call("exit", FALSE, FALSE)
      /\ UNCHANGED <<handler, ports, mutex, post, queue, oob_queue, resume_caps, paused,
           should_pause_on_start, should_pause_on_exit, callbacks, interrupt, handled,
           delete_me, closer, deleted>>
      /\ UNCHANGED <<is_paused_on_start, remembered, task_running, pool, tasks, status>>
  BY DEF NotifyPauseOnExit, map, queues, pauses, should, is, task, notes, close, thread
<1>2. frames = <<>> /\ ~Nested /\ IsIsolate
  BY <1>1 DEF IInv, FramesOK, TasksOK, Outside
<1>3. InTask
  BY <1>1, OnPoolOnly DEF InTask
<1>4. "exit" \in Callers
  BY DEF Callers
<1>5. OnPool /\ task_running
  BY <1>3, InTaskFacts
<1>6. /\ frames' \in Seq(Frames) /\ Len(frames') <= 2 /\ frames' # <<>>
      /\ pc' = "enter" /\ top'.caller = "exit"
      /\ FramesOK' /\ MessagesOK' /\ EventOK'
  BY <1>1, <1>2, <1>4, <1>5, CallKeeps
<1>7. InTask'
  BY <1>1, <1>5, <1>6 DEF InTask, OnPool
<1>8. TasksOK' /\ DeletionOK' /\ PostsOK'
  BY <1>1, <1>2, <1>3, <1>6, <1>7, StepInTask
<1>9. PausesOK' /\ LeftOK'
  BY <1>1, <1>2, <1>5, <1>6 DEF IInv, PausesOK, LeftOK, IsIsolate, OnPool
<1>10. Types'
  BY <1>1, <1>6 DEF IInv, Types, TypeOK
<1> QED BY <1>6, <1>8, <1>9, <1>10 DEF IInv

LEMMA ReturnStartKeeps ==
  ASSUME IInv, ReturnStart PROVE IInv'
<1>1. /\ pc = "return" /\ top.caller = "start" /\ frames' = Tail(frames)
      /\ UNCHANGED <<handler, ports, mutex, post, queue, oob_queue, resume_caps, paused,
           should_pause_on_start, should_pause_on_exit, callbacks, interrupt, handled,
           delete_me, closer, deleted>>
      /\ UNCHANGED <<is_paused_on_exit, remembered>>
  BY DEF ReturnStart, map, queues, pauses, should, is, task, notes, close, thread
<1>2. /\ pc \in Inside /\ frames # <<>> /\ IsIsolate /\ OnPool /\ top.max \in Statuses
      /\ oob_queue = <<>> /\ is_paused_on_start /\ remembered \in Statuses
  BY <1>1, InsideFacts, FrameTypes, TypeFacts DEF Inside, IInv, FramesOK, FrameOK, LeftOK, PausesOK
<1>3. InTask /\ frames' = <<>>
  BY <1>1, <1>2, PopsTo DEF InTask, Locked
<1>4. \/ /\ ShouldPauseOnStart(top.max) /\ TaskEnds /\ UNCHANGED is_paused_on_start /\ UNCHANGED status
      \/ /\ ~ShouldPauseOnStart(top.max) /\ ~is_paused_on_start' /\ is_paused_on_start' \in BOOLEAN
         /\ status' = top.max /\ pc' = "resume" /\ UNCHANGED task
  BY <1>2 DEF ReturnStart, map, queues, pauses, should, is, task, notes, close, thread
<1>5. CASE ShouldPauseOnStart(top.max)
  <2>1. /\ TaskEnds /\ pc' = "idle" /\ pc' \in Outside /\ UNCHANGED <<is_paused_on_start, pool, tasks>>
        /\ ~task_running' /\ task_running' \in BOOLEAN /\ status' \in Statuses
    BY <1>2, <1>4, <1>5, TypeFacts DEF TaskEnds, Outside
  <2>2. /\ FramesOK' /\ MessagesOK' /\ EventOK'
        /\ frames' \in Seq(Frames) /\ Len(frames') <= 2
    BY <1>1, <1>3, <2>1, OutsideKeeps
  <2>3. TasksOK' /\ DeletionOK' /\ PostsOK'
    BY <1>1, <1>2, <1>3, <2>1, StepEndsTask
  <2>4. PausesOK' /\ LeftOK'
    BY <1>1, <1>2, <1>3, <1>5, <2>1 DEF IInv, PausesOK, LeftOK, IsIsolate, OnPool, ShouldPauseOnStart
  <2>5. Types'
    BY <1>1, <2>1, <2>2 DEF IInv, Types, TypeOK
  <2> QED BY <2>2, <2>3, <2>4, <2>5 DEF IInv
<1>6. CASE ~ShouldPauseOnStart(top.max)
  <2>1. /\ pc' = "resume" /\ pc' \in Outside /\ ~is_paused_on_start' /\ is_paused_on_start' \in BOOLEAN
        /\ UNCHANGED <<task_running, pool, tasks>> /\ status' \in Statuses
    BY <1>2, <1>4, <1>6 DEF Outside, task
  <2>2. /\ FramesOK' /\ MessagesOK' /\ EventOK'
        /\ frames' \in Seq(Frames) /\ Len(frames') <= 2
    BY <1>1, <1>3, <2>1, OutsideKeeps
  <2>3. InTask'
    BY <1>1, <1>2, <2>1 DEF InTask, OnPool, Locked
  <2>4. TasksOK' /\ DeletionOK' /\ PostsOK'
    BY <1>1, <1>2, <1>3, <2>1, <2>3, StepInTask
  <2>5. PausesOK' /\ LeftOK'
    <3>1. task_running
      BY <1>3, InTaskFacts
    <3> QED BY <1>1, <1>2, <1>3, <2>1, <3>1 DEF IInv, PausesOK, LeftOK, IsIsolate, OnPool
  <2>6. Types'
    BY <1>1, <2>1, <2>2 DEF IInv, Types, TypeOK, Locked
  <2> QED BY <2>2, <2>4, <2>5, <2>6 DEF IInv
<1> QED BY <1>5, <1>6

LEMMA ReturnPausedExitKeeps ==
  ASSUME IInv, ReturnPausedExit PROVE IInv'
<1>1. /\ pc = "return" /\ top.caller = "paused_exit" /\ frames' = Tail(frames)
      /\ UNCHANGED <<handler, ports, mutex, post, queue, oob_queue, resume_caps, paused,
           should_pause_on_start, should_pause_on_exit, callbacks, interrupt, handled,
           delete_me, closer, deleted>>
      /\ UNCHANGED <<is_paused_on_start, remembered>>
  BY DEF ReturnPausedExit, map, queues, pauses, should, is, task, notes, close, thread
<1>2. /\ pc \in Inside /\ frames # <<>> /\ IsIsolate /\ OnPool /\ top.max \in Statuses
      /\ oob_queue = <<>> /\ is_paused_on_exit /\ remembered \in Statuses
  BY <1>1, InsideFacts, FrameTypes, TypeFacts DEF Inside, IInv, FramesOK, FrameOK, LeftOK, PausesOK
<1>3. InTask /\ frames' = <<>>
  BY <1>1, <1>2, PopsTo DEF InTask, Locked
<1>4. \/ /\ ShouldPauseOnExit(top.max) /\ TaskEnds /\ UNCHANGED is_paused_on_exit /\ UNCHANGED status
      \/ /\ ~ShouldPauseOnExit(top.max) /\ ~is_paused_on_exit' /\ is_paused_on_exit' \in BOOLEAN
         /\ status' \in {remembered, top.max} /\ pc' = "main" /\ UNCHANGED task
  BY <1>2 DEF ReturnPausedExit, map, queues, pauses, should, is, task, notes, close, thread
<1>5. CASE ShouldPauseOnExit(top.max)
  <2>1. /\ TaskEnds /\ pc' = "idle" /\ pc' \in Outside /\ UNCHANGED <<is_paused_on_exit, pool, tasks>>
        /\ ~task_running' /\ task_running' \in BOOLEAN /\ status' \in Statuses
    BY <1>2, <1>4, <1>5, TypeFacts DEF TaskEnds, Outside
  <2>2. /\ FramesOK' /\ MessagesOK' /\ EventOK'
        /\ frames' \in Seq(Frames) /\ Len(frames') <= 2
    BY <1>1, <1>3, <2>1, OutsideKeeps
  <2>3. TasksOK' /\ DeletionOK' /\ PostsOK'
    BY <1>1, <1>2, <1>3, <2>1, StepEndsTask
  <2>4. PausesOK' /\ LeftOK'
    BY <1>1, <1>2, <1>3, <1>5, <2>1 DEF IInv, PausesOK, LeftOK, IsIsolate, OnPool, ShouldPauseOnExit
  <2>5. Types'
    BY <1>1, <2>1, <2>2 DEF IInv, Types, TypeOK
  <2> QED BY <2>2, <2>3, <2>4, <2>5 DEF IInv
<1>6. CASE ~ShouldPauseOnExit(top.max)
  <2>1. /\ pc' = "main" /\ pc' \in Outside /\ ~is_paused_on_exit' /\ is_paused_on_exit' \in BOOLEAN
        /\ UNCHANGED <<task_running, pool, tasks>> /\ status' \in Statuses
    BY <1>2, <1>4, <1>6 DEF Outside, task
  <2>2. /\ FramesOK' /\ MessagesOK' /\ EventOK'
        /\ frames' \in Seq(Frames) /\ Len(frames') <= 2
    BY <1>1, <1>3, <2>1, OutsideKeeps
  <2>3. InTask'
    BY <1>1, <1>2, <2>1 DEF InTask, OnPool, Locked
  <2>4. TasksOK' /\ DeletionOK' /\ PostsOK'
    BY <1>1, <1>2, <1>3, <2>1, <2>3, StepInTask
  <2>5. PausesOK' /\ LeftOK'
    <3>1. task_running
      BY <1>3, InTaskFacts
    <3> QED BY <1>1, <1>2, <1>3, <2>1, <3>1 DEF IInv, PausesOK, LeftOK, IsIsolate, OnPool
  <2>6. Types'
    BY <1>1, <2>1, <2>2 DEF IInv, Types, TypeOK, Locked
  <2> QED BY <2>2, <2>4, <2>5, <2>6 DEF IInv
<1> QED BY <1>5, <1>6

LEMMA ReturnExitKeeps ==
  ASSUME IInv, ReturnExit PROVE IInv'
<1>1. /\ pc = "return" /\ top.caller = "exit" /\ frames' = Tail(frames)
      /\ UNCHANGED <<handler, ports, mutex, post, queue, oob_queue, resume_caps, paused,
           should_pause_on_start, should_pause_on_exit, callbacks, interrupt, handled,
           delete_me, closer, deleted>>
      /\ UNCHANGED <<is_paused_on_start, remembered>>
  BY DEF ReturnExit, map, queues, pauses, should, is, task, notes, close, thread
<1>2. /\ pc \in Inside /\ frames # <<>> /\ IsIsolate /\ OnPool /\ top.max \in Statuses
      /\ oob_queue = <<>> /\ is_paused_on_exit /\ remembered \in Statuses
  BY <1>1, InsideFacts, FrameTypes, TypeFacts DEF Inside, IInv, FramesOK, FrameOK, LeftOK, PausesOK
<1>3. InTask /\ frames' = <<>>
  BY <1>1, <1>2, PopsTo DEF InTask, Locked
<1>4. \/ /\ ShouldPauseOnExit(top.max) /\ TaskEnds /\ UNCHANGED is_paused_on_exit /\ status' = top.max
      \/ /\ ~ShouldPauseOnExit(top.max) /\ ~is_paused_on_exit' /\ is_paused_on_exit' \in BOOLEAN
         /\ status' = top.max /\ HandlerEnds
  BY <1>2 DEF ReturnExit, map, queues, pauses, should, is, task, notes, close, thread
<1>5. CASE ShouldPauseOnExit(top.max)
  <2>1. /\ TaskEnds /\ pc' = "idle" /\ pc' \in Outside /\ UNCHANGED <<is_paused_on_exit, pool, tasks>>
        /\ ~task_running' /\ task_running' \in BOOLEAN /\ status' \in Statuses
    BY <1>2, <1>4, <1>5, TypeFacts DEF TaskEnds, Outside
  <2>2. /\ FramesOK' /\ MessagesOK' /\ EventOK'
        /\ frames' \in Seq(Frames) /\ Len(frames') <= 2
    BY <1>1, <1>3, <2>1, OutsideKeeps
  <2>3. TasksOK' /\ DeletionOK' /\ PostsOK'
    BY <1>1, <1>2, <1>3, <2>1, StepEndsTask
  <2>4. PausesOK' /\ LeftOK'
    BY <1>1, <1>2, <1>3, <1>5, <2>1 DEF IInv, PausesOK, LeftOK, IsIsolate, OnPool, ShouldPauseOnExit
  <2>5. Types'
    BY <1>1, <2>1, <2>2 DEF IInv, Types, TypeOK
  <2> QED BY <2>2, <2>3, <2>4, <2>5 DEF IInv
<1>6. CASE ~ShouldPauseOnExit(top.max)
  <2>1. /\ HandlerEnds /\ ~is_paused_on_exit' /\ is_paused_on_exit' \in BOOLEAN /\ status' = top.max
        /\ pc' = "shutdown" /\ pc' \in Outside /\ ~pool' /\ ~task_running' /\ tasks' = tasks
        /\ pool' \in BOOLEAN /\ task_running' \in BOOLEAN
    BY <1>2, <1>4, <1>6 DEF HandlerEnds, Outside
  <2>2. /\ FramesOK' /\ MessagesOK' /\ EventOK'
        /\ frames' \in Seq(Frames) /\ Len(frames') <= 2
    BY <1>1, <1>3, <2>1, OutsideKeeps
  <2>3. TasksOK' /\ DeletionOK' /\ PostsOK'
    BY <1>1, <1>2, <1>3, <2>1, StepEndsHandler
  <2>4. PausesOK' /\ LeftOK'
    BY <1>1, <1>2, <1>3, <2>1 DEF IInv, PausesOK, LeftOK, IsIsolate, OnPool
  <2>5. Types'
    BY <1>1, <1>2, <2>1, <2>2 DEF IInv, Types, TypeOK
  <2> QED BY <2>2, <2>3, <2>4, <2>5 DEF IInv
<1> QED BY <1>5, <1>6

LEMMA ResumeKeeps ==
  ASSUME IInv, Resume PROVE IInv'
<1>1. /\ pc = "resume"
      /\ UNCHANGED <<handler, ports, mutex, post, queue, oob_queue, resume_caps, paused,
           should_pause_on_start, should_pause_on_exit, remembered, callbacks, interrupt,
           handled, delete_me, closer, deleted>>
      /\ UNCHANGED <<is_paused_on_start, is_paused_on_exit, task_running, pool, tasks, status>>
  BY DEF Resume, map, queues, pauses, should, is, task, notes, close, thread
<1>2. frames = <<>> /\ ~Nested /\ OnPool
  BY <1>1 DEF IInv, FramesOK, TasksOK, Outside
<1>3. InTask /\ task_running
  BY <1>1, <1>2, InTaskFacts DEF InTask, Locked
<1>4. CASE is_paused_on_exit
  <2>1. Call("paused_exit", FALSE, FALSE) /\ "paused_exit" \in Callers
    BY <1>4 DEF Resume, Callers
  <2>2. IsIsolate
    BY <1>4 DEF IInv, PausesOK
  <2>3. /\ frames' \in Seq(Frames) /\ Len(frames') <= 2 /\ frames' # <<>>
        /\ pc' = "enter" /\ top'.caller = "paused_exit"
        /\ FramesOK' /\ MessagesOK' /\ EventOK'
    BY <1>1, <1>2, <2>1, <2>2, CallKeeps
  <2>4. InTask'
    BY <1>1, <1>2, <2>3 DEF InTask, OnPool
  <2>5. TasksOK' /\ DeletionOK' /\ PostsOK'
    BY <1>1, <1>3, <2>3, <2>4, StepInTask, InTaskFacts
  <2>6. PausesOK' /\ LeftOK'
    BY <1>1, <1>2, <1>3, <1>4, <2>2, <2>3 DEF IInv, PausesOK, LeftOK, IsIsolate, OnPool
  <2>7. Types'
    BY <1>1, <2>3 DEF IInv, Types, TypeOK
  <2> QED BY <2>3, <2>5, <2>6, <2>7 DEF IInv
<1>5. CASE ~is_paused_on_exit
  <2>1. pc' = "main" /\ pc' \in Outside /\ frames' = frames
    BY <1>5 DEF Resume, Outside
  <2>2. /\ FramesOK' /\ MessagesOK' /\ EventOK'
        /\ frames' \in Seq(Frames) /\ Len(frames') <= 2
    BY <1>1, <1>2, <2>1, OutsideKeeps
  <2>3. InTask'
    BY <1>1, <1>2, <2>1 DEF InTask, OnPool, Locked
  <2>4. TasksOK' /\ DeletionOK' /\ PostsOK'
    BY <1>1, <1>3, <2>1, <2>3, StepInTask, InTaskFacts
  <2>5. PausesOK' /\ LeftOK'
    BY <1>1, <1>2, <1>3, <1>5, <2>1 DEF IInv, PausesOK, LeftOK, IsIsolate, OnPool
  <2>6. Types'
    BY <1>1, <2>1, <2>2 DEF IInv, Types, TypeOK, Locked
  <2> QED BY <2>2, <2>4, <2>5, <2>6 DEF IInv
<1> QED BY <1>4, <1>5

LEMMA MainKeeps ==
  ASSUME IInv, Main PROVE IInv'
<1>1. /\ pc = "main"
      /\ UNCHANGED <<handler, ports, mutex, post, queue, oob_queue, resume_caps, paused,
           should_pause_on_start, should_pause_on_exit, remembered, callbacks, interrupt,
           handled, delete_me, closer, deleted>>
      /\ UNCHANGED <<is_paused_on_start, is_paused_on_exit, task_running, pool, tasks, status>>
  BY DEF Main, map, queues, pauses, should, is, task, notes, close, thread
<1>2. frames = <<>> /\ ~Nested /\ OnPool
  BY <1>1 DEF IInv, FramesOK, TasksOK, Outside
<1>3. InTask /\ task_running
  BY <1>1, <1>2, InTaskFacts DEF InTask, Locked
<1>4. CASE status = kOK
  <2>1. Call("main", TRUE, TRUE) /\ "main" \in Callers
    BY <1>4 DEF Main, Callers
  <2>2. ~is_paused_on_start /\ ~is_paused_on_exit
    BY <1>1, <1>2 DEF IInv, PausesOK
  <2>3. /\ frames' \in Seq(Frames) /\ Len(frames') <= 2 /\ frames' # <<>>
        /\ pc' = "enter" /\ top'.caller = "main"
        /\ FramesOK' /\ MessagesOK' /\ EventOK'
    BY <1>1, <1>2, <2>1, <2>2, CallKeeps
  <2>4. InTask'
    BY <1>1, <1>2, <2>3 DEF InTask, OnPool
  <2>5. TasksOK' /\ DeletionOK' /\ PostsOK'
    BY <1>1, <1>3, <2>3, <2>4, StepInTask, InTaskFacts
  <2>6. PausesOK' /\ LeftOK'
    BY <1>1, <1>2, <1>3, <1>4, <2>2, <2>3 DEF IInv, PausesOK, LeftOK, IsIsolate, OnPool
  <2>7. Types'
    BY <1>1, <2>3 DEF IInv, Types, TypeOK
  <2> QED BY <2>3, <2>5, <2>6, <2>7 DEF IInv
<1>5. CASE status # kOK
  <2>1. pc' = "exit" /\ pc' \in Outside /\ frames' = frames
    BY <1>5 DEF Main, Outside
  <2>2. /\ FramesOK' /\ MessagesOK' /\ EventOK'
        /\ frames' \in Seq(Frames) /\ Len(frames') <= 2
    BY <1>1, <1>2, <2>1, OutsideKeeps
  <2>3. InTask'
    BY <1>1, <1>2, <2>1 DEF InTask, OnPool, Locked
  <2>4. TasksOK' /\ DeletionOK' /\ PostsOK'
    BY <1>1, <1>3, <2>1, <2>3, StepInTask, InTaskFacts
  <2>5. PausesOK' /\ LeftOK'
    BY <1>1, <1>2, <1>3, <1>5, <2>1 DEF IInv, PausesOK, LeftOK, IsIsolate, OnPool
  <2>6. Types'
    BY <1>1, <2>1, <2>2 DEF IInv, Types, TypeOK, Locked
  <2> QED BY <2>2, <2>4, <2>5, <2>6 DEF IInv
<1> QED BY <1>4, <1>5

LEMMA ReturnMainKeeps ==
  ASSUME IInv, ReturnMain PROVE IInv'
<1>1. /\ pc = "return" /\ top.caller = "main" /\ frames' = Tail(frames)
      /\ status' = top.max /\ pc' = "exit" /\ pc' \in Outside
      /\ UNCHANGED <<handler, ports, mutex, post, queue, oob_queue, resume_caps, paused,
           should_pause_on_start, should_pause_on_exit, remembered, callbacks, interrupt,
           handled, delete_me, closer, deleted>>
      /\ UNCHANGED <<is_paused_on_start, is_paused_on_exit, task_running, pool, tasks>>
  BY DEF ReturnMain, Outside, map, queues, pauses, should, is, task, notes, close, thread
<1>2. /\ frames # <<>> /\ OnPool /\ top.max \in Statuses
      /\ oob_queue = <<>> /\ (~IsIsolate => top.max = kOK)
  BY <1>1, InsideFacts, FrameTypes DEF Inside, IInv, FramesOK, FrameOK, LeftOK
<1>3. InTask /\ task_running /\ frames' = <<>> /\ InTask'
  BY <1>1, <1>2, PopsTo, InTaskFacts DEF InTask, Locked, OnPool
<1>4. /\ FramesOK' /\ MessagesOK' /\ EventOK'
      /\ frames' \in Seq(Frames) /\ Len(frames') <= 2
  BY <1>1, <1>3, OutsideKeeps
<1>5. TasksOK' /\ DeletionOK' /\ PostsOK'
  BY <1>1, <1>2, <1>3, StepInTask
<1>6. PausesOK' /\ LeftOK'
  BY <1>1, <1>2, <1>3 DEF IInv, PausesOK, LeftOK, IsIsolate, OnPool
<1>7. Types'
  BY <1>1, <1>2, <1>4 DEF IInv, Types, TypeOK, Locked
<1> QED BY <1>4, <1>5, <1>6, <1>7 DEF IInv

LEMMA ExitKeeps ==
  ASSUME IInv, Exit PROVE IInv'
<1>1. /\ pc = "exit"
      /\ UNCHANGED <<handler, ports, mutex, post, queue, oob_queue, resume_caps, paused,
           should_pause_on_start, should_pause_on_exit, callbacks, interrupt, status, frames,
           is_paused_on_start, is_paused_on_exit, handled, delete_me, closer, deleted>>
  BY DEF Exit, map, queues, pauses, should, is, task, notes, close, thread
<1>2. frames = <<>> /\ OnPool /\ status \in Statuses /\ remembered \in Statuses
  BY <1>1, TypeFacts DEF IInv, FramesOK, TasksOK, Outside
<1>3. InTask /\ task_running /\ pool
  BY <1>1, <1>2, InTaskFacts DEF InTask, Locked
<1>4. ~is_paused_on_start /\ ~is_paused_on_exit /\ (~IsIsolate => status = kOK)
  BY <1>1, <1>2 DEF IInv, PausesOK, TasksOK
<1>5. CASE status = kOK /\ KeepAlive
  <2>1. TaskEnds /\ pc' = "idle" /\ pc' \in Outside /\ UNCHANGED <<remembered, pool, tasks>>
        /\ ~task_running' /\ task_running' \in BOOLEAN
    BY <1>5 DEF Exit, TaskEnds, Outside
  <2>2. /\ FramesOK' /\ MessagesOK' /\ EventOK'
        /\ frames' \in Seq(Frames) /\ Len(frames') <= 2
    BY <1>1, <1>2, <2>1, OutsideKeeps
  <2>3. TasksOK' /\ DeletionOK' /\ PostsOK'
    BY <1>1, <1>3, <1>4, <1>5, <2>1, StepEndsTask DEF KeepAlive
  <2>4. PausesOK' /\ LeftOK'
    BY <1>1, <1>2, <1>3, <1>4, <1>5, <2>1 DEF IInv, PausesOK, LeftOK, IsIsolate, OnPool, KeepAlive, HasLivePorts
  <2>5. Types'
    BY <1>1, <2>1, <2>2 DEF IInv, Types, TypeOK
  <2> QED BY <2>2, <2>3, <2>4, <2>5 DEF IInv
<1>6. CASE (status # kOK \/ ~KeepAlive) /\ ShouldPauseOnExit(status)
  <2>1. /\ remembered' = status /\ pc' = "notify_exit" /\ pc' \in Outside
        /\ UNCHANGED <<task_running, pool, tasks>> /\ IsIsolate
    BY <1>6 DEF Exit, ShouldPauseOnExit, task, Outside
  <2>2. /\ FramesOK' /\ MessagesOK' /\ EventOK'
        /\ frames' \in Seq(Frames) /\ Len(frames') <= 2
    BY <1>1, <1>2, <2>1, OutsideKeeps
  <2>3. InTask'
    BY <1>1, <1>2, <2>1 DEF InTask, OnPool
  <2>4. TasksOK' /\ DeletionOK' /\ PostsOK'
    BY <1>1, <1>3, <2>1, <2>3, StepInTask
  <2>5. PausesOK' /\ LeftOK'
    BY <1>1, <1>2, <1>3, <1>4, <2>1 DEF IInv, PausesOK, LeftOK, IsIsolate, OnPool
  <2>6. Types'
    BY <1>1, <1>2, <2>1, <2>2 DEF IInv, Types, TypeOK
  <2> QED BY <2>2, <2>4, <2>5, <2>6 DEF IInv
<1>7. CASE (status # kOK \/ ~KeepAlive) /\ ~ShouldPauseOnExit(status)
  <2>1. /\ HandlerEnds /\ remembered' = remembered
        /\ ~pool' /\ ~task_running' /\ tasks' = tasks
        /\ pool' \in BOOLEAN /\ task_running' \in BOOLEAN
    BY <1>5, <1>7 DEF Exit, HandlerEnds
  <2>2. ~IsIsolate => delete_me /\ status' = kOK
    BY <1>1, <1>4, <1>7 DEF KeepAlive
  <2>3. TasksOK' /\ DeletionOK' /\ PostsOK' /\ pc' \in {"shutdown", "delete"}
    BY <1>1, <1>3, <2>1, <2>2, StepEndsHandler
  <2>4. /\ FramesOK' /\ MessagesOK' /\ EventOK'
        /\ frames' \in Seq(Frames) /\ Len(frames') <= 2
    BY <1>1, <1>2, <2>3, OutsideKeeps DEF Outside
  <2>5. PausesOK' /\ LeftOK'
    BY <1>1, <1>2, <1>3, <1>4, <2>1, <2>3 DEF IInv, PausesOK, LeftOK, IsIsolate, OnPool
  <2>6. Types'
    BY <1>1, <2>1, <2>3, <2>4 DEF IInv, Types, TypeOK
  <2> QED BY <2>3, <2>4, <2>5, <2>6 DEF IInv
<1> QED BY <1>5, <1>6, <1>7

-----------------------------------------------------------------------------
(* Without a pool, and the end of a handler *)

\* A native port's handler ends only when its deletion was requested.
LEMMA NativeEnds ==
  ASSUME IInv, pc \in Ending, ~IsIsolate
  PROVE  delete_me /\ closer = "done" /\ pc # "close_all"
<1>1. closer \in {"open", "closed", "delete", "done"}
  BY DEF IInv, Types, TypeOK
<1> QED BY <1>1 DEF IInv, DeletionOK, TasksOK, Ending

LEMMA HandleNextMessageKeeps ==
  ASSUME IInv, HandleNextMessage PROVE IInv'
<1>1. /\ ~OnPool /\ pc \in {"new", "idle"} /\ callbacks > 0 /\ callbacks' = callbacks - 1
      /\ Call("next", TRUE, FALSE)
      /\ UNCHANGED <<handler, ports, mutex, post, queue, oob_queue, resume_caps, paused,
           should_pause_on_start, should_pause_on_exit, remembered, interrupt, status,
           is_paused_on_start, is_paused_on_exit, task_running, pool, tasks,
           handled, delete_me, closer, deleted>>
  BY DEF HandleNextMessage, map, queues, pauses, should, is, task, notes, close, thread
<1>2. /\ frames = <<>> /\ ~Nested /\ IsIsolate /\ callbacks' \in Nat /\ "next" \in Callers
      /\ ~is_paused_on_start /\ ~is_paused_on_exit
  <2>1. callbacks' \in Nat
    BY <1>1, TypeFacts, SMT
  <2>2. ~is_paused_on_start /\ ~is_paused_on_exit
    BY <1>1 DEF IInv, PausesOK, FramesOK, Outside
  <2> QED BY <1>1, <2>1, <2>2 DEF IInv, FramesOK, TasksOK, Outside, Callers
<1>3. /\ frames' \in Seq(Frames) /\ Len(frames') <= 2 /\ frames' # <<>>
      /\ pc' = "enter" /\ top'.caller = "next"
      /\ FramesOK' /\ MessagesOK' /\ EventOK'
  BY <1>1, <1>2, CallKeeps
<1>4. ~pool /\ ~task_running /\ tasks = 0 /\ ~InTask'
  BY <1>1 DEF IInv, TasksOK, InTask, OnPool
<1>5. TasksOK'
  BY <1>1, <1>2, <1>3, <1>4 DEF TasksOK, OnPool, IsIsolate
<1>6. PostsOK' /\ DeletionOK'
  BY <1>1, <1>2, <1>3 DEF IInv, PostsOK, DeletionOK, NoOpenPort, IsIsolate
<1>7. PausesOK' /\ LeftOK'
  BY <1>1, <1>2, <1>3, <1>4 DEF PausesOK, LeftOK
<1>8. Types'
  BY <1>1, <1>2, <1>3 DEF IInv, Types, TypeOK
<1> QED BY <1>3, <1>5, <1>6, <1>7, <1>8 DEF IInv

LEMMA ReturnNextKeeps ==
  ASSUME IInv, ReturnNext PROVE IInv'
<1>1. /\ pc = "return" /\ top.caller = "next" /\ frames' = Tail(frames)
      /\ pc' \in {"idle", "shutdown"}
      /\ UNCHANGED <<handler, ports, mutex, post, queue, oob_queue, resume_caps, paused,
           should_pause_on_start, should_pause_on_exit, remembered, callbacks, interrupt,
           handled, delete_me, closer, deleted>>
      /\ UNCHANGED <<is_paused_on_start, is_paused_on_exit, task_running, pool, tasks, status>>
  BY DEF ReturnNext, map, queues, pauses, should, is, task, notes, close, thread
<1>2. frames # <<>> /\ ~OnPool /\ frames' = <<>> /\ ~is_paused_on_start /\ ~is_paused_on_exit
  BY <1>1, InsideFacts, PopsTo DEF Inside, IInv, FramesOK, FrameOK, PausesOK
<1>3. IsIsolate /\ ~pool /\ ~task_running /\ tasks = 0 /\ ~InTask'
  BY <1>1, <1>2 DEF IInv, TasksOK, InTask, OnPool
<1>4. /\ FramesOK' /\ MessagesOK' /\ EventOK'
      /\ frames' \in Seq(Frames) /\ Len(frames') <= 2
  BY <1>1, <1>2, OutsideKeeps DEF Outside
<1>5. TasksOK'
  BY <1>1, <1>2, <1>3 DEF TasksOK, OnPool, IsIsolate
<1>6. PostsOK' /\ DeletionOK'
  BY <1>1, <1>3 DEF IInv, PostsOK, DeletionOK, NoOpenPort, IsIsolate
<1>7. PausesOK' /\ LeftOK'
  BY <1>1, <1>2, <1>3 DEF PausesOK, LeftOK
<1>8. Types'
  BY <1>1, <1>4 DEF IInv, Types, TypeOK
<1> QED BY <1>4, <1>5, <1>6, <1>7, <1>8 DEF IInv

LEMMA ClosePortsKeeps ==
  ASSUME IInv, ClosePorts PROVE IInv'
<1>1. /\ pc = "shutdown" /\ mutex = None /\ pc' = "close_all" /\ pc' \in Outside
      /\ ports' = [p \in Ports |-> IF ports[p] = "open" THEN "closed" ELSE ports[p]]
      /\ UNCHANGED <<handler, mutex, post, queue, oob_queue, resume_caps, paused,
           should_pause_on_start, should_pause_on_exit, remembered, callbacks, interrupt,
           is_paused_on_start, is_paused_on_exit, task_running, pool, tasks, status, frames,
           handled, delete_me, closer, deleted>>
  BY DEF ClosePorts, Outside, map, queues, pauses, should, is, task, notes, close, thread
<1>2. ports \in [Ports -> {"unborn", "open", "closed"}]
  BY DEF IInv, Types, TypeOK
<1>3. /\ ports' \in [Ports -> {"unborn", "open", "closed"}]
      /\ \A p \in Ports : ports'[p] # "open"
      /\ \A p \in Ports : ports[p] # "unborn" => ports'[p] # "unborn"
  <2>1. \A p \in Ports : /\ ports[p] \in {"unborn", "open", "closed"}
                         /\ ports'[p] = IF ports[p] = "open" THEN "closed" ELSE ports[p]
    BY <1>1, <1>2
  <2> QED BY <1>1, <2>1
<1>4. /\ frames = <<>> /\ IsIsolate /\ ~pool /\ ~task_running /\ tasks = 0
      /\ ~is_paused_on_start /\ ~is_paused_on_exit
  BY <1>1 DEF IInv, FramesOK, TasksOK, PausesOK, Outside, Ending
<1>5. PostsOK'
  BY <1>1, <1>3, PortsKeep
<1>6. /\ FramesOK' /\ MessagesOK' /\ EventOK'
      /\ frames' \in Seq(Frames) /\ Len(frames') <= 2
  BY <1>1, <1>4, OutsideKeeps
<1>7. TasksOK'
  BY <1>1, <1>4 DEF TasksOK, OnPool, IsIsolate, InTask, Ending, Locked
<1>8. PausesOK' /\ LeftOK' /\ DeletionOK'
  BY <1>1, <1>3, <1>4 DEF IInv, PausesOK, LeftOK, DeletionOK, NoOpenPort, IsIsolate, OnPool
<1>9. Types'
  BY <1>1, <1>3 DEF IInv, Types, TypeOK
<1> QED BY <1>5, <1>6, <1>7, <1>8, <1>9 DEF IInv

LEMMA CloseAllPortsKeeps ==
  ASSUME IInv, CloseAllPorts PROVE IInv'
<1>1. /\ pc = "close_all" /\ pc' = "delete" /\ queue' = <<>> /\ oob_queue' = <<>>
      /\ UNCHANGED <<handler, ports, mutex, post, resume_caps, paused,
           should_pause_on_start, should_pause_on_exit, remembered, callbacks, interrupt,
           is_paused_on_start, is_paused_on_exit, task_running, pool, tasks, status, frames,
           handled, delete_me, closer, deleted>>
  BY DEF CloseAllPorts, map, queues, pauses, should, is, task, notes, close, thread
<1>2. /\ frames = <<>> /\ frames' = <<>> /\ ~pool /\ ~task_running /\ tasks = 0
      /\ ~is_paused_on_start /\ ~is_paused_on_exit /\ IsIsolate
  <2>1. IsIsolate
    BY <1>1, NativeEnds DEF Ending
  <2> QED BY <1>1, <2>1 DEF IInv, FramesOK, TasksOK, PausesOK, Outside, Ending
<1>3. /\ queue' \in Seq(Messages) /\ oob_queue' \in Seq(Messages)
      /\ Contents(queue') = {} /\ Contents(oob_queue') = {} /\ Lead(queue')
  BY <1>1, EmptyQueue, SMT
<1>4. ~Nested' /\ frames' \in Seq(Frames) /\ Len(frames') <= 2
  BY <1>1, <1>2, TypeFacts DEF IInv, FramesOK, Outside, Nested
<1>5. FramesOK'
  BY <1>1, <1>2, <1>4 DEF FramesOK, Outside
<1>6. MessagesOK' /\ EventOK'
  BY <1>1, <1>2, <1>3, <1>4 DEF MessagesOK, EventOK
<1>7. TasksOK'
  BY <1>1, <1>2 DEF TasksOK, OnPool, IsIsolate, InTask, Ending, Locked
<1>8. PausesOK' /\ LeftOK' /\ DeletionOK' /\ PostsOK'
  BY <1>1, <1>2 DEF IInv, PausesOK, LeftOK, DeletionOK, NoOpenPort, IsIsolate, OnPool, PostsOK
<1>9. Types'
  BY <1>1, <1>3, <1>4 DEF IInv, Types, TypeOK
<1> QED BY <1>5, <1>6, <1>7, <1>8, <1>9 DEF IInv

LEMMA DeleteKeeps ==
  ASSUME IInv, Delete PROVE IInv'
<1>1. /\ pc = "delete" /\ pc' = "gone" /\ pc' \in Outside /\ deleted' = deleted + 1
      /\ UNCHANGED <<handler, ports, mutex, post, queue, oob_queue, resume_caps, paused,
           should_pause_on_start, should_pause_on_exit, remembered, callbacks, interrupt,
           is_paused_on_start, is_paused_on_exit, task_running, pool, tasks, status, frames,
           handled, delete_me, closer>>
  BY DEF Delete, Outside, map, queues, pauses, should, is, task, notes, close, thread
<1>2. /\ frames = <<>> /\ ~pool /\ ~task_running /\ tasks = 0
      /\ ~is_paused_on_start /\ ~is_paused_on_exit
  BY <1>1 DEF IInv, FramesOK, TasksOK, PausesOK, Outside, Ending
<1>3. deleted' = 1 /\ deleted' \in Nat
  <2>1. deleted = 0
    BY <1>1, NativeEnds DEF IInv, DeletionOK, Ending
  <2> QED BY <1>1, <2>1, SMT
<1>4. /\ FramesOK' /\ MessagesOK' /\ EventOK'
      /\ frames' \in Seq(Frames) /\ Len(frames') <= 2
  BY <1>1, <1>2, OutsideKeeps
<1>5. TasksOK'
  BY <1>1, <1>2 DEF IInv, TasksOK, OnPool, IsIsolate, InTask, Ending, Locked
<1>6. PausesOK' /\ LeftOK' /\ PostsOK'
  BY <1>1, <1>2 DEF IInv, PausesOK, LeftOK, PostsOK
<1>7. DeletionOK'
  BY <1>1, <1>2, <1>3, NativeEnds DEF IInv, DeletionOK, NoOpenPort, IsIsolate, Ending
<1>8. Types'
  BY <1>1, <1>3, <1>4 DEF IInv, Types, TypeOK
<1> QED BY <1>4, <1>5, <1>6, <1>7, <1>8 DEF IInv

-----------------------------------------------------------------------------
(* The invariant holds *)

LEMMA InitOK == Init => IInv
<1> SUFFICES ASSUME Init PROVE IInv
  OBVIOUS
<1>1. /\ handler \in Handlers /\ mutex = None /\ post = [m \in Messages |-> "new"]
      /\ queue = <<>> /\ oob_queue = <<>> /\ resume_caps = {} /\ paused = 0
      /\ should_pause_on_start = handler.pause_on_start
      /\ should_pause_on_exit = handler.pause_on_exit
      /\ ~is_paused_on_start /\ ~is_paused_on_exit /\ ~task_running /\ ~pool
      /\ ~interrupt /\ ~delete_me
      /\ {is_paused_on_start, is_paused_on_exit, task_running, pool, interrupt, delete_me}
           \subseteq BOOLEAN
      /\ remembered = kOK /\ status = kOK /\ tasks = 0 /\ callbacks = 0 /\ deleted = 0
      /\ closer = "open" /\ pc = "new" /\ frames = <<>> /\ handled = {}
  BY DEF Init
<1>2. /\ IsFiniteSet(resume_caps) /\ Cardinality(resume_caps) = 0
      /\ 0 \in Nat /\ Len(frames) = 0 /\ Len(frames) <= 2 /\ frames \in Seq(Frames)
      /\ kOK \in Statuses /\ ~Nested
      /\ queue \in Seq(Messages) /\ oob_queue \in Seq(Messages)
  <2>1. IsFiniteSet({}) /\ Cardinality({}) = 0
    BY FS_EmptySet
  <2>2. Len(frames) = 0 /\ Len(frames) <= 2 /\ Len(frames) # 2 /\ frames \in Seq(Frames)
    BY <1>1, SMT
  <2>3. queue \in Seq(Messages) /\ oob_queue \in Seq(Messages) /\ 0 \in Nat
    BY <1>1, SMT
  <2> QED BY <1>1, <2>1, <2>2, <2>3 DEF Nested, Statuses
<1>3. ports \in [Ports -> {"unborn", "open", "closed"}]
  BY DEF Init
<1>4. /\ should_pause_on_start \in BOOLEAN /\ should_pause_on_exit \in BOOLEAN
      /\ ~IsIsolate => OnPool
  BY <1>1, HandlerAssumption DEF HandlerSet, IsIsolate, OnPool
<1>5. post \in [Messages -> {"new", "refused", "found", "queued", "posted"}]
      /\ \A m \in Messages : post[m] = "new"
  BY <1>1
<1>6. Contents(queue) = {} /\ Contents(oob_queue) = {} /\ Lead(queue)
  BY <1>1, EmptyQueue
<1>7. Types
  BY <1>1, <1>2, <1>3, <1>4, <1>5 DEF Types, TypeOK, Locked
<1>8. FramesOK /\ PostsOK /\ MessagesOK
  BY <1>1, <1>2, <1>5, <1>6 DEF FramesOK, PostsOK, MessagesOK, Outside
<1>9. TasksOK /\ PausesOK /\ LeftOK
  BY <1>1, <1>4 DEF TasksOK, PausesOK, LeftOK, InTask, Locked, Ending
<1>10. EventOK /\ DeletionOK
  BY <1>1, <1>6 DEF EventOK, DeletionOK, Ending
<1> QED BY <1>7, <1>8, <1>9, <1>10 DEF IInv

LEMMA StutterKeeps ==
  ASSUME IInv, UNCHANGED vars PROVE IInv'
<1>1. UNCHANGED <<handler, ports, mutex, post, queue, oob_queue, resume_caps, paused,
        should_pause_on_start, should_pause_on_exit, is_paused_on_start,
        is_paused_on_exit, remembered, task_running, delete_me, pool, tasks, callbacks,
        interrupt, pc, status, frames, closer, deleted, handled>>
  BY DEF vars, map, queues, pauses, should, is, task, notes, close, thread
<1>2. Types'
  BY <1>1 DEF IInv, Types, TypeOK
<1>3. top' = top /\ below' = below /\ (Nested' <=> Nested)
  BY <1>1 DEF top, below, Nested
<1>4. FramesOK'
  BY <1>1, <1>3 DEF IInv, FramesOK, FrameOK, IsIsolate, OnPool
<1>5. PostsOK' /\ MessagesOK'
  BY <1>1, <1>3 DEF IInv, PostsOK, MessagesOK, Sent
<1>6. TasksOK' /\ PausesOK' /\ LeftOK'
  <2>1. TasksOK'
    BY <1>1 DEF IInv, TasksOK, InTask, IsIsolate, OnPool
  <2>2. PausesOK'
    BY <1>1, <1>3 DEF IInv, PausesOK, IsIsolate, OnPool
  <2>3. LeftOK'
    <3>1. KeepAlive' <=> KeepAlive
      BY <1>1 DEF KeepAlive, HasLivePorts, IsIsolate
    <3> QED BY <1>1, <1>3, <3>1 DEF IInv, LeftOK
  <2> QED BY <2>1, <2>2, <2>3
<1>7. EventOK' /\ DeletionOK'
  BY <1>1, <1>3 DEF IInv, EventOK, DeletionOK, NoOpenPort, IsIsolate
<1> QED BY <1>2, <1>4, <1>5, <1>6, <1>7 DEF IInv

LEMMA NextKeeps ==
  ASSUME IInv, [Next]_vars PROVE IInv'
<1>1. CASE HandlerStep
  <2>1. CASE TaskCallback
    BY <2>1, TaskStartsKeeps, NotifyPauseOnStartKeeps, ReturnStartKeeps, ResumeKeeps,
       ReturnPausedExitKeeps, MainKeeps, ReturnMainKeeps, ExitKeeps,
       NotifyPauseOnExitKeeps, ReturnExitKeeps DEF TaskCallback
  <2>2. CASE HandleMessage
    BY <2>2, HandleEventKeeps, EventReturnsKeeps, InterruptKeeps, ReturnInterruptKeeps,
       HandlePauseKeeps, HandleResumeKeeps, HandleServiceResumeKeeps, HandleKillKeeps,
       DelayKillKeeps DEF HandleMessage
  <2>3. CASE Shutdown
    BY <2>3, ClosePortsKeeps, CloseAllPortsKeeps, DeleteKeeps DEF Shutdown
  <2> QED BY <1>1, <2>1, <2>2, <2>3, RunKeeps, EnterKeeps, HandledKeeps,
             HandleNextMessageKeeps, ReturnNextKeeps DEF HandlerStep
<1>2. ASSUME NEW p \in Ports, OpenPort(p) \/ ClosePort(p) PROVE IInv'
  BY <1>2, OpenPortKeeps, ClosePortKeeps
<1>3. ASSUME NEW m \in Messages, PostLookup(m) \/ PostStep(m) PROVE IInv'
  BY <1>3, PostLookupKeeps, PostEnqueueKeeps, PostNotifyKeeps DEF PostStep
<1>4. CASE CloseNativePort \/ CloserStep
  BY <1>4, CloseNativePortKeeps, RequestDeletionKeeps, CloserDeletesKeeps DEF CloserStep
<1> QED BY <1>1, <1>2, <1>3, <1>4, StutterKeeps DEF Next

LEMMA Invariance == Spec => []IInv
<1>1. IInv /\ [Next]_vars => IInv'
  BY NextKeeps
<1> QED BY <1>1, InitOK, PTL DEF Spec

-----------------------------------------------------------------------------
(* The theorems *)

\* paused_ counts the isolate's resume capabilities, so that decrement_paused never
\* takes it below zero, and HandleOOBMessages interrupts code at most once at a time.
THEOREM TypeCorrect == Spec => []TypeOK
<1>1. IInv => TypeOK
  BY DEF IInv, Types
<1> QED BY <1>1, Invariance, PTL

\* A handler on the pool has one task exactly while task_running_ is set, and when it
\* has none TaskCallback has left no control message and no event that may be
\* handled: no post is missed, however it interleaves with the end of a task.
THEOREM OneTask == Spec => []OneTaskServes
<1>1. IInv => OneTaskServes
  <2> SUFFICES ASSUME IInv PROVE OneTaskServes
    OBVIOUS
  <2>1. /\ InTask => task_running /\ tasks = 0
        /\ ~InTask /\ task_running => tasks = 1
        /\ ~task_running => tasks = 0 /\ ~InTask
    BY DEF IInv, TasksOK
  <2>2. tasks + (IF InTask THEN 1 ELSE 0) = (IF task_running THEN 1 ELSE 0)
    <3>1. CASE InTask
      <4>1. tasks + 1 = 1
        BY <2>1, <3>1, SMT
      <4> QED BY <2>1, <3>1, <4>1
    <3>2. CASE ~InTask /\ task_running
      <4>1. tasks + 0 = 1
        BY <2>1, <3>2, SMT
      <4> QED BY <3>2, <4>1
    <3>3. CASE ~task_running
      <4>1. tasks + 0 = 0
        BY <2>1, <3>3, SMT
      <4> QED BY <2>1, <3>3, <4>1
    <3> QED BY <3>1, <3>2, <3>3
  <2> QED BY <2>2 DEF IInv, LeftOK, OneTaskServes
<1> QED BY <1>1, Invariance, PTL

\* TaskCallback, RequestDeletion and the isolate's shutdown delete a handler at most
\* once between them, and then no task, poster or closer still has it.
THEOREM DeletedOnce == Spec => []NoUseAfterDelete
<1>1. IInv => NoUseAfterDelete
  <2> SUFFICES ASSUME IInv PROVE NoUseAfterDelete
    OBVIOUS
  <2>1. closer \in {"open", "closed", "delete", "done"}
    BY DEF IInv, Types, TypeOK
  <2>2. deleted = 0 \/ deleted = 1
    BY <2>1 DEF IInv, DeletionOK
  <2>3. deleted <= 1
    BY <2>2, SMT
  <2>4. ASSUME deleted = 1
        PROVE  /\ tasks = 0 /\ ~InTask /\ pc # "delete" /\ NoOpenPort
               /\ closer \notin {"closed", "delete"}
    <3>1. 0 # 1
      BY SMT
    <3>2. CASE IsIsolate
      <4>1. pc = "gone" /\ NoOpenPort /\ closer = "open"
        BY <2>4, <3>1, <3>2 DEF IInv, DeletionOK
      <4> QED BY <4>1 DEF IInv, TasksOK, InTask, Locked, Ending
    <3>3. CASE ~IsIsolate
      <4>1. closer = "done" /\ NoOpenPort /\ (pc = "gone" \/ (pc = "idle" /\ ~task_running))
        BY <2>1, <2>4, <3>1, <3>3 DEF IInv, DeletionOK
      <4> QED BY <4>1 DEF IInv, TasksOK, InTask, Locked, Ending
    <3> QED BY <3>2, <3>3
  <2>5. ASSUME deleted = 1, NEW m \in Messages PROVE post[m] \notin {"found", "queued"}
    <3>1. Dest[m] \in Ports
      BY HandlerAssumption
    <3> QED BY <2>4, <2>5, <3>1 DEF IInv, PostsOK, NoOpenPort
  <2> QED BY <2>3, <2>4, <2>5 DEF NoUseAfterDelete
<1> QED BY <1>1, Invariance, PTL

\* Where an event begins: only HandleEvent gives one to Dart or native code.
LEMMA BeginsInHandleEvent ==
  ASSUME IInv, [Next]_vars, NEW m \in Messages, Begins(m)
  PROVE  /\ pc = "handle" /\ m = top.msg /\ IsEvent(m)
         /\ top.caller \in {"main", "next"}
<1>1. handled' # handled /\ m \in handled' /\ m \notin handled /\ IsEvent(m)
  BY DEF Begins
<1>2. HandleMessage
  BY <1>1 DEF Next, vars, HandlerStep, TaskCallback, Shutdown, PostStep, CloserStep,
     Run, TaskStarts, NotifyPauseOnStart, ReturnStart, Resume, ReturnPausedExit, Main,
     ReturnMain, Exit, NotifyPauseOnExit, ReturnExit, Enter, Handled, HandleNextMessage,
     ReturnNext, ClosePorts, CloseAllPorts, Delete, OpenPort, ClosePort, PostLookup,
     PostEnqueue, PostNotify, CloseNativePort, RequestDeletion, CloserDeletes
<1>3. HandleEvent \/ HandleKill
  BY <1>1, <1>2 DEF HandleMessage, EventReturns, Interrupt, ReturnInterrupt, HandlePause,
     HandleResume, HandleServiceResume, DelayKill
<1>4. ~HandleKill
  <2> SUFFICES ASSUME HandleKill PROVE FALSE
    OBVIOUS
  <2>1. m = top.msg /\ Type[top.msg] \in {"kill", "vm_kill", "kill_before", "kill_as_event"}
    BY <1>1 DEF HandleKill
  <2> QED BY <1>1, <2>1 DEF IsEvent, EventTypes
<1>5. pc = "handle" /\ m = top.msg
  BY <1>1, <1>3, <1>4 DEF HandleEvent
<1>6. frames # <<>> /\ top.msg # None
  BY <1>5 DEF IInv, FramesOK, Outside
<1> QED BY <1>1, <1>5, <1>6 DEF IInv, EventOK

\* Control comes first: AllowEvents, the calls in TaskCallback and the place at which
\* MessageQueue::Enqueue puts a delayed kill keep every event from Dart and native
\* code while the isolate is paused or is to be killed before its next event.
THEOREM ControlFirst == Spec => ControlComesFirst
<1>1. ASSUME IInv, [Next]_vars, NEW m \in Messages, Begins(m)
      PROVE  /\ paused = 0 /\ ~is_paused_on_start /\ ~is_paused_on_exit
             /\ ~\E i \in 1..Len(queue) : Type[queue[i]] = "kill_before"
  <2>1. pc = "handle" /\ IsEvent(top.msg) /\ top.caller \in {"main", "next"}
    BY <1>1, BeginsInHandleEvent
  <2>2. paused = 0 /\ \A x \in Contents(queue) : Type[x] # "kill_before"
    BY <1>1, <2>1 DEF IInv, EventOK
  <2>3. ~is_paused_on_start /\ ~is_paused_on_exit
    BY <1>1, <2>1 DEF IInv, PausesOK
  <2> QED BY <2>2, <2>3 DEF Contents
<1>2. IInv /\ [Next]_vars
      => [\A m \in Messages : Begins(m) =>
            /\ paused = 0 /\ ~is_paused_on_start /\ ~is_paused_on_exit
            /\ ~\E i \in 1..Len(queue) : Type[queue[i]] = "kill_before"]_vars
  BY <1>1
<1> QED BY <1>2, Invariance, PTL DEF Spec, ControlComesFirst

-----------------------------------------------------------------------------
(* Isolate.kill, where nothing pauses on start or on exit *)

NeverPauses == \A h \in Handlers : ~h.pause_on_start /\ ~h.pause_on_exit

Kills == {"kill", "kill_before", "kill_as_event"}

Killed == \E k \in handled : Type[k] \in Kills

Unpaused ==
  /\ ~should_pause_on_start /\ ~should_pause_on_exit
  /\ ~is_paused_on_start /\ ~is_paused_on_exit
  /\ pc \notin {"notify_start", "notify_exit"}

\* After a kill its status is on the way from HandleMessage to TaskCallback's end,
\* and no event is allowed.
KillOK ==
  /\ Killed => \/ pc \in Ending
               \/ pc = "exit" /\ status # kOK
               \/ pc \in {"handle", "return", "handled"} /\ top.max # kOK
               \/ pc = "handled" /\ top.status # kOK
  /\ pc = "handle" /\ IsEvent(top.msg) => top.max = kOK

LEMMA UnpausedRests ==
  ASSUME Unpaused, pc' \notin {"notify_start", "notify_exit"},
         UNCHANGED <<should_pause_on_start, should_pause_on_exit, is_paused_on_start,
                     is_paused_on_exit>>
  PROVE  Unpaused'
  BY DEF Unpaused

LEMMA UnpausedTaskCallback ==
  ASSUME IInv, Unpaused, TaskCallback PROVE Unpaused'
<1>1. top.caller \notin {"start", "paused_exit", "exit"} \/ frames = <<>>
  BY DEF IInv, PausesOK, Unpaused
<1>2. ~ShouldPauseOnStart(kOK) /\ ~ShouldPauseOnExit(status)
  BY DEF Unpaused, ShouldPauseOnStart, ShouldPauseOnExit
<1>3. pc = "return" => frames # <<>>
  BY DEF IInv, FramesOK, Outside
<1>4. ~NotifyPauseOnStart /\ ~NotifyPauseOnExit /\ ~ReturnStart /\ ~ReturnPausedExit /\ ~ReturnExit
  BY <1>1, <1>3 DEF NotifyPauseOnStart, NotifyPauseOnExit, ReturnStart, ReturnPausedExit,
                    ReturnExit, Unpaused
<1>5. CASE TaskStarts
  <2>1. /\ UNCHANGED <<should_pause_on_start, should_pause_on_exit, is_paused_on_start,
           is_paused_on_exit>>
       /\ pc' \notin {"notify_start", "notify_exit"}
    BY <1>2, <1>5 DEF TaskStarts, Call,
       map, queues, pauses, should, is, task, notes, close, thread
  <2> QED BY <2>1, UnpausedRests
<1>6. CASE Resume
  <2>1. /\ UNCHANGED <<should_pause_on_start, should_pause_on_exit, is_paused_on_start,
           is_paused_on_exit>>
       /\ pc' \notin {"notify_start", "notify_exit"}
    BY <1>6 DEF Resume, Call,
       map, queues, pauses, should, is, task, notes, close, thread
  <2> QED BY <2>1, UnpausedRests
<1>7. CASE Main
  <2>1. /\ UNCHANGED <<should_pause_on_start, should_pause_on_exit, is_paused_on_start,
           is_paused_on_exit>>
       /\ pc' \notin {"notify_start", "notify_exit"}
    BY <1>7 DEF Main, Call,
       map, queues, pauses, should, is, task, notes, close, thread
  <2> QED BY <2>1, UnpausedRests
<1>8. CASE ReturnMain
  <2>1. /\ UNCHANGED <<should_pause_on_start, should_pause_on_exit, is_paused_on_start,
           is_paused_on_exit>>
       /\ pc' \notin {"notify_start", "notify_exit"}
    BY <1>8 DEF ReturnMain,
       map, queues, pauses, should, is, task, notes, close, thread
  <2> QED BY <2>1, UnpausedRests
<1>9. CASE Exit
  <2>1. /\ UNCHANGED <<should_pause_on_start, should_pause_on_exit, is_paused_on_start,
           is_paused_on_exit>>
       /\ pc' \notin {"notify_start", "notify_exit"}
    BY <1>2, <1>9 DEF Exit, TaskEnds, HandlerEnds,
       map, queues, pauses, should, is, task, notes, close, thread
  <2> QED BY <2>1, UnpausedRests
<1> QED BY <1>4, <1>5, <1>6, <1>7, <1>8, <1>9 DEF TaskCallback

LEMMA UnpausedHandleMessage ==
  ASSUME Unpaused, HandleMessage PROVE Unpaused'
<1>1. CASE HandleServiceResume
  BY <1>1 DEF HandleServiceResume, HandleReturns, is, Unpaused
<1>2. CASE HandleEvent
  <2>1. /\ UNCHANGED <<should_pause_on_start, should_pause_on_exit, is_paused_on_start,
           is_paused_on_exit>>
       /\ pc' \notin {"notify_start", "notify_exit"}
    BY <1>2 DEF HandleEvent, HandleReturns,
       map, queues, pauses, should, is, task, notes, close, thread
  <2> QED BY <2>1, UnpausedRests
<1>3. CASE EventReturns
  <2>1. /\ UNCHANGED <<should_pause_on_start, should_pause_on_exit, is_paused_on_start,
           is_paused_on_exit>>
       /\ pc' \notin {"notify_start", "notify_exit"}
    BY <1>3 DEF EventReturns, HandleReturns,
       map, queues, pauses, should, is, task, notes, close, thread
  <2> QED BY <2>1, UnpausedRests
<1>4. CASE Interrupt
  <2>1. /\ UNCHANGED <<should_pause_on_start, should_pause_on_exit, is_paused_on_start,
           is_paused_on_exit>>
       /\ pc' \notin {"notify_start", "notify_exit"}
    BY <1>4 DEF Interrupt, Call,
       map, queues, pauses, should, is, task, notes, close, thread
  <2> QED BY <2>1, UnpausedRests
<1>5. CASE ReturnInterrupt
  <2>1. /\ UNCHANGED <<should_pause_on_start, should_pause_on_exit, is_paused_on_start,
           is_paused_on_exit>>
       /\ pc' \notin {"notify_start", "notify_exit"}
    BY <1>5 DEF ReturnInterrupt, HandleReturns,
       map, queues, pauses, should, is, task, notes, close, thread
  <2> QED BY <2>1, UnpausedRests
<1>6. CASE HandlePause
  <2>1. /\ UNCHANGED <<should_pause_on_start, should_pause_on_exit, is_paused_on_start,
           is_paused_on_exit>>
       /\ pc' \notin {"notify_start", "notify_exit"}
    BY <1>6 DEF HandlePause, HandleReturns,
       map, queues, pauses, should, is, task, notes, close, thread
  <2> QED BY <2>1, UnpausedRests
<1>7. CASE HandleResume
  <2>1. /\ UNCHANGED <<should_pause_on_start, should_pause_on_exit, is_paused_on_start,
           is_paused_on_exit>>
       /\ pc' \notin {"notify_start", "notify_exit"}
    BY <1>7 DEF HandleResume, HandleReturns,
       map, queues, pauses, should, is, task, notes, close, thread
  <2> QED BY <2>1, UnpausedRests
<1>8. CASE HandleKill
  <2>1. /\ UNCHANGED <<should_pause_on_start, should_pause_on_exit, is_paused_on_start,
           is_paused_on_exit>>
       /\ pc' \notin {"notify_start", "notify_exit"}
    BY <1>8 DEF HandleKill, HandleReturns,
       map, queues, pauses, should, is, task, notes, close, thread
  <2> QED BY <2>1, UnpausedRests
<1>9. CASE DelayKill
  <2>1. /\ UNCHANGED <<should_pause_on_start, should_pause_on_exit, is_paused_on_start,
           is_paused_on_exit>>
       /\ pc' \notin {"notify_start", "notify_exit"}
    BY <1>9 DEF DelayKill, HandleReturns,
       map, queues, pauses, should, is, task, notes, close, thread
  <2> QED BY <2>1, UnpausedRests
<1> QED BY <1>1, <1>2, <1>3, <1>4, <1>5, <1>6, <1>7, <1>8, <1>9 DEF HandleMessage

LEMMA UnpausedKeeps ==
  ASSUME IInv, Unpaused, [Next]_vars PROVE Unpaused'
<1>1. CASE Enter
  <2>1. /\ UNCHANGED <<should_pause_on_start, should_pause_on_exit, is_paused_on_start,
           is_paused_on_exit>>
       /\ pc' \notin {"notify_start", "notify_exit"}
    BY <1>1 DEF Enter, Dequeue,
       map, queues, pauses, should, is, task, notes, close, thread
  <2> QED BY <2>1, UnpausedRests
<1>2. CASE Handled
  <2>1. /\ UNCHANGED <<should_pause_on_start, should_pause_on_exit, is_paused_on_start,
           is_paused_on_exit>>
       /\ pc' \notin {"notify_start", "notify_exit"}
    BY <1>2 DEF Handled, Dequeue,
       map, queues, pauses, should, is, task, notes, close, thread
  <2> QED BY <2>1, UnpausedRests
<1>3. CASE Run
  <2>1. /\ UNCHANGED <<should_pause_on_start, should_pause_on_exit, is_paused_on_start,
           is_paused_on_exit>>
       /\ pc' \notin {"notify_start", "notify_exit"}
    BY <1>3 DEF Run,
       map, queues, pauses, should, is, task, notes, close, thread
  <2> QED BY <2>1, UnpausedRests
<1>4. CASE HandleNextMessage
  <2>1. /\ UNCHANGED <<should_pause_on_start, should_pause_on_exit, is_paused_on_start,
           is_paused_on_exit>>
       /\ pc' \notin {"notify_start", "notify_exit"}
    BY <1>4 DEF HandleNextMessage, Call,
       map, queues, pauses, should, is, task, notes, close, thread
  <2> QED BY <2>1, UnpausedRests
<1>5. CASE ReturnNext
  <2>1. /\ UNCHANGED <<should_pause_on_start, should_pause_on_exit, is_paused_on_start,
           is_paused_on_exit>>
       /\ pc' \notin {"notify_start", "notify_exit"}
    BY <1>5 DEF ReturnNext,
       map, queues, pauses, should, is, task, notes, close, thread
  <2> QED BY <2>1, UnpausedRests
<1>6. CASE ClosePorts
  <2>1. /\ UNCHANGED <<should_pause_on_start, should_pause_on_exit, is_paused_on_start,
           is_paused_on_exit>>
       /\ pc' \notin {"notify_start", "notify_exit"}
    BY <1>6 DEF ClosePorts,
       map, queues, pauses, should, is, task, notes, close, thread
  <2> QED BY <2>1, UnpausedRests
<1>7. CASE CloseAllPorts
  <2>1. /\ UNCHANGED <<should_pause_on_start, should_pause_on_exit, is_paused_on_start,
           is_paused_on_exit>>
       /\ pc' \notin {"notify_start", "notify_exit"}
    BY <1>7 DEF CloseAllPorts,
       map, queues, pauses, should, is, task, notes, close, thread
  <2> QED BY <2>1, UnpausedRests
<1>8. CASE Delete
  <2>1. /\ UNCHANGED <<should_pause_on_start, should_pause_on_exit, is_paused_on_start,
           is_paused_on_exit>>
       /\ pc' \notin {"notify_start", "notify_exit"}
    BY <1>8 DEF Delete,
       map, queues, pauses, should, is, task, notes, close, thread
  <2> QED BY <2>1, UnpausedRests
<1>9. CASE CloseNativePort
  <2>1. /\ UNCHANGED <<should_pause_on_start, should_pause_on_exit, is_paused_on_start,
           is_paused_on_exit>>
       /\ pc' \notin {"notify_start", "notify_exit"}
    BY <1>9 DEF CloseNativePort, Unpaused,
       map, queues, pauses, should, is, task, notes, close, thread
  <2> QED BY <2>1, UnpausedRests
<1>10. CASE RequestDeletion
  <2>1. /\ UNCHANGED <<should_pause_on_start, should_pause_on_exit, is_paused_on_start,
           is_paused_on_exit>>
       /\ pc' \notin {"notify_start", "notify_exit"}
    BY <1>10 DEF RequestDeletion, Unpaused,
       map, queues, pauses, should, is, task, notes, close, thread
  <2> QED BY <2>1, UnpausedRests
<1>11. CASE CloserDeletes
  <2>1. /\ UNCHANGED <<should_pause_on_start, should_pause_on_exit, is_paused_on_start,
           is_paused_on_exit>>
       /\ pc' \notin {"notify_start", "notify_exit"}
    BY <1>11 DEF CloserDeletes, Unpaused,
       map, queues, pauses, should, is, task, notes, close, thread
  <2> QED BY <2>1, UnpausedRests
<1>12. ASSUME NEW p \in Ports, OpenPort(p) \/ ClosePort(p) PROVE Unpaused'
  <2>1. /\ UNCHANGED <<should_pause_on_start, should_pause_on_exit, is_paused_on_start,
           is_paused_on_exit>>
       /\ UNCHANGED pc
    BY <1>12 DEF OpenPort, ClosePort, map, queues, pauses, should, is, task, notes, close, thread
  <2> QED BY <2>1, UnpausedRests DEF Unpaused
<1>13. ASSUME NEW m \in Messages, PostLookup(m) PROVE Unpaused'
  <2>1. /\ UNCHANGED <<should_pause_on_start, should_pause_on_exit, is_paused_on_start,
           is_paused_on_exit>>
       /\ UNCHANGED pc
    BY <1>13 DEF PostLookup, map, queues, pauses, should, is, task, notes, close, thread
  <2> QED BY <2>1, UnpausedRests DEF Unpaused
<1>14. ASSUME NEW m \in Messages, PostEnqueue(m) PROVE Unpaused'
  <2>1. /\ UNCHANGED <<should_pause_on_start, should_pause_on_exit, is_paused_on_start,
           is_paused_on_exit>>
       /\ UNCHANGED pc
    BY <1>14 DEF PostEnqueue, map, queues, pauses, should, is, task, notes, close, thread
  <2> QED BY <2>1, UnpausedRests DEF Unpaused
<1>15. ASSUME NEW m \in Messages, PostNotify(m) PROVE Unpaused'
  <2>1. /\ UNCHANGED <<should_pause_on_start, should_pause_on_exit, is_paused_on_start,
           is_paused_on_exit>>
       /\ UNCHANGED pc
    BY <1>15 DEF PostNotify, map, queues, pauses, should, is, task, notes, close, thread
  <2> QED BY <2>1, UnpausedRests DEF Unpaused
<1>16. CASE UNCHANGED vars
  <2>1. UNCHANGED <<should_pause_on_start, should_pause_on_exit, is_paused_on_start,
           is_paused_on_exit, pc>>
    BY <1>16 DEF vars, map, queues, pauses, should, is, task, notes, close, thread
  <2> QED BY <2>1, UnpausedRests DEF Unpaused
<1> QED BY <1>1, <1>2, <1>3, <1>4, <1>5, <1>6, <1>7, <1>8, <1>9, <1>10, <1>11, <1>12, <1>13,
           <1>14, <1>15, <1>16, UnpausedTaskCallback, UnpausedHandleMessage
       DEF Next, HandlerStep, Shutdown, PostStep, CloserStep

\* A step that neither handles anything nor moves the handler's thread.
LEMMA KillRests ==
  ASSUME KillOK, UNCHANGED <<pc, status, frames, handled>>
  PROVE  KillOK'
  BY DEF KillOK, Killed, top, IsEvent

\* A step of the thread where nobody has been killed yet.
LEMMA NotKilled ==
  ASSUME ~Killed, UNCHANGED handled, pc' # "handle"
  PROVE  KillOK'
  BY DEF KillOK, Killed

LEMMA KilledFrames ==
  ASSUME IInv, KillOK, pc \in {"handle", "return", "handled", "enter", "running"}
  PROVE  /\ frames # <<>> /\ frames \in Seq(Frames) /\ Len(frames) <= 2 /\ top \in Frames
         /\ Killed => /\ pc \notin {"enter", "running"}
                      /\ pc # "handled" => top.max # kOK
                      /\ pc = "handled" => top.max # kOK \/ top.status # kOK
<1>1. pc \notin Ending /\ pc # "exit"
  BY DEF Ending
<1> QED BY <1>1, InsideFacts, TypeFacts DEF KillOK, Inside

LEMMA KillOKTaskCallback ==
  ASSUME IInv, Unpaused, KillOK, TaskCallback PROVE KillOK'
<1>1. CASE TaskStarts
  <2>1. pc = "idle" /\ pc' # "handle" /\ UNCHANGED handled
    BY <1>1 DEF TaskStarts, Call
  <2> QED BY <2>1, NotKilled DEF KillOK, Ending
<1>2. CASE Resume
  <2>1. pc = "resume" /\ pc' # "handle" /\ UNCHANGED handled
    BY <1>2 DEF Resume, Call
  <2> QED BY <2>1, NotKilled DEF KillOK, Ending
<1>3. CASE Main
  <2>1. pc = "main" /\ pc' # "handle" /\ UNCHANGED handled
    BY <1>3 DEF Main, Call
  <2> QED BY <2>1, NotKilled DEF KillOK, Ending
<1>4. CASE ReturnMain
  <2>1. pc = "return" /\ pc' = "exit" /\ status' = top.max /\ UNCHANGED handled
    BY <1>4 DEF ReturnMain
  <2> QED BY <2>1, KilledFrames DEF KillOK, Killed
<1>5. CASE Exit
  <2>1. pc = "exit" /\ pc' # "handle" /\ UNCHANGED handled /\ ~ShouldPauseOnExit(status)
    BY <1>5 DEF Exit, TaskEnds, HandlerEnds, ShouldPauseOnExit, Unpaused
  <2>2. status # kOK => pc' \in Ending
    BY <1>5, <2>1 DEF Exit, HandlerEnds, Ending
  <2>3. Killed => status # kOK
    BY <2>1 DEF KillOK, Ending
  <2> QED BY <2>1, <2>2, <2>3 DEF KillOK, Killed
<1>6. pc = "return" => top.caller \notin {"start", "paused_exit", "exit"}
  BY DEF IInv, FramesOK, Outside, PausesOK, Unpaused
<1>7. ~NotifyPauseOnStart /\ ~NotifyPauseOnExit /\ ~ReturnStart /\ ~ReturnPausedExit /\ ~ReturnExit
  BY <1>6 DEF NotifyPauseOnStart, NotifyPauseOnExit, ReturnStart, ReturnPausedExit,
              ReturnExit, Unpaused
<1> QED BY <1>1, <1>2, <1>3, <1>4, <1>5, <1>7 DEF TaskCallback

LEMMA KillOKDequeue ==
  ASSUME IInv, pc \in {"enter", "handled"}, NEW f \in Frames, Dequeue(f),
         Killed => f.max # kOK, UNCHANGED handled
  PROVE  KillOK'
<1>1. /\ top'.max = f.max /\ pc' \in {"handle", "return"}
      /\ pc' = "handle" /\ top'.oob = FALSE => AllowEvents(f)
      /\ pc' = "handle" /\ top'.oob = TRUE => oob_queue # <<>> /\ top'.msg = Head(oob_queue)
      /\ top'.oob \in BOOLEAN
  BY Dequeues
<1>2. oob_queue # <<>> => ~IsEvent(Head(oob_queue))
  BY TypeFacts, TailContents DEF IInv, MessagesOK
<1>3. pc' = "handle" /\ IsEvent(top'.msg) => top'.max = kOK
  BY <1>1, <1>2 DEF AllowEvents
<1> QED BY <1>1, <1>3 DEF KillOK, Killed, IsEvent

LEMMA KillOKHandled ==
  ASSUME IInv, KillOK, Enter \/ Handled PROVE KillOK'
<1>1. CASE Enter
  <2>1. pc = "enter" /\ Dequeue(top) /\ UNCHANGED handled
    BY <1>1 DEF Enter
  <2> QED BY <2>1, KilledFrames, KillOKDequeue
<1>2. CASE Handled
  <2>1. pc = "handled" /\ UNCHANGED handled
    BY <1>2 DEF Handled
  <2>2. /\ frames # <<>> /\ frames \in Seq(Frames) /\ Len(frames) <= 2
        /\ Merged \in Frames /\ (Killed => Merged.max # kOK)
    BY <2>1, KilledFrames, MergedFrame
  <2>3. CASE Dequeue(Merged)
    BY <2>1, <2>2, <2>3, KillOKDequeue
  <2>4. CASE frames' = [frames EXCEPT ![1] = Merged] /\ pc' = "return"
    <3>1. top' = Merged
      BY <2>2, <2>4, SetFrame
    <3> QED BY <2>1, <2>2, <2>4, <3>1 DEF KillOK, Killed
  <2> QED BY <1>2, <2>3, <2>4 DEF Handled, Merged
<1> QED BY <1>1, <1>2

LEMMA KillOKReturns ==
  ASSUME IInv, KillOK, pc \in {"handle", "running"}, NEW s \in Statuses, HandleReturns(s),
         UNCHANGED handled \/ s # kOK
  PROVE  KillOK'
<1>1. top'.max = top.max /\ top'.status = s /\ pc' = "handled"
  BY KilledFrames, ReturnsFrame
<1>2. Killed => top.max # kOK
  BY KilledFrames
<1> QED BY <1>1, <1>2 DEF KillOK, Killed

LEMMA KillOKHandleMessage ==
  ASSUME IInv, KillOK, HandleMessage PROVE KillOK'
<1>1. CASE HandleEvent
  <2>1. pc = "handle" /\ IsEvent(top.msg)
    BY <1>1 DEF HandleEvent
  <2>2. CASE HandleReturns(kOK) /\ UNCHANGED handled
    BY <2>1, <2>2, StatusFacts, KillOKReturns
  <2>3. CASE handled' = handled \cup {top.msg} /\ pc' = "running"
    <3>1. ~Killed
      BY <2>1, KilledFrames DEF KillOK
    <3>2. Type[top.msg] \notin Kills
      BY <2>1 DEF IsEvent, EventTypes, Kills
    <3> QED BY <2>3, <3>1, <3>2 DEF KillOK, Killed
  <2> QED BY <1>1, <2>2, <2>3 DEF HandleEvent
<1>2. CASE EventReturns
  <2>1. pc = "running" /\ UNCHANGED handled /\ \E s \in {kOK, kError} : HandleReturns(s)
    BY <1>2 DEF EventReturns
  <2> QED BY <2>1, StatusFacts, KillOKReturns
<1>3. CASE Interrupt
  <2>1. pc = "running" /\ pc' = "enter" /\ UNCHANGED handled
    BY <1>3 DEF Interrupt, Call
  <2> QED BY <2>1, KilledFrames, NotKilled
<1>4. CASE ReturnInterrupt
  <2>1. pc = "return" /\ UNCHANGED handled
    BY <1>4 DEF ReturnInterrupt
  <2>2. \/ pc' = "running" /\ top.max = kOK
        \/ pc' = "handled" /\ top.max # kOK /\ top'.status = top.max
    BY <1>4, InterruptReturns
  <2> QED BY <2>1, <2>2, KilledFrames DEF KillOK, Killed
<1>5. CASE HandleKill
  <2>1. pc = "handle" /\ HandleReturns(KillStatus(top.msg))
    BY <1>5 DEF HandleKill
  <2>2. KillStatus(top.msg) \in Statuses /\ KillStatus(top.msg) # kOK
    BY StatusFacts DEF KillStatus
  <2> QED BY <2>1, <2>2, KillOKReturns
<1>6. CASE HandlePause \/ HandleResume \/ HandleServiceResume \/ DelayKill
  <2>1. pc = "handle" /\ HandleReturns(kOK) /\ UNCHANGED handled
    BY <1>6 DEF HandlePause, HandleResume, HandleServiceResume, DelayKill
  <2> QED BY <2>1, StatusFacts, KillOKReturns
<1> QED BY <1>1, <1>2, <1>3, <1>4, <1>5, <1>6 DEF HandleMessage

LEMMA KillOKKeeps ==
  ASSUME IInv, Unpaused, KillOK, [Next]_vars PROVE KillOK'
<1>1. CASE Run \/ HandleNextMessage
  <2>1. pc \in {"new", "idle"} /\ pc' # "handle" /\ UNCHANGED handled
    BY <1>1 DEF Run, HandleNextMessage, Call
  <2> QED BY <2>1, NotKilled DEF KillOK, Ending
<1>2. CASE ReturnNext
  <2>1. /\ pc = "return" /\ pc' \in {"idle", "shutdown"} /\ UNCHANGED handled
        /\ top.max # kOK => pc' = "shutdown"
    BY <1>2 DEF ReturnNext
  <2> QED BY <2>1, KilledFrames DEF KillOK, Killed, Ending
<1>3. CASE Shutdown
  <2>1. pc' \in Ending /\ pc' # "handle" /\ UNCHANGED handled
    BY <1>3 DEF Shutdown, ClosePorts, CloseAllPorts, Delete, Ending
  <2> QED BY <2>1 DEF KillOK, Killed
<1>4. ASSUME NEW p \in Ports, OpenPort(p) \/ ClosePort(p) PROVE KillOK'
  BY <1>4, KillRests DEF OpenPort, ClosePort, thread
<1>5. ASSUME NEW m \in Messages, PostLookup(m) \/ PostStep(m) PROVE KillOK'
  BY <1>5, KillRests DEF PostLookup, PostStep, PostEnqueue, PostNotify, thread
<1>6. CASE CloseNativePort \/ CloserStep
  BY <1>6, KillRests DEF CloseNativePort, CloserStep, RequestDeletion, CloserDeletes, thread
<1>7. CASE UNCHANGED vars
  BY <1>7, KillRests DEF vars, thread
<1> QED BY <1>1, <1>2, <1>3, <1>4, <1>5, <1>6, <1>7, KillOKTaskCallback, KillOKHandled,
           KillOKHandleMessage DEF Next, HandlerStep

\* Where no isolate pauses on start or on exit, no event reaches Dart or native code
\* after an Isolate.kill that took effect: the error stops AllowEvents in the call of
\* HandleMessages, passes from an interrupted call to the one below it and ends the
\* handler in TaskCallback.  (TaskCallback forgets the status of a call it makes
\* while the isolate is paused; there the statement is false.)
THEOREM KillIsFinal == NeverPauses /\ Spec => NoEventAfterKill
<1> SUFFICES ASSUME NeverPauses PROVE Spec => NoEventAfterKill
  OBVIOUS
<1>1. Init => Unpaused /\ KillOK
  <2> SUFFICES ASSUME Init PROVE Unpaused /\ KillOK
    OBVIOUS
  <2>1. /\ handler \in Handlers /\ should_pause_on_start = handler.pause_on_start
        /\ should_pause_on_exit = handler.pause_on_exit
        /\ ~is_paused_on_start /\ ~is_paused_on_exit /\ pc = "new" /\ handled = {}
    BY DEF Init
  <2>2. ~should_pause_on_start /\ ~should_pause_on_exit
    BY <2>1 DEF NeverPauses
  <2> QED BY <2>1, <2>2 DEF Unpaused, KillOK, Killed
<1>2. IInv /\ Unpaused /\ KillOK /\ [Next]_vars => Unpaused' /\ KillOK'
  BY UnpausedKeeps, KillOKKeeps
<1>3. ASSUME IInv, KillOK, [Next]_vars, NEW m \in Messages, Begins(m)
      PROVE  \A k \in handled : Type[k] \notin {"kill", "kill_before", "kill_as_event"}
  <2>1. pc = "handle" /\ IsEvent(top.msg)
    BY <1>3, BeginsInHandleEvent
  <2>2. ~Killed
    BY <1>3, <2>1, KilledFrames DEF KillOK
  <2> QED BY <2>2 DEF Killed, Kills
<1>4. IInv /\ KillOK /\ [Next]_vars
      => [\A m \in Messages : Begins(m) =>
            \A k \in handled : Type[k] \notin {"kill", "kill_before", "kill_as_event"}]_vars
  BY <1>3
<1> QED BY <1>1, <1>2, <1>4, Invariance, PTL DEF Spec, NoEventAfterKill
=============================================================================
