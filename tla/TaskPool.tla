------------------------------ MODULE TaskPool ------------------------------
(***************************************************************************)
(* What ThreadPool promises to its callers, without workers, counters and   *)
(* monitors (runtime/vm/thread_pool.h): accepted tasks are started in the   *)
(* order of acceptance, each once; nothing is accepted after Shutdown was   *)
(* called; Shutdown returns only when every accepted task has returned.     *)
(***************************************************************************)
EXTENDS Sequences

CONSTANT Tasks

VARIABLES fifo,      \* accepted tasks that have not started
          status,    \* new, queued, running, done or refused
          open,      \* tasks are accepted
          returned   \* the last call of Shutdown has returned

vars == <<fifo, status, open, returned>>

Init ==
  /\ fifo = <<>>
  /\ status = [t \in Tasks |-> "new"]
  /\ open = TRUE
  /\ returned = FALSE

Accept(t) ==
  /\ open /\ status[t] = "new"
  /\ fifo' = Append(fifo, t)
  /\ status' = [status EXCEPT ![t] = "queued"]
  /\ UNCHANGED <<open, returned>>

Refuse(t) ==
  /\ ~open /\ status[t] = "new"
  /\ status' = [status EXCEPT ![t] = "refused"]
  /\ UNCHANGED <<fifo, open, returned>>

Start ==
  /\ fifo # <<>>
  /\ fifo' = Tail(fifo)
  /\ status' = [status EXCEPT ![Head(fifo)] = "running"]
  /\ UNCHANGED <<open, returned>>

Finish(t) ==
  /\ status[t] = "running"
  /\ status' = [status EXCEPT ![t] = "done"]
  /\ UNCHANGED <<fifo, open, returned>>

CallShutdown ==
  /\ open' = FALSE /\ returned' = FALSE
  /\ UNCHANGED <<fifo, status>>

ReturnFromShutdown ==
  /\ ~open
  /\ \A t \in Tasks : status[t] \notin {"queued", "running"}
  /\ returned' = TRUE
  /\ UNCHANGED <<fifo, status, open>>

Next ==
  \/ \E t \in Tasks : Accept(t) \/ Refuse(t) \/ Finish(t)
  \/ Start \/ CallShutdown \/ ReturnFromShutdown

\* A queued task is eventually started.
Spec == Init /\ [][Next]_vars /\ WF_vars(Start)
=============================================================================
