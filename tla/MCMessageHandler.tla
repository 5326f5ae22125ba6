-------------------------- MODULE MCMessageHandler --------------------------
(***************************************************************************)
(* Small instances of MessageHandler.  Port "main" is the isolate's main   *)
(* port; "a" and "b" are receive ports, of which an isolate may open "b"   *)
(* itself.                                                                 *)
(***************************************************************************)
EXTENDS MessageHandler

TypeOf ==
  [ e1 |-> "event", e2 |-> "event", eb |-> "event",
    loop |-> "loop", pause1 |-> "pause", pause2 |-> "pause",
    resume1 |-> "resume", go1 |-> "service_resume", go2 |-> "service_resume",
    kill |-> "kill", kill_before |-> "kill_before",
    kill_as_event |-> "kill_as_event", vm_kill |-> "vm_kill" ]

MCMessages == UNION {h.messages : h \in Handlers}

MCType == [m \in MCMessages |-> TypeOf[m]]

MCDest ==
  [m \in MCMessages |-> IF TypeOf[m] \notin EventTypes THEN "main"
                        ELSE IF m = "eb" THEN "b" ELSE "a"]

MCCap == [m \in MCMessages |-> IF m = "pause2" THEN "c2" ELSE "c1"]

\* An isolate with port "a", run on the pool.
Isolate(messages, start, exit) ==
  [ isolate |-> TRUE, pool |-> TRUE, pause_on_start |-> start,
    pause_on_exit |-> exit, open |-> {"main", "a"}, unborn |-> {},
    messages |-> messages ]

Embedded(messages) == [Isolate(messages, FALSE, FALSE) EXCEPT !.pool = FALSE]

Native(messages) ==
  [Isolate(messages, FALSE, FALSE) EXCEPT !.isolate = FALSE, !.open = {"a"}]

\* Pauses and resumes, kills that race with events and with ports that the code
\* opens and closes, pauses on exit, a shutdown by the VM, messages handled by the
\* embedder, and a native port.
AllHandlers ==
  { Isolate({"e1", "pause1", "resume1", "pause2", "go1"}, TRUE, FALSE),
    [Isolate({"e1", "eb", "kill_before", "kill_as_event", "kill"}, FALSE, FALSE)
       EXCEPT !.unborn = {"b"}],
    Isolate({"e1", "pause1", "resume1", "go1"}, FALSE, TRUE),
    Isolate({"e1", "loop", "go1", "go2", "vm_kill"}, TRUE, TRUE),
    Embedded({"e1", "e2", "kill_before"}), Embedded({"e1", "e2", "pause1", "resume1"}),
    Native({"e1", "e2"}) }

EmbedderPauseHandlers == {Embedded({"e1", "e2", "pause1", "resume1"})}

KillPausedHandlers == {Isolate({"e1", "kill", "go1"}, TRUE, FALSE)}
=============================================================================
