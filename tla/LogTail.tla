------------------------------- MODULE LogTail -------------------------------
(***************************************************************************)
(* The log view of the company terminal (DockerLogTailer in                  *)
(* company_terminal/glc/logs.py, _start_log_tail in app.py).  Every selection *)
(* of a service makes the user interface thread stop the old stream and start  *)
(* a thread that runs `docker compose logs -f' and hands its lines to the user *)
(* interface, which it waits for.  The threads share one stop flag and one      *)
(* attribute with the process, without a lock.                                  *)
(***************************************************************************)
EXTENDS FiniteSets

CONSTANTS
    Streams,    \* selections; the thread and the process of each bear its name
    None        \* no stream, no process

LogTailAssumption == None \notin Streams /\ IsFiniteSet(Streams)

VARIABLES
    selected,   \* the stream whose service was selected last
    stopping,   \* the user interface waits in stop() for the old process
    stop,       \* _stop, the event
    process,    \* _process: the stream whose process the attribute refers to
    alive,      \* the streams whose process runs
    thread,     \* thread[s]: the stage of its thread and the stream it reads
    hasty       \* history: a selection came before the thread of the last one was reading

vars == <<selected, stopping, stop, process, alive, thread, hasty>>

Stage == {"new", "started", "opened", "reading", "showing", "leaving", "over"}

TypeOK ==
    /\ {selected, process} \subseteq Streams \cup {None} /\ alive \subseteq Streams
    /\ {stopping, stop, hasty} \subseteq BOOLEAN
    /\ \A s \in Streams : thread[s].stage \in Stage /\ thread[s].of \in Streams \cup {None}

Init ==
    /\ selected = None /\ stopping = FALSE /\ stop = FALSE /\ process = None /\ alive = {}
    /\ thread = [s \in Streams |-> [stage |-> "new", of |-> None]]
    /\ hasty = FALSE

Move(s, stage) == thread' = [thread EXCEPT ![s].stage = stage]

-----------------------------------------------------------------------------
(* The user interface. *)

Unread == \E q \in Streams : thread[q].stage \in {"started", "opened"}

(* A plausible slip: the flag is enough to stop a stream. *)
StopByFlag ==
    /\ ~stopping
    /\ stop' = TRUE /\ stopping' = TRUE
    /\ hasty' = (hasty \/ Unread)
    /\ UNCHANGED <<selected, process, alive, thread>>

(* stop(): the flag is set and the process, if there is one yet, is terminated and         *)
(* waited for.                                                                               *)
Stop ==
    /\ ~stopping
    /\ stop' = TRUE /\ stopping' = TRUE
    /\ alive' = alive \ {process}
    /\ hasty' = (hasty \/ Unread)
    /\ UNCHANGED <<selected, process, thread>>

(* The rest of stop(), and start(): the flag is cleared for the new thread, and with it     *)
(* for the old ones.                                                                          *)
Start(s) ==
    /\ stopping /\ thread[s].stage = "new"
    /\ process' = None /\ stop' = FALSE /\ stopping' = FALSE
    /\ selected' = s
    /\ Move(s, "started")
    /\ UNCHANGED <<alive, hasty>>

-----------------------------------------------------------------------------
(* _run *)

Open(s) ==
    /\ thread[s].stage = "started"
    /\ alive' = alive \cup {s} /\ process' = s
    /\ Move(s, "opened")
    /\ UNCHANGED <<selected, stopping, stop, hasty>>

(* There is no docker: the thread says so and ends.                                            *)
OpenFails(s) ==
    /\ thread[s].stage = "started"
    /\ Move(s, "over")
    /\ UNCHANGED <<selected, stopping, stop, process, alive, hasty>>

(* The loop reads from the process that the attribute refers to by now.                       *)
Attach(s) ==
    /\ thread[s].stage = "opened"
    /\ thread' = [thread EXCEPT ![s] =
          [stage |-> IF process = None THEN "over" ELSE "reading", of |-> process]]
    /\ UNCHANGED <<selected, stopping, stop, process, alive, hasty>>

(* A line of a process that runs, or that was left in its pipe.                                *)
Read(s) ==
    /\ thread[s].stage = "reading"
    /\ Move(s, IF stop THEN "leaving" ELSE "showing")
    /\ UNCHANGED <<selected, stopping, stop, process, alive, hasty>>

(* call_from_thread returns once the user interface has shown the line.                        *)
Show(s) ==
    /\ thread[s].stage = "showing" /\ ~stopping
    /\ Move(s, "reading")
    /\ UNCHANGED <<selected, stopping, stop, process, alive, hasty>>

EndOfFile(s) ==
    /\ thread[s].stage = "reading" /\ thread[s].of \notin alive
    /\ Move(s, "leaving")
    /\ UNCHANGED <<selected, stopping, stop, process, alive, hasty>>

(* The process that the attribute refers to by now is terminated if it runs; the attribute      *)
(* may be empty, which ends the thread with an exception.                                         *)
LeaveThread(s) ==
    /\ thread[s].stage = "leaving"
    /\ alive' = alive \ {process}
    /\ Move(s, "over")
    /\ UNCHANGED <<selected, stopping, stop, process, hasty>>

Next ==
    \/ Stop
    \/ \E s \in Streams : \/ Start(s) \/ Open(s) \/ OpenFails(s) \/ Attach(s) \/ Read(s)
                          \/ Show(s) \/ EndOfFile(s) \/ LeaveThread(s)

-----------------------------------------------------------------------------
(* As long as every thread reads before the next service is selected, no process but that of  *)
(* the selected service runs once stop() has returned: the others were terminated, whichever    *)
(* thread the attribute was overwritten by (stop and _run).                                        *)
NoStrayStreams == (hasty \/ stopping) \/ alive \subseteq {selected}
=============================================================================
