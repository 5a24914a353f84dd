------------------------------ MODULE Recorder ------------------------------
(***************************************************************************)
(* One recorder node: the realtime callback that offers audio, the writer  *)
(* thread that puts it into a pending `.wav.part` file, the backend's      *)
(* record of the recorder, and the desktop that starts, stops, saves,      *)
(* discards, removes and recovers takes.                                   *)
(*                                                                         *)
(* Every pending file has a number of its own, a take.  The interface      *)
(* thread runs one handler at a time; a handler that copies a file or      *)
(* joins the writer thread takes several steps, between which the other    *)
(* threads go on and the process may crash.  Frames are counted only.      *)
(***************************************************************************)
EXTENDS Integers, FiniteSets

CONSTANTS
    Dirs,        \* directories the user records into
    Capacity,    \* frames the ring holds
    MaxTakes,    \* bound on the pending files
    MaxFrames,   \* bound on the frames the callback offers
    MaxFaults,   \* bound on the calls and streams that fail
    MaxExits     \* bound on the crashes and exits

ASSUME RecorderConstants ==
    /\ Dirs # {} /\ 0 \notin Dirs    \* 0 is None, no directory and no take
    /\ Capacity \in Nat \ {0} /\ MaxTakes \in Nat
    /\ MaxFrames \in Nat /\ MaxFaults \in Nat /\ MaxExits \in Nat

VARIABLES
    \* The files: the state, frames and directory of a take's pending file, the
    \* takes copied to a destination, and those the user chose to discard.
    part, data, dir, saved, discarded,
    \* The stream's handle with its writer, the frames in the ring, and whether
    \* the callback is past its test of `accepting`.
    writer, ring, inside,
    \* The backend's instance, the desktop's copy of its state and its own
    \* state: pending stops, recovered takes, the recording directory.
    rec, shown, pending, offered, config_dir,
    task,        \* what the interface thread is in the middle of
    up,          \* the process runs
    promised,    \* history: the frames of each take its Stop must bring to the file
    frames, faults, exits   \* history: how many, at most the bounds

files == <<part, data, dir, saved, discarded>>
stream == <<writer, ring, inside>>
desk == <<shown, pending, offered, config_dir>>
counts == <<frames, faults, exits>>
vars == <<files, stream, rec, desk, task, up, promised, counts>>

Takes == 1..MaxTakes
None == 0
NoWriter == [take |-> None]
NoRecorder == [state |-> "absent"]
Free == [kind |-> "free"]

Alive == writer # NoWriter
ThreadRuns == Alive /\ writer.thread # "done"
NewTake == {t \in Takes : dir[t] = None /\ \A u \in Takes : u < t => dir[u] # None}
CanFail == faults < MaxFaults
Fault == CanFail /\ faults' = faults + 1 /\ UNCHANGED <<frames, exits>>
NoFault == UNCHANGED counts

-----------------------------------------------------------------------------
(* The writer                                                              *)

\* start_pending_paused: a thread that will create its file.
StartPaused(t) ==
    [take |-> t, state |-> "Starting", accepting |-> FALSE, started |-> FALSE,
     thread |-> "starting", stop |-> "none", outcome |-> "none", joined |-> FALSE, bad |-> FALSE]

Resumed(w) == [w EXCEPT !.started = TRUE, !.accepting = TRUE, !.state = "Recording"]

\* request_stop: the command reaches a thread that still runs.
RequestStop(w) ==
    [w EXCEPT !.accepting = FALSE, !.state = "Stopping",
              !.stop = IF @ # "none" THEN @ ELSE IF w.thread = "done" THEN "failed" ELSE "sent"]

\* The thread reports an error in two steps: the shared state, then the result.
WriterFails == writer' = [writer EXCEPT !.state = "Error", !.thread = "err"]

WriterOpens ==
    /\ Alive /\ writer.thread = "starting"
    /\ \/ /\ part' = [part EXCEPT ![writer.take] = "open"]
          /\ writer' = [writer EXCEPT !.thread = "running",
                                      !.state = IF writer.accepting THEN "Recording" ELSE @]
          /\ NoFault
       \/ WriterFails /\ Fault /\ UNCHANGED part
    /\ UNCHANGED <<data, dir, saved, discarded, ring, inside, rec, desk, task, up, promised>>

Writes == data' = [data EXCEPT ![writer.take] = @ + ring]

\* Everything in the ring goes to the file; a full file or disk ends the thread.
WriterDrains ==
    /\ Alive /\ writer.thread = "running" /\ ring > 0
    /\ \/ Writes /\ UNCHANGED writer /\ NoFault
       \/ WriterFails /\ Fault /\ UNCHANGED data
    /\ ring' = 0
    /\ UNCHANGED <<part, dir, saved, discarded, inside, rec, desk, task, up, promised>>

WriterSeesStop ==
    /\ Alive /\ writer.thread = "running" /\ writer.stop = "sent"
    /\ writer' = [writer EXCEPT !.stop = "seen", !.state = "Stopping"]
    /\ UNCHANGED <<files, ring, inside, rec, desk, task, up, promised, counts>>

Drained_ignored == TRUE
Drained == ring = 0

WriterFinalizes ==
    /\ Alive /\ writer.thread = "running" /\ writer.stop = "seen" /\ Drained
    /\ \/ /\ part' = [part EXCEPT ![writer.take] = "final"]
          /\ writer' = [writer EXCEPT !.state = "Finished", !.thread = "ok"] /\ NoFault
       \/ WriterFails /\ Fault /\ UNCHANGED part
    /\ UNCHANGED <<data, dir, saved, discarded, ring, inside, rec, desk, task, up, promised>>

WriterReports ==
    /\ Alive /\ writer.thread \in {"ok", "err"}
    /\ writer' = [writer EXCEPT !.outcome = writer.thread, !.thread = "done"]
    /\ UNCHANGED <<files, ring, inside, rec, desk, task, up, promised, counts>>

\* The realtime callback: a test of `accepting`, then a bounded push.  What
\* does not fit is counted as dropped.
CallbackTests ==
    /\ Alive /\ ~inside /\ writer.accepting /\ frames < MaxFrames
    /\ inside' = TRUE /\ frames' = frames + 1
    /\ UNCHANGED <<files, writer, ring, rec, desk, task, up, promised, faults, exits>>

CallbackPushes ==
    /\ Alive /\ inside /\ inside' = FALSE
    /\ ring' = IF ring < Capacity THEN ring + 1 ELSE ring
    /\ UNCHANGED <<files, writer, rec, desk, task, up, promised, counts>>

\* The stream goes into its error state, or negotiates another format.
StreamFails ==
    /\ Alive /\ ~writer.bad /\ Fault
    /\ writer' = [writer EXCEPT !.bad = TRUE]
    /\ UNCHANGED <<files, ring, inside, rec, desk, task, up, promised>>

-----------------------------------------------------------------------------
(* Starting and stopping                                                   *)

Handler == up /\ task = Free
Spare == NewTake # {}

\* create_recorder; one that fails leaves nothing behind.
CreateRecorder ==
    /\ Handler /\ rec = NoRecorder /\ Spare
    /\ \E t \in NewTake :
         /\ writer' = StartPaused(t) /\ ring' = 0 /\ inside' = FALSE
         /\ dir' = [dir EXCEPT ![t] = config_dir]
         /\ rec' = [state |-> "Idle", path |-> t, dir |-> config_dir]
    /\ shown' = "Idle"
    /\ UNCHANGED <<part, data, saved, discarded, pending, offered, config_dir, task, up,
                   promised, counts>>

\* record_for_node, which the desktop offers for an idle recorder: start_recording
\* tests the states and then resumes the paused writer, or restarts the stream.
Record ==
    /\ Handler /\ shown = "Idle" /\ rec.state = "Idle" /\ Spare
    /\ task' = IF Alive /\ writer.state = "Starting" THEN [kind |-> "resume"]
               ELSE [kind |-> "start", step |-> "drop"]
    /\ UNCHANGED <<files, stream, rec, desk, up, promised, counts>>

Resume ==
    /\ task.kind = "resume" /\ task' = Free
    /\ writer' = Resumed(writer)
    /\ rec' = [rec EXCEPT !.state = "Recording"] /\ shown' = "Recording"
    /\ UNCHANGED <<files, ring, inside, pending, offered, config_dir, up, promised, counts>>

\* stop_for_node; the desktop waits for the result only when the request was taken.
Stop ==
    /\ Handler /\ shown = "Recording" /\ ~pending
    /\ rec.state = "Recording" /\ Alive /\ ~writer.joined
    /\ writer' = RequestStop(writer)
    /\ pending' = (writer'.stop # "failed")
    /\ promised' = [promised EXCEPT ![writer.take] = data[writer.take] + ring]
    /\ UNCHANGED <<files, ring, inside, rec, shown, offered, config_dir, task, up, counts>>

ChooseDirectory ==
    /\ Handler /\ config_dir' \in Dirs
    /\ UNCHANGED <<files, stream, rec, shown, pending, offered, task, up, promised, counts>>

-----------------------------------------------------------------------------
(* Polling                                                                 *)

Failed == rec' = [rec EXCEPT !.state = "Error"] /\ shown' = "Error" /\ pending' = FALSE

\* What the handle's poll answers; the writer's own poll joins a thread that has
\* sent its result.
Polled_at_stop ==
    IF writer.bad THEN "err" ELSE IF writer.stop = "seen" THEN "ok" ELSE writer.outcome
Polled == IF writer.bad THEN "err" ELSE writer.outcome

\* finish_recording asks for a destination, or takes the configured directory.
FinishRecording == \E d \in Dirs : task' = [kind |-> "save", step |-> "copy", dir |-> d]

\* A take is finished: it may be saved, and is when a stop was waiting for it
\* and the mode or the user names a destination.
PollRecording ==
    /\ Handler /\ shown = "Recording" /\ rec.state = "Recording" /\ Alive
    /\ writer' = [writer EXCEPT !.joined = @ \/ writer.outcome # "none"]
    /\ \/ Polled = "err" /\ Failed /\ UNCHANGED task
       \/ /\ Polled = "none" /\ task' = [kind |-> "status"]
          /\ UNCHANGED <<rec, shown, pending>>
       \/ /\ Polled = "ok"
          /\ rec' = [rec EXCEPT !.state = "Unsaved", !.path = writer.take]
          /\ shown' = "Unsaved" /\ pending' = FALSE
          /\ \/ UNCHANGED task
             \/ pending /\ Spare /\ FinishRecording
    /\ UNCHANGED <<files, ring, inside, offered, config_dir, up, promised, counts>>

\* After an empty poll: recorder_status, which sees an error before a poll does.
ReadStatus ==
    /\ task.kind = "status" /\ task' = Free
    /\ shown' = IF Alive /\ (writer.state = "Error" \/ writer.bad) THEN "Error" ELSE rec.state
    /\ UNCHANGED <<files, stream, rec, pending, offered, config_dir, up, promised, counts>>

\* refresh_recorder_instance for a recorder that is not shown as recording.
Shown_kept == shown
Shown == rec.state

RefreshInstance ==
    /\ Handler /\ rec # NoRecorder /\ shown # "Recording" /\ shown # rec.state
    /\ shown' = Shown
    /\ UNCHANGED <<files, stream, rec, pending, offered, config_dir, task, up, promised, counts>>

-----------------------------------------------------------------------------
(* Saving, discarding and removing                                         *)

\* save_for_node, with a destination; the driver refuses all but a finished take.
Save ==
    /\ Handler /\ shown = "Unsaved" /\ rec.state = "Unsaved" /\ Spare
    /\ FinishRecording
    /\ UNCHANGED <<files, stream, rec, desk, up, promised, counts>>

\* replace_recording_preserving_source: the destination appears whole or not at all.
SaveCopies ==
    /\ task.kind = "save" /\ task.step = "copy"
    /\ \/ saved' = saved \cup {rec.path} /\ task' = [task EXCEPT !.step = "drop"] /\ NoFault
       \/ task' = Free /\ Fault /\ UNCHANGED saved
    /\ UNCHANGED <<part, data, dir, discarded, stream, rec, desk, up, promised>>

\* discard_for_node, for a finished take or after an error.
Discard ==
    /\ Handler /\ rec # NoRecorder /\ shown \in {"Unsaved", "Error"} /\ rec.state # "Recording"
    /\ Spare
    /\ task' = [kind |-> "discard", step |-> "drop"]
    /\ discarded' = discarded \cup {IF Alive THEN writer.take ELSE rec.path}
    /\ UNCHANGED <<part, data, dir, saved, stream, rec, desk, up, promised, counts>>

\* remove_recorder refuses a recording, and a finished or failed one whose
\* instance still names its file.
Removable_once_stopped == rec.state # "Recording"
Removable == rec.state # "Recording" /\ ~(rec.state \in {"Unsaved", "Error"} /\ rec.path # None)

Remove ==
    /\ Handler /\ rec # NoRecorder /\ Removable
    /\ task' = [kind |-> "remove", step |-> "drop"]
    /\ UNCHANGED <<files, stream, rec, desk, up, promised, counts>>

\* The handle is dropped: the stream goes first, then the writer is stopped...
DropHandle ==
    /\ task.kind \in {"start", "save", "discard", "remove"} /\ task.step = "drop" /\ ~inside
    /\ task' = [task EXCEPT !.step = "join"]
    /\ writer' = IF Alive /\ ~writer.joined THEN RequestStop(writer) ELSE writer
    /\ UNCHANGED <<files, ring, inside, rec, desk, up, promised, counts>>

\* ...and joined; a file that never took audio goes with it.
Old == IF Alive THEN writer.take ELSE rec.path
Joining == "step" \in DOMAIN task /\ task.step = "join" /\ ~ThreadRuns
Unused == Alive /\ ~writer.joined /\ ~writer.started /\ data[writer.take] = 0
              /\ writer.state = "Finished"
Gone(takes) == part' = [t \in Takes |-> IF t \in takes THEN "absent" ELSE part[t]]

\* restart_recorder_locked goes on with a new stream of the same recorder.  The
\* file of a saved take is removed, or left with a warning; that of a
\* discarded one, or of the writer a start replaces, as well.
Restarted ==
    /\ Joining /\ task.kind # "remove" /\ Spare
    /\ \E t \in NewTake :
         /\ writer' = IF task.kind = "start" THEN Resumed(StartPaused(t)) ELSE StartPaused(t)
         /\ dir' = [dir EXCEPT ![t] = rec.dir]
         /\ rec' = IF task.kind = "start" THEN [rec EXCEPT !.state = "Recording", !.path = t]
                   ELSE [rec EXCEPT !.state = "Idle", !.path = None]
    /\ \/ Gone({Old}) /\ NoFault
       \/ Gone(IF Unused THEN {Old} ELSE {}) /\ Fault
    /\ shown' = rec'.state
    /\ pending' = IF task.kind = "discard" THEN FALSE ELSE pending
    /\ config_dir' = IF task.kind = "save" THEN task.dir ELSE config_dir
    /\ ring' = 0 /\ inside' = FALSE /\ task' = Free
    /\ UNCHANGED <<data, saved, discarded, offered, up, promised>>

\* The restart fails, and the recorder is kept without a stream.  A save is
\* done all the same; otherwise the instance still names the old file.
RestartFails ==
    /\ Joining /\ task.kind # "remove" /\ Fault
    /\ writer' = NoWriter /\ ring' = 0 /\ inside' = FALSE /\ task' = Free
    /\ IF task.kind = "save"
         THEN /\ rec' = [rec EXCEPT !.state = "Idle", !.path = None]
              /\ Gone({Old}) /\ shown' = "Idle" /\ config_dir' = task.dir
         ELSE /\ rec' = [rec EXCEPT !.state = "Error"]
              /\ Gone(IF Unused THEN {Old} ELSE {})
              /\ shown' = IF task.kind = "start" THEN "Error" ELSE shown
              /\ UNCHANGED config_dir
    /\ UNCHANGED <<data, dir, saved, discarded, pending, offered, up, promised>>

\* When the file cannot be removed, or the graph not be synchronized, the
\* desktop keeps its copy of a recorder the backend has given up.
Removed ==
    /\ Joining /\ task.kind = "remove"
    /\ writer' = NoWriter /\ ring' = 0 /\ inside' = FALSE /\ task' = Free /\ rec' = NoRecorder
    /\ \/ Gone({Old}) /\ NoFault /\ shown' = "absent" /\ pending' = FALSE
       \/ /\ Gone({Old}) \/ Gone(IF Unused THEN {Old} ELSE {})
          /\ Fault /\ UNCHANGED <<shown, pending>>
    /\ UNCHANGED <<data, dir, saved, discarded, offered, config_dir, up, promised>>

-----------------------------------------------------------------------------
(* Exit, crash and recovery                                                *)

Down ==
    /\ up /\ exits < MaxExits /\ exits' = exits + 1 /\ up' = FALSE
    /\ writer' = NoWriter /\ ring' = 0 /\ inside' = FALSE
    /\ rec' = NoRecorder /\ shown' = "absent" /\ pending' = FALSE /\ offered' = {} /\ task' = Free
    /\ UNCHANGED <<dir, saved, discarded, config_dir, promised, frames, faults>>

\* What was written is in the operating system's hands.
Crash == Down /\ UNCHANGED <<part, data>>

\* The driver drops its recorders: a running writer drains and finalizes.
Exit ==
    /\ Down /\ task = Free /\ ~inside
    /\ IF Alive /\ writer.thread \in {"starting", "running"}
         THEN /\ Writes
              /\ part' = [part EXCEPT ![writer.take] =
                             IF writer.started \/ data'[writer.take] > 0 THEN "final" ELSE "absent"]
         ELSE UNCHANGED <<part, data>>

\* scan_pending_recordings, under the directory configured now.
Scanned == {t \in Takes : part[t] # "absent" /\ dir[t] = config_dir}

StartUp ==
    /\ ~up /\ up' = TRUE
    /\ offered' = Scanned
    /\ part' = [t \in Takes |-> IF t \in Scanned THEN "final" ELSE part[t]]
    /\ UNCHANGED <<data, dir, saved, discarded, stream, rec, shown, pending, config_dir, task,
                   promised, counts>>

\* save_recovered_recording: the copy, and then the pending file goes, or stays.
SaveRecovered ==
    /\ Handler
    /\ \E t \in offered, d \in Dirs :
         /\ offered' = offered \ {t} /\ config_dir' = d
         /\ saved' = saved \cup {t}
         /\ \/ Gone({t}) /\ NoFault
            \/ UNCHANGED part /\ Fault
    /\ UNCHANGED <<data, dir, discarded, stream, rec, shown, pending, task, up, promised>>

DiscardRecovered ==
    /\ Handler
    /\ \E t \in offered :
         /\ offered' = offered \ {t} /\ Gone({t}) /\ discarded' = discarded \cup {t}
    /\ UNCHANGED <<data, dir, saved, stream, rec, shown, pending, config_dir, task, up, promised,
                   counts>>

-----------------------------------------------------------------------------
Init ==
    /\ part = [t \in Takes |-> "absent"] /\ data = [t \in Takes |-> 0]
    /\ dir = [t \in Takes |-> None] /\ saved = {} /\ discarded = {}
    /\ writer = NoWriter /\ ring = 0 /\ inside = FALSE
    /\ rec = NoRecorder /\ shown = "absent" /\ pending = FALSE /\ offered = {}
    /\ config_dir \in Dirs /\ task = Free /\ up = TRUE /\ promised = [t \in Takes |-> 0]
    /\ frames = 0 /\ faults = 0 /\ exits = 0

Writer == WriterOpens \/ WriterDrains \/ WriterSeesStop \/ WriterFinalizes \/ WriterReports
Callback == CallbackTests \/ CallbackPushes
Pump == PollRecording \/ ReadStatus \/ RefreshInstance
Working == Resume \/ SaveCopies \/ DropHandle \/ Restarted \/ RestartFails \/ Removed
User == CreateRecorder \/ Record \/ Stop \/ Save \/ Discard \/ Remove \/ SaveRecovered
        \/ DiscardRecovered \/ ChooseDirectory
World == StreamFails \/ Crash \/ Exit \/ StartUp

Next == Writer \/ Callback \/ Pump \/ Working \/ User \/ World

\* The writer thread and the callback run, the pump polls every 50 ms, and a
\* handler goes on until it is done.
Fairness ==
    /\ WF_vars(Writer) /\ WF_vars(CallbackPushes) /\ WF_vars(Working)
    /\ WF_vars(PollRecording) /\ WF_vars(ReadStatus) /\ WF_vars(RefreshInstance)

Spec == Init /\ [][Next]_vars /\ Fairness

-----------------------------------------------------------------------------
(* Properties                                                              *)

\* "The temporary source is removed only after a successful copy"
\* (recorder.rs:1000), and a node is only removed after "save or explicitly
\* discard" (pipewire.rs:2051): a file with audio in it disappears only once it
\* is saved or the user discarded it, whatever fails or crashes.  Excepted is
\* the removal of a failed recorder whose instance names no file: after a save
\* or a discard start_recording does not set temporary_path again.
TakesKept ==
    [][\A t \in Takes : part[t] # "absent" /\ part'[t] = "absent" /\ data[t] > 0
          => \/ t \in saved' \cup discarded'
             \/ Removed /\ rec.state = "Error" /\ rec.path = None]_vars

\* "The UI cannot offer Save while the .part header is still open"
\* (pipewire.rs:2168): what is shown as unsaved is a finalized file.
UnsavedIsFinal == shown = "Unsaved" => part[rec.path] = "final"

\* A Stop does not cut off audio: a writer that reports success has written
\* every frame that was in its ring when the Stop was requested.
StopDrains == Alive /\ writer.outcome = "ok" => data[writer.take] >= promised[writer.take]

\* A recording that was stopped, or whose writer or stream failed, is soon
\* shown as finished or failed, so that its take can be saved or discarded: the
\* desktop may read an error the backend has not seen yet, and polls again.
RecordingSettles ==
    (rec.state = "Recording" /\ Alive /\ (pending \/ writer.bad \/ writer.outcome = "err"))
        ~> (rec = NoRecorder \/ rec.state # "Recording")

=============================================================================
