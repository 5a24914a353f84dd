---------------------------- MODULE RecorderProofs ----------------------------
(***************************************************************************)
(* The takes of a recorder, for any number of takes, frames, directories,  *)
(* faults and exits and any capacity of the ring.                          *)
(***************************************************************************)
EXTENDS Recorder, TLAPS

Part    == {"absent", "open", "final"}
Thread  == {"starting", "running", "ok", "err", "done"}
Command == {"none", "sent", "seen", "failed"}
Outcome == {"none", "ok", "err"}
State   == {"absent", "Idle", "Recording", "Unsaved", "Error"}

Handle ==
    [take : Takes, state : {"Starting", "Recording", "Stopping", "Finished", "Error"},
     accepting : BOOLEAN, started : BOOLEAN, thread : Thread, stop : Command,
     outcome : Outcome, joined : BOOLEAN, bad : BOOLEAN]
Instance == [state : State \ {"absent"}, path : Takes \cup {None}, dir : Dirs]
Task ==
    [kind : {"free", "resume", "status"}]
        \cup [kind : {"start", "discard", "remove"}, step : {"drop", "join"}]
        \cup [kind : {"save"}, step : {"copy", "drop", "join"}, dir : Dirs]

FilesTyped ==
    /\ part \in [Takes -> Part] /\ data \in [Takes -> Nat] /\ promised \in [Takes -> Nat]
    /\ dir \in [Takes -> Dirs \cup {None}]
    /\ saved \subseteq Takes /\ discarded \subseteq Takes \cup {None} /\ offered \subseteq Takes

TypeInv ==
    /\ FilesTyped
    /\ writer \in {NoWriter} \cup Handle /\ ring \in Nat /\ inside \in BOOLEAN
    /\ rec \in {NoRecorder} \cup Instance /\ shown \in State /\ pending \in BOOLEAN
    /\ config_dir \in Dirs /\ task \in Task /\ up \in BOOLEAN

\* A number that has not been given to a take has no file; an offered take has
\* been given one by an earlier process.
FilesInv ==
    /\ \A t \in Takes : dir[t] = None => part[t] = "absent" /\ data[t] = 0 /\ promised[t] = 0
    /\ \A t \in offered : dir[t] # None

\* A writer that has never been started holds no audio; one that reports
\* success has seen the command to stop, closed its file and written what a
\* Stop was promised; while it runs, that is in the file or in the ring.  No
\* command has been sent to one whose state nobody has touched.
WriterInv == Alive =>
    /\ up /\ dir[writer.take] # None /\ writer.take \notin offered
    /\ ~writer.started =>
         ~writer.accepting /\ ~inside /\ ring = 0 /\ data[writer.take] = 0
    /\ writer.state = "Starting" => writer.stop \notin {"sent", "seen"}
    /\ writer.thread # "done" => writer.outcome = "none"
    /\ writer.thread = "ok" \/ writer.outcome = "ok" =>
         /\ writer.stop = "seen" /\ part[writer.take] = "final"
         /\ promised[writer.take] <= data[writer.take]
    /\ writer.thread \in {"starting", "running"} =>
         promised[writer.take] <= data[writer.take] + ring

\* The backend's record and the desktop's copy of its state.
UnsavedInv == shown = "Unsaved" =>
    /\ rec \in Instance /\ rec.state \in {"Unsaved", "Error"}
    /\ rec.path \in Takes /\ part[rec.path] = "final"
    /\ Alive => writer.take = rec.path /\ writer.thread = "done" /\ writer.started

RecInv ==
    /\ rec = NoRecorder => ~Alive /\ task = Free
    /\ rec \in Instance /\ rec.path \in Takes => dir[rec.path] # None /\ rec.path \notin offered
    /\ rec.state = "Idle" => IF Alive THEN ~writer.started ELSE rec.path = None
    /\ rec.state = "Recording" =>
         /\ Alive /\ writer.started
         /\ writer.stop \in {"sent", "seen"} => pending
    /\ rec.state = "Unsaved" => shown = "Unsaved"

\* What a handler has tested still holds when it goes on.
TaskInv ==
    /\ task.kind = "resume" =>
         Alive /\ rec.state = "Idle" /\ writer.stop \notin {"sent", "seen"}
    /\ task.kind = "start" => rec.state = "Idle"
    /\ task.kind = "status" => rec.state = "Recording"
    /\ task.kind = "save" =>
         rec.state = "Unsaved" /\ (task.step # "copy" => rec.path \in saved)
    /\ task.kind = "discard" => rec.state # "Recording" /\ Old \in discarded
    /\ task.kind = "remove" => Removable

DownInv == ~up => rec = NoRecorder /\ shown = "absent"

IInv == TypeInv /\ FilesInv /\ WriterInv /\ UnsavedInv /\ RecInv /\ TaskInv /\ DownInv

--------------------------------------------------------------------------------
(* Types.                                                                  *)

LEMMA HandleIsAlive == ASSUME NEW w \in Handle PROVE w # NoWriter /\ w.take # None
<1>1. w.take \in Takes
  BY DEF Handle
<1>2. w.take # 0
  BY <1>1, RecorderConstants DEF Takes
<1> QED  BY <1>2 DEF NoWriter, None

LEMMA AliveHasHandle == ASSUME TypeInv, Alive PROVE writer \in Handle /\ writer.take \in Takes
  BY DEF TypeInv, Alive, Handle

LEMMA InstanceIsRecorder == ASSUME NEW r \in Instance PROVE r # NoRecorder
<1>1. r.state # "absent"
  BY DEF Instance
<1> QED  BY <1>1 DEF NoRecorder

LEMMA InitHolds == ASSUME Init PROVE IInv
<1> USE DEF Init
<1>1. TypeInv
  BY RecorderConstants DEF TypeInv, FilesTyped, Part, State, Task, Free
<1>2. rec \notin Instance
  BY InstanceIsRecorder
<1>3. FilesInv /\ WriterInv /\ UnsavedInv /\ DownInv
  BY DEF FilesInv, WriterInv, Alive, UnsavedInv, DownInv
<1>4. RecInv
  BY <1>2 DEF RecInv, Alive, NoRecorder
<1>5. TaskInv
  BY DEF TaskInv, Free
<1> QED  BY <1>1, <1>3, <1>4, <1>5 DEF IInv

LEMMA NewHandle ==
  ASSUME NEW t \in Takes
  PROVE  StartPaused(t) \in Handle /\ Resumed(StartPaused(t)) \in Handle
  BY DEF StartPaused, Resumed, Handle, Thread, Command, Outcome

LEMMA HandleChanges ==
  ASSUME NEW w \in Handle
  PROVE  /\ Resumed(w) \in Handle
         /\ RequestStop(w) \in Handle
         /\ RequestStop(w).take = w.take /\ RequestStop(w).started = w.started
         /\ RequestStop(w).thread = w.thread /\ RequestStop(w).outcome = w.outcome
         /\ ~RequestStop(w).accepting /\ RequestStop(w).state = "Stopping"
         /\ w.stop = "seen" => RequestStop(w).stop = "seen"
         /\ RequestStop(w).stop = "seen" => w.stop = "seen"
<1> DEFINE command == IF w.stop # "none" THEN w.stop ELSE IF w.thread = "done" THEN "failed" ELSE "sent"
<1>1. RequestStop(w) = [w EXCEPT !.accepting = FALSE, !.state = "Stopping", !.stop = command]
  BY DEF RequestStop, Handle
<1>2. /\ command \in Command
      /\ w.stop = "seen" => command = "seen"
      /\ command = "seen" => w.stop = "seen"
  BY DEF Handle, Command
<1> HIDE DEF command
<1>3. RequestStop(w) \in Handle /\ RequestStop(w).stop = command
  BY <1>1, <1>2 DEF Handle
<1>4. /\ RequestStop(w).take = w.take /\ RequestStop(w).started = w.started
      /\ RequestStop(w).thread = w.thread /\ RequestStop(w).outcome = w.outcome
      /\ RequestStop(w).accepting = FALSE /\ RequestStop(w).state = "Stopping"
  BY <1>1 DEF Handle
<1>5. Resumed(w) \in Handle
  BY DEF Resumed, Handle
<1> QED  BY <1>2, <1>3, <1>4, <1>5

LEMMA WriterTypes ==
  ASSUME TypeInv, Writer \/ Callback \/ StreamFails
  PROVE  TypeInv'
<1> USE DEF TypeInv, FilesTyped, files, desk, counts
<1>1. writer \in Handle /\ writer.take \in Takes
  BY AliveHasHandle DEF Writer, Callback, WriterOpens, WriterDrains, WriterSeesStop,
                        WriterFinalizes, WriterReports, CallbackTests, CallbackPushes, StreamFails
<1>2. CASE WriterOpens
  BY <1>1, <1>2 DEF WriterOpens, WriterFails, Part, Handle, Thread
<1>3. CASE WriterDrains
  <2>1. data[writer.take] + ring \in Nat /\ 0 \in Nat
    BY <1>1
  <2>2. writer' \in Handle
    BY <1>1, <1>3 DEF WriterDrains, WriterFails, Handle, Thread
  <2>3. data' \in [Takes -> Nat] /\ ring' \in Nat
    BY <1>3, <2>1 DEF WriterDrains, Writes
  <2> QED  BY <1>3, <2>2, <2>3 DEF WriterDrains
<1>4. CASE WriterSeesStop
  BY <1>1, <1>4 DEF WriterSeesStop, Handle, Command
<1>5. CASE WriterFinalizes
  BY <1>1, <1>5 DEF WriterFinalizes, WriterFails, Part, Handle, Thread
<1>6. CASE WriterReports
  BY <1>1, <1>6 DEF WriterReports, Handle, Thread, Outcome
<1>7. CASE CallbackTests \/ CallbackPushes
  <2>1. ring' \in Nat /\ inside' \in BOOLEAN
    <3>1. ring' = ring \/ ring' = ring + 1
      BY <1>7 DEF CallbackTests, CallbackPushes, stream
    <3>2. inside' = TRUE \/ inside' = FALSE
      BY <1>7 DEF CallbackTests, CallbackPushes
    <3>3. ring' \in Nat
      BY <3>1
    <3> QED  BY <3>2, <3>3
  <2>2. UNCHANGED <<files, writer, rec, desk, task, up, promised>>
    BY <1>7 DEF CallbackTests, CallbackPushes
  <2> QED  BY <2>1, <2>2
<1>8. CASE StreamFails
  BY <1>1, <1>8 DEF StreamFails, Handle
<1> QED  BY <1>2, <1>3, <1>4, <1>5, <1>6, <1>7, <1>8 DEF Writer, Callback

LEMMA RecorderIsInstance ==
  ASSUME TypeInv, rec # NoRecorder \/ rec.state # "absent"
  PROVE  rec \in Instance
  BY DEF TypeInv, NoRecorder

LEMMA TaskHasRecorder ==
  ASSUME IInv, task # Free
  PROVE  rec \in Instance
  BY RecorderIsInstance DEF IInv, RecInv

LEMMA JoiningHasRecorder ==
  ASSUME IInv, Joining
  PROVE  task # Free /\ rec \in Instance
<1>1. "step" \in DOMAIN task
  BY DEF Joining
<1>2. "step" \notin DOMAIN Free
  BY DEF Free
<1> QED  BY <1>1, <1>2, TaskHasRecorder

\* Handlers that only test, copy or show.
LEMMA DesktopTypes ==
  ASSUME IInv, Record \/ ChooseDirectory \/ ReadStatus \/ RefreshInstance \/ Save \/ SaveCopies
               \/ Discard \/ Remove
  PROVE  TypeInv'
<1> USE DEF TypeInv, FilesTyped, files, stream, desk, counts
<1> TypeInv
  BY DEF IInv
<1>1. CASE Record
  BY <1>1 DEF Record, Task
<1>2. CASE ChooseDirectory
  BY <1>2 DEF ChooseDirectory
<1>3. CASE ReadStatus
  <2>1. rec.state \in State
    BY DEF NoRecorder, Instance, State
  <2>2. shown' \in State
    BY <1>3, <2>1 DEF ReadStatus, State
  <2> QED  BY <1>3, <2>2 DEF ReadStatus, Task, Free
<1>4. CASE RefreshInstance
  <2>1. rec.state \in State
    BY DEF NoRecorder, Instance, State
  <2> QED  BY <1>4, <2>1 DEF RefreshInstance, Shown
<1>5. CASE Save
  BY <1>5 DEF Save, FinishRecording, Task
<1>6. CASE SaveCopies
  <2>1. rec.path \in Takes
    BY <1>6 DEF SaveCopies, IInv, TaskInv, RecInv, UnsavedInv
  <2>2. task' \in Task
    BY <1>6 DEF SaveCopies, Task, Free
  <2>3. saved' \subseteq Takes
    BY <1>6, <2>1 DEF SaveCopies
  <2> QED  BY <1>6, <2>2, <2>3 DEF SaveCopies
<1>7. CASE Discard
  <2>1. rec.path \in Takes \cup {None}
    BY <1>7, RecorderIsInstance DEF Discard, Instance
  <2>2. Alive => writer.take \in Takes
    BY AliveHasHandle
  <2>3. discarded' \subseteq Takes \cup {None} /\ task' \in Task
    BY <1>7, <2>1, <2>2 DEF Discard, Task
  <2> QED  BY <1>7, <2>3 DEF Discard
<1>8. CASE Remove
  BY <1>8 DEF Remove, Task
<1> QED  BY <1>1, <1>2, <1>3, <1>4, <1>5, <1>6, <1>7, <1>8

\* Handlers that tell the writer, or read its result.
LEMMA HandleTypes ==
  ASSUME IInv, Resume \/ Stop \/ PollRecording \/ DropHandle
  PROVE  TypeInv'
<1> USE DEF TypeInv, FilesTyped, files, stream, desk, counts
<1> TypeInv
  BY DEF IInv
<1>1. CASE Resume
  <2>1. Alive /\ rec \in Instance
    BY <1>1, RecorderIsInstance DEF Resume, IInv, TaskInv
  <2>2. writer' \in Handle
    BY <1>1, <2>1, AliveHasHandle, HandleChanges DEF Resume
  <2>3. rec' \in Instance /\ shown' \in State
    BY <1>1, <2>1 DEF Resume, Instance, State
  <2> QED  BY <1>1, <2>2, <2>3 DEF Resume, Task, Free
<1>2. CASE Stop
  <2>1. writer \in Handle /\ writer.take \in Takes
    BY <1>2, AliveHasHandle DEF Stop
  <2>2. writer' \in Handle
    BY <1>2, <2>1, HandleChanges DEF Stop
  <2>3. promised' \in [Takes -> Nat]
    <3>1. data[writer.take] + ring \in Nat
      BY <2>1
    <3> QED  BY <1>2, <3>1 DEF Stop
  <2>4. pending' \in BOOLEAN
    BY <1>2 DEF Stop
  <2> QED  BY <1>2, <2>2, <2>3, <2>4 DEF Stop
<1>3. CASE PollRecording
  <2>1. writer \in Handle /\ writer.take \in Takes /\ rec \in Instance
    BY <1>3, AliveHasHandle, RecorderIsInstance DEF PollRecording
  <2>2. writer' \in Handle
    BY <1>3, <2>1 DEF PollRecording, Handle
  <2>3. rec' \in Instance /\ shown' \in State /\ pending' \in BOOLEAN
    BY <1>3, <2>1 DEF PollRecording, Failed, Instance, State
  <2>4. task' \in Task
    BY <1>3 DEF PollRecording, FinishRecording, Task
  <2> QED  BY <1>3, <2>2, <2>3, <2>4 DEF PollRecording
<1>4. CASE DropHandle
  <2>1. writer' \in {NoWriter} \cup Handle
    BY <1>4, AliveHasHandle, HandleChanges DEF DropHandle
  <2>2. task' \in Task
    BY <1>4 DEF DropHandle, Task
  <2> QED  BY <1>4, <2>1, <2>2 DEF DropHandle
<1> QED  BY <1>1, <1>2, <1>3, <1>4

LEMMA GoneFiles ==
  ASSUME part \in [Takes -> Part], NEW T, Gone(T)
  PROVE  /\ part' \in [Takes -> Part]
         /\ \A t \in Takes : part'[t] = IF t \in T THEN "absent" ELSE part[t]
  BY DEF Gone, Part

LEMMA NewTakeIsFresh == ASSUME NEW t \in NewTake PROVE t \in Takes /\ dir[t] = None
  BY DEF NewTake

\* Streams that are made, made anew or given up.
LEMMA StreamTypes ==
  ASSUME IInv, CreateRecorder \/ Restarted \/ RestartFails \/ Removed
  PROVE  TypeInv'
<1> USE DEF TypeInv, FilesTyped, files, stream, desk, counts
<1> TypeInv
  BY DEF IInv
<1>1. CASE CreateRecorder
  <2>1. PICK t \in NewTake :
          /\ writer' = StartPaused(t) /\ dir' = [dir EXCEPT ![t] = config_dir]
          /\ rec' = [state |-> "Idle", path |-> t, dir |-> config_dir]
    BY <1>1 DEF CreateRecorder
  <2>2. t \in Takes /\ writer' \in Handle /\ rec' \in Instance
    BY <2>1, NewTakeIsFresh, NewHandle DEF Instance, State
  <2>3. ring' = 0 /\ inside' = FALSE /\ shown' \in State
    BY <1>1 DEF CreateRecorder, State
  <2>4. dir' \in [Takes -> Dirs \cup {None}]
    BY <2>1, <2>2
  <2> QED  BY <1>1, <2>2, <2>3, <2>4 DEF CreateRecorder
<1>2. CASE Restarted
  <2>1. rec \in Instance
    BY <1>2, JoiningHasRecorder DEF Restarted
  <2>2. PICK t \in NewTake :
          /\ writer' = IF task.kind = "start" THEN Resumed(StartPaused(t)) ELSE StartPaused(t)
          /\ dir' = [dir EXCEPT ![t] = rec.dir]
          /\ rec' = IF task.kind = "start" THEN [rec EXCEPT !.state = "Recording", !.path = t]
                    ELSE [rec EXCEPT !.state = "Idle", !.path = None]
    BY <1>2 DEF Restarted
  <2>3. t \in Takes /\ writer' \in Handle /\ rec' \in Instance /\ rec'.state \in State
    BY <2>1, <2>2, NewTakeIsFresh, NewHandle DEF Instance, State
  <2>4. part' \in [Takes -> Part]
    BY <1>2, GoneFiles DEF Restarted
  <2>5. dir' \in [Takes -> Dirs \cup {None}]
    BY <2>1, <2>2, <2>3 DEF Instance
  <2>6. pending' \in BOOLEAN /\ shown' \in State
    BY <1>2, <2>3 DEF Restarted
  <2>7. config_dir' \in Dirs
    BY <1>2 DEF Restarted, Task
  <2>8. /\ ring' = 0 /\ inside' = FALSE /\ task' = Free
        /\ UNCHANGED <<data, saved, discarded, offered, up, promised>>
    BY <1>2 DEF Restarted
  <2> QED  BY <2>3, <2>4, <2>5, <2>6, <2>7, <2>8 DEF Task, Free
<1>3. CASE RestartFails
  <2>1. rec \in Instance
    BY <1>3, JoiningHasRecorder DEF RestartFails
  <2>2. part' \in [Takes -> Part]
    BY <1>3, GoneFiles DEF RestartFails
  <2>3. rec' \in Instance /\ shown' \in State
    BY <1>3, <2>1 DEF RestartFails, Instance, State
  <2>4. config_dir' \in Dirs
    BY <1>3 DEF RestartFails, Task
  <2> QED  BY <1>3, <2>2, <2>3, <2>4 DEF RestartFails, Task, Free
<1>4. CASE Removed
  <2>1. part' \in [Takes -> Part]
    BY <1>4, GoneFiles DEF Removed
  <2> QED  BY <1>4, <2>1 DEF Removed, Task, Free, State
<1> QED  BY <1>1, <1>2, <1>3, <1>4

\* Exits, crashes and recovery.
LEMMA WorldTypes ==
  ASSUME IInv, Crash \/ Exit \/ StartUp \/ SaveRecovered \/ DiscardRecovered
  PROVE  TypeInv'
<1> USE DEF TypeInv, FilesTyped, files, stream, desk, counts
<1> TypeInv
  BY DEF IInv
<1>1. CASE Crash \/ Exit
  <2>1. data' \in [Takes -> Nat] /\ part' \in [Takes -> Part]
    <3>1. CASE UNCHANGED <<part, data>>
      BY <3>1
    <3>2. CASE /\ Alive /\ Writes
               /\ part' = [part EXCEPT ![writer.take] =
                             IF writer.started \/ data'[writer.take] > 0 THEN "final" ELSE "absent"]
      <4>1. writer.take \in Takes /\ data[writer.take] + ring \in Nat
        BY <3>2, AliveHasHandle
      <4> QED  BY <3>2, <4>1 DEF Writes, Part
    <3> QED  BY <1>1, <3>1, <3>2 DEF Crash, Exit
  <2>2. /\ writer' = NoWriter /\ ring' = 0 /\ inside' = FALSE /\ rec' = NoRecorder /\ up' = FALSE
        /\ shown' = "absent" /\ pending' = FALSE /\ offered' = {} /\ task' = Free
        /\ UNCHANGED <<dir, saved, discarded, config_dir, promised>>
    BY <1>1 DEF Crash, Exit, Down
  <2> QED  BY <2>1, <2>2 DEF Task, Free, State
<1>2. CASE StartUp
  BY <1>2 DEF StartUp, Scanned, Part
<1>3. CASE SaveRecovered
  <2>1. part' \in [Takes -> Part]
    BY <1>3, GoneFiles DEF SaveRecovered
  <2> QED  BY <1>3, <2>1 DEF SaveRecovered
<1>4. CASE DiscardRecovered
  <2>1. part' \in [Takes -> Part]
    BY <1>4, GoneFiles DEF DiscardRecovered
  <2> QED  BY <1>4, <2>1 DEF DiscardRecovered
<1> QED  BY <1>1, <1>2, <1>3, <1>4

LEMMA StepTypes ==
  ASSUME IInv, [Next]_vars
  PROVE  TypeInv'
<1>1. CASE UNCHANGED vars
  BY <1>1 DEF IInv, TypeInv, FilesTyped, vars, files, stream, desk, counts
<1>2. CASE Next
  <2>1. TypeInv
    BY DEF IInv
  <2> QED
    BY <1>2, <2>1, WriterTypes, DesktopTypes, HandleTypes, StreamTypes, WorldTypes
       DEF Next, Pump, Working, User, World
<1> QED  BY <1>1, <1>2

--------------------------------------------------------------------------------
(* The writer thread and the callback.                                     *)

\* They touch the writer's own take only, and nothing of it once the thread has
\* reported; who is recording what is not theirs to change.
Runs ==
    /\ Alive /\ Alive' /\ writer'.take = writer.take /\ writer'.started = writer.started
    /\ writer'.stop \in {"sent", "seen"} => writer.stop \in {"sent", "seen"}
    /\ \A t \in Takes : t # writer.take => part'[t] = part[t] /\ data'[t] = data[t]
    /\ writer.thread = "done" => writer'.thread = "done" /\ part'[writer.take] = part[writer.take]
    /\ UNCHANGED <<dir, saved, discarded, rec, shown, pending, offered, task, up, promised>>

LEMMA RunsKeeps ==
  ASSUME IInv, Runs
  PROVE  FilesInv' /\ UnsavedInv' /\ RecInv' /\ TaskInv' /\ DownInv'
<1> USE DEF Runs
<1>1. writer \in Handle /\ writer.take \in Takes /\ dir[writer.take] # None
  BY AliveHasHandle DEF IInv, WriterInv
<1>2. FilesInv'
  BY <1>1 DEF IInv, FilesInv
<1>3. UnsavedInv'
  BY <1>1 DEF IInv, UnsavedInv
<1>4. RecInv'
  BY <1>1 DEF IInv, RecInv
<1>5. TaskInv'
  BY <1>1 DEF IInv, TaskInv, Old, Removable
<1>6. DownInv'
  BY DEF IInv, DownInv
<1> QED  BY <1>2, <1>3, <1>4, <1>5, <1>6

\* The handle stays that of the same take.
Same ==
    /\ writer' \in Handle /\ writer'.take = writer.take /\ writer'.started = writer.started
    /\ writer'.accepting = writer.accepting
    /\ writer'.state = "Starting" => writer.state = "Starting"

LEMMA SameRuns == ASSUME Same PROVE Alive'
  BY HandleIsAlive DEF Same, Alive

LEMMA WriterKeeps ==
  ASSUME IInv, Writer \/ Callback \/ StreamFails
  PROVE  IInv'
<1> USE DEF files, desk, counts
<1>1. /\ Alive /\ writer \in Handle /\ writer.take \in Takes /\ WriterInv /\ TypeInv
  BY AliveHasHandle DEF IInv, Writer, Callback, WriterOpens, WriterDrains, WriterSeesStop,
                        WriterFinalizes, WriterReports, CallbackTests, CallbackPushes, StreamFails
<1>2. TypeInv'
  BY WriterTypes DEF IInv
<1>4. /\ data[writer.take] \in Nat /\ ring \in Nat /\ promised[writer.take] \in Nat
      /\ part \in [Takes -> Part] /\ data \in [Takes -> Nat]
  BY <1>1 DEF TypeInv, FilesTyped
<1>5. CASE WriterOpens
  <2>1. /\ writer.thread = "starting" /\ Same
        /\ writer'.thread \in {"running", "err"} /\ writer'.stop = writer.stop
        /\ writer'.outcome = writer.outcome
    BY <1>1, <1>5 DEF WriterOpens, WriterFails, Same, Handle, Thread
  <2>2. /\ \A t \in Takes : t # writer.take => part'[t] = part[t]
        /\ UNCHANGED <<data, dir, saved, discarded, ring, inside, rec, desk, task, up, promised>>
    BY <1>4, <1>5 DEF WriterOpens
  <2>3. Runs
    BY <1>1, <2>1, <2>2, SameRuns DEF Runs, Same
  <2>4. WriterInv'
    BY <1>1, <2>1, <2>2, <2>3 DEF WriterInv, Runs, Same
  <2> QED  BY <1>2, <2>3, <2>4, RunsKeeps DEF IInv
<1>6. CASE WriterDrains
  <2>1. /\ writer.thread = "running" /\ Same
        /\ writer'.thread \in {"running", "err"} /\ writer'.stop = writer.stop
        /\ writer'.outcome = writer.outcome
    BY <1>1, <1>6 DEF WriterDrains, WriterFails, Same, Handle, Thread
  <2>2. /\ \A t \in Takes : t # writer.take => data'[t] = data[t]
        /\ ring > 0 /\ ring' = 0
        /\ writer'.thread = "running" => data'[writer.take] = data[writer.take] + ring
        /\ UNCHANGED <<part, dir, saved, discarded, inside, rec, desk, task, up, promised>>
    BY <1>1, <1>4, <1>6 DEF WriterDrains, WriterFails, Writes, Handle
  <2>3. Runs
    BY <1>1, <2>1, <2>2, SameRuns DEF Runs, Same
  <2>4. WriterInv'
    BY <1>1, <1>4, <2>1, <2>2, <2>3 DEF WriterInv, Runs, Same
  <2> QED  BY <1>2, <2>3, <2>4, RunsKeeps DEF IInv
<1>7. CASE WriterSeesStop
  <2>1. /\ writer.thread = "running" /\ Same /\ writer.stop = "sent" /\ writer'.stop = "seen"
        /\ writer'.thread = "running" /\ writer'.outcome = writer.outcome
    BY <1>1, <1>7 DEF WriterSeesStop, Same, Handle, Command
  <2>2. UNCHANGED <<files, ring, inside, rec, desk, task, up, promised>>
    BY <1>7 DEF WriterSeesStop
  <2>3. Runs
    BY <1>1, <2>1, <2>2, SameRuns DEF Runs, Same
  <2>4. WriterInv'
    BY <1>1, <2>1, <2>2, <2>3 DEF WriterInv, Runs, Same
  <2> QED  BY <1>2, <2>3, <2>4, RunsKeeps DEF IInv
<1>8. CASE WriterFinalizes
  <2>1. /\ writer.thread = "running" /\ Same /\ writer.stop = "seen" /\ writer'.stop = "seen"
        /\ writer'.thread \in {"ok", "err"} /\ writer'.outcome = writer.outcome
    BY <1>1, <1>8 DEF WriterFinalizes, WriterFails, Same, Handle, Thread
  <2>2. /\ \A t \in Takes : t # writer.take => part'[t] = part[t]
        /\ writer'.thread = "ok" => part'[writer.take] = "final"
        /\ ring = 0
        /\ UNCHANGED <<data, dir, saved, discarded, ring, inside, rec, desk, task, up, promised>>
    BY <1>1, <1>4, <1>8 DEF WriterFinalizes, WriterFails, Drained, Handle
  <2>3. Runs
    BY <1>1, <2>1, <2>2, SameRuns DEF Runs, Same
  <2>4. WriterInv'
    BY <1>1, <1>4, <2>1, <2>2, <2>3 DEF WriterInv, Runs, Same
  <2> QED  BY <1>2, <2>3, <2>4, RunsKeeps DEF IInv
<1>9. CASE WriterReports
  <2>1. /\ writer.thread \in {"ok", "err"} /\ Same /\ writer'.stop = writer.stop
        /\ writer'.thread = "done" /\ writer'.outcome = writer.thread
    BY <1>1, <1>9 DEF WriterReports, Same, Handle, Outcome, Thread
  <2>2. UNCHANGED <<files, ring, inside, rec, desk, task, up, promised>>
    BY <1>9 DEF WriterReports
  <2>3. Runs
    BY <1>1, <2>1, <2>2, SameRuns DEF Runs, Same
  <2>4. WriterInv'
    BY <1>1, <2>1, <2>2, <2>3 DEF WriterInv, Runs, Same
  <2> QED  BY <1>2, <2>3, <2>4, RunsKeeps DEF IInv
<1>10. CASE CallbackTests \/ CallbackPushes
  <2>1. writer' = writer /\ UNCHANGED <<part, data, dir, promised, up, offered>>
    BY <1>10 DEF CallbackTests, CallbackPushes
  <2>2. Runs
    BY <1>1, <1>10, <2>1 DEF CallbackTests, CallbackPushes, Runs, Alive
  <2>3. writer.started /\ ring' \in {ring, ring + 1}
    BY <1>1, <1>10 DEF CallbackTests, CallbackPushes, WriterInv
  <2>4. WriterInv'
    BY <1>1, <1>4, <2>1, <2>3 DEF WriterInv, Alive
  <2> QED  BY <1>2, <2>2, <2>4, RunsKeeps DEF IInv
<1>11. CASE StreamFails
  <2>1. /\ Same /\ writer'.stop = writer.stop
        /\ writer'.thread = writer.thread /\ writer'.outcome = writer.outcome
    BY <1>1, <1>11 DEF StreamFails, Same, Handle
  <2>2. UNCHANGED <<files, ring, inside, rec, desk, task, up, promised>>
    BY <1>11 DEF StreamFails
  <2>3. Runs
    BY <1>1, <2>1, <2>2, SameRuns DEF Runs, Same
  <2>4. WriterInv'
    BY <1>1, <2>1, <2>2, <2>3 DEF WriterInv, Runs, Same
  <2> QED  BY <1>2, <2>3, <2>4, RunsKeeps DEF IInv
<1> QED  BY <1>5, <1>6, <1>7, <1>8, <1>9, <1>10, <1>11 DEF Writer, Callback

--------------------------------------------------------------------------------
(* Handlers that only test, copy or show.                                  *)

Looks == UNCHANGED <<part, data, dir, stream, rec, up, promised, offered>>

LEMMA LooksKeeps ==
  ASSUME IInv, Looks
  PROVE  /\ FilesInv' /\ WriterInv' /\ (Alive' <=> Alive)
         /\ shown' = shown => UnsavedInv' /\ DownInv'
         /\ (shown' = shown /\ UNCHANGED pending /\ (rec # NoRecorder \/ task' = Free)) => RecInv'
<1> USE DEF Looks, stream, Alive
<1>1. FilesInv'
  BY DEF IInv, FilesInv
<1>2. WriterInv'
  BY DEF IInv, WriterInv
<1>3. ASSUME shown' = shown
      PROVE  UnsavedInv' /\ DownInv'
  BY <1>3 DEF IInv, UnsavedInv, DownInv
<1>4. ASSUME shown' = shown, UNCHANGED pending, rec # NoRecorder \/ task' = Free
      PROVE  RecInv'
  BY <1>4 DEF IInv, RecInv
<1> QED  BY <1>1, <1>2, <1>3, <1>4

LEMMA DesktopKeeps ==
  ASSUME IInv, Record \/ ChooseDirectory \/ ReadStatus \/ RefreshInstance \/ Save \/ SaveCopies
               \/ Discard \/ Remove
  PROVE  IInv'
<1>1. TypeInv'
  BY DesktopTypes
<1>2. Looks
  BY DEF Looks, files, stream, desk, counts, Record, ChooseDirectory, ReadStatus, RefreshInstance,
         Save, SaveCopies, Discard, Remove
<1>3. FilesInv' /\ WriterInv' /\ (Alive' <=> Alive)
  BY <1>2, LooksKeeps
<1>4. rec' = rec /\ writer' = writer
  BY <1>2 DEF Looks, stream
<1>5. CASE Record
  <2>1. rec # NoRecorder /\ UNCHANGED <<shown, pending>>
    BY <1>5 DEF Record, NoRecorder, desk
  <2>2. TaskInv'
    <3>1. Alive /\ writer.state = "Starting" => writer.stop \notin {"sent", "seen"}
      BY DEF IInv, WriterInv
    <3>2. rec.state = "Idle"
      BY <1>5 DEF Record
    <3> QED  BY <1>3, <1>4, <1>5, <3>1, <3>2 DEF Record, TaskInv
  <2> QED  BY <1>1, <1>2, <1>3, <2>1, <2>2, LooksKeeps DEF IInv
<1>6. CASE ChooseDirectory
  <2>1. UNCHANGED <<shown, pending, task, saved, discarded>> /\ task = Free
    BY <1>6 DEF ChooseDirectory, Handler, files
  <2>2. TaskInv'
    BY <2>1 DEF TaskInv, Free
  <2> QED  BY <1>1, <1>2, <1>3, <2>1, <2>2, LooksKeeps DEF IInv
<1>7. CASE ReadStatus
  <2>1. rec.state = "Recording" /\ task' = Free /\ shown' \in {"Error", "Recording"}
    BY <1>7 DEF ReadStatus, IInv, TaskInv
  <2>2. TaskInv'
    BY <2>1 DEF TaskInv, Free
  <2>3. UnsavedInv' /\ DownInv'
    BY <1>2, <2>1 DEF IInv, UnsavedInv, DownInv, Looks, NoRecorder
  <2>4. UNCHANGED pending
    BY <1>7 DEF ReadStatus
  <2>5. RecInv'
    BY <1>2, <1>3, <1>4, <2>1, <2>4 DEF IInv, RecInv, Looks
  <2> QED  BY <1>1, <1>3, <2>2, <2>3, <2>5 DEF IInv
<1>8. CASE RefreshInstance
  <2>1. rec # NoRecorder /\ shown' = rec.state /\ shown # rec.state /\ task = Free /\ task' = task
    BY <1>8 DEF RefreshInstance, Shown, Handler
  <2>2. rec.state # "Unsaved"
    BY <2>1 DEF IInv, RecInv
  <2>3. TaskInv'
    BY <2>1 DEF TaskInv, Free
  <2>4. UnsavedInv' /\ DownInv'
    BY <1>2, <2>1, <2>2 DEF IInv, UnsavedInv, DownInv, Looks
  <2>5. UNCHANGED pending
    BY <1>8 DEF RefreshInstance
  <2>6. RecInv'
    BY <1>2, <1>3, <1>4, <2>1, <2>2, <2>5 DEF IInv, RecInv, Looks
  <2> QED  BY <1>1, <1>3, <2>3, <2>4, <2>6 DEF IInv
<1>9. CASE Save
  <2>1. rec.state = "Unsaved" /\ UNCHANGED <<shown, pending>> /\ rec # NoRecorder
    BY <1>9 DEF Save, desk, NoRecorder
  <2>2. task'.kind = "save" /\ task'.step = "copy"
    BY <1>9 DEF Save, FinishRecording
  <2>3. TaskInv'
    BY <1>4, <2>1, <2>2 DEF TaskInv
  <2> QED  BY <1>1, <1>2, <1>3, <2>1, <2>3, LooksKeeps DEF IInv
<1>10. CASE SaveCopies
  <2>1. rec.state = "Unsaved" /\ UNCHANGED <<shown, pending>> /\ rec # NoRecorder
    BY <1>10 DEF SaveCopies, desk, NoRecorder, IInv, TaskInv
  <2>2. task' = Free \/ (task' = [task EXCEPT !.step = "drop"] /\ saved' = saved \cup {rec.path})
    BY <1>10 DEF SaveCopies
  <2>3. task'.kind = "free" \/ (task'.kind = "save" /\ rec.path \in saved')
    BY <1>10, <2>2 DEF SaveCopies, Free, IInv, TypeInv, Task
  <2>4. TaskInv'
    BY <1>4, <2>1, <2>3 DEF TaskInv
  <2> QED  BY <1>1, <1>2, <1>3, <2>1, <2>4, LooksKeeps DEF IInv
<1>11. CASE Discard
  <2>1. rec.state # "Recording" /\ UNCHANGED <<shown, pending>> /\ rec # NoRecorder
    BY <1>11 DEF Discard, desk
  <2>2. task'.kind = "discard" /\ Old \in discarded' /\ Old' = Old
    BY <1>3, <1>4, <1>11 DEF Discard, Old
  <2>3. TaskInv'
    BY <1>4, <2>1, <2>2 DEF TaskInv
  <2> QED  BY <1>1, <1>2, <1>3, <2>1, <2>3, LooksKeeps DEF IInv
<1>12. CASE Remove
  <2>1. Removable /\ UNCHANGED <<shown, pending>> /\ rec # NoRecorder
    BY <1>12 DEF Remove, desk
  <2>2. task'.kind = "remove" /\ Removable'
    BY <1>4, <1>12, <2>1 DEF Remove, Removable
  <2>3. TaskInv'
    BY <2>2 DEF TaskInv
  <2> QED  BY <1>1, <1>2, <1>3, <2>1, <2>3, LooksKeeps DEF IInv
<1> QED  BY <1>5, <1>6, <1>7, <1>8, <1>9, <1>10, <1>11, <1>12

--------------------------------------------------------------------------------
(* Handlers that tell the writer, or read its result.                      *)

LEMMA HandleKeeps ==
  ASSUME IInv, Resume \/ Stop \/ PollRecording \/ DropHandle
  PROVE  IInv'
<1>1. TypeInv'
  BY HandleTypes
<1>2. /\ UNCHANGED <<part, data, dir, saved, discarded, ring, inside, up, offered>>
      /\ TypeInv /\ WriterInv
  BY DEF IInv, Resume, Stop, PollRecording, DropHandle, files, desk
<1>3. CASE Resume
  <2>1. /\ Alive /\ rec.state = "Idle" /\ rec \in Instance
        /\ writer \in Handle /\ writer.stop \notin {"sent", "seen"}
    BY <1>3, AliveHasHandle, RecorderIsInstance DEF Resume, IInv, TaskInv
  <2>2. /\ writer' \in Handle /\ writer'.take = writer.take /\ writer'.started
        /\ writer'.state = "Recording" /\ writer'.thread = writer.thread
        /\ writer'.stop = writer.stop /\ writer'.outcome = writer.outcome
    BY <1>3, <2>1 DEF Resume, Resumed, Handle
  <2>3. Alive' /\ rec'.state = "Recording" /\ rec'.path = rec.path /\ shown' = "Recording"
    BY <1>3, <2>1, <2>2, HandleIsAlive DEF Resume, Alive, Instance
  <2>4. task' = Free /\ UNCHANGED <<pending, promised>>
    BY <1>3 DEF Resume
  <2>5. WriterInv'
    BY <1>2, <2>1, <2>2, <2>4 DEF WriterInv
  <2>6. FilesInv' /\ TaskInv' /\ UnsavedInv'
    BY <1>2, <2>3, <2>4 DEF IInv, FilesInv, TaskInv, UnsavedInv, Free
  <2>7. RecInv'
    BY <1>2, <2>1, <2>2, <2>3, <2>4 DEF IInv, RecInv, NoRecorder
  <2>8. DownInv'
    BY <1>2, <2>1 DEF WriterInv, DownInv
  <2> QED  BY <1>1, <2>5, <2>6, <2>7, <2>8 DEF IInv
<1>4. CASE Stop
  <2>1. /\ Alive /\ rec.state = "Recording" /\ shown = "Recording" /\ task = Free
        /\ writer \in Handle /\ writer.take \in Takes
        /\ writer.started /\ writer.stop \notin {"sent", "seen"}
    BY <1>4, AliveHasHandle DEF Stop, Handler, IInv, RecInv
  <2>2. /\ writer' = RequestStop(writer)
        /\ UNCHANGED <<rec, shown, task>>
        /\ pending' = (writer'.stop # "failed")
    BY <1>4 DEF Stop
  <2>3. Alive'
    BY <2>1, <2>2, HandleChanges, HandleIsAlive DEF Alive
  <2>4. /\ promised'[writer.take] = data[writer.take] + ring
        /\ \A t \in Takes : t # writer.take => promised'[t] = promised[t]
    BY <1>2, <1>4, <2>1 DEF Stop, TypeInv, FilesTyped
  <2>5. WriterInv'
    BY <1>2, <2>1, <2>2, <2>4, HandleChanges DEF WriterInv, TypeInv, FilesTyped
  <2>6. FilesInv' /\ TaskInv' /\ UnsavedInv' /\ DownInv'
    BY <1>2, <2>1, <2>2, <2>4 DEF IInv, FilesInv, WriterInv, TaskInv, UnsavedInv, DownInv, Free
  <2>7. RecInv'
    BY <1>2, <2>1, <2>2, <2>3, HandleChanges DEF IInv, RecInv
  <2> QED  BY <1>1, <2>5, <2>6, <2>7 DEF IInv
<1>5. CASE PollRecording
  <2>1. /\ Alive /\ rec.state = "Recording" /\ shown = "Recording" /\ task = Free
        /\ writer \in Handle /\ writer.take \in Takes /\ rec \in Instance /\ writer.started
    BY <1>5, AliveHasHandle, RecorderIsInstance DEF PollRecording, Handler, IInv, RecInv
  <2>2. /\ writer' \in Handle /\ writer'.take = writer.take /\ writer'.started
        /\ writer'.accepting = writer.accepting
        /\ writer'.state = writer.state /\ writer'.thread = writer.thread
        /\ writer'.stop = writer.stop /\ writer'.outcome = writer.outcome
    BY <1>5, <2>1 DEF PollRecording, Handle
  <2>3. Alive' /\ UNCHANGED promised
    BY <1>5, <2>2, HandleIsAlive DEF PollRecording, Alive
  <2>4. WriterInv' /\ FilesInv'
    BY <1>2, <2>1, <2>2, <2>3 DEF IInv, FilesInv, WriterInv
  <2>5. CASE Polled = "err" /\ Failed /\ UNCHANGED task
    <3>1. rec' = [rec EXCEPT !.state = "Error"] /\ shown' = "Error" /\ task' = Free
      BY <2>1, <2>5 DEF Failed
    <3>2. rec'.state = "Error" /\ rec'.path = rec.path
      BY <2>1, <3>1 DEF Instance
    <3>3. UnsavedInv' /\ TaskInv' /\ DownInv' /\ RecInv'
      BY <1>2, <2>1, <2>3, <3>1, <3>2
         DEF IInv, WriterInv, UnsavedInv, TaskInv, DownInv, RecInv, NoRecorder, Free
    <3> QED  BY <1>1, <2>4, <3>3 DEF IInv
  <2>6. CASE task' = [kind |-> "status"] /\ UNCHANGED <<rec, shown, pending>>
    <3>1. TaskInv' /\ UnsavedInv' /\ DownInv' /\ RecInv'
      BY <1>2, <2>1, <2>2, <2>3, <2>6
         DEF IInv, WriterInv, UnsavedInv, TaskInv, DownInv, RecInv, NoRecorder
    <3> QED  BY <1>1, <2>4, <3>1 DEF IInv
  <2>7. CASE /\ Polled = "ok"
             /\ rec' = [rec EXCEPT !.state = "Unsaved", !.path = writer.take]
             /\ shown' = "Unsaved" /\ pending' = FALSE
             /\ task' = task \/ FinishRecording
    <3>1. writer.outcome = "ok" /\ writer.thread = "done" /\ part[writer.take] = "final"
      <4>1. writer.outcome = "ok"
        BY <2>7 DEF Polled
      <4> QED  BY <1>2, <2>1, <4>1 DEF WriterInv
    <3>2. rec' \in Instance /\ rec'.state = "Unsaved" /\ rec'.path = writer.take
      BY <2>1, <2>7 DEF Instance, State
    <3>3. task' = Free \/ (task'.kind = "save" /\ task'.step = "copy")
      BY <2>1, <2>7 DEF FinishRecording
    <3>4. UnsavedInv'
      BY <1>2, <2>1, <2>2, <2>3, <3>1, <3>2 DEF UnsavedInv
    <3>5. TaskInv'
      BY <3>2, <3>3 DEF TaskInv, Free
    <3>6. RecInv' /\ DownInv'
      BY <1>2, <2>1, <2>3, <2>7, <3>2, InstanceIsRecorder DEF WriterInv, RecInv, DownInv
    <3> QED  BY <1>1, <2>4, <3>4, <3>5, <3>6 DEF IInv
  <2> QED  BY <1>5, <2>5, <2>6, <2>7 DEF PollRecording
<1>6. CASE DropHandle
  <2>1. /\ task.kind \in {"start", "save", "discard", "remove"} /\ task.step = "drop"
        /\ task' = [task EXCEPT !.step = "join"]
        /\ writer' = IF Alive /\ ~writer.joined THEN RequestStop(writer) ELSE writer
        /\ UNCHANGED <<rec, shown, pending, promised>>
    BY <1>6 DEF DropHandle, desk
  <2>2. rec.state # "Recording" /\ rec \in Instance
    BY <2>1, TaskHasRecorder DEF IInv, TaskInv, Removable, Free
  <2>3. /\ Alive' <=> Alive
        /\ Alive => /\ writer'.take = writer.take /\ writer'.started = writer.started
                    /\ writer'.thread = writer.thread /\ writer'.outcome = writer.outcome
                    /\ writer.stop = "seen" => writer'.stop = "seen"
                    /\ writer'.accepting => writer.accepting
                    /\ writer'.state = "Starting" => writer' = writer
    <3>1. CASE writer' = writer
      BY <3>1 DEF Alive
    <3>2. CASE Alive /\ writer' = RequestStop(writer)
      BY <3>2, AliveHasHandle, HandleChanges, HandleIsAlive DEF IInv, Alive
    <3> QED  BY <2>1, <3>1, <3>2
  <2>4. WriterInv' /\ FilesInv'
    BY <1>2, <2>1, <2>3 DEF IInv, FilesInv, WriterInv
  <2>5. UnsavedInv' /\ DownInv'
    BY <1>2, <2>1, <2>3 DEF IInv, UnsavedInv, DownInv
  <2>6. RecInv'
    BY <1>2, <2>1, <2>2, <2>3, InstanceIsRecorder DEF IInv, RecInv
  <2>7. task' \in Task /\ task'.kind = task.kind
    BY <1>2, <2>1 DEF TypeInv, Task
  <2>8. (task.kind = "save" => rec.path \in saved) /\ Old' = Old /\ (Removable' <=> Removable)
    BY <2>1, <2>3 DEF IInv, TaskInv, Old, Removable
  <2>9. TaskInv'
    BY <1>2, <2>1, <2>7, <2>8 DEF IInv, TaskInv
  <2> QED  BY <1>1, <2>4, <2>5, <2>6, <2>9 DEF IInv
<1> QED  BY <1>3, <1>4, <1>5, <1>6

--------------------------------------------------------------------------------
(* Streams that are made, made anew or given up.                           *)

Shrinks == \A t \in Takes : part[t] = "absent" => part'[t] = "absent"

\* A new writer takes a number nobody has used, and has done nothing yet.
LEMMA NewWriter ==
  ASSUME IInv, NEW t \in NewTake, NEW d \in Dirs, dir' = [dir EXCEPT ![t] = d], Shrinks, up',
         writer' = StartPaused(t) \/ writer' = Resumed(StartPaused(t)),
         ring' = 0, inside' = FALSE, UNCHANGED <<data, offered, promised>>
  PROVE  /\ FilesInv' /\ WriterInv' /\ Alive' /\ dir'[t] # None /\ t \notin offered'
         /\ writer'.stop = "none" /\ (writer' = StartPaused(t) => ~writer'.started)
         /\ writer' = Resumed(StartPaused(t)) => writer'.started
<1>1. t \in Takes /\ dir[t] = None
  BY NewTakeIsFresh
<1>2. /\ part[t] = "absent" /\ data[t] = 0 /\ promised[t] = 0 /\ t \notin offered
      /\ dir \in [Takes -> Dirs \cup {None}]
  BY <1>1 DEF IInv, FilesInv, TypeInv, FilesTyped
<1>3. d # None /\ dir'[t] = d /\ \A u \in Takes : u # t => dir'[u] = dir[u]
  BY <1>1, <1>2, RecorderConstants DEF None
<1>4. FilesInv'
  BY <1>1, <1>2, <1>3 DEF IInv, FilesInv, Shrinks, TypeInv, FilesTyped
<1>5. Alive'
  BY <1>1, NewHandle, HandleIsAlive DEF Alive
<1>6. /\ writer'.take = t /\ writer'.stop = "none" /\ writer'.thread = "starting"
      /\ writer'.outcome = "none" /\ writer'.state \in {"Starting", "Recording"}
      /\ writer'.started \/ ~writer'.accepting
      /\ writer' = StartPaused(t) => ~writer'.started
      /\ writer' = Resumed(StartPaused(t)) => writer'.started
  <2>1. CASE writer' = StartPaused(t)
    <3>1. writer'.started = FALSE
      BY <2>1 DEF StartPaused
    <3>2. writer' # Resumed(StartPaused(t))
      BY <2>1 DEF StartPaused, Resumed
    <3> QED  BY <2>1, <3>1, <3>2 DEF StartPaused
  <2>2. CASE writer' = Resumed(StartPaused(t))
    <3>1. writer'.started = TRUE
      BY <2>2 DEF StartPaused, Resumed
    <3>2. writer' # StartPaused(t)
      BY <2>2 DEF StartPaused, Resumed
    <3> QED  BY <2>2, <3>1, <3>2 DEF StartPaused, Resumed
  <2> QED  BY <2>1, <2>2
<1>7. WriterInv'
  BY <1>1, <1>2, <1>3, <1>6 DEF WriterInv
<1> QED  BY <1>2, <1>3, <1>4, <1>5, <1>6, <1>7

LEMMA GoneShrinks ==
  ASSUME TypeInv, NEW T, Gone(T)
  PROVE  Shrinks
  BY GoneFiles DEF Shrinks, TypeInv, FilesTyped

\* A handler that joins works on a recorder of a running process.
LEMMA JoiningKinds ==
  ASSUME IInv, Joining
  PROVE  /\ task.kind \in {"start", "save", "discard", "remove"}
         /\ up /\ rec \in Instance /\ TypeInv /\ rec.state # "Recording"
         /\ rec.dir \in Dirs
<1>1. "step" \in DOMAIN task /\ task \in Task
  BY DEF Joining, IInv, TypeInv
<1>2. task.kind \in {"start", "save", "discard", "remove"}
  BY <1>1 DEF Task
<1>3. rec \in Instance
  BY JoiningHasRecorder
<1>4. up
  BY <1>3, InstanceIsRecorder DEF IInv, DownInv
<1>5. rec.state # "Recording"
  BY <1>2 DEF IInv, TaskInv, Removable
<1> QED  BY <1>2, <1>3, <1>4, <1>5 DEF IInv, Instance

LEMMA StreamKeeps ==
  ASSUME IInv, CreateRecorder \/ Restarted \/ RestartFails \/ Removed
  PROVE  IInv'
<1>1. TypeInv' /\ TypeInv
  BY StreamTypes DEF IInv
<1>2. CASE CreateRecorder
  <2>1. PICK t \in NewTake :
          /\ writer' = StartPaused(t) /\ dir' = [dir EXCEPT ![t] = config_dir]
          /\ rec' = [state |-> "Idle", path |-> t, dir |-> config_dir]
    BY <1>2 DEF CreateRecorder
  <2>2. /\ ring' = 0 /\ inside' = FALSE /\ shown' = "Idle" /\ up' /\ task' = Free
        /\ UNCHANGED <<part, data, offered, promised>> /\ config_dir \in Dirs
    BY <1>1, <1>2 DEF CreateRecorder, Handler, TypeInv
  <2>3. Shrinks
    BY <2>2 DEF Shrinks
  <2>4. FilesInv' /\ WriterInv' /\ Alive' /\ ~writer'.started /\ dir'[t] # None /\ t \notin offered'
    BY <2>1, <2>2, <2>3, NewWriter
  <2>5. RecInv'
    BY <2>1, <2>4 DEF RecInv, NoRecorder
  <2>6. UnsavedInv' /\ TaskInv' /\ DownInv'
    BY <2>2 DEF UnsavedInv, TaskInv, DownInv, Free
  <2> QED  BY <1>1, <2>4, <2>5, <2>6 DEF IInv
<1>3. CASE Restarted
  <2>1. up /\ rec \in Instance /\ rec.dir \in Dirs
    BY <1>3, JoiningKinds DEF Restarted
  <2>2. PICK t \in NewTake :
          /\ writer' = IF task.kind = "start" THEN Resumed(StartPaused(t)) ELSE StartPaused(t)
          /\ dir' = [dir EXCEPT ![t] = rec.dir]
          /\ rec' = IF task.kind = "start" THEN [rec EXCEPT !.state = "Recording", !.path = t]
                    ELSE [rec EXCEPT !.state = "Idle", !.path = None]
    BY <1>3 DEF Restarted
  <2>3. /\ shown' = rec'.state /\ ring' = 0 /\ inside' = FALSE /\ task' = Free
        /\ UNCHANGED <<data, offered, up, promised>>
    BY <1>3 DEF Restarted
  <2>4. Shrinks
    BY <1>1, <1>3, GoneShrinks DEF Restarted
  <2>5. /\ FilesInv' /\ WriterInv' /\ Alive' /\ dir'[t] # None /\ t \notin offered'
        /\ writer'.stop = "none"
        /\ IF task.kind = "start" THEN writer'.started ELSE ~writer'.started
    BY <2>1, <2>2, <2>3, <2>4, NewWriter
  <2>6. /\ rec' \in Instance
        /\ IF task.kind = "start" THEN rec'.state = "Recording" /\ rec'.path = t
           ELSE rec'.state = "Idle" /\ rec'.path = None
    BY <2>1, <2>2, NewTakeIsFresh DEF Instance, State
  <2>7. None \notin Takes
    BY RecorderConstants DEF None, Takes
  <2>8. RecInv'
    BY <2>5, <2>6, <2>7, InstanceIsRecorder DEF RecInv
  <2>9. UnsavedInv' /\ TaskInv' /\ DownInv'
    BY <2>1, <2>3, <2>6 DEF UnsavedInv, TaskInv, DownInv, Free
  <2> QED  BY <1>1, <2>5, <2>8, <2>9 DEF IInv
<1>4. CASE RestartFails
  <2>1. /\ up /\ rec \in Instance
    BY <1>4, JoiningKinds DEF RestartFails
  <2>2. /\ writer' = NoWriter /\ ring' = 0 /\ inside' = FALSE /\ task' = Free
        /\ UNCHANGED <<data, dir, offered, up, promised>>
    BY <1>4 DEF RestartFails
  <2>3. Shrinks
    BY <1>1, <1>4, GoneShrinks DEF RestartFails
  <2>4. FilesInv' /\ WriterInv' /\ TaskInv' /\ DownInv' /\ ~Alive'
    BY <1>1, <2>1, <2>2, <2>3
       DEF IInv, FilesInv, WriterInv, TaskInv, DownInv, Alive, Free, Shrinks
  <2>5. None \notin Takes
    BY RecorderConstants DEF None, Takes
  <2>6. CASE task.kind = "save"
    <3>1. rec' = [rec EXCEPT !.state = "Idle", !.path = None] /\ shown' = "Idle"
      BY <1>4, <2>6 DEF RestartFails
    <3>2. rec' \in Instance /\ rec'.state = "Idle" /\ rec'.path = None
      BY <2>1, <3>1 DEF Instance, State
    <3>3. RecInv' /\ UnsavedInv'
      BY <2>4, <2>5, <3>1, <3>2, InstanceIsRecorder DEF RecInv, UnsavedInv
    <3> QED  BY <1>1, <2>4, <3>3 DEF IInv
  <2>7. CASE task.kind # "save"
    <3>1. /\ rec' = [rec EXCEPT !.state = "Error"]
          /\ Gone(IF Unused THEN {Old} ELSE {})
          /\ shown' = IF task.kind = "start" THEN "Error" ELSE shown
      BY <1>4, <2>7 DEF RestartFails
    <3>2. rec' \in Instance /\ rec'.state = "Error" /\ rec'.path = rec.path
      BY <2>1, <3>1 DEF Instance, State
    <3>3. RecInv'
      BY <2>1, <2>2, <2>4, <3>2, InstanceIsRecorder DEF IInv, RecInv
    <3>4. ASSUME shown' = "Unsaved"
          PROVE  rec'.path \in Takes /\ part'[rec'.path] = "final"
      <4>1. shown = "Unsaved" /\ UnsavedInv
        BY <3>1, <3>4 DEF IInv
      <4>2. rec.path \in Takes /\ part[rec.path] = "final" /\ ~Unused
        BY <4>1 DEF UnsavedInv, Unused
      <4> QED  BY <1>1, <3>1, <3>2, <4>2, GoneFiles DEF TypeInv, FilesTyped
    <3>5. UnsavedInv'
      BY <2>4, <3>2, <3>4 DEF UnsavedInv
    <3> QED  BY <1>1, <2>4, <3>3, <3>5 DEF IInv
  <2> QED  BY <2>6, <2>7
<1>5. CASE Removed
  <2>1. /\ writer' = NoWriter /\ ring' = 0 /\ inside' = FALSE /\ task' = Free
        /\ rec' = NoRecorder /\ shown' \in {"absent", shown}
        /\ UNCHANGED <<data, dir, offered, up, promised>>
    BY <1>5 DEF Removed
  <2>2. Shrinks
    BY <1>1, <1>5, GoneShrinks DEF Removed
  <2>3. up /\ Removable /\ None \notin Takes
    BY <1>5, JoiningKinds, RecorderConstants DEF Removed, IInv, TaskInv, None, Takes
  <2>4. shown' # "Unsaved"
    BY <2>1, <2>3 DEF IInv, UnsavedInv, Removable
  <2>5. FilesInv' /\ WriterInv' /\ TaskInv' /\ DownInv' /\ UnsavedInv'
    BY <1>1, <2>1, <2>2, <2>3, <2>4
       DEF IInv, FilesInv, WriterInv, TaskInv, DownInv, UnsavedInv, Alive, Free, Shrinks
  <2>6. RecInv'
    BY <2>1, InstanceIsRecorder DEF RecInv, Alive, NoRecorder
  <2> QED  BY <1>1, <2>5, <2>6 DEF IInv
<1> QED  BY <1>2, <1>3, <1>4, <1>5

--------------------------------------------------------------------------------
(* Exits, crashes and recovery.                                            *)

LEMMA DownKeeps ==
  ASSUME IInv, Crash \/ Exit
  PROVE  IInv'
<1>1. TypeInv' /\ TypeInv /\ FilesInv /\ WriterInv
  BY WorldTypes DEF IInv
<1>2. /\ writer' = NoWriter /\ ring' = 0 /\ inside' = FALSE /\ rec' = NoRecorder
      /\ shown' = "absent" /\ offered' = {} /\ task' = Free
      /\ UNCHANGED <<dir, promised>>
  BY DEF Crash, Exit, Down
<1>3. FilesInv'
  <2>1. CASE UNCHANGED <<part, data>>
    BY <1>1, <1>2, <2>1 DEF FilesInv
  <2>2. CASE /\ Alive /\ Writes
             /\ part' = [part EXCEPT ![writer.take] =
                           IF writer.started \/ data'[writer.take] > 0 THEN "final" ELSE "absent"]
    <3>1. dir[writer.take] # None
      BY <1>1, <2>2 DEF WriterInv
    <3>2. \A t \in Takes : t # writer.take => part'[t] = part[t] /\ data'[t] = data[t]
      BY <1>1, <2>2 DEF Writes, TypeInv, FilesTyped
    <3> QED  BY <1>1, <1>2, <3>1, <3>2 DEF FilesInv
  <2> QED  BY <2>1, <2>2 DEF Crash, Exit
<1>4. ~Alive' /\ rec' \notin Instance
  BY <1>2, InstanceIsRecorder DEF Alive
<1>5. WriterInv' /\ UnsavedInv' /\ RecInv' /\ TaskInv' /\ DownInv'
  BY <1>2, <1>4 DEF WriterInv, UnsavedInv, RecInv, TaskInv, DownInv, NoRecorder, Free
<1> QED  BY <1>1, <1>3, <1>5 DEF IInv

\* A recovered take is none the running recorder works on.
LEMMA RecoveryKeeps ==
  ASSUME IInv, SaveRecovered \/ DiscardRecovered
  PROVE  IInv'
<1>1. TypeInv' /\ TypeInv
  BY WorldTypes DEF IInv
<1>2. PICK t \in offered : offered' = offered \ {t} /\ (Gone({t}) \/ UNCHANGED part)
  BY DEF SaveRecovered, DiscardRecovered
<1>3. /\ UNCHANGED <<data, dir, stream, rec, shown, pending, task, up, promised>> /\ task = Free /\ up
  BY DEF SaveRecovered, DiscardRecovered, Handler
<1>4. /\ Shrinks
      /\ \A u \in Takes : u \notin offered => part'[u] = part[u]
  BY <1>1, <1>2, GoneShrinks, GoneFiles DEF Shrinks, TypeInv, FilesTyped
<1>5. FilesInv'
  BY <1>2, <1>3, <1>4 DEF IInv, FilesInv, Shrinks
<1>6. WriterInv'
  BY <1>2, <1>3, <1>4, AliveHasHandle DEF IInv, WriterInv, Alive, stream
<1>7. UnsavedInv'
  BY <1>3, <1>4 DEF IInv, UnsavedInv, RecInv, Alive, stream
<1>8. RecInv'
  BY <1>2, <1>3 DEF IInv, RecInv, Alive, stream
<1>9. TaskInv' /\ DownInv'
  BY <1>3 DEF TaskInv, DownInv, Free
<1> QED  BY <1>1, <1>5, <1>6, <1>7, <1>8, <1>9 DEF IInv

LEMMA StartUpKeeps ==
  ASSUME IInv, StartUp
  PROVE  IInv'
<1>1. TypeInv' /\ TypeInv /\ rec = NoRecorder /\ shown = "absent" /\ up'
  BY WorldTypes DEF IInv, DownInv, StartUp
<1>2. /\ offered' = Scanned
      /\ part' = [t \in Takes |-> IF t \in Scanned THEN "final" ELSE part[t]]
      /\ UNCHANGED <<data, dir, stream, rec, shown, pending, task, promised>>
  BY DEF StartUp
<1>3. ~Alive /\ ~Alive' /\ task = Free /\ rec \notin Instance
  BY <1>1, <1>2, InstanceIsRecorder DEF IInv, RecInv, Alive, stream
<1>4. FilesInv'
  BY <1>1, <1>2 DEF IInv, FilesInv, Scanned
<1>5. WriterInv' /\ UnsavedInv' /\ RecInv' /\ TaskInv' /\ DownInv'
  BY <1>1, <1>2, <1>3 DEF WriterInv, UnsavedInv, RecInv, TaskInv, DownInv, NoRecorder, Free
<1> QED  BY <1>1, <1>4, <1>5 DEF IInv

LEMMA StepKeeps ==
  ASSUME IInv, [Next]_vars
  PROVE  IInv'
<1>1. CASE UNCHANGED vars
  BY <1>1 DEF IInv, TypeInv, FilesTyped, FilesInv, WriterInv, UnsavedInv, RecInv, TaskInv, DownInv,
              Alive, Removable, Old, vars, files, stream, desk, counts
<1>2. CASE Next
  BY <1>2, WriterKeeps, DesktopKeeps, HandleKeeps, StreamKeeps, DownKeeps, RecoveryKeeps, StartUpKeeps
     DEF Next, Pump, Working, User, World
<1> QED  BY <1>1, <1>2

--------------------------------------------------------------------------------
(* What is promised.                                                       *)

\* The writer, the backend's record of the recorder, the desktop's copy and the
\* files agree as IInv says, whatever the threads, the user, failing calls and
\* crashes do (recorder.rs, pipewire.rs, bridge/recorder.rs).
THEOREM Invariant == Spec => []IInv
<1>1. Init => IInv
  BY InitHolds
<1>2. IInv /\ [Next]_vars => IInv'
  BY StepKeeps
<1> QED  BY <1>1, <1>2, PTL DEF Spec

\* Every handle, instance and handler is one the code can be in.
THEOREM TypeCorrect == Spec => []TypeInv
<1>1. IInv => TypeInv
  BY DEF IInv
<1> QED  BY <1>1, Invariant, PTL

\* What the desktop shows as unsaved is a finalized file: Save is never offered
\* while the `.part` header is still open (pipewire.rs:2168).
THEOREM OfferedIsFinal == Spec => []UnsavedIsFinal
<1>1. IInv => UnsavedIsFinal
  BY DEF IInv, UnsavedInv, UnsavedIsFinal
<1> QED  BY <1>1, Invariant, PTL

\* A writer that reports success has written every frame that was in its ring
\* when the Stop was requested (the drain in recorder.rs before finalize).
THEOREM StopKeepsAudio == Spec => []StopDrains
<1>1. ASSUME IInv, Alive, writer.outcome = "ok"
      PROVE  data[writer.take] >= promised[writer.take]
  <2>1. promised[writer.take] <= data[writer.take] /\ writer.take \in Takes
    BY <1>1, AliveHasHandle DEF IInv, WriterInv
  <2> QED  BY <1>1, <2>1 DEF IInv, TypeInv, FilesTyped
<1>2. IInv => StopDrains
  BY <1>1 DEF StopDrains
<1> QED  BY <1>2, Invariant, PTL

Kept(t) ==
    \/ t \in saved' \cup discarded'
    \/ Removed /\ rec.state = "Error" /\ rec.path = None

\* The file of an idle recorder holds no audio.
LEMMA IdleHoldsNothing ==
  ASSUME IInv, rec.state = "Idle", Old \in Takes
  PROVE  data[Old] = 0
<1>1. Alive
  BY RecorderConstants DEF IInv, RecInv, Old, None, Takes
<1>2. ~writer.started /\ Old = writer.take
  BY <1>1 DEF IInv, RecInv, Old
<1> QED  BY <1>1, <1>2 DEF IInv, WriterInv

\* The file a handler removes after the join.
LEMMA JoinedIsKept ==
  ASSUME IInv, Joining, NEW t \in Takes, NEW T, T = {Old} \/ T = (IF Unused THEN {Old} ELSE {}),
         t \in T, data[t] > 0, UNCHANGED <<saved, discarded>>,
         task.kind = "remove" => Removed
  PROVE  Kept(t)
<1>1. t = Old /\ ~Unused
  BY AliveHasHandle DEF Unused, Old, IInv
<1>2. rec.state # "Idle"
  BY <1>1, IdleHoldsNothing
<1>3. CASE task.kind = "save"
  <2>1. rec.state = "Unsaved" /\ rec.path \in saved
    BY <1>3 DEF IInv, TaskInv, Joining
  <2>2. Old = rec.path
    BY <2>1 DEF IInv, RecInv, UnsavedInv, Old
  <2> QED  BY <1>1, <2>1, <2>2 DEF Kept
<1>4. CASE task.kind = "discard"
  BY <1>1, <1>4 DEF IInv, TaskInv, Kept
<1>5. CASE task.kind = "start"
  BY <1>2, <1>5 DEF IInv, TaskInv
<1>6. CASE task.kind = "remove"
  <2>1. Removable /\ rec.state \in {"Unsaved", "Error"}
    BY <1>2, <1>6, JoiningKinds DEF IInv, TaskInv, Removable, Instance, State
  <2>2. rec.path = None /\ None \notin Takes
    BY <2>1, RecorderConstants DEF Removable, None, Takes
  <2>3. rec.state # "Unsaved"
    BY <2>2 DEF IInv, RecInv, UnsavedInv
  <2> QED  BY <1>6, <2>1, <2>2, <2>3 DEF Kept
<1> QED  BY <1>3, <1>4, <1>5, <1>6, JoiningKinds

LEMMA StepKeepsTakes ==
  ASSUME IInv, [Next]_vars, NEW t \in Takes, part[t] # "absent", part'[t] = "absent", data[t] > 0
  PROVE  Kept(t)
<1> USE DEF files, desk, counts
<1>1. TypeInv /\ part \in [Takes -> Part]
  BY DEF IInv, TypeInv, FilesTyped
<1>2. ~(UNCHANGED part)
  OBVIOUS
<1>3. CASE Restarted
  <2>1. PICK T \in {{Old}, IF Unused THEN {Old} ELSE {}} : Gone(T)
    BY <1>3 DEF Restarted
  <2>2. t \in T
    BY <1>1, <2>1, GoneFiles
  <2> QED  BY <1>3, <2>1, <2>2, JoinedIsKept DEF Restarted
<1>4. CASE RestartFails
  <2>1. PICK T \in {{Old}, IF Unused THEN {Old} ELSE {}} : Gone(T)
    BY <1>4 DEF RestartFails
  <2>2. t \in T
    BY <1>1, <2>1, GoneFiles
  <2> QED  BY <1>4, <2>1, <2>2, JoinedIsKept DEF RestartFails
<1>5. CASE Removed
  <2>1. PICK T \in {{Old}, IF Unused THEN {Old} ELSE {}} : Gone(T)
    BY <1>5 DEF Removed
  <2>2. t \in T
    BY <1>1, <2>1, GoneFiles
  <2> QED  BY <1>5, <2>1, <2>2, JoinedIsKept DEF Removed
<1>6. CASE Writer \/ Callback \/ StreamFails
  BY <1>1, <1>2, <1>6 DEF Writer, Callback, WriterOpens, WriterDrains, WriterSeesStop, WriterFinalizes,
     WriterReports, CallbackTests, CallbackPushes, StreamFails
<1>7. CASE Exit
  <2>1. /\ Alive /\ Writes
        /\ part' = [part EXCEPT ![writer.take] =
                      IF writer.started \/ data'[writer.take] > 0 THEN "final" ELSE "absent"]
    BY <1>2, <1>7 DEF Exit
  <2>2. t = writer.take /\ ~(data'[t] > 0)
    BY <1>1, <2>1
  <2>3. data[t] \in Nat /\ ring \in Nat /\ data'[t] = data[t] + ring
    BY <1>1, <2>1, <2>2 DEF Writes, TypeInv, FilesTyped
  <2> QED  BY <2>2, <2>3
<1>8. CASE Crash \/ StartUp
  BY <1>1, <1>2, <1>8 DEF Crash, StartUp
<1>9. CASE SaveRecovered
  <2>1. PICK u \in offered : saved' = saved \cup {u} /\ Gone({u})
    BY <1>2, <1>9 DEF SaveRecovered
  <2>2. t = u
    BY <1>1, <2>1, GoneFiles
  <2> QED  BY <2>1, <2>2 DEF Kept
<1>10. CASE DiscardRecovered
  <2>1. PICK u \in offered : discarded' = discarded \cup {u} /\ Gone({u})
    BY <1>10 DEF DiscardRecovered
  <2>2. t = u
    BY <1>1, <2>1, GoneFiles
  <2> QED  BY <2>1, <2>2 DEF Kept
<1>11. CASE \/ CreateRecorder \/ Record \/ Stop \/ Save \/ Discard \/ Remove \/ ChooseDirectory
            \/ Resume \/ SaveCopies \/ DropHandle \/ Pump \/ UNCHANGED vars
  BY <1>2, <1>11 DEF CreateRecorder, Record, Stop, Save, Discard, Remove, ChooseDirectory, Resume,
     SaveCopies, DropHandle, Pump, PollRecording, ReadStatus, RefreshInstance, vars
<1> QED
  BY <1>3, <1>4, <1>5, <1>6, <1>7, <1>8, <1>9, <1>10, <1>11 DEF Next, Working, User, World

\* A file with audio in it disappears only once it is saved or the user has
\* discarded it, whatever fails or crashes ("The temporary source is removed
\* only after a successful copy", recorder.rs:1000); excepted is the removal of
\* a failed recorder whose instance names no file (pipewire.rs:2051).
THEOREM AudioIsNotLost == Spec => TakesKept
<1>1. ASSUME IInv, [Next]_vars
      PROVE  [\A t \in Takes : part[t] # "absent" /\ part'[t] = "absent" /\ data[t] > 0
                => \/ t \in saved' \cup discarded'
                   \/ Removed /\ rec.state = "Error" /\ rec.path = None]_vars
  BY <1>1, StepKeepsTakes DEF Kept
<1> QED  BY <1>1, Invariant, PTL DEF Spec, TakesKept

================================================================================
