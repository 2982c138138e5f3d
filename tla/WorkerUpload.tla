---------------------------- MODULE WorkerUpload ----------------------------
(***************************************************************************)
(* How the files of one chunk get from the workers' disks to the object    *)
(* store and to output_frames.  Blender writes; a background thread scans  *)
(* the output directory and uploads; the handler flushes at the end.  The  *)
(* attempts at the chunk, and a container the provider starts twice, share *)
(* one key per file name: jobs/<group>/output/<file>.                      *)
(*                                                                         *)
(* Files are numbered in the order Blender writes them.  A frame may have  *)
(* several (File Output nodes write theirs before the main one), and every *)
(* one of them carries the frame number.                                   *)
(***************************************************************************)
EXTENDS Integers, Sequences, FiniteSetsExt

CONSTANTS
  Container,  \* containers (Vast, Modal), or runs of the agent (community)
  FrameOf,    \* FrameOf[k]: the frame file k belongs to
  MaxFaults   \* bound: lost calls and dying containers

File   == DOMAIN FrameOf
Frames == 1..FrameOf[Len(FrameOf)]
Job    == 1..2          \* the first attempt and its retry
Thread == {"background", "main"}
Fleet  == {"vast", "modal", "community"}

ASSUME UploadConstants ==
  /\ FrameOf \in Seq(Nat \ {0}) /\ FrameOf # << >>
  /\ \A k, m \in File : k <= m => FrameOf[k] <= FrameOf[m]
  /\ \A f \in Frames : \E k \in File : FrameOf[k] = f
  /\ MaxFaults \in Nat

VARIABLES
  fleet,      \* that renders the chunk
  status,     \* jobs.status
  first,      \* jobs.frame_start
  started,    \* jobs with a worker_started key
  ct,         \* the containers: handler, Blender and the disk
  up,         \* their uploader threads: files to PUT, files to register
  object,     \* what the store has under each file name
  rows,       \* files in output_frames
  faults

vars == <<fleet, status, first, started, ct, up, object, rows, faults>>

Idle == [batch |-> {}, sent |-> {}]
Ct0  == [pc |-> "none", job |-> 1, open |-> FALSE, blender |-> "off", at |-> 0,
         half |-> FALSE, seen |-> {}, uploaded |-> {}, bad |-> FALSE]
Ct   == [pc : {"none", "start", "check", "render", "flush", "flushed", "again", "tail",
               "tailed", "finished", "over"},
         job : Job, open : BOOLEAN, blender : {"off", "runs", "ended", "killed"},
         at : 0..Len(FrameOf), half : BOOLEAN, seen : SUBSET File,
         uploaded : SUBSET File, bad : BOOLEAN]
Up   == [batch : SUBSET File, sent : SUBSET File]

TypeOK ==
  /\ fleet \in Fleet
  /\ status \in [Job -> {"none", "active", "done", "failed"}]
  /\ first \in [Job -> Frames]
  /\ started \subseteq Job
  /\ ct \in [Container -> Ct]
  /\ up \in [Container -> [Thread -> Up]]
  /\ object \in [File -> {"none", "half", "whole"}]
  /\ rows \subseteq File
  /\ faults \in 0..MaxFaults

Init ==
  /\ fleet \in Fleet
  /\ status = <<"active", "none">> /\ first = <<1, 1>> /\ started = {}
  /\ ct = [c \in Container |-> Ct0]
  /\ up = [c \in Container |-> [t \in Thread |-> Idle]]
  /\ object = [k \in File |-> "none"] /\ rows = {} /\ faults = 0

Fault == faults < MaxFaults /\ faults' = faults + 1
Fine  == UNCHANGED faults

\* Lent machines run the agent, whose handler differs from the cloud ones'.
community == fleet = "community"

server == <<status, first, started>>
store  == <<object, rows>>

Goto(c, pc) == ct' = [ct EXCEPT ![c].pc = pc]
\* The handler returns and its directory goes: its threads can send no more
\* files, and may still register what they have sent.
DropBatches(c) ==
  up' = [up EXCEPT ![c] = [t \in Thread |-> [batch |-> {}, sent |-> @[t].sent]]]
StatusOf(c) == status[ct[c].job]
Stopped(c)   == ct[c].pc \in {"over", "finished"}
AtRest(c, t) == up[c][t] = Idle

-----------------------------------------------------------------------------
\* The frames output_frames knows of; is_complete counts distinct numbers.
FrameNumbers == {FrameOf[k] : k \in rows}
Missing      == Frames \ FrameNumbers
IsComplete(j) == \A f \in Frames : f >= first[j] => f \in FrameNumbers

\* The fleet monitor's verdicts.  Here it may fail a job at any time.
JobDone(j) ==
  /\ status[j] = "active" /\ IsComplete(j)
  /\ status' = [status EXCEPT ![j] = "done"]
  /\ UNCHANGED <<fleet, first, started, ct, up, store, faults>>

JobFails(j) ==
  /\ status[j] = "active"
  /\ status' = [status EXCEPT ![j] = "failed"]
  /\ UNCHANGED <<fleet, first, started, ct, up, store, faults>>

\* Slip: as many frames are taken for rendered as there are.
RetryCounted ==
  /\ status[1] = "failed" /\ status[2] = "none" /\ Missing # {}
  /\ status' = [status EXCEPT ![2] = "active"]
  /\ first' = [first EXCEPT ![2] = Cardinality(FrameNumbers) + 1]
  /\ UNCHANGED <<fleet, started, ct, up, store, faults>>

\* The retry renders from the first frame that is missing to the end.
Retry ==
  /\ status[1] = "failed" /\ status[2] = "none" /\ Missing # {}
  /\ status' = [status EXCEPT ![2] = "active"]
  /\ first' = [first EXCEPT ![2] = Min(Missing)]
  /\ UNCHANGED <<fleet, started, ct, up, store, faults>>

-----------------------------------------------------------------------------
\* The provider starts a container for a job.  Modal may start another, Vast
\* the same again once it has stopped.  One may find its job over when it is up.
Invoke(c, j) ==
  /\ ct[c].pc = "none" /\ status[j] = "active"
  /\ \A d \in Container :
       CASE ct[d].job # j \/ ct[d].pc = "none" -> TRUE
         [] fleet = "modal"     -> TRUE
         [] fleet = "vast"      -> Stopped(d)
         [] fleet = "community" -> FALSE
  /\ ct' = [ct EXCEPT ![c].pc = IF fleet = "modal" THEN "start" ELSE "check",
                      ![c].job = j]
  /\ UNCHANGED <<fleet, server, up, store, faults>>

\* Slip: SET without NX.
ClaimAlways(c) ==
  /\ ct[c].pc = "start"
  /\ started' = started \cup {ct[c].job}
  /\ Goto(c, "check")
  /\ UNCHANGED <<fleet, status, first, up, store, faults>>

\* try_worker_start of a Modal container: the first caller goes on, and one
\* that got no answer.
Claim(c) ==
  /\ ct[c].pc = "start"
  /\ \/ /\ started' = started \cup {ct[c].job}
        /\ Goto(c, IF ct[c].job \in started THEN "over" ELSE "check")
        /\ Fine
     \/ /\ started' \in {started, started \cup {ct[c].job}}
        /\ ct' = [ct EXCEPT ![c].pc = "check", ![c].open = TRUE]
        /\ Fault
  /\ UNCHANGED <<fleet, status, first, up, store>>

\* The range of the job starts there.
FirstFile(c) == Min({k \in File : FrameOf[k] >= first[ct[c].job]})

\* poll_cancel_status, then download and Popen into an empty directory; no
\* answer means go on.
StartRender(c) ==
  /\ ct[c].pc = "check"
  /\ \/ StatusOf(c) = "active" /\ Fine
     \/ StatusOf(c) # "active" /\ Fault
  /\ ct' = [ct EXCEPT ![c].pc = "render", ![c].blender = "runs",
                      ![c].at = FirstFile(c) - 1, ![c].half = FALSE]
  /\ UNCHANGED <<fleet, server, up, store>>

TerminalAtStart(c) ==
  /\ ct[c].pc = "check" /\ StatusOf(c) # "active"
  /\ Goto(c, "over")
  /\ UNCHANGED <<fleet, server, up, store, faults>>

-----------------------------------------------------------------------------
\* Blender creates the next file, then completes it.
Write(c) ==
  /\ ct[c].blender = "runs" /\ ct[c].at < Len(FrameOf)
  /\ IF ct[c].half
       THEN ct' = [ct EXCEPT ![c].half = FALSE, ![c].at = @ + 1,
                             ![c].seen = @ \ {ct[c].at + 1}]
       ELSE ct' = [ct EXCEPT ![c].half = TRUE]
  /\ UNCHANGED <<fleet, server, up, store, faults>>

\* Slip: Blender is not done when the last file is.
BlenderRunsOn(c) ==
  /\ ct[c].blender = "runs" /\ ct[c].at = Len(FrameOf)
  /\ ct' = [ct EXCEPT ![c].at = @ + 1]
  /\ UNCHANGED <<fleet, server, up, store, faults>>

BlenderEnds(c) ==
  /\ ct[c].blender = "runs" /\ ct[c].at = Len(FrameOf)
  /\ ct' = [ct EXCEPT ![c].blender = "ended"]
  /\ UNCHANGED <<fleet, server, up, store, faults>>

\* A crash, a watchdog's SIGKILL, the owner of the machine stopping the job.
BlenderKilled(c) ==
  /\ ct[c].blender = "runs"
  /\ ct' = [ct EXCEPT ![c].blender = "killed"]
  /\ Fault
  /\ UNCHANGED <<fleet, server, up, store>>

\* Answered 410, a cloud handler kills Blender and leaves without a flush;
\* an agent told to stop kills the container and goes on.
TerminalSignal(c) ==
  /\ ct[c].pc = "render" /\ StatusOf(c) # "active"
  /\ ct' = [ct EXCEPT ![c].pc = IF community THEN "flush" ELSE "over",
                      ![c].blender = IF @ = "runs" THEN "killed" ELSE @,
                      ![c].seen = {}]
  /\ IF community THEN UNCHANGED up ELSE DropBatches(c)
  /\ UNCHANGED <<fleet, server, store, faults>>

\* stop() waits some seconds for the thread; its batch may go on beyond.
\* No scan compares sizes any more.
StopUploader(c) ==
  /\ ct[c].pc = "render" /\ ct[c].blender \in {"ended", "killed"}
  /\ ct' = [ct EXCEPT ![c].pc = "flush", ![c].seen = {}]
  /\ UNCHANGED <<fleet, server, up, store, faults>>

-----------------------------------------------------------------------------
Whole(c)     == FirstFile(c)..ct[c].at
HalfFile(c)  == {k \in File : ct[c].half /\ k = ct[c].at + 1}
OnDisk(c)    == Whole(c) \cup HalfFile(c)
Candidates(c) == OnDisk(c) \ ct[c].uploaded
Content(c, k) == IF k \in Whole(c) THEN "whole" ELSE "half"

\* Slip: any file that exists is ready.
ReadyUngated(c) == Candidates(c)

\* The size is that of the scan before.  A file Blender is writing grows
\* from one scan to the next.
Ready(c) ==
  {k \in Candidates(c) \cap ct[c].seen : k \in Whole(c) \/ ct[c].blender # "runs"}

\* _scan_once of the background thread.  No URLs, no uploads this time.
Scan(c) ==
  /\ ct[c].pc = "render" /\ AtRest(c, "background")
  /\ Candidates(c) # {}
  /\ ct' = [ct EXCEPT ![c].seen = @ \cup Candidates(c)]
  /\ \/ up' = [up EXCEPT ![c]["background"].batch = Ready(c)] /\ Fine
     \/ Ready(c) # {} /\ UNCHANGED up /\ Fault
  /\ UNCHANGED <<fleet, server, store>>

Scanned(pc) == CASE pc = "flush" -> "flushed" [] pc = "again" -> "flushed"
                 [] pc = "tail" -> "tailed"

\* flush_final: whatever is there.
FlushFinal(c) ==
  /\ ct[c].pc \in {"flush", "again", "tail"}
  /\ \/ /\ up' = [up EXCEPT ![c]["main"].batch = Candidates(c)]
        /\ ct' = [ct EXCEPT ![c].pc = Scanned(@), ![c].bad = FALSE]
        /\ Fine
     \/ /\ Candidates(c) # {}
        /\ UNCHANGED up
        /\ ct' = [ct EXCEPT ![c].pc = Scanned(@), ![c].bad = TRUE]
        /\ Fault
  /\ UNCHANGED <<fleet, server, store>>

\* A cloud worker leaves out what its other thread has registered since.
Skipped(c) == IF community THEN {} ELSE ct[c].uploaded

\* Slip: a failed PUT is taken for done.
PutUnchecked(c, t) == \E k \in up[c][t].batch :
  /\ up' = [up EXCEPT ![c][t].batch = @ \ {k}, ![c][t].sent = @ \cup {k}]
  /\ \/ object' = [object EXCEPT ![k] = Content(c, k)] /\ Fine
     \/ UNCHANGED object /\ Fault
  /\ UNCHANGED <<fleet, server, ct, rows>>

\* One presigned PUT of the file as it is now.
Put(c, t) == \E k \in up[c][t].batch :
  /\ k \notin Skipped(c)
  /\ up' = [up EXCEPT ![c][t].batch = @ \ {k}, ![c][t].sent = @ \cup {k}]
  /\ object' = [object EXCEPT ![k] = Content(c, k)]
  /\ UNCHANGED <<fleet, server, ct, rows, faults>>

PutSkipped(c, t) ==
  /\ up[c][t].batch \cap Skipped(c) # {}
  /\ up' = [up EXCEPT ![c][t].batch = @ \ Skipped(c)]
  /\ UNCHANGED <<fleet, server, ct, store, faults>>

\* The cloud workers go on with the next file; the agent gives up the scan,
\* the files it has sent included.
PutFails(c, t) == \E k \in up[c][t].batch :
  /\ k \notin Skipped(c)
  /\ up' = [up EXCEPT ![c][t].batch = IF community THEN {} ELSE @ \ {k},
                      ![c][t].sent = IF community THEN {} ELSE @]
  /\ ct' = [ct EXCEPT ![c].bad = @ \/ t = "main"]
  /\ Fault
  /\ UNCHANGED <<fleet, server, store>>

\* Slip: the files count as uploaded whether or not the server has them.
RegisterAssumed(c, t) ==
  /\ up[c][t].batch = {} /\ up[c][t].sent # {}
  /\ up' = [up EXCEPT ![c][t] = Idle]
  /\ ct' = [ct EXCEPT ![c].uploaded = @ \cup up[c][t].sent]
  /\ \/ rows' = rows \cup up[c][t].sent /\ Fine
     \/ UNCHANGED rows /\ Fault
  /\ UNCHANGED <<fleet, server, object>>

\* register_outputs.  Without an answer to the last try the batch is not
\* marked, and is sent again by a later scan, if one comes.
Register(c, t) ==
  /\ up[c][t].batch = {} /\ up[c][t].sent # {}
  /\ up' = [up EXCEPT ![c][t] = Idle]
  /\ \/ /\ rows' = rows \cup up[c][t].sent
        /\ ct' = [ct EXCEPT ![c].uploaded = @ \cup up[c][t].sent,
                            ![c].seen = @ \ up[c][t].sent]
        /\ Fine
     \/ /\ rows' \in {rows, rows \cup up[c][t].sent}
        /\ ct' = [ct EXCEPT ![c].bad = @ \/ t = "main"]
        /\ Fault
  /\ UNCHANGED <<fleet, server, object>>

-----------------------------------------------------------------------------
\* The agent uploads once more what is left after a good render, and raises
\* if that fails; it flushes a last time whatever happened.
CatchUp(c) ==
  /\ community /\ ct[c].pc = "flushed" /\ AtRest(c, "main")
  /\ ct[c].blender = "ended" /\ ct[c].bad
  /\ Goto(c, "again")
  /\ UNCHANGED <<fleet, server, up, store, faults>>

Failed(c) ==
  \/ ct[c].blender = "killed"
  \/ ct[c].uploaded = {}
  \/ community /\ ct[c].bad

\* mark_failed (or /agent-failure) drops what concerns a job already over.
ReportFailure(c) ==
  /\ ct[c].pc = "flushed" /\ AtRest(c, "main") /\ Failed(c)
  /\ IF community THEN Goto(c, "tail") /\ UNCHANGED up
                  ELSE Goto(c, "over") /\ DropBatches(c)
  /\ \/ status' = [status EXCEPT ![ct[c].job] = IF @ = "active" THEN "failed" ELSE @]
        /\ Fine
     \/ UNCHANGED status /\ Fault
  /\ UNCHANGED <<fleet, first, started, store>>

\* The handler does not say that it is done: the monitor sees the rows.
Finish(c) ==
  /\ AtRest(c, "main")
  /\ \/ ct[c].pc = "flushed" /\ ~Failed(c) /\ community /\ Goto(c, "tail") /\ UNCHANGED up
     \/ ct[c].pc = "flushed" /\ ~Failed(c) /\ ~community /\ Goto(c, "finished") /\ DropBatches(c)
     \/ ct[c].pc = "tailed" /\ Goto(c, "over") /\ DropBatches(c)
  /\ UNCHANGED <<fleet, server, store, faults>>

\* The unit of a job that is over is destroyed, or the container dies.
ContainerDies(c) ==
  /\ ct[c].pc # "none" /\ ~Stopped(c)
  /\ \/ ~community /\ StatusOf(c) # "active" /\ Fine
     \/ Fault
  /\ ct' = [ct EXCEPT ![c].pc = "over", ![c].blender = IF @ = "runs" THEN "killed" ELSE @,
                      ![c].seen = {}]
  /\ up' = [up EXCEPT ![c] = [t \in Thread |-> Idle]]
  /\ UNCHANGED <<fleet, server, store>>

Server == Retry \/ \E j \in Job : JobDone(j) \/ JobFails(j)
Handler(c) ==
  \/ \E j \in Job : Invoke(c, j)
  \/ Claim(c) \/ StartRender(c) \/ TerminalAtStart(c) \/ TerminalSignal(c)
  \/ StopUploader(c) \/ FlushFinal(c) \/ CatchUp(c) \/ ReportFailure(c) \/ Finish(c)
Blender(c) == Write(c) \/ BlenderEnds(c) \/ BlenderKilled(c)
Uploader(c) ==
  Scan(c) \/ \E t \in Thread : Put(c, t) \/ PutSkipped(c, t) \/ PutFails(c, t) \/ Register(c, t)

Next ==
  \/ Server
  \/ \E c \in Container : Handler(c) \/ Blender(c) \/ Uploader(c) \/ ContainerDies(c)

Spec == Init /\ [][Next]_vars

-----------------------------------------------------------------------------
(* A job is rendered by one container: of two that got past the claim, one *)
(* had no answer to it (WorkerStartRepository, Modal's silent re-queue).   *)
(* Vast's handler makes no claim, and one that starts again renders again. *)
Rendered(c) == ct[c].blender # "off"
OneRenderer ==
  \A c, d \in Container :
    c # d /\ Rendered(c) /\ Rendered(d) /\ ct[c].job = ct[d].job
      => \/ ct[c].open \/ ct[d].open
         \/ fleet = "vast" /\ (Stopped(c) \/ Stopped(d))

(* No row without an object: whatever PUTs and registrations are lost, and *)
(* whichever of a container's threads or a group's attempts send them.     *)
RegisteredIsStored == \A k \in rows : object[k] # "none"

(* The store has a truncated file only when a Blender was killed while     *)
(* writing it: neither scan takes a file still being written for a         *)
(* finished one.                                                           *)
TruncatedByKill ==
  \A k \in File : object[k] = "half" =>
    \E c \in Container : ct[c].blender = "killed" /\ k \in HalfFile(c)

(* "Trust the uploader" (handler.py): if the last flush of a render that   *)
(* ended well meets no failure, every file of the range is registered,     *)
(* whatever failed before it and although the background thread may still  *)
(* be at work.                                                             *)
FlushMakesUp ==
  \A c \in Container :
    ct[c].pc = "finished" /\ ~ct[c].bad => FirstFile(c)..Len(FrameOf) \subseteq rows

(* A done job means the frames of the whole chunk are there, those that    *)
(* its retry's range leaves out included.                                  *)
DoneCoversChunk == (\E j \in Job : status[j] = "done") => Missing = {}

=============================================================================
