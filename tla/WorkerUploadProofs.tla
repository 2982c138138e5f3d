------------------------- MODULE WorkerUploadProofs -------------------------
(***************************************************************************)
(* What the upload protocol keeps for any number of containers, any files  *)
(* per frame and any number of lost calls and deaths.                      *)
(***************************************************************************)
EXTENDS WorkerUpload, WellFoundedInduction, TLAPS

(* A nonempty set of naturals has a least element, and Min chooses it.     *)
LEMMA MinIsLeast ==
  ASSUME NEW S \in SUBSET Nat, S # {}
  PROVE  Min(S) \in S /\ \A y \in S : Min(S) <= y
<1>1. PICK x \in S : \A y \in S : ~(<<y, x>> \in OpToRel(<, Nat))
  BY NatLessThanWellFounded, WFMin
<1>2. ASSUME NEW y \in S PROVE x <= y
  <2>1. <<y, x>> \in Nat \X Nat OBVIOUS
  <2>2. ~(<<y, x>> \in {ss \in Nat \X Nat : ss[1] < ss[2]})
    BY <1>1 DEF OpToRel
  <2> QED BY <2>1, <2>2
<1> QED BY <1>1, <1>2 DEF Min

LEMMA FilesAreNat ==
  /\ Len(FrameOf) \in Nat \ {0}
  /\ File = 1..Len(FrameOf)
  /\ FrameOf \in [File -> Nat \ {0}]
  /\ Frames \subseteq Nat
  BY UploadConstants DEF File, Frames

(* The range of a job has a first file.                                    *)
LEMMA FirstFileExists ==
  ASSUME TypeOK, NEW c \in Container
  PROVE  FirstFile(c) \in File
<1> DEFINE S == {k \in File : FrameOf[k] >= first[ct[c].job]}
<1>1. first[ct[c].job] \in Frames BY DEF TypeOK, Ct
<1>2. S # {} BY <1>1, UploadConstants, FilesAreNat
<1>3. S \in SUBSET Nat BY FilesAreNat
<1>4. Min(S) \in S BY <1>2, <1>3, MinIsLeast
<1> QED BY <1>4 DEF FirstFile

LEMMA CandidatesAreFiles ==
  ASSUME TypeOK, NEW c \in Container
  PROVE  Candidates(c) \in SUBSET File
<1>1. ct[c].at \in 0..Len(FrameOf) BY DEF TypeOK, Ct
<1>2. Whole(c) \subseteq File BY <1>1, FirstFileExists, FilesAreNat DEF Whole
<1>3. HalfFile(c) \subseteq File BY DEF HalfFile
<1> QED BY <1>2, <1>3 DEF Candidates, OnDisk

-----------------------------------------------------------------------------
(* Writing one record keeps the functions' types.                          *)
LEMMA CtKept ==
  ASSUME TypeOK, NEW c \in Container, NEW r \in Ct, ct' = [ct EXCEPT ![c] = r]
  PROVE  ct' \in [Container -> Ct]
  BY DEF TypeOK

LEMMA UpKept ==
  ASSUME TypeOK, NEW c \in Container, NEW t \in Thread, NEW u \in Up,
         up' = [up EXCEPT ![c][t] = u]
  PROVE  up' \in [Container -> [Thread -> Up]]
<1>1. up[c] \in [Thread -> Up] BY DEF TypeOK
<1>2. [up[c] EXCEPT ![t] = u] \in [Thread -> Up] BY <1>1
<1> QED BY <1>2 DEF TypeOK

LEMMA DropKept ==
  ASSUME TypeOK, NEW c \in Container, DropBatches(c)
  PROVE  /\ up' \in [Container -> [Thread -> Up]]
         /\ \A d \in Container, t \in Thread : up'[d][t].sent = up[d][t].sent
<1> DEFINE u == [t \in Thread |-> [batch |-> {}, sent |-> up[c][t].sent]]
<1>1. \A d \in Container, t \in Thread : up[d][t] \in Up BY DEF TypeOK
<1>2. u \in [Thread -> Up] BY <1>1 DEF Up
<1>3. up' = [up EXCEPT ![c] = u] BY DEF DropBatches
<1>4. \A t \in Thread : u[t].sent = up[c][t].sent OBVIOUS
<1> HIDE DEF u
<1> QED BY <1>2, <1>3, <1>4 DEF TypeOK

LEMMA TypeInit == Init => TypeOK
  BY FilesAreNat, UploadConstants, 1 \in Frames
     DEF Init, Ct, Up, TypeOK, Ct0, Idle, Job, Thread, Frames, Fleet

LEMMA TypeStep == TypeOK /\ [Next]_vars => TypeOK'
<1> SUFFICES ASSUME TypeOK, [Next]_vars PROVE TypeOK'
  OBVIOUS
<1> USE DEF TypeOK, Fine, Fault, server, store, Goto
<1>0. \A c \in Container : ct[c] \in Ct /\ up[c] \in [Thread -> Up]
  OBVIOUS
<1> MaxFaults \in Nat BY UploadConstants
<1>1. CASE UNCHANGED vars BY <1>1 DEF vars
<1>2. CASE Retry
  <2>1. Missing \in SUBSET Nat /\ Missing \subseteq Frames BY FilesAreNat DEF Missing
  <2>2. Min(Missing) \in Frames BY <1>2, <2>1, MinIsLeast DEF Retry
  <2> QED BY <1>2, <2>2 DEF Retry, Job
<1>3. ASSUME NEW j \in Job, JobDone(j) \/ JobFails(j) PROVE TypeOK'
  BY <1>3 DEF JobDone, JobFails
<1>4. ASSUME NEW c \in Container, NEW j \in Job, Invoke(c, j) PROVE TypeOK'
  <2> DEFINE r == [ct[c] EXCEPT !.pc = IF fleet = "modal" THEN "start" ELSE "check",
                                !.job = j]
  <2>0. ct[c] \in Ct BY <1>0
  <2>1. r \in Ct BY ONLY <2>0, j \in Job DEF Ct
  <2>2. ct' = [ct EXCEPT ![c] = r] BY <1>4 DEF Invoke
  <2> HIDE DEF r
  <2>8. ct' \in [Container -> Ct] BY <2>1, <2>2, CtKept
  <2> QED BY <1>4, <2>8 DEF Invoke
<1>5. ASSUME NEW c \in Container, Claim(c) PROVE TypeOK'
  <2>1. PICK r \in Ct : ct' = [ct EXCEPT ![c] = r]
    <3> DEFINE r1 == [ct[c] EXCEPT !.pc = IF ct[c].job \in started THEN "over" ELSE "check"]
               r2 == [ct[c] EXCEPT !.pc = "check", !.open = TRUE]
    <3>1. r1 \in Ct /\ r2 \in Ct BY ONLY <1>0, c \in Container DEF Ct
    <3>2. ct' = [ct EXCEPT ![c] = r1] \/ ct' = [ct EXCEPT ![c] = r2] BY <1>5 DEF Claim
    <3> QED BY <3>1, <3>2
  <2>2. ct[c].job \in Job BY <1>0 DEF Ct
  <2> QED BY <1>5, <2>1, <2>2 DEF Claim
<1>6. ASSUME NEW c \in Container, StartRender(c) PROVE TypeOK'
  <2> DEFINE r == [ct[c] EXCEPT !.pc = "render", !.blender = "runs",
                                !.at = FirstFile(c) - 1, !.half = FALSE]
  <2>0. FirstFile(c) - 1 \in 0..Len(FrameOf) BY FirstFileExists, FilesAreNat
  <2>1. r \in Ct BY ONLY <1>0, c \in Container, <2>0 DEF Ct
  <2>2. ct' = [ct EXCEPT ![c] = r] BY <1>6 DEF StartRender
  <2> HIDE DEF r
  <2>9. faults' \in 0..MaxFaults BY <1>6 DEF StartRender
  <2>8. ct' \in [Container -> Ct] BY <2>1, <2>2, CtKept
  <2> QED BY <1>6, <2>8, <2>9 DEF StartRender
<1>7. ASSUME NEW c \in Container, TerminalAtStart(c) PROVE TypeOK'
  <2> DEFINE r == [ct[c] EXCEPT !.pc = "over"]
  <2>1. r \in Ct BY ONLY <1>0, c \in Container DEF Ct
  <2>2. ct' = [ct EXCEPT ![c] = r] BY <1>7 DEF TerminalAtStart
  <2> HIDE DEF r
  <2> QED BY <1>7, <2>1, <2>2 DEF TerminalAtStart
<1>8. ASSUME NEW c \in Container, TerminalSignal(c) PROVE TypeOK'
  <2> DEFINE pc == IF community THEN "flush" ELSE "over"
             dead == IF ct[c].blender = "runs" THEN "killed" ELSE ct[c].blender
             r == [ct[c] EXCEPT !.pc = pc, !.blender = dead, !.seen = {}]
  <2>0. /\ ct[c] \in Ct
        /\ pc \in {"flush", "over"} /\ dead \in {"off", "runs", "ended", "killed"}
    BY <1>0 DEF Ct
  <2>1. r \in Ct
    <3> HIDE DEF pc, dead
    <3> QED BY ONLY <2>0 DEF Ct
  <2>2. ct' = [ct EXCEPT ![c] = r] BY <1>8 DEF TerminalSignal
  <2> HIDE DEF r
  <2>3. up' \in [Container -> [Thread -> Up]] BY <1>8, DropKept DEF TerminalSignal
  <2>8. ct' \in [Container -> Ct] BY <2>1, <2>2, CtKept
  <2> QED BY <1>8, <2>3, <2>8 DEF TerminalSignal
<1>9. ASSUME NEW c \in Container, StopUploader(c) PROVE TypeOK'
  <2> DEFINE r == [ct[c] EXCEPT !.pc = "flush", !.seen = {}]
  <2>1. r \in Ct BY ONLY <1>0, c \in Container DEF Ct
  <2>2. ct' = [ct EXCEPT ![c] = r] BY <1>9 DEF StopUploader
  <2> HIDE DEF r
  <2> QED BY <1>9, <2>1, <2>2 DEF StopUploader
<1>10. ASSUME NEW c \in Container, CatchUp(c) PROVE TypeOK'
  <2> DEFINE r == [ct[c] EXCEPT !.pc = "again"]
  <2>1. r \in Ct BY ONLY <1>0, c \in Container DEF Ct
  <2>2. ct' = [ct EXCEPT ![c] = r] BY <1>10 DEF CatchUp
  <2> HIDE DEF r
  <2> QED BY <1>10, <2>1, <2>2 DEF CatchUp
<1>11. ASSUME NEW c \in Container, ReportFailure(c) PROVE TypeOK'
  <2> DEFINE r == [ct[c] EXCEPT !.pc = IF community THEN "tail" ELSE "over"]
  <2>1. r \in Ct BY ONLY <1>0, c \in Container DEF Ct
  <2>2. ct' = [ct EXCEPT ![c] = r] BY <1>11 DEF ReportFailure
  <2> HIDE DEF r
  <2>3. status' \in [Job -> {"none", "active", "done", "failed"}] BY <1>11 DEF ReportFailure
  <2>4. up' \in [Container -> [Thread -> Up]] BY <1>11, DropKept DEF ReportFailure
  <2>9. faults' \in 0..MaxFaults BY <1>11 DEF ReportFailure
  <2> QED BY <1>11, <2>1, <2>2, <2>3, <2>4, <2>9 DEF ReportFailure
<1>12. ASSUME NEW c \in Container, Finish(c) PROVE TypeOK'
  <2>1. ASSUME NEW pc \in {"tail", "finished", "over"}, ct' = [ct EXCEPT ![c].pc = pc]
        PROVE  ct' \in [Container -> Ct]
    <3> DEFINE r == [ct[c] EXCEPT !.pc = pc]
    <3>1. r \in Ct BY ONLY <1>0, c \in Container DEF Ct
    <3>2. ct' = [ct EXCEPT ![c] = r] BY <2>1
    <3> HIDE DEF r
    <3> QED BY <3>1, <3>2, CtKept
  <2>2. ct' \in [Container -> Ct] BY <1>12, <2>1 DEF Finish
  <2>3. up' \in [Container -> [Thread -> Up]] BY <1>12, DropKept DEF Finish
  <2> QED BY <1>12, <2>2, <2>3 DEF Finish
<1>14. ASSUME NEW c \in Container, BlenderEnds(c) PROVE TypeOK'
  <2> DEFINE r == [ct[c] EXCEPT !.blender = "ended"]
  <2>1. r \in Ct BY ONLY <1>0, c \in Container DEF Ct
  <2>2. ct' = [ct EXCEPT ![c] = r] BY <1>14 DEF BlenderEnds
  <2> HIDE DEF r
  <2> QED BY <1>14, <2>1, <2>2 DEF BlenderEnds
<1>15. ASSUME NEW c \in Container, BlenderKilled(c) PROVE TypeOK'
  <2> DEFINE r == [ct[c] EXCEPT !.blender = "killed"]
  <2>1. r \in Ct BY ONLY <1>0, c \in Container DEF Ct
  <2>2. ct' = [ct EXCEPT ![c] = r] BY <1>15 DEF BlenderKilled
  <2> HIDE DEF r
  <2>9. faults' \in 0..MaxFaults BY <1>15 DEF BlenderKilled
  <2> QED BY <1>15, <2>1, <2>2, <2>9 DEF BlenderKilled
<1>13. ASSUME NEW c \in Container, Write(c) PROVE TypeOK'
  <2>1. PICK r \in Ct : ct' = [ct EXCEPT ![c] = r]
    <3> DEFINE r1 == [ct[c] EXCEPT !.half = FALSE, !.at = @ + 1,
                                   !.seen = @ \ {ct[c].at + 1}]
               r2 == [ct[c] EXCEPT !.half = TRUE]
    <3>0. ct[c].at + 1 \in 0..Len(FrameOf) BY <1>0, <1>13, FilesAreNat DEF Ct, Write
    <3>1. r1 \in Ct /\ r2 \in Ct BY ONLY <1>0, c \in Container, <3>0 DEF Ct
    <3>2. ct' = [ct EXCEPT ![c] = r1] \/ ct' = [ct EXCEPT ![c] = r2] BY <1>13 DEF Write
    <3> QED BY <3>1, <3>2
  <2> QED BY <1>13, <2>1 DEF Write
<1>16. ASSUME NEW c \in Container, FlushFinal(c) PROVE TypeOK'
  <2>1. Candidates(c) \in SUBSET File BY <1>0, CandidatesAreFiles
  <2>2. PICK r \in Ct : ct' = [ct EXCEPT ![c] = r]
    <3> DEFINE r1 == [ct[c] EXCEPT !.pc = Scanned(@), !.bad = FALSE]
               r2 == [ct[c] EXCEPT !.pc = Scanned(@), !.bad = TRUE]
    <3>1. Scanned(ct[c].pc) \in {"flushed", "tailed"} BY <1>16 DEF FlushFinal, Scanned
    <3>2. r1 \in Ct /\ r2 \in Ct BY ONLY <1>0, c \in Container, <3>1 DEF Ct
    <3>3. ct' = [ct EXCEPT ![c] = r1] \/ ct' = [ct EXCEPT ![c] = r2]
      BY <1>16 DEF FlushFinal
    <3> QED BY <3>2, <3>3
  <2>3. up' \in [Container -> [Thread -> Up]]
    <3> DEFINE u == [up[c]["main"] EXCEPT !.batch = Candidates(c)]
    <3>1. "main" \in Thread /\ up[c]["main"] \in Up BY <1>0 DEF Thread
    <3>2. u \in Up BY <2>1, <3>1 DEF Up
    <3>3. UNCHANGED up \/ up' = [up EXCEPT ![c]["main"] = u] BY <1>16 DEF FlushFinal
    <3> HIDE DEF u
    <3> QED BY <3>1, <3>2, <3>3, UpKept
  <2>9. faults' \in 0..MaxFaults BY <1>16 DEF FlushFinal
  <2> QED BY <1>16, <2>2, <2>3, <2>9 DEF FlushFinal
<1>17. ASSUME NEW c \in Container, Scan(c) PROVE TypeOK'
  <2>1. Candidates(c) \in SUBSET File /\ Ready(c) \in SUBSET File
    BY CandidatesAreFiles DEF Ready
  <2> DEFINE r == [ct[c] EXCEPT !.seen = @ \cup Candidates(c)]
  <2>2. r \in Ct BY ONLY <1>0, c \in Container, <2>1 DEF Ct
  <2>3. ct' = [ct EXCEPT ![c] = r] BY <1>17 DEF Scan
  <2>4. up' \in [Container -> [Thread -> Up]]
    <3> DEFINE u == [up[c]["background"] EXCEPT !.batch = Ready(c)]
    <3>1. "background" \in Thread /\ up[c]["background"] \in Up BY <1>0 DEF Thread
    <3>2. u \in Up BY <2>1, <3>1 DEF Up
    <3>3. UNCHANGED up \/ up' = [up EXCEPT ![c]["background"] = u] BY <1>17 DEF Scan
    <3> HIDE DEF u
    <3> QED BY <3>1, <3>2, <3>3, UpKept
  <2> HIDE DEF r
  <2>9. faults' \in 0..MaxFaults BY <1>17 DEF Scan
  <2> QED BY <1>17, <2>2, <2>3, <2>4, <2>9 DEF Scan
<1>18. ASSUME NEW c \in Container, NEW t \in Thread, Put(c, t) PROVE TypeOK'
  <2>1. up[c][t] \in Up /\ up[c][t].batch \in SUBSET File BY <1>0 DEF Up
  <2>2. PICK u \in Up : up' = [up EXCEPT ![c][t] = u]
    <3>1. PICK k \in up[c][t].batch :
            up' = [up EXCEPT ![c][t].batch = @ \ {k}, ![c][t].sent = @ \cup {k}]
      BY <1>18 DEF Put
    <3> DEFINE u == [up[c][t] EXCEPT !.batch = @ \ {k}, !.sent = @ \cup {k}]
    <3>2. u \in Up BY <2>1 DEF Up
    <3>3. up' = [up EXCEPT ![c][t] = u] BY <3>1
    <3> QED BY <3>2, <3>3
  <2>3. object' \in [File -> {"none", "half", "whole"}] BY <1>18, <2>1 DEF Put, Content
  <2> QED BY <1>18, <2>2, <2>3 DEF Put
<1>19. ASSUME NEW c \in Container, NEW t \in Thread, PutSkipped(c, t) PROVE TypeOK'
  <2> DEFINE u == [up[c][t] EXCEPT !.batch = @ \ Skipped(c)]
  <2>0. up[c][t] \in Up BY <1>0
  <2>1. u \in Up BY <2>0 DEF Up
  <2>2. up' = [up EXCEPT ![c][t] = u] BY <1>19 DEF PutSkipped
  <2> HIDE DEF u
  <2>3. up' \in [Container -> [Thread -> Up]] BY <2>1, <2>2, UpKept
  <2> QED BY <1>19, <2>3 DEF PutSkipped
<1>20. ASSUME NEW c \in Container, NEW t \in Thread, PutFails(c, t) PROVE TypeOK'
  <2> DEFINE r == [ct[c] EXCEPT !.bad = @ \/ t = "main"]
  <2>1. r \in Ct BY ONLY <1>0, c \in Container DEF Ct
  <2>2. ct' = [ct EXCEPT ![c] = r] BY <1>20 DEF PutFails
  <2>3. PICK u \in Up : up' = [up EXCEPT ![c][t] = u]
    <3>1. PICK k \in up[c][t].batch :
            up' = [up EXCEPT ![c][t].batch = IF community THEN {} ELSE @ \ {k},
                             ![c][t].sent = IF community THEN {} ELSE @]
      BY <1>20 DEF PutFails
    <3> DEFINE u == [up[c][t] EXCEPT !.batch = IF community THEN {} ELSE @ \ {k},
                                     !.sent = IF community THEN {} ELSE @]
    <3>2. up[c][t] \in Up BY <1>0
    <3>3. u \in Up BY <3>2 DEF Up
    <3>4. up' = [up EXCEPT ![c][t] = u] BY <3>1
    <3> QED BY <3>3, <3>4
  <2> HIDE DEF r
  <2>9. faults' \in 0..MaxFaults BY <1>20 DEF PutFails
  <2> QED BY <1>20, <2>1, <2>2, <2>3, <2>9 DEF PutFails
<1>21. ASSUME NEW c \in Container, NEW t \in Thread, Register(c, t) PROVE TypeOK'
  <2>1. up[c][t].sent \in SUBSET File BY <1>0 DEF Up
  <2>2. PICK r \in Ct : ct' = [ct EXCEPT ![c] = r]
    <3> DEFINE r1 == [ct[c] EXCEPT !.uploaded = @ \cup up[c][t].sent,
                                   !.seen = @ \ up[c][t].sent]
               r2 == [ct[c] EXCEPT !.bad = @ \/ t = "main"]
    <3>1. r1 \in Ct /\ r2 \in Ct BY ONLY <1>0, c \in Container, <2>1 DEF Ct
    <3>2. ct' = [ct EXCEPT ![c] = r1] \/ ct' = [ct EXCEPT ![c] = r2] BY <1>21 DEF Register
    <3> QED BY <3>1, <3>2
  <2>3. Idle \in Up BY DEF Up, Idle
  <2> QED BY <1>21, <2>1, <2>2, <2>3 DEF Register
<1>22. ASSUME NEW c \in Container, ContainerDies(c) PROVE TypeOK'
  <2> DEFINE dead == IF ct[c].blender = "runs" THEN "killed" ELSE ct[c].blender
             r == [ct[c] EXCEPT !.pc = "over", !.blender = dead, !.seen = {}]
  <2>0. ct[c] \in Ct /\ dead \in {"off", "runs", "ended", "killed"} BY <1>0 DEF Ct
  <2>1. r \in Ct
    <3> HIDE DEF dead
    <3> QED BY ONLY <2>0 DEF Ct
  <2>2. ct' = [ct EXCEPT ![c] = r] BY <1>22 DEF ContainerDies
  <2>3. [t \in Thread |-> Idle] \in [Thread -> Up] BY DEF Up, Idle
  <2>4. up' = [up EXCEPT ![c] = [t \in Thread |-> Idle]] BY <1>22 DEF ContainerDies
  <2>5. up' \in [Container -> [Thread -> Up]] BY <2>3, <2>4
  <2> HIDE DEF r
  <2>8. ct' \in [Container -> Ct] BY <2>1, <2>2, CtKept
  <2>9. faults' \in 0..MaxFaults BY <1>22 DEF ContainerDies
  <2> QED BY <1>22, <2>5, <2>8, <2>9 DEF ContainerDies
<1> QED
  BY <1>1, <1>2, <1>3, <1>4, <1>5, <1>6, <1>7, <1>8, <1>9, <1>10, <1>11, <1>12, <1>13,
     <1>14, <1>15, <1>16, <1>17, <1>18, <1>19, <1>20, <1>21, <1>22
     DEF Next, Server, Handler, Blender, Uploader

(* Every variable has its type.                                            *)
THEOREM UploadTypes == Spec => []TypeOK
<1> QED BY TypeInit, TypeStep, PTL DEF Spec

-----------------------------------------------------------------------------
(* What a thread is about to register is stored, like what is registered.  *)
StoredInv ==
  /\ \A k \in rows : object[k] # "none"
  /\ \A c \in Container, t \in Thread : \A k \in up[c][t].sent : object[k] # "none"

(* All steps but a PUT and a registration leave the store alone and send   *)
(* nothing.                                                                *)
SendsNothing ==
  /\ UNCHANGED store
  /\ \A c \in Container, t \in Thread : up'[c][t].sent \subseteq up[c][t].sent

LEMMA OthersSendNothing ==
  ASSUME TypeOK, [Next]_vars,
         ~ \E c \in Container, t \in Thread : Put(c, t) \/ Register(c, t)
  PROVE  SendsNothing
<1> USE DEF SendsNothing, server, store
<1>0. \A c \in Container, t \in Thread : up[c][t] \in Up /\ up[c] \in [Thread -> Up]
  BY DEF TypeOK
<1>1. CASE UNCHANGED vars BY <1>1 DEF vars
<1>2. CASE Server BY <1>2 DEF Server, Retry, JobDone, JobFails
<1>3. ASSUME NEW c \in Container, Handler(c), ~FlushFinal(c) PROVE SendsNothing
  <2>1. CASE DropBatches(c)
    BY <1>3, <2>1, DropKept
       DEF Handler, Invoke, Claim, StartRender, TerminalAtStart, TerminalSignal,
           StopUploader, CatchUp, ReportFailure, Finish
  <2>2. CASE UNCHANGED up
    BY <1>3, <2>2
       DEF Handler, Invoke, Claim, StartRender, TerminalAtStart, TerminalSignal,
           StopUploader, CatchUp, ReportFailure, Finish
  <2> QED BY <1>3, <2>1, <2>2
          DEF Handler, Invoke, Claim, StartRender, TerminalAtStart, TerminalSignal,
              StopUploader, CatchUp, ReportFailure, Finish
<1>4. ASSUME NEW c \in Container, FlushFinal(c) PROVE SendsNothing
  <2>1. CASE UNCHANGED up BY <1>4, <2>1 DEF FlushFinal
  <2>2. CASE up' = [up EXCEPT ![c]["main"].batch = Candidates(c)]
    BY <1>0, <1>4, <2>2 DEF FlushFinal, TypeOK, Up
  <2> QED BY <1>4, <2>1, <2>2 DEF FlushFinal
<1>5. ASSUME NEW c \in Container, Blender(c) PROVE SendsNothing
  BY <1>5 DEF Blender, Write, BlenderEnds, BlenderKilled
<1>6. ASSUME NEW c \in Container, Scan(c) PROVE SendsNothing
  BY <1>0, <1>6 DEF Scan, TypeOK, Thread, Up
<1>7. ASSUME NEW c \in Container, NEW t \in Thread, PutSkipped(c, t) PROVE SendsNothing
  BY <1>0, <1>7 DEF PutSkipped, TypeOK, Up
<1>8. ASSUME NEW c \in Container, NEW t \in Thread, PutFails(c, t) PROVE SendsNothing
  <2>1. CASE community
    BY <1>0, <1>8, <2>1 DEF PutFails, TypeOK, Up, Idle
  <2>2. CASE ~community
    BY <1>0, <1>8, <2>2 DEF PutFails, TypeOK, Up
  <2> QED BY <2>1, <2>2
<1>9. ASSUME NEW c \in Container, ContainerDies(c) PROVE SendsNothing
  BY <1>0, <1>9 DEF ContainerDies, TypeOK, Idle
<1> QED
  BY <1>1, <1>2, <1>3, <1>4, <1>5, <1>6, <1>7, <1>8, <1>9 DEF Next, Uploader

LEMMA StoredStep ==
  ASSUME TypeOK, StoredInv, [Next]_vars
  PROVE  StoredInv'
<1>0. \A c \in Container, t \in Thread : up[c][t] \in Up
  BY DEF TypeOK
<1>1. ASSUME NEW c \in Container, NEW t \in Thread, Put(c, t) PROVE StoredInv'
  <2>1. PICK k \in up[c][t].batch :
          /\ up' = [up EXCEPT ![c][t].batch = @ \ {k}, ![c][t].sent = @ \cup {k}]
          /\ object' = [object EXCEPT ![k] = Content(c, k)]
          /\ rows' = rows
    BY <1>1 DEF Put
  <2>2. k \in File BY <1>0 DEF Up
  <2>3. object'[k] # "none" /\ \A m \in File \ {k} : object'[m] = object[m]
    BY <2>1, <2>2 DEF TypeOK, Content
  <2>4. \A d \in Container, s \in Thread : up'[d][s].sent \subseteq up[d][s].sent \cup {k}
    BY <2>1 DEF TypeOK, Up
  <2>5. \A d \in Container, s \in Thread : up[d][s].sent \subseteq File
    BY <1>0 DEF Up
  <2> QED BY <2>1, <2>3, <2>4, <2>5 DEF StoredInv, TypeOK
<1>2. ASSUME NEW c \in Container, NEW t \in Thread, Register(c, t) PROVE StoredInv'
  <2>1. rows' \subseteq rows \cup up[c][t].sent /\ object' = object
    BY <1>2 DEF Register
  <2>2. \A d \in Container, s \in Thread : up'[d][s].sent \subseteq up[d][s].sent
    BY <1>2 DEF Register, TypeOK, Up, Idle
  <2> QED BY <2>1, <2>2 DEF StoredInv
<1>3. CASE SendsNothing
  BY <1>3 DEF SendsNothing, StoredInv, store
<1> QED BY <1>1, <1>2, <1>3, OthersSendNothing

(* No row without an object, whichever calls are lost.                     *)
THEOREM NothingUnstored == Spec => []RegisteredIsStored
<1>1. Init => StoredInv BY DEF Init, StoredInv, Idle, Thread
<1>2. StoredInv => RegisteredIsStored BY DEF StoredInv, RegisteredIsStored
<1>3. TypeOK /\ StoredInv /\ [Next]_vars => StoredInv' BY StoredStep
<1> QED BY <1>1, <1>2, <1>3, TypeInit, TypeStep, PTL DEF Spec

-----------------------------------------------------------------------------
(* What comes before a job's range is there, and so is the whole chunk of  *)
(* a done job.                                                             *)
RangeInv ==
  /\ first[1] = 1
  /\ status[2] # "none" => \A f \in Frames : f < first[2] => f \in FrameNumbers
  /\ \A j \in Job : status[j] = "done" => Missing = {}

\* Rows stay; ranges and verdicts are the server's.
Reports ==
  /\ rows \subseteq rows' /\ first' = first
  /\ \A j \in Job :
       status'[j] = status[j] \/ (status[j] = "active" /\ status'[j] = "failed")

LEMMA OthersReport ==
  ASSUME TypeOK, [Next]_vars, ~Server
  PROVE  Reports
<1> USE DEF Reports, server, store
<1>1. CASE UNCHANGED vars BY <1>1 DEF vars
<1>2. ASSUME NEW c \in Container, Handler(c), ~ReportFailure(c) PROVE Reports
  BY <1>2 DEF Handler, Invoke, Claim, StartRender, TerminalAtStart, TerminalSignal,
              StopUploader, CatchUp, FlushFinal, Finish
<1>3. ASSUME NEW c \in Container, ReportFailure(c) PROVE Reports
  BY <1>3 DEF ReportFailure, TypeOK
<1>4. ASSUME NEW c \in Container, Blender(c) PROVE Reports
  BY <1>4 DEF Blender, Write, BlenderEnds, BlenderKilled
<1>5. ASSUME NEW c \in Container, Scan(c) \/ ContainerDies(c) PROVE Reports
  BY <1>5 DEF Scan, ContainerDies
<1>6. ASSUME NEW c \in Container, NEW t \in Thread,
             Put(c, t) \/ PutSkipped(c, t) \/ PutFails(c, t) \/ Register(c, t)
      PROVE  Reports
  BY <1>6 DEF Put, PutSkipped, PutFails, Register
<1> QED BY <1>1, <1>2, <1>3, <1>4, <1>5, <1>6 DEF Next, Uploader

LEMMA RangeStep ==
  ASSUME TypeOK, RangeInv, [Next]_vars
  PROVE  RangeInv'
<1> USE DEF Job
<1>0. Frames \subseteq Nat /\ Missing \in SUBSET Nat
  BY FilesAreNat DEF Missing
<1>1. CASE Retry
  <2>1. Min(Missing) \in Missing /\ \A f \in Missing : Min(Missing) <= f
    BY <1>0, <1>1, MinIsLeast DEF Retry
  <2>2. \A f \in Frames : f < Min(Missing) => f \in FrameNumbers
    BY <1>0, <2>1 DEF Missing
  <2>3. first'[1] = 1 /\ first'[2] = Min(Missing) /\ rows' = rows
    BY <1>1 DEF Retry, RangeInv, TypeOK, store
  <2>4. status'[1] = status[1] /\ status'[2] # "done"
    BY <1>1 DEF Retry, TypeOK
  <2>5. FrameNumbers' = FrameNumbers /\ Missing' = Missing
    BY <2>3 DEF FrameNumbers, Missing
  <2> QED BY <2>2, <2>3, <2>4, <2>5 DEF RangeInv
<1>2. ASSUME NEW j \in Job, JobDone(j) PROVE RangeInv'
  <2>1. FrameNumbers' = FrameNumbers /\ Missing' = Missing /\ first' = first
    BY <1>2 DEF JobDone, store, FrameNumbers, Missing
  <2>2. \A f \in Frames : f < first[j] => f \in FrameNumbers
    BY <1>0, <1>2 DEF RangeInv, JobDone, Frames
  <2>3. first[j] \in Nat BY <1>0 DEF TypeOK
  <2>4. Missing = {} BY <1>0, <1>2, <2>2, <2>3 DEF JobDone, IsComplete, Missing
  <2>5. status[2] = "none" => status'[2] = "none" BY <1>2 DEF JobDone, TypeOK
  <2> QED BY <2>1, <2>4, <2>5 DEF RangeInv
<1>3. ASSUME NEW j \in Job, JobFails(j) PROVE RangeInv'
  <2>1. FrameNumbers' = FrameNumbers /\ Missing' = Missing /\ first' = first
    BY <1>3 DEF JobFails, store, FrameNumbers, Missing
  <2>2. \A i \in Job : status'[i] = status[i] \/ (status[i] = "active" /\ status'[i] = "failed")
    BY <1>3 DEF JobFails, TypeOK
  <2> QED BY <2>1, <2>2 DEF RangeInv
<1>4. CASE Reports
  <2>1. FrameNumbers \subseteq FrameNumbers' BY <1>4 DEF Reports, FrameNumbers
  <2>2. Missing = {} => Missing' = {} BY <2>1 DEF Missing
  <2> QED BY <1>4, <2>1, <2>2 DEF RangeInv, Reports
<1> QED BY <1>1, <1>2, <1>3, <1>4, OthersReport DEF Server

(* A done job means that the frames of the whole chunk are there.          *)
THEOREM ChunkCovered == Spec => []DoneCoversChunk
<1>1. Init => RangeInv BY DEF Init, RangeInv, Job
<1>2. RangeInv => DoneCoversChunk BY DEF RangeInv, DoneCoversChunk
<1>3. TypeOK /\ RangeInv /\ [Next]_vars => RangeInv' BY RangeStep
<1> QED BY <1>1, <1>2, <1>3, TypeInit, TypeStep, PTL DEF Spec

-----------------------------------------------------------------------------
(* A Modal container past a claim that was answered has its job's key set, *)
(* and is the only such one; of two Vast containers one has stopped; lent  *)
(* machines run a job once.                                                *)
Past(c)   == ct[c].pc = "check" \/ Rendered(c)
Begun(c)  == ct[c].pc # "none"
Alone(c, d) ==
  CASE fleet = "community" -> ~Begun(c) \/ ~Begun(d)
    [] fleet = "vast"      -> ~Begun(c) \/ ~Begun(d) \/ Stopped(c) \/ Stopped(d)
    [] fleet = "modal"     -> ~Past(c) \/ ~Past(d) \/ ct[c].open \/ ct[d].open

ClaimInv ==
  /\ \A c \in Container : ct[c].pc \in {"none", "start"} => ~Rendered(c)
  /\ \A c \in Container : fleet = "modal" /\ Past(c) => ct[c].open \/ ct[c].job \in started
  /\ \A c, d \in Container : c # d /\ ct[c].job = ct[d].job => Alone(c, d)

\* A step of a container that has begun, and is not at its claim.
GoesOn ==
  /\ started' = started /\ fleet' = fleet
  /\ \A c \in Container :
       /\ ct'[c].job = ct[c].job /\ ct'[c].open = ct[c].open
       /\ Begun(c)' = Begun(c) /\ (Past(c)' => Past(c)) /\ (Stopped(c) => Stopped(c)')
       /\ ct'[c].pc \in {"none", "start"} => ~Rendered(c)'

\* What such a step does to its own container.
Moves(c) ==
  /\ started' = started /\ fleet' = fleet
  /\ \A d \in Container \ {c} : ct'[d] = ct[d]
  /\ ct'[c].job = ct[c].job /\ ct'[c].open = ct[c].open
  /\ \/ ct'[c].pc = ct[c].pc /\ ct'[c].blender = ct[c].blender
     \/ /\ {ct[c].pc, ct'[c].pc} \cap {"none", "start"} = {}
        /\ (Past(c)' => Past(c)) /\ (Stopped(c) => Stopped(c)')

LEMMA MovesGoOn ==
  ASSUME ClaimInv, NEW c \in Container, Moves(c)
  PROVE  GoesOn
<1>1. \A d \in Container : ct[d].pc \in {"none", "start"} => ~Rendered(d)
  BY DEF ClaimInv
<1> QED BY <1>1 DEF GoesOn, Moves, Begun, Past, Rendered, Stopped

LEMMA OthersGoOn ==
  ASSUME TypeOK, ClaimInv, [Next]_vars,
         ~ \E c \in Container : Claim(c) \/ \E j \in Job : Invoke(c, j)
  PROVE  GoesOn
<1>0. /\ \A c \in Container : ct[c] \in Ct
      /\ \A c \in Container : ct[c].pc \in {"none", "start"} => ct[c].blender = "off"
      /\ ct \in [Container -> Ct]
  BY DEF TypeOK, ClaimInv, Rendered
<1>1. ASSUME UNCHANGED <<started, fleet, ct>> PROVE GoesOn
  BY <1>0, <1>1 DEF GoesOn, Begun, Past, Rendered, Stopped
<1>2. CASE Server \/ UNCHANGED vars
  BY <1>1, <1>2 DEF Server, Retry, JobDone, JobFails, vars
<1>3. ASSUME NEW c \in Container, StartRender(c) PROVE Moves(c)
  BY <1>0, <1>3 DEF StartRender, Moves, Past, Rendered, Stopped, server, Ct
<1>4. ASSUME NEW c \in Container, TerminalAtStart(c) PROVE Moves(c)
  BY <1>0, <1>4 DEF TerminalAtStart, Goto, Moves, Past, Rendered, Stopped, server, Ct
<1>5. ASSUME NEW c \in Container, TerminalSignal(c) PROVE Moves(c)
  BY <1>0, <1>5 DEF TerminalSignal, Moves, Past, Rendered, Stopped, server, Ct
<1>6. ASSUME NEW c \in Container, StopUploader(c) PROVE Moves(c)
  BY <1>0, <1>6 DEF StopUploader, Moves, Past, Rendered, Stopped, server, Ct
<1>7. ASSUME NEW c \in Container, FlushFinal(c) PROVE Moves(c)
  BY <1>0, <1>7 DEF FlushFinal, Scanned, Moves, Past, Rendered, Stopped, server, Ct
<1>8. ASSUME NEW c \in Container, CatchUp(c) PROVE Moves(c)
  BY <1>0, <1>8 DEF CatchUp, Goto, Moves, Past, Rendered, Stopped, server, Ct
<1>9. ASSUME NEW c \in Container, ReportFailure(c) PROVE Moves(c)
  BY <1>0, <1>9 DEF ReportFailure, Goto, Moves, Past, Rendered, Stopped, server, Ct
<1>10. ASSUME NEW c \in Container, Finish(c) PROVE Moves(c)
  BY <1>0, <1>10 DEF Finish, Goto, Moves, Past, Rendered, Stopped, server, Ct
<1>11. ASSUME NEW c \in Container, Write(c) PROVE Moves(c)
  BY <1>0, <1>11 DEF Write, Moves, Past, Rendered, Stopped, server, Ct
<1>12. ASSUME NEW c \in Container, BlenderEnds(c) PROVE Moves(c)
  BY <1>0, <1>12 DEF BlenderEnds, Moves, Past, Rendered, Stopped, server, Ct
<1>13. ASSUME NEW c \in Container, BlenderKilled(c) PROVE Moves(c)
  BY <1>0, <1>13 DEF BlenderKilled, Moves, Past, Rendered, Stopped, server, Ct
<1>14. ASSUME NEW c \in Container, Scan(c) PROVE Moves(c)
  BY <1>0, <1>14 DEF Scan, Moves, Past, Rendered, Stopped, server, Ct
<1>15. ASSUME NEW c \in Container, ContainerDies(c) PROVE Moves(c)
  BY <1>0, <1>15 DEF ContainerDies, Moves, Past, Rendered, Stopped, server, Ct
<1>16. ASSUME NEW c \in Container, NEW t \in Thread, PutFails(c, t) PROVE Moves(c)
  BY <1>0, <1>16 DEF PutFails, Moves, Past, Rendered, Stopped, server, Ct
<1>17. ASSUME NEW c \in Container, NEW t \in Thread, Register(c, t) PROVE Moves(c)
  BY <1>0, <1>17 DEF Register, Moves, Past, Rendered, Stopped, server, Ct
<1>18. ASSUME NEW c \in Container, NEW t \in Thread, Put(c, t) \/ PutSkipped(c, t)
      PROVE  GoesOn
  BY <1>1, <1>18 DEF Put, PutSkipped, server
<1> QED
  BY <1>2, <1>3, <1>4, <1>5, <1>6, <1>7, <1>8, <1>9, <1>10, <1>11,
     <1>12, <1>13, <1>14, <1>15, <1>16, <1>17, <1>18,
     MovesGoOn DEF Next, Handler, Blender, Uploader

LEMMA ClaimStep ==
  ASSUME TypeOK, ClaimInv, [Next]_vars
  PROVE  ClaimInv'
<1>0. \A c \in Container : ct[c] \in Ct BY DEF TypeOK
<1>1. ASSUME NEW c \in Container, NEW j \in Job, Invoke(c, j) PROVE ClaimInv'
  <2>1. /\ ct'[c].pc = (IF fleet = "modal" THEN "start" ELSE "check") /\ ct'[c].job = j
        /\ ct'[c].blender = ct[c].blender /\ ct'[c].open = ct[c].open
        /\ \A d \in Container \ {c} : ct'[d] = ct[d]
    BY <1>0, <1>1 DEF Invoke, TypeOK, Ct
  <2>2. ct[c].pc = "none" /\ ~Rendered(c) /\ started' = started /\ fleet' = fleet
    BY <1>1 DEF Invoke, ClaimInv, server
  <2>3. \A d \in Container : Begun(d) /\ ct[d].job = j =>
          fleet # "community" /\ (fleet = "vast" => Stopped(d))
    BY <1>1 DEF Invoke, Begun
  <2>4. \A d \in Container \ {c} :
          /\ Begun(d)' = Begun(d) /\ Past(d)' = Past(d) /\ Stopped(d)' = Stopped(d)
          /\ ct'[d].open = ct[d].open /\ ct'[d].job = ct[d].job
    BY <2>1 DEF Begun, Past, Stopped, Rendered
  <2>5. ~Rendered(c)' /\ (fleet = "modal" => ~Past(c)')
    BY <2>1, <2>2 DEF Past, Rendered
  <2>6. \A d \in Container \ {c} : ct'[c].job = ct'[d].job => Alone(c, d)' /\ Alone(d, c)'
    BY <2>1, <2>2, <2>3, <2>4, <2>5 DEF Alone, TypeOK, Fleet
  <2>7. \A d, e \in Container \ {c} : d # e /\ ct'[d].job = ct'[e].job => Alone(d, e)'
    BY <2>2, <2>4 DEF ClaimInv, Alone, TypeOK, Fleet
  <2>8. \A d \in Container : ct'[d].pc \in {"none", "start"} => ~Rendered(d)'
    BY <2>1, <2>5 DEF ClaimInv, Rendered
  <2>9. \A d \in Container : fleet' = "modal" /\ Past(d)' => ct'[d].open \/ ct'[d].job \in started'
    BY <2>2, <2>4, <2>5 DEF ClaimInv
  <2> QED BY <2>6, <2>7, <2>8, <2>9 DEF ClaimInv
<1>2. ASSUME NEW c \in Container, Claim(c) PROVE ClaimInv'
  <2>1. /\ ct'[c].job = ct[c].job /\ ct'[c].blender = ct[c].blender
        /\ ct'[c].pc \in {"check", "over"}
        /\ \A d \in Container \ {c} : ct'[d] = ct[d]
    BY <1>0, <1>2 DEF Claim, Goto, TypeOK, Ct
  <2>2. ct[c].pc = "start" /\ ~Rendered(c) /\ fleet' = fleet /\ started \subseteq started'
    BY <1>2 DEF Claim, ClaimInv
  <2>3. /\ ct[c].open => ct'[c].open
        /\ ct'[c].pc = "check" /\ ~ct'[c].open
             => ct[c].job \notin started /\ ct[c].job \in started'
    <3>1. CASE ct' = [ct EXCEPT ![c].pc = "check", ![c].open = TRUE]
      BY <1>0, <3>1 DEF TypeOK, Ct
    <3>2. CASE /\ started' = started \cup {ct[c].job}
               /\ Goto(c, IF ct[c].job \in started THEN "over" ELSE "check")
      BY <1>0, <3>2 DEF Goto, TypeOK, Ct
    <3> QED BY <1>2, <3>1, <3>2 DEF Claim
  <2>4. \A d \in Container \ {c} :
          /\ Begun(d)' = Begun(d) /\ Past(d)' = Past(d) /\ Stopped(d)' = Stopped(d)
          /\ ct'[d].open = ct[d].open /\ ct'[d].job = ct[d].job
    BY <2>1 DEF Begun, Past, Stopped, Rendered
  <2>5. /\ Begun(c) /\ Begun(c)' /\ ~Past(c) /\ ~Stopped(c) /\ ~Rendered(c)'
        /\ Past(c)' => ct'[c].pc = "check"
    BY <2>1, <2>2 DEF Past, Begun, Rendered, Stopped
  <2>6. ASSUME NEW d \in Container, fleet' = "modal", Past(d)'
        PROVE  ct'[d].open \/ ct'[d].job \in started'
    <3>1. CASE d = c BY <2>1, <2>3, <2>5, <2>6, <3>1
    <3>2. CASE d # c BY <2>2, <2>4, <2>6, <3>2 DEF ClaimInv
    <3> QED BY <3>1, <3>2
  <2>7. ASSUME NEW d \in Container \ {c}, ct'[c].job = ct'[d].job
        PROVE  Alone(c, d)' /\ Alone(d, c)'
    <3>1. Alone(c, d) /\ Alone(d, c) BY <2>1, <2>4, <2>7 DEF ClaimInv
    <3>2. CASE fleet = "modal"
      <4>1. Past(d) => ct[d].open \/ ct[d].job \in started BY <3>2 DEF ClaimInv
      <4> QED BY <2>1, <2>2, <2>3, <2>4, <2>5, <2>7, <3>2, <4>1 DEF Alone
    <3>3. CASE fleet # "modal"
      BY <2>2, <2>4, <2>5, <3>1, <3>3 DEF Alone, TypeOK, Fleet
    <3> QED BY <3>2, <3>3
  <2>8. \A d, e \in Container \ {c} : d # e /\ ct'[d].job = ct'[e].job => Alone(d, e)'
    BY <2>2, <2>4 DEF ClaimInv, Alone, TypeOK, Fleet
  <2>9. \A d \in Container : ct'[d].pc \in {"none", "start"} => ~Rendered(d)'
    BY <2>1, <2>5 DEF ClaimInv, Rendered
  <2> QED BY <2>6, <2>7, <2>8, <2>9 DEF ClaimInv
<1>3. CASE GoesOn
  <2>1. \A c, d \in Container : Alone(c, d) => Alone(c, d)'
    BY <1>3 DEF GoesOn, Alone, TypeOK, Fleet
  <2> QED BY <1>3, <2>1 DEF GoesOn, ClaimInv
<1> QED BY <1>1, <1>2, <1>3, OthersGoOn

(* Of two containers that render one job, one had no answer to its claim,  *)
(* or both are one Vast unit that has started again.                       *)
THEOREM SoleRenderer == Spec => []OneRenderer
<1>1. ASSUME Init PROVE ClaimInv
  <2>1. \A c \in Container : ~Begun(c) /\ ~Past(c) /\ ~Rendered(c)
    BY <1>1 DEF Init, Ct0, Rendered, Past, Begun
  <2> QED BY <1>1, <2>1 DEF Init, ClaimInv, Alone, Fleet
<1>2. TypeOK /\ ClaimInv => OneRenderer
  BY DEF ClaimInv, OneRenderer, Past, Begun, Rendered, Alone, TypeOK, Fleet
<1>3. TypeOK /\ ClaimInv /\ [Next]_vars => ClaimInv' BY ClaimStep
<1> QED BY <1>1, <1>2, <1>3, TypeInit, TypeStep, PTL DEF Spec
-----------------------------------------------------------------------------
(* Where a container stands: Blender runs only while its handler renders,  *)
(* the disk of one that ended is complete, and no file has been taken from *)
(* a disk that Blender has not written to.                                 *)
OnStage(c) ==
  /\ ct[c].pc \in {"none", "start", "check"} => ct[c].blender = "off"
  /\ ct[c].blender = "off" => ct[c].pc \in {"none", "start", "check", "over"}
  /\ ct[c].blender = "runs" => ct[c].pc = "render"
  /\ ct[c].half => ct[c].at < Len(FrameOf)
  /\ ct[c].blender = "ended" => ct[c].at = Len(FrameOf)

StageFit == \A c \in Container : OnStage(c)

\* A step of the container: its disk only grows, and not after a kill.
Turn(c) ==
  /\ \A d \in Container \ {c} : ct'[d] = ct[d]
  /\ ct[c].pc # "none" => ct'[c].job = ct[c].job /\ ct'[c].pc # "none"
  /\ ct[c].pc = "none" /\ ct'[c].pc # "none" =>
       ct'[c].job \in Job /\ status[ct'[c].job] = "active"
  /\ ct[c].blender # "off" => ct'[c].blender # "off" /\ ct[c].at <= ct'[c].at
  /\ ct[c].blender = "killed" =>
       ct'[c].blender = "killed" /\ ct'[c].at = ct[c].at /\ ct'[c].half = ct[c].half
  /\ OnStage(c)'

DiskGrows == \A c \in Container :
  /\ ct[c].pc # "none" => ct'[c].job = ct[c].job /\ ct'[c].pc # "none"
  /\ ct[c].pc = "none" /\ ct'[c].pc # "none" =>
       ct'[c].job \in Job /\ status[ct'[c].job] = "active"
  /\ ct[c].blender # "off" => ct'[c].blender # "off" /\ ct[c].at <= ct'[c].at
  /\ ct[c].blender = "killed" =>
       ct'[c].blender = "killed" /\ ct'[c].at = ct[c].at /\ ct'[c].half = ct[c].half

LEMMA StageStep ==
  ASSUME TypeOK, StageFit, [Next]_vars
  PROVE  StageFit' /\ DiskGrows
<1> DEFINE Goal == StageFit' /\ DiskGrows
<1>0. /\ \A c \in Container : ct[c] \in Ct
      /\ \A c \in Container : OnStage(c)
      /\ ct \in [Container -> Ct]
      /\ \A c \in Container : ct[c].at \in Nat
      /\ Len(FrameOf) \in Nat
  BY FilesAreNat DEF TypeOK, StageFit, Ct
<1>1. ASSUME UNCHANGED ct PROVE Goal
  BY <1>0, <1>1 DEF StageFit, DiskGrows, OnStage
<1>2. ASSUME NEW c \in Container, Turn(c) PROVE Goal
  <2>1. \A d \in Container \ {c} : OnStage(d)' BY <1>0, <1>2 DEF Turn, OnStage
  <2> QED BY <1>0, <1>2, <2>1 DEF Turn, StageFit, DiskGrows
<1> HIDE DEF Goal
<1>3. ASSUME Server \/ UNCHANGED vars PROVE Goal
  BY <1>1, <1>3 DEF Server, Retry, JobDone, JobFails, vars
<1>4. ASSUME NEW c \in Container, NEW j \in Job, Invoke(c, j) PROVE Turn(c)
  BY <1>0, <1>4 DEF Invoke, Turn, OnStage, Ct
<1>5. ASSUME NEW c \in Container, Claim(c) PROVE Turn(c)
  <2>1. CASE Goto(c, IF ct[c].job \in started THEN "over" ELSE "check")
    BY <1>0, <1>5, <2>1 DEF Claim, Goto, Turn, OnStage, Ct
  <2>2. CASE ct' = [ct EXCEPT ![c].pc = "check", ![c].open = TRUE]
    BY <1>0, <1>5, <2>2 DEF Claim, Turn, OnStage, Ct
  <2> QED BY <1>5, <2>1, <2>2 DEF Claim
<1>6. ASSUME NEW c \in Container, StartRender(c) PROVE Turn(c)
  <2>1. FirstFile(c) \in 1..Len(FrameOf) BY FirstFileExists, FilesAreNat
  <2> QED BY <1>0, <1>6, <2>1 DEF StartRender, Turn, OnStage, Ct
<1>7. ASSUME NEW c \in Container, TerminalAtStart(c) PROVE Turn(c)
  BY <1>0, <1>7 DEF TerminalAtStart, Goto, Turn, OnStage, Ct
<1>8. ASSUME NEW c \in Container, TerminalSignal(c) PROVE Turn(c)
  BY <1>0, <1>8 DEF TerminalSignal, Turn, OnStage, Ct
<1>9. ASSUME NEW c \in Container, StopUploader(c) PROVE Turn(c)
  BY <1>0, <1>9 DEF StopUploader, Turn, OnStage, Ct
<1>10. ASSUME NEW c \in Container, FlushFinal(c) PROVE Turn(c)
  BY <1>0, <1>10 DEF FlushFinal, Scanned, Turn, OnStage, Ct
<1>11. ASSUME NEW c \in Container, CatchUp(c) PROVE Turn(c)
  BY <1>0, <1>11 DEF CatchUp, Goto, Turn, OnStage, Ct
<1>12. ASSUME NEW c \in Container, ReportFailure(c) PROVE Turn(c)
  BY <1>0, <1>12 DEF ReportFailure, Goto, Turn, OnStage, Ct
<1>13. ASSUME NEW c \in Container, Finish(c) PROVE Turn(c)
  BY <1>0, <1>13 DEF Finish, Goto, Turn, OnStage, Ct
<1>14. ASSUME NEW c \in Container, Write(c) PROVE Turn(c)
  BY <1>0, <1>14 DEF Write, Turn, OnStage, Ct
<1>15. ASSUME NEW c \in Container, BlenderEnds(c) PROVE Turn(c)
  BY <1>0, <1>15 DEF BlenderEnds, Turn, OnStage, Ct
<1>16. ASSUME NEW c \in Container, BlenderKilled(c) PROVE Turn(c)
  BY <1>0, <1>16 DEF BlenderKilled, Turn, OnStage, Ct
<1>17. ASSUME NEW c \in Container, Scan(c) PROVE Turn(c)
  BY <1>0, <1>17 DEF Scan, Turn, OnStage, Ct
<1>18. ASSUME NEW c \in Container, ContainerDies(c) PROVE Turn(c)
  BY <1>0, <1>18 DEF ContainerDies, Turn, OnStage, Ct
<1>19. ASSUME NEW c \in Container, NEW t \in Thread, PutFails(c, t) PROVE Turn(c)
  BY <1>0, <1>19 DEF PutFails, Turn, OnStage, Ct
<1>20. ASSUME NEW c \in Container, NEW t \in Thread, Register(c, t) PROVE Turn(c)
  BY <1>0, <1>20 DEF Register, Turn, OnStage, Ct
<1>21. ASSUME NEW c \in Container, NEW t \in Thread, Put(c, t) \/ PutSkipped(c, t)
       PROVE  Goal
  BY <1>1, <1>21 DEF Put, PutSkipped
<1>22. Goal
  BY <1>2, <1>3, <1>4, <1>5, <1>6, <1>7, <1>8, <1>9, <1>10, <1>11, <1>12, <1>13, <1>14,
     <1>15, <1>16, <1>17, <1>18, <1>19, <1>20, <1>21 DEF Next, Handler, Blender, Uploader
<1> QED BY <1>22 DEF Goal

(* A job that was once active is never new again, and keeps its range.     *)
LEMMA RangeStays ==
  ASSUME TypeOK, [Next]_vars, NEW j \in Job, status[j] # "none"
  PROVE  status'[j] # "none" /\ first'[j] = first[j]
<1>1. CASE Retry BY <1>1 DEF Retry, TypeOK, Job
<1>2. CASE \E i \in Job : JobDone(i) \/ JobFails(i)
  BY <1>2 DEF JobDone, JobFails, TypeOK
<1>3. CASE ~Server BY <1>3, OthersReport DEF Reports
<1> QED BY <1>1, <1>2, <1>3 DEF Server

\* A container has a job that was active.
JobFit == \A c \in Container : ct[c].pc # "none" => status[ct[c].job] # "none"

LEMMA JobStep ==
  ASSUME TypeOK, StageFit, JobFit, [Next]_vars
  PROVE  JobFit'
<1>0. \A c \in Container : ct[c].job \in Job BY DEF TypeOK, Ct
<1>1. ASSUME NEW c \in Container, ct[c].pc # "none"
      PROVE  status'[ct'[c].job] # "none"
  BY <1>0, <1>1, StageStep, RangeStays DEF JobFit, DiskGrows
<1>2. ASSUME NEW c \in Container, ct[c].pc = "none", ct'[c].pc # "none"
      PROVE  status'[ct'[c].job] # "none"
  <2>1. ct'[c].job \in Job /\ status[ct'[c].job] = "active"
    BY <1>2, StageStep DEF DiskGrows
  <2>2. PICK j \in Job : j = ct'[c].job BY <2>1
  <2> QED BY <2>1, <2>2, RangeStays
<1> QED BY <1>1, <1>2 DEF JobFit

LEMMA DiskStays ==
  ASSUME TypeOK, StageFit, JobFit, [Next]_vars, NEW c \in Container, ct[c].blender # "off"
  PROVE  /\ ct'[c].blender # "off" /\ FirstFile(c)' = FirstFile(c)
         /\ Whole(c) \subseteq Whole(c)'
         /\ ct[c].blender = "killed" => ct'[c].blender = "killed" /\ HalfFile(c)' = HalfFile(c)
<1>1. ct[c].pc # "none" BY DEF StageFit, OnStage
<1>2. PICK j \in Job : j = ct[c].job BY DEF TypeOK, Ct
<1>3. ct'[c].job = j /\ first'[j] = first[j]
  BY <1>1, <1>2, StageStep, RangeStays DEF DiskGrows, JobFit
<1>4. FirstFile(c)' = FirstFile(c) BY <1>2, <1>3 DEF FirstFile
<1>5. ct[c].at \in Nat /\ ct'[c].at \in Nat /\ FirstFile(c) \in Nat
  <2>1. TypeOK' BY TypeStep
  <2>2. ct[c] \in Ct /\ ct'[c] \in Ct BY <2>1 DEF TypeOK
  <2> QED BY <2>2, FirstFileExists, FilesAreNat DEF Ct
<1>6. ct'[c].blender # "off" /\ ct[c].at <= ct'[c].at BY StageStep DEF DiskGrows
<1>7. Whole(c) \subseteq Whole(c)' BY <1>4, <1>5, <1>6 DEF Whole
<1>8. ct[c].blender = "killed" => ct'[c].blender = "killed" /\ HalfFile(c)' = HalfFile(c)
  BY StageStep DEF DiskGrows, HalfFile
<1> QED BY <1>4, <1>6, <1>7, <1>8

-----------------------------------------------------------------------------
(* A thread's batch holds files of its disk, whole ones but for the one a  *)
(* kill cut short.                                                         *)
BatchFit ==
  \A c \in Container, t \in Thread : \A k \in up[c][t].batch :
    /\ ct[c].blender # "off"
    /\ k \in Whole(c) \/ (k \in HalfFile(c) /\ ct[c].blender = "killed")

\* What a step adds to a batch is on the disk, and a scan that meets a running
\* Blender takes the whole files only.
Taken ==
  \A c \in Container, t \in Thread : \A k \in up'[c][t].batch :
    \/ k \in up[c][t].batch
    \/ /\ ct[c].blender # "off" /\ k \in OnDisk(c)
       /\ k \in Whole(c) \/ ct[c].blender # "runs"

LEMMA BatchesTaken ==
  ASSUME TypeOK, StageFit, [Next]_vars
  PROVE  Taken
<1> DEFINE Sheds == \A c \in Container, t \in Thread : up'[c][t].batch \subseteq up[c][t].batch
<1>0. \A c \in Container, t \in Thread : up[c][t] \in Up /\ up[c] \in [Thread -> Up]
  BY DEF TypeOK
<1>1. ASSUME Sheds PROVE Taken BY <1>1 DEF Taken
<1>2. ASSUME UNCHANGED up PROVE Sheds BY <1>2
<1>3. ASSUME NEW c \in Container, DropBatches(c) PROVE Sheds
  BY <1>0, <1>3 DEF DropBatches, TypeOK
<1> HIDE DEF Sheds
<1>4. ASSUME Server \/ UNCHANGED vars PROVE Sheds
  BY <1>2, <1>4 DEF Server, Retry, JobDone, JobFails, vars
<1>5. ASSUME NEW c \in Container, Handler(c), ~FlushFinal(c) PROVE Sheds
  <2>1. UNCHANGED up \/ DropBatches(c)
    BY <1>5 DEF Handler, Invoke, Claim, StartRender, TerminalAtStart, TerminalSignal,
                StopUploader, CatchUp, ReportFailure, Finish
  <2> QED BY <1>2, <1>3, <2>1
<1>6. ASSUME NEW c \in Container, FlushFinal(c) PROVE Taken
  <2>1. CASE UNCHANGED up BY <1>1, <1>2, <2>1
  <2>2. CASE up' = [up EXCEPT ![c]["main"].batch = Candidates(c)]
    <3>1. ct[c].blender \notin {"off", "runs"} BY <1>6 DEF FlushFinal, StageFit, OnStage
    <3>2. \A d \in Container, t \in Thread :
            d # c \/ t # "main" => up'[d][t].batch = up[d][t].batch
      BY <1>0, <2>2 DEF TypeOK
    <3>3. up'[c]["main"].batch = Candidates(c)
      BY <1>0, <2>2 DEF TypeOK, Thread, Up
    <3> QED BY <3>1, <3>2, <3>3 DEF Taken, Candidates
  <2> QED BY <1>6, <2>1, <2>2 DEF FlushFinal
<1>7. ASSUME NEW c \in Container, Blender(c) PROVE Sheds
  BY <1>2, <1>7 DEF Blender, Write, BlenderEnds, BlenderKilled
<1>8. ASSUME NEW c \in Container, Scan(c) PROVE Taken
  <2>1. CASE UNCHANGED up BY <1>1, <1>2, <2>1
  <2>2. CASE up' = [up EXCEPT ![c]["background"].batch = Ready(c)]
    <3>1. ct[c].blender # "off" BY <1>8 DEF Scan, StageFit, OnStage
    <3>2. \A d \in Container, t \in Thread :
            d # c \/ t # "background" => up'[d][t].batch = up[d][t].batch
      BY <1>0, <2>2 DEF TypeOK
    <3>3. up'[c]["background"].batch = Ready(c)
      BY <1>0, <2>2 DEF TypeOK, Thread, Up
    <3> QED BY <3>1, <3>2, <3>3 DEF Taken, Ready, Candidates
  <2> QED BY <1>8, <2>1, <2>2 DEF Scan
<1>9. ASSUME NEW c \in Container, NEW t \in Thread, Put(c, t) PROVE Sheds
  BY <1>0, <1>9 DEF Put, TypeOK, Up, Sheds
<1>10. ASSUME NEW c \in Container, NEW t \in Thread, PutSkipped(c, t) PROVE Sheds
  BY <1>0, <1>10 DEF PutSkipped, TypeOK, Up, Sheds
<1>11. ASSUME NEW c \in Container, NEW t \in Thread, PutFails(c, t) PROVE Sheds
  <2>1. CASE community BY <1>0, <1>11, <2>1 DEF PutFails, TypeOK, Up, Sheds
  <2>2. CASE ~community BY <1>0, <1>11, <2>2 DEF PutFails, TypeOK, Up, Sheds
  <2> QED BY <2>1, <2>2
<1>12. ASSUME NEW c \in Container, NEW t \in Thread, Register(c, t) PROVE Sheds
  BY <1>0, <1>12 DEF Register, TypeOK, Idle, Up, Sheds
<1>13. ASSUME NEW c \in Container, ContainerDies(c) PROVE Sheds
  BY <1>0, <1>13 DEF ContainerDies, TypeOK, Idle, Sheds
<1> QED
  BY <1>1, <1>4, <1>5, <1>6, <1>7, <1>8, <1>9, <1>10, <1>11, <1>12, <1>13 DEF Next, Uploader

LEMMA BatchStep ==
  ASSUME TypeOK, StageFit, JobFit, BatchFit, [Next]_vars
  PROVE  BatchFit'
<1> SUFFICES ASSUME NEW c \in Container, NEW t \in Thread, NEW k \in up'[c][t].batch
             PROVE  /\ ct'[c].blender # "off"
                    /\ k \in Whole(c)' \/ (k \in HalfFile(c)' /\ ct'[c].blender = "killed")
  BY DEF BatchFit
<1>1. /\ ct[c].blender # "off"
      /\ k \in Whole(c) \/ (k \in HalfFile(c) /\ ct[c].blender = "killed")
  <2>1. CASE k \in up[c][t].batch BY <2>1 DEF BatchFit
  <2>2. CASE k \notin up[c][t].batch
    <3>1. /\ ct[c].blender # "off"
          /\ k \in Whole(c) \/ k \in HalfFile(c)
          /\ k \in Whole(c) \/ ct[c].blender # "runs"
      BY <2>2, BatchesTaken DEF Taken, OnDisk
    <3>2. ct[c].half => ct[c].blender # "ended"
      BY FilesAreNat DEF StageFit, OnStage
    <3>3. ct[c].blender \in {"off", "runs", "ended", "killed"} BY DEF TypeOK, Ct
    <3> QED BY <3>1, <3>2, <3>3 DEF HalfFile
  <2> QED BY <2>1, <2>2
<1> QED BY <1>1, DiskStays

LEMMA TruncatedStep ==
  ASSUME TypeOK, StageFit, JobFit, BatchFit, TruncatedByKill, [Next]_vars
  PROVE  TruncatedByKill'
<1>1. ASSUME NEW k \in File, NEW c \in Container, ct[c].blender = "killed", k \in HalfFile(c)
      PROVE  \E d \in Container : ct'[d].blender = "killed" /\ k \in HalfFile(d)'
  BY <1>1, DiskStays
<1>2. ASSUME object' = object PROVE TruncatedByKill'
  BY <1>1, <1>2 DEF TruncatedByKill
<1>3. ASSUME NEW c \in Container, NEW t \in Thread, Put(c, t) PROVE TruncatedByKill'
  <2>1. PICK k \in up[c][t].batch : object' = [object EXCEPT ![k] = Content(c, k)]
    BY <1>3 DEF Put
  <2>2. k \in File BY DEF TypeOK, Up
  <2>3. object'[k] = Content(c, k) /\ \A m \in File \ {k} : object'[m] = object[m]
    BY <2>1, <2>2 DEF TypeOK
  <2>4. Content(c, k) = "half" => ct[c].blender = "killed" /\ k \in HalfFile(c)
    BY DEF Content, BatchFit
  <2>5. \A m \in File : object'[m] = "half" =>
          \E d \in Container : ct[d].blender = "killed" /\ m \in HalfFile(d)
    BY <2>2, <2>3, <2>4 DEF TruncatedByKill
  <2> QED BY <1>1, <2>5 DEF TruncatedByKill
<1>4. ASSUME NEW c \in Container, NEW t \in Thread, Register(c, t) PROVE TruncatedByKill'
  BY <1>2, <1>4 DEF Register
<1> QED BY <1>2, <1>3, <1>4, OthersSendNothing DEF SendsNothing, store

DiskInv == TypeOK /\ StageFit /\ JobFit /\ BatchFit

LEMMA DiskInvStarts == Init => DiskInv
<1>1. ASSUME Init PROVE StageFit /\ JobFit
  BY <1>1, FilesAreNat DEF Init, Ct0, StageFit, OnStage, JobFit
<1>2. ASSUME Init PROVE BatchFit BY <1>2 DEF Init, Idle, BatchFit
<1> QED BY <1>1, <1>2, TypeInit DEF DiskInv

LEMMA DiskInvStays == DiskInv /\ [Next]_vars => DiskInv'
  BY TypeStep, StageStep, JobStep, BatchStep DEF DiskInv

(* The store has a truncated file only when a kill left it on a disk.      *)
THEOREM TruncationNeedsKill == Spec => []TruncatedByKill
<1>1. Init => TruncatedByKill BY DEF Init, TruncatedByKill
<1>2. DiskInv /\ TruncatedByKill /\ [Next]_vars => TruncatedByKill'
  BY TruncatedStep DEF DiskInv
<1> QED BY <1>1, <1>2, DiskInvStarts, DiskInvStays, PTL DEF Spec

-----------------------------------------------------------------------------
(* What a container has marked as uploaded is registered.                  *)
MarkFit == \A c \in Container : ct[c].uploaded \subseteq rows

LEMMA MarkStep ==
  ASSUME TypeOK, MarkFit, [Next]_vars
  PROVE  MarkFit'
<1>0. \A c \in Container : ct[c] \in Ct BY DEF TypeOK
<1>1. ASSUME \A c \in Container : ct'[c].uploaded = ct[c].uploaded, rows \subseteq rows'
      PROVE  MarkFit'
  BY <1>1 DEF MarkFit
<1>2. ASSUME UNCHANGED <<ct, rows>> PROVE MarkFit' BY <1>2 DEF MarkFit
<1> USE DEF server, store, Goto
<1>3. CASE Server \/ UNCHANGED vars
  BY <1>2, <1>3 DEF Server, Retry, JobDone, JobFails, vars
<1>4. ASSUME NEW c \in Container, \E j \in Job : Invoke(c, j) PROVE MarkFit'
  BY <1>0, <1>1, <1>4 DEF Invoke, TypeOK, Ct
<1>5. ASSUME NEW c \in Container, Claim(c) PROVE MarkFit'
  <2>1. CASE Goto(c, IF ct[c].job \in started THEN "over" ELSE "check")
    BY <1>0, <1>1, <1>5, <2>1 DEF Claim, TypeOK, Ct
  <2>2. CASE ct' = [ct EXCEPT ![c].pc = "check", ![c].open = TRUE]
    BY <1>0, <1>1, <1>5, <2>2 DEF Claim, TypeOK, Ct
  <2> QED BY <1>5, <2>1, <2>2 DEF Claim
<1>6. ASSUME NEW c \in Container, StartRender(c) PROVE MarkFit'
  BY <1>0, <1>1, <1>6 DEF StartRender, TypeOK, Ct
<1>7. ASSUME NEW c \in Container, TerminalAtStart(c) PROVE MarkFit'
  BY <1>0, <1>1, <1>7 DEF TerminalAtStart, TypeOK, Ct
<1>8. ASSUME NEW c \in Container, StopUploader(c) PROVE MarkFit'
  BY <1>0, <1>1, <1>8 DEF StopUploader, TypeOK, Ct
<1>9. ASSUME NEW c \in Container, CatchUp(c) PROVE MarkFit'
  BY <1>0, <1>1, <1>9 DEF CatchUp, TypeOK, Ct
<1>10. ASSUME NEW c \in Container, TerminalSignal(c) PROVE MarkFit'
  BY <1>0, <1>1, <1>10 DEF TerminalSignal, TypeOK, Ct
<1>11. ASSUME NEW c \in Container, FlushFinal(c) PROVE MarkFit'
  <2>1. CASE ct' = [ct EXCEPT ![c].pc = Scanned(@), ![c].bad = FALSE]
    BY <1>0, <1>1, <1>11, <2>1 DEF FlushFinal, TypeOK, Ct
  <2>2. CASE ct' = [ct EXCEPT ![c].pc = Scanned(@), ![c].bad = TRUE]
    BY <1>0, <1>1, <1>11, <2>2 DEF FlushFinal, TypeOK, Ct
  <2> QED BY <1>11, <2>1, <2>2 DEF FlushFinal
<1>12. ASSUME NEW c \in Container, ReportFailure(c) PROVE MarkFit'
  <2>1. PICK pc \in {"tail", "finished", "over"} : ct' = [ct EXCEPT ![c].pc = pc]
    BY <1>12 DEF ReportFailure
  <2>2. \A d \in Container : ct'[d].uploaded = ct[d].uploaded
    BY <1>0, <2>1 DEF TypeOK, Ct
  <2> QED BY <1>1, <1>12, <2>2 DEF ReportFailure
<1>13. ASSUME NEW c \in Container, Finish(c) PROVE MarkFit'
  <2>1. PICK pc \in {"tail", "finished", "over"} : ct' = [ct EXCEPT ![c].pc = pc]
    BY <1>13 DEF Finish
  <2>2. \A d \in Container : ct'[d].uploaded = ct[d].uploaded
    BY <1>0, <2>1 DEF TypeOK, Ct
  <2> QED BY <1>1, <1>13, <2>2 DEF Finish
<1>14. ASSUME NEW c \in Container, Write(c) PROVE MarkFit'
  <2>1. \A d \in Container : ct'[d].uploaded = ct[d].uploaded
    <3>1. CASE ct[c].half
      <4> DEFINE r == [ct[c] EXCEPT !.half = FALSE, !.at = @ + 1,
                                    !.seen = @ \ {ct[c].at + 1}]
      <4>1. ct' = [ct EXCEPT ![c] = r] BY <1>14, <3>1 DEF Write
      <4>2. r.uploaded = ct[c].uploaded BY <1>0 DEF Ct
      <4> HIDE DEF r
      <4> QED BY <4>1, <4>2 DEF TypeOK
    <3>2. CASE ~ct[c].half BY <1>0, <1>14, <3>2 DEF Write, TypeOK, Ct
    <3> QED BY <3>1, <3>2
  <2> QED BY <1>1, <1>14, <2>1 DEF Write
<1>15. ASSUME NEW c \in Container, BlenderEnds(c) PROVE MarkFit'
  BY <1>0, <1>1, <1>15 DEF BlenderEnds, TypeOK, Ct
<1>16. ASSUME NEW c \in Container, BlenderKilled(c) PROVE MarkFit'
  BY <1>0, <1>1, <1>16 DEF BlenderKilled, TypeOK, Ct
<1>17. ASSUME NEW c \in Container, Scan(c) PROVE MarkFit'
  BY <1>0, <1>1, <1>17 DEF Scan, TypeOK, Ct
<1>18. ASSUME NEW c \in Container, ContainerDies(c) PROVE MarkFit'
  BY <1>0, <1>1, <1>18 DEF ContainerDies, TypeOK, Ct
<1>19. ASSUME NEW c \in Container, NEW t \in Thread, Put(c, t) PROVE MarkFit'
  BY <1>2, <1>19 DEF Put
<1>20. ASSUME NEW c \in Container, NEW t \in Thread, PutSkipped(c, t) PROVE MarkFit'
  BY <1>2, <1>20 DEF PutSkipped
<1>21. ASSUME NEW c \in Container, NEW t \in Thread, PutFails(c, t) PROVE MarkFit'
  BY <1>0, <1>1, <1>21 DEF PutFails, TypeOK, Ct
<1>22. ASSUME NEW c \in Container, NEW t \in Thread, Register(c, t) PROVE MarkFit'
  <2>1. CASE /\ rows' = rows \cup up[c][t].sent
             /\ ct' = [ct EXCEPT ![c].uploaded = @ \cup up[c][t].sent,
                                 ![c].seen = @ \ up[c][t].sent]
    BY <1>0, <2>1 DEF MarkFit, TypeOK, Ct
  <2>2. CASE /\ rows' \in {rows, rows \cup up[c][t].sent}
             /\ ct' = [ct EXCEPT ![c].bad = @ \/ t = "main"]
    BY <1>0, <1>1, <2>2 DEF TypeOK, Ct
  <2> QED BY <1>22, <2>1, <2>2 DEF Register
<1> QED
  BY <1>3, <1>4, <1>5, <1>6, <1>7, <1>8, <1>9, <1>10, <1>11, <1>12, <1>13,
     <1>14, <1>15, <1>16, <1>17, <1>18, <1>19, <1>20, <1>21, <1>22
     DEF Next, Handler, Blender, Uploader

(* After a flush without a failure the whole range is marked, or in the    *)
(* hands of the thread that flushes; a handler that has finished has       *)
(* nothing in hand.                                                        *)
Covered(c) ==
  FirstFile(c)..Len(FrameOf)
    \subseteq ct[c].uploaded \cup up[c]["main"].batch \cup up[c]["main"].sent

Flushed(c) ==
  /\ ct[c].pc \in {"flushed", "finished"} /\ ct[c].blender = "ended" /\ ~ct[c].bad => Covered(c)
  /\ ct[c].pc = "finished" => ct[c].blender = "ended" /\ AtRest(c, "main")

FlushFit == \A c \in Container : Flushed(c)

\* A step of the container, or of nobody: the others stay as they are.
Only(c) == \A d \in Container \ {c} : ct'[d] = ct[d] /\ up'[d] = up[d]

\* The container is not past its flush; or only its other thread acts.
Before(c)  == ct'[c].pc \notin {"flushed", "finished"}
Besides(c) ==
  /\ ct'[c].pc = ct[c].pc /\ ct'[c].blender = ct[c].blender
  /\ ct[c].bad => ct'[c].bad
  /\ ct[c].uploaded \subseteq ct'[c].uploaded
  /\ up'[c]["main"] = up[c]["main"]

LEMMA FlushedBy ==
  ASSUME DiskInv, FlushFit, [Next]_vars, NEW c \in Container, Only(c),
         Flushed(c)' \/ Before(c) \/ Besides(c)
  PROVE  FlushFit'
<1>1. ASSUME NEW d \in Container, Besides(d) PROVE Flushed(d)'
  <2>1. ct[d].blender = "ended" => FirstFile(d)' = FirstFile(d)
    BY DiskStays DEF DiskInv
  <2> QED BY <1>1, <2>1 DEF Besides, FlushFit, Flushed, Covered, AtRest, Idle
<1>2. \A d \in Container \ {c} : Besides(d) BY DEF Only, Besides
<1>3. Flushed(c)'
  BY <1>1 DEF Before, Flushed
<1> QED BY <1>1, <1>2, <1>3 DEF FlushFit

LEMMA FlushStep ==
  ASSUME DiskInv, FlushFit, [Next]_vars
  PROVE  FlushFit'
<1>0. /\ \A c \in Container : ct[c] \in Ct /\ OnStage(c) /\ Flushed(c)
      /\ \A c \in Container, t \in Thread : up[c][t] \in Up /\ up[c] \in [Thread -> Up]
      /\ ct \in [Container -> Ct] /\ up \in [Container -> [Thread -> Up]]
      /\ "main" \in Thread
  BY DEF DiskInv, TypeOK, StageFit, FlushFit, Thread
<1>1. ASSUME UNCHANGED <<ct, up>> PROVE FlushFit'
  <2>1. ASSUME NEW c \in Container PROVE FlushFit'
    <3>1. Only(c) /\ Besides(c) BY <1>1 DEF Only, Besides
    <3> QED BY <3>1, FlushedBy
  <2> QED BY <2>1 DEF FlushFit
<1>2. ASSUME NEW c \in Container, NEW pc \in {"again", "tail", "over"}, Goto(c, pc),
             UNCHANGED up \/ DropBatches(c)
      PROVE  FlushFit'
  <2>1. Only(c) /\ Before(c) BY <1>0, <1>2 DEF Goto, DropBatches, Only, Before, Ct
  <2> QED BY <2>1, FlushedBy
<1>3. CASE Server \/ UNCHANGED vars
  BY <1>1, <1>3 DEF Server, Retry, JobDone, JobFails, vars
<1>4. ASSUME NEW c \in Container, NEW j \in Job, Invoke(c, j) PROVE FlushFit'
  <2>1. Only(c) /\ Before(c) BY <1>0, <1>4 DEF Invoke, Only, Before, Ct
  <2> QED BY <2>1, FlushedBy
<1>5. ASSUME NEW c \in Container, Claim(c) PROVE FlushFit'
  <2>1. Only(c) /\ Before(c)
    <3>1. CASE Goto(c, IF ct[c].job \in started THEN "over" ELSE "check")
      BY <1>0, <1>5, <3>1 DEF Claim, Goto, Only, Before, Ct
    <3>2. CASE ct' = [ct EXCEPT ![c].pc = "check", ![c].open = TRUE]
      BY <1>0, <1>5, <3>2 DEF Claim, Only, Before, Ct
    <3> QED BY <1>5, <3>1, <3>2 DEF Claim
  <2> QED BY <2>1, FlushedBy
<1>6. ASSUME NEW c \in Container, StartRender(c) PROVE FlushFit'
  <2>1. Only(c) /\ Before(c) BY <1>0, <1>6 DEF StartRender, Only, Before, Ct
  <2> QED BY <2>1, FlushedBy
<1>7. ASSUME NEW c \in Container, TerminalAtStart(c) PROVE FlushFit'
  BY <1>2, <1>7 DEF TerminalAtStart
<1>8. ASSUME NEW c \in Container, TerminalSignal(c) PROVE FlushFit'
  <2>1. Only(c) /\ Before(c)
    BY <1>0, <1>8 DEF TerminalSignal, DropBatches, Only, Before, Ct
  <2> QED BY <2>1, FlushedBy
<1>9. ASSUME NEW c \in Container, StopUploader(c) PROVE FlushFit'
  <2>1. Only(c) /\ Before(c) BY <1>0, <1>9 DEF StopUploader, Only, Before, Ct
  <2> QED BY <2>1, FlushedBy
<1>10. ASSUME NEW c \in Container, FlushFinal(c) PROVE FlushFit'
  <2>1. Only(c) BY <1>0, <1>10 DEF FlushFinal, Only
  <2>2. ct'[c].pc \in {"flushed", "tailed"} /\ ct'[c].blender = ct[c].blender
        /\ ct'[c].at = ct[c].at /\ ct'[c].uploaded = ct[c].uploaded
    <3>1. CASE ct' = [ct EXCEPT ![c].pc = Scanned(@), ![c].bad = FALSE]
      BY <1>0, <1>10, <3>1 DEF FlushFinal, Scanned, Ct
    <3>2. CASE ct' = [ct EXCEPT ![c].pc = Scanned(@), ![c].bad = TRUE]
      BY <1>0, <1>10, <3>2 DEF FlushFinal, Scanned, Ct
    <3> QED BY <1>10, <3>1, <3>2 DEF FlushFinal
  <2>3. CASE ct' = [ct EXCEPT ![c].pc = Scanned(@), ![c].bad = TRUE]
    <3>1. Flushed(c)' BY <1>0, <2>2, <2>3 DEF Flushed, Ct
    <3> QED BY <2>1, <3>1, FlushedBy
  <2>4. CASE up' = [up EXCEPT ![c]["main"].batch = Candidates(c)]
    <3>1. up'[c]["main"].batch = Candidates(c) BY <1>0, <2>4 DEF Up
    <3>2. ct[c].blender = "ended" =>
            FirstFile(c)..Len(FrameOf) \subseteq ct[c].uploaded \cup Candidates(c)
      BY <1>0 DEF OnStage, Candidates, OnDisk, Whole
    <3>3. ct[c].blender = "ended" => FirstFile(c)' = FirstFile(c)
      BY DiskStays DEF DiskInv
    <3>4. Flushed(c)' BY <2>2, <3>1, <3>2, <3>3 DEF Flushed, Covered
    <3> QED BY <2>1, <3>4, FlushedBy
  <2> QED BY <1>10, <2>3, <2>4 DEF FlushFinal
<1>11. ASSUME NEW c \in Container, CatchUp(c) PROVE FlushFit'
  BY <1>2, <1>11 DEF CatchUp
<1>12. ASSUME NEW c \in Container, ReportFailure(c) PROVE FlushFit'
  BY <1>2, <1>12 DEF ReportFailure
<1>13. ASSUME NEW c \in Container, Finish(c) PROVE FlushFit'
  <2>1. CASE ct[c].pc = "flushed" /\ ~Failed(c) /\ Goto(c, "finished") /\ DropBatches(c)
    <3>1. /\ ct'[c].pc = "finished" /\ ct'[c].blender = ct[c].blender
          /\ ct'[c].uploaded = ct[c].uploaded /\ ct'[c].bad = ct[c].bad
      BY <1>0, <2>1 DEF Goto, Ct
    <3>2. Only(c) BY <2>1 DEF Goto, DropBatches, Only
    <3>3. up[c]["main"] = Idle BY <1>13 DEF Finish, AtRest
    <3>4. up'[c]["main"] = Idle
      <4>1. up'[c]["main"] = [batch |-> {}, sent |-> up[c]["main"].sent]
        BY <1>0, <2>1 DEF DropBatches
      <4> QED BY <3>3, <4>1 DEF Idle
    <3>5. ct[c].blender = "ended" BY <1>0, <2>1 DEF OnStage, Failed, Ct
    <3>6. FirstFile(c)' = FirstFile(c) BY <3>5, DiskStays DEF DiskInv
    <3>7. ~ct[c].bad => Covered(c) BY <1>0, <2>1, <3>5 DEF Flushed
    <3>8. Flushed(c)' BY <3>1, <3>3, <3>4, <3>5, <3>6, <3>7 DEF Flushed, Covered, AtRest
    <3> QED BY <3>2, <3>8, FlushedBy
  <2>2. CASE Goto(c, "tail") /\ UNCHANGED up BY <1>2, <2>2
  <2>3. CASE Goto(c, "over") /\ DropBatches(c) BY <1>2, <2>3
  <2> QED BY <1>13, <2>1, <2>2, <2>3 DEF Finish
<1>14. ASSUME NEW c \in Container, Write(c) \/ BlenderEnds(c) \/ BlenderKilled(c) \/ Scan(c)
       PROVE  FlushFit'
  <2>1. ct[c].pc = "render"
    BY <1>0, <1>14 DEF Write, BlenderEnds, BlenderKilled, Scan, OnStage
  <2>2. ct'[c].pc = ct[c].pc
    <3>1. CASE Write(c) BY <1>0, <3>1 DEF Write, Ct
    <3>2. CASE BlenderEnds(c) BY <1>0, <3>2 DEF BlenderEnds, Ct
    <3>3. CASE BlenderKilled(c) BY <1>0, <3>3 DEF BlenderKilled, Ct
    <3>4. CASE Scan(c) BY <1>0, <3>4 DEF Scan, Ct
    <3> QED BY <1>14, <3>1, <3>2, <3>3, <3>4
  <2>3. Only(c) BY <1>0, <1>14 DEF Write, BlenderEnds, BlenderKilled, Scan, Only
  <2> QED BY <2>1, <2>2, <2>3, FlushedBy DEF Before
<1>15. ASSUME NEW c \in Container, ContainerDies(c) PROVE FlushFit'
  <2>1. Only(c) /\ Before(c) BY <1>0, <1>15 DEF ContainerDies, Only, Before, Ct
  <2> QED BY <2>1, FlushedBy
<1>16. ASSUME NEW c \in Container, NEW t \in Thread, Put(c, t) PROVE FlushFit'
  <2>1. ct' = ct BY <1>16 DEF Put
  <2>2. PICK k \in up[c][t].batch :
          up' = [up EXCEPT ![c][t].batch = @ \ {k}, ![c][t].sent = @ \cup {k}]
    BY <1>16 DEF Put
  <2>3. Only(c) BY <1>0, <2>1, <2>2 DEF Only
  <2>4. CASE t # "main"
    <3>1. Besides(c) BY <1>0, <2>1, <2>2, <2>4 DEF Besides
    <3> QED BY <2>3, <3>1, FlushedBy
  <2>5. CASE t = "main"
    <3>1. /\ up'[c]["main"].batch = up[c]["main"].batch \ {k}
          /\ up'[c]["main"].sent = up[c]["main"].sent \cup {k}
      BY <1>0, <2>2, <2>5 DEF Up
    <3>2. ct[c].pc # "finished" BY <1>0, <2>2, <2>5 DEF Flushed, AtRest, Idle
    <3>3. ct[c].blender = "ended" => FirstFile(c)' = FirstFile(c)
      BY DiskStays DEF DiskInv
    <3>4. Flushed(c)' BY <1>0, <2>1, <3>1, <3>2, <3>3 DEF Flushed, Covered
    <3> QED BY <2>3, <3>4, FlushedBy
  <2> QED BY <2>4, <2>5
<1>17. ASSUME NEW c \in Container, NEW t \in Thread, PutSkipped(c, t) PROVE FlushFit'
  <2>1. ct' = ct BY <1>17 DEF PutSkipped
  <2>2. up' = [up EXCEPT ![c][t].batch = @ \ Skipped(c)] BY <1>17 DEF PutSkipped
  <2>3. Only(c) BY <1>0, <2>1, <2>2 DEF Only
  <2>4. CASE t # "main"
    <3>1. Besides(c) BY <1>0, <2>1, <2>2, <2>4 DEF Besides
    <3> QED BY <2>3, <3>1, FlushedBy
  <2>5. CASE t = "main"
    <3>1. /\ up'[c]["main"].batch = up[c]["main"].batch \ Skipped(c)
          /\ up'[c]["main"].sent = up[c]["main"].sent
      BY <1>0, <2>2, <2>5 DEF Up
    <3>2. ct[c].pc # "finished"
      BY <1>0, <1>17, <2>5 DEF PutSkipped, Flushed, AtRest, Idle
    <3>3. ct[c].blender = "ended" => FirstFile(c)' = FirstFile(c)
      BY DiskStays DEF DiskInv
    <3>4. Skipped(c) \subseteq ct[c].uploaded BY DEF Skipped
    <3>5. Flushed(c)' BY <1>0, <2>1, <3>1, <3>2, <3>3, <3>4 DEF Flushed, Covered
    <3> QED BY <2>3, <3>5, FlushedBy
  <2> QED BY <2>4, <2>5
<1>18. ASSUME NEW c \in Container, NEW t \in Thread, PutFails(c, t) PROVE FlushFit'
  <2>1. /\ \E k : k \in up[c][t].batch
        /\ ct' = [ct EXCEPT ![c].bad = @ \/ t = "main"]
        /\ \A d \in Container, s \in Thread : d # c \/ s # t => up'[d][s] = up[d][s]
        /\ \A d \in Container \ {c} : up'[d] = up[d]
    BY <1>0, <1>18 DEF PutFails
  <2>2. /\ ct'[c].pc = ct[c].pc /\ ct'[c].blender = ct[c].blender
        /\ ct'[c].uploaded = ct[c].uploaded
        /\ ct'[c].bad = (ct[c].bad \/ t = "main")
    BY <1>0, <2>1 DEF Ct
  <2>3. Only(c) BY <1>0, <2>1 DEF Only
  <2>4. CASE t # "main"
    <3>1. Besides(c) BY <1>0, <2>1, <2>2, <2>4 DEF Besides
    <3> QED BY <2>3, <3>1, FlushedBy
  <2>5. CASE t = "main"
    <3>1. ct[c].pc # "finished" BY <1>0, <2>1, <2>5 DEF Flushed, AtRest, Idle
    <3>2. Flushed(c)' BY <2>2, <2>5, <3>1 DEF Flushed
    <3> QED BY <2>3, <3>2, FlushedBy
  <2> QED BY <2>4, <2>5
<1>19. ASSUME NEW c \in Container, NEW t \in Thread, Register(c, t) PROVE FlushFit'
  <2>1. up' = [up EXCEPT ![c][t] = Idle] /\ up[c][t].sent # {} /\ up[c][t].batch = {}
    BY <1>19 DEF Register
  <2>2. ct' = [ct EXCEPT ![c].uploaded = @ \cup up[c][t].sent,
                         ![c].seen = @ \ up[c][t].sent]
        \/ ct' = [ct EXCEPT ![c].bad = @ \/ t = "main"]
    BY <1>19 DEF Register
  <2>3. /\ ct'[c].pc = ct[c].pc /\ ct'[c].blender = ct[c].blender
        /\ ct[c].bad => ct'[c].bad
        /\ ct[c].uploaded \subseteq ct'[c].uploaded
        /\ (ct[c].uploaded \cup up[c][t].sent \subseteq ct'[c].uploaded)
             \/ (t = "main" => ct'[c].bad)
    <3>1. CASE ct' = [ct EXCEPT ![c].uploaded = @ \cup up[c][t].sent,
                                ![c].seen = @ \ up[c][t].sent]
      BY <1>0, <3>1 DEF Ct
    <3>2. CASE ct' = [ct EXCEPT ![c].bad = @ \/ t = "main"]
      BY <1>0, <3>2 DEF Ct
    <3> QED BY <2>2, <3>1, <3>2
  <2>4. Only(c) BY <1>0, <2>1, <2>2 DEF Only
  <2>5. CASE t # "main"
    <3>1. Besides(c) BY <1>0, <2>1, <2>3, <2>5 DEF Besides
    <3> QED BY <2>4, <3>1, FlushedBy
  <2>6. CASE t = "main"
    <3>1. up'[c]["main"] = Idle BY <1>0, <2>1, <2>6
    <3>2. ct[c].pc # "finished" BY <1>0, <2>1, <2>6 DEF Flushed, AtRest, Idle
    <3>3. ct[c].blender = "ended" => FirstFile(c)' = FirstFile(c)
      BY DiskStays DEF DiskInv
    <3>4. Flushed(c)'
      BY <1>0, <2>1, <2>3, <2>6, <3>1, <3>2, <3>3 DEF Flushed, Covered, Idle
    <3> QED BY <2>4, <3>4, FlushedBy
  <2> QED BY <2>5, <2>6
<1> QED
  BY <1>3, <1>4, <1>5, <1>6, <1>7, <1>8, <1>9, <1>10, <1>11, <1>12, <1>13, <1>14,
     <1>15, <1>16, <1>17, <1>18, <1>19 DEF Next, Handler, Blender, Uploader

(* A flush without a failure makes up for whatever was lost before it.     *)
THEOREM FlushSuffices == Spec => []FlushMakesUp
<1>1. ASSUME Init PROVE MarkFit /\ FlushFit
  BY <1>1 DEF Init, Ct0, MarkFit, FlushFit, Flushed
<1>2. ASSUME MarkFit, FlushFit, NEW c \in Container, ct[c].pc = "finished", ~ct[c].bad
      PROVE  FirstFile(c)..Len(FrameOf) \subseteq rows
  <2>1. ct[c].blender = "ended" /\ up[c]["main"] = Idle /\ ct[c].uploaded \subseteq rows
    BY <1>2 DEF MarkFit, FlushFit, Flushed, AtRest
  <2>2. Covered(c) BY <1>2, <2>1 DEF FlushFit, Flushed
  <2> QED BY <2>1, <2>2 DEF Covered, Idle
<1>3. MarkFit /\ FlushFit => FlushMakesUp BY <1>2 DEF FlushMakesUp
<1>4. DiskInv /\ MarkFit /\ [Next]_vars => MarkFit' BY MarkStep DEF DiskInv
<1>5. DiskInv /\ FlushFit /\ [Next]_vars => FlushFit' BY FlushStep
<1> QED BY <1>1, <1>3, <1>4, <1>5, DiskInvStarts, DiskInvStays, PTL DEF Spec
=============================================================================
