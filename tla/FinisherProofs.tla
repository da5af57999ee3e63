--------------------------- MODULE FinisherProofs ---------------------------
(***************************************************************************)
(* What the spool folders of successive events guarantee for every number  *)
(* of events and segments, with crashes, abandons and a link that fails at *)
(* will: a folder is let go of only when the primary bucket has all of it  *)
(* and the bucket says that the event has ended.                           *)
(*                                                                         *)
(* Both rest on a division of labour that no lock enforces: the finisher   *)
(* only ever works on events that are not open, the session only on one    *)
(* that is, and an event that is not open any more is never opened again.  *)
(***************************************************************************)
EXTENDS EventFinisher, TLAPS

LiveAt(e) == [id |-> e, status |-> "live"]

\* The primary holds no more than was captured.
Files == \A e \in Ids : pos[e][0] <= cap[e]

\* The session works on an open folder, the finisher on others.
Seats ==
    /\ session.pc # "idle" => session.id \in Begun /\ folder[session.id] = "open"
    /\ \A e \in Ids : folder[e] # "none" => e \in Begun
    /\ \A e \in fin.todo : e \in Begun /\ folder[e] # "open"
    /\ fin.pc \notin {"sleep", "next"} => fin.id \in Begun /\ folder[fin.id] # "open"

\* Nothing is captured into, and no pointer names, an event without event.json.
\* (end_live_pointer does nothing for an event that has none.)
Named ==
    /\ session.pc \in {"manifest", "pointer", "on"} => descr[session.id]
    /\ \A e \in Ids : cap[e] > 0 => descr[e]
    /\ \A e \in Ids : pointer = LiveAt(e) => descr[e]

\* What the finisher has seen to before it publishes the ending.
Uploads == fin.pc \in {"publish", "pointer", "endPointer", "discard"}
               => pos[fin.id][0] = cap[fin.id]

\* Which half of the ending the session and the finisher have seen to, and that
\* an ending which is not owed has been told.
Endings ==
    /\ session.pc \in {"endPointer", "settle"} /\ ~session.failed
         => man[session.id] = "ended"
    /\ session.pc = "settle" /\ ~session.failed => pointer # LiveAt(session.id)
    /\ fin.pc \in {"pointer", "endPointer", "discard"} => man[fin.id] = "ended"
    /\ fin.pc = "discard" => pointer # LiveAt(fin.id)
    /\ \A e \in Ids : folder[e] = "ended" /\ ~owed[e]
         => man[e] = "ended" /\ pointer # LiveAt(e)

\* The inductive invariant.
Inv == TypeOK /\ Files /\ Seats /\ Named /\ Uploads /\ Endings /\ BacklogKept /\ EndingIsTold
-----------------------------------------------------------------------------
\* Touching an event adds it to those that have begun.
LEMMA TouchFacts ==
    ASSUME TypeOK, NEW e \in Ids
    PROVE  /\ Touch(e) \in [Ids -> Nat]
           /\ \A x \in Ids : Touch(e)[x] # 0 <=> x \in Begun \/ x = e
BY DEF TypeOK, Touch, Begun

\* A folder without files has been uploaded.
LEMMA NoFiles ==
    ASSUME TypeOK, Files, NEW e \in Ids, ~HasFiles(e)
    PROVE  pos[e][0] = cap[e]
<1>1. 0 \in InPlay(e)
    BY DEF TypeOK, InPlay
<1>2. ~(pos[e][0] < cap[e])
    BY <1>1 DEF HasFiles
<1>3. pos[e][0] \in Nat /\ cap[e] \in Nat
    BY FinisherAssumption DEF TypeOK
<1> QED BY <1>2, <1>3 DEF Files

\* What the provers need to know of the records.
LEMMA RestFacts ==
    /\ Idle \in Sessions /\ Idle.pc = "idle"
    /\ Sleeping \in Passes /\ Sleeping.pc = "sleep" /\ Sleeping.todo = {}
BY DEF Idle, Sessions, Sleeping, Passes

LEMMA PointerFacts ==
    ASSUME NEW e \in Ids
    PROVE  /\ [pc |-> "event", id |-> e, failed |-> FALSE] \in Sessions
           /\ [id |-> e, status |-> "live"] \in Pointers
           /\ [id |-> e, status |-> "ended"] \in Pointers
BY DEF Sessions, Pointers

LEMMA SessionMoves ==
    ASSUME NEW s \in Sessions,
           NEW p \in {"manifest", "pointer", "on", "drain", "endPointer", "settle"}
    PROVE  /\ [s EXCEPT !.pc = p] \in Sessions
           /\ [s EXCEPT !.pc = p, !.failed = TRUE] \in Sessions
BY Zenon DEF Sessions

LEMMA PassMoves ==
    ASSUME NEW f \in Passes,
           NEW p \in {"read", "open", "upload", "publish", "pointer", "endPointer", "discard"}
    PROVE  /\ [f EXCEPT !.pc = p] \in Passes
           /\ [f EXCEPT !.pc = "next", !.id = NoEvent] \in Passes
BY Zenon DEF Passes

LEMMA StepCases ==
    [Next]_vars =>
        \/ StartNew \/ Resume \/ PutEvent \/ PutManifest \/ PutPointer \/ Capture
        \/ (\E t \in {0, 1} : Uploaded(t)) \/ Heartbeat
        \/ EndBegins \/ EndManifest \/ EndPointer \/ EndSettles
        \/ Scan \/ NextEvent \/ LockWork \/ Read \/ OpenFolder \/ UploadBacklog \/ Waited
        \/ PublishEnd \/ ReadPointer \/ EndLivePointer \/ Discard
        \/ AbandonAsked \/ AbandonLocks \/ AbandonDiscards
        \/ Crash \/ CrashInBegin \/ CrashInEnqueue \/ UNCHANGED vars
BY Zenon DEF Next, SteadyNext, Session, Finisher

LEMMA InitHolds == Init => Inv
<1> SUFFICES ASSUME Init PROVE Inv
    OBVIOUS
<1> USE FinisherAssumption
<1>1. TypeOK
  <2>1. /\ owed \in [Ids -> BOOLEAN] /\ orphan \in [Ids -> BOOLEAN]
        /\ descr \in [Ids -> BOOLEAN] /\ given \in [Ids -> BOOLEAN]
    BY DEF Init
  <2>2. session \in Sessions
    BY RestFacts DEF Init
  <2>3. fin \in Passes
    BY RestFacts DEF Init
  <2>4. pointer \in Pointers
    BY DEF Init, Pointers
  <2> QED BY <2>1, <2>2, <2>3, <2>4 DEF Init, TypeOK
<1>2. Files /\ Seats /\ Named /\ Uploads /\ Endings
    BY DEF Init, Files, Seats, Named, Uploads, Endings, Idle, Sleeping, NoPointer,
           LiveAt, Begun
<1>3. BacklogKept /\ EndingIsTold
    BY DEF Init, BacklogKept, EndingIsTold, Begun
<1> QED BY <1>1, <1>2, <1>3 DEF Inv

LEMMA TypeHolds == Inv /\ [Next]_vars => TypeOK'
<1> SUFFICES ASSUME Inv, [Next]_vars PROVE TypeOK'
    OBVIOUS
<1>0. TypeOK /\ Seats
    BY SMTT(60) DEF Inv
<1>a. \A p \in {"manifest", "pointer", "on", "drain", "endPointer", "settle"} :
        /\ [session EXCEPT !.pc = p] \in Sessions
        /\ [session EXCEPT !.pc = p, !.failed = TRUE] \in Sessions
    BY ZenonT(60), <1>0, SessionMoves DEF TypeOK
<1>b. /\ \A p \in {"read", "open", "upload", "publish", "pointer", "endPointer", "discard"} :
           [fin EXCEPT !.pc = p] \in Passes
      /\ [fin EXCEPT !.pc = "next", !.id = NoEvent] \in Passes
    BY Zenon, <1>0, PassMoves DEF TypeOK
<1>c. session \in Sessions /\ fin \in Passes /\ pointer \in Pointers
    BY <1>0 DEF TypeOK
<1>d. session.pc # "idle" => session.id \in Ids
    BY <1>0 DEF Seats, Begun
<1>e. fin.pc \notin {"sleep", "next"} => fin.id \in Ids
    BY <1>0 DEF Seats, Begun
<1> USE FinisherAssumption, <1>0
<1>1. CASE StartNew
  <2>1. PICK n \in Ids : /\ BeginEvent(n)
                         /\ session' = [pc |-> "event", id |-> n, failed |-> FALSE]
    BY Zenon, <1>1 DEF StartNew
  <2>2. recent' \in [Ids -> Nat]
    BY <2>1, TouchFacts DEF BeginEvent
  <2>3. folder' \in [Ids -> {"none", "open", "ended"}] /\ owed' \in [Ids -> BOOLEAN]
    BY <2>1 DEF BeginEvent, TypeOK
  <2>4. session' \in Sessions
    BY Zenon, <2>1, PointerFacts
  <2> QED BY <1>1, <2>1, <2>2, <2>3, <2>4 DEF StartNew, BeginEvent, store, TypeOK
<1>2. CASE Resume
  <2>1. PICK e \in Ids : /\ session' = [pc |-> "event", id |-> e, failed |-> FALSE]
                         /\ recent' = Touch(e)
    BY Zenon, <1>2 DEF Resume, Open
  <2>2. recent' \in [Ids -> Nat]
    BY <2>1, TouchFacts
  <2>3. session' \in Sessions
    BY Zenon, <2>1, PointerFacts
  <2> QED BY <1>2, <2>2, <2>3 DEF Resume, store, TypeOK
<1>3. CASE PutEvent
  <2>1. descr' \in [Ids -> BOOLEAN]
    BY Zenon, <1>3 DEF PutEvent, TypeOK
  <2>2. session' \in Sessions
    BY <1>3, <1>a, RestFacts DEF PutEvent
  <2> QED BY <1>3, <2>1, <2>2 DEF PutEvent, folders, TypeOK
<1>4. CASE PutManifest \/ EndManifest
  <2>1. session' \in Sessions
    BY <1>4, <1>a DEF PutManifest, EndManifest
  <2>2. man' \in [Ids -> {"none", "live", "ended"}]
    BY <1>4 DEF PutManifest, EndManifest, TypeOK
  <2> QED BY <1>4, <2>1, <2>2 DEF PutManifest, EndManifest, folders, TypeOK
<1>5. CASE PutPointer \/ EndPointer \/ Heartbeat \/ EndBegins
  <2>1. session.id \in Ids
    BY <1>5, <1>d DEF PutPointer, EndPointer, Heartbeat, EndBegins
  <2>2. session' \in Sessions
    BY <1>5, <1>a, <1>c DEF PutPointer, EndPointer, Heartbeat, EndBegins
  <2>3. pointer' \in Pointers
    BY Zenon, <1>5, <1>c, <2>1, PointerFacts DEF PutPointer, EndPointer, Heartbeat, EndBegins, store
  <2> QED BY <1>5, <2>2, <2>3 DEF PutPointer, EndPointer, Heartbeat, EndBegins, folders,
                                  store, TypeOK
<1>6. CASE Capture
  <2>1. session.id \in Ids
    BY <1>6, <1>d DEF Capture
  <2>2. recent' \in [Ids -> Nat]
    BY <1>6, <2>1, TouchFacts DEF Capture
  <2>3. cap' \in [Ids -> 0..Segs] /\ orphan' \in [Ids -> BOOLEAN]
    BY <1>6, <2>1 DEF Capture, TypeOK
  <2> QED BY <1>6, <2>2, <2>3 DEF Capture, store, TypeOK
<1>7. ASSUME NEW t \in {0, 1}, Uploaded(t) PROVE TypeOK'
  <2>1. session.id \in Ids
    BY <1>7, <1>d DEF Uploaded
  <2>2. recent' \in [Ids -> Nat]
    BY <1>7, <2>1, TouchFacts DEF Uploaded
  <2>3. pos' \in [Ids -> [{0, 1} -> 0..Segs]]
    BY <1>7, <2>1 DEF Uploaded, TypeOK
  <2>4. man' \in [Ids -> {"none", "live", "ended"}]
    BY <1>7 DEF Uploaded, TypeOK
  <2>5. pointer' \in Pointers
    BY Zenon, <1>7, <1>c, <2>1, PointerFacts DEF Uploaded
  <2> QED BY <1>7, <2>2, <2>3, <2>4, <2>5 DEF Uploaded, TypeOK
<1>8. CASE EndSettles
  <2>1. session' \in Sessions
    BY <1>8, RestFacts DEF EndSettles
  <2>2. session.failed \in BOOLEAN
    BY <1>c DEF Sessions
  <2>3. folder' \in [Ids -> {"none", "open", "ended"}] /\ owed' \in [Ids -> BOOLEAN]
    BY Zenon, <1>8, <2>2 DEF EndSettles, TypeOK
  <2> QED BY <1>8, <2>1, <2>3 DEF EndSettles, store, TypeOK
<1>9. CASE Scan
  <2>1. fin' \in Passes
    BY Zenon, <1>9 DEF Scan, Sleeping, Passes
  <2>2. folder' \in [Ids -> {"none", "open", "ended"}]
    BY <1>9 DEF Scan, TypeOK
  <2> QED BY <1>9, <2>1, <2>2 DEF Scan, store, TypeOK
<1>10. CASE NextEvent
  <2>1. fin' \in Passes
    <3>1. CASE fin' = Sleeping
      BY <3>1, RestFacts
    <3>2. ASSUME NEW e \in fin.todo, fin' = [pc |-> "lock", todo |-> fin.todo \ {e}, id |-> e]
          PROVE  fin' \in Passes
      BY <3>2, <1>c DEF Passes
    <3> QED BY <1>10, <3>1, <3>2 DEF NextEvent
  <2> QED BY <1>10, <2>1 DEF NextEvent, folders, store, TypeOK
<1>11. CASE LockWork \/ Read \/ Waited \/ ReadPointer
  <2>1. fin' \in Passes
    BY <1>11, <1>b, RestFacts DEF LockWork, Read, Waited, ReadPointer, GiveUp
  <2>2. workLock' \in {"free", "finisher", "operator"}
    BY <1>11 DEF LockWork, Read, Waited, ReadPointer, GiveUp, TypeOK
  <2> QED BY <1>11, <2>1, <2>2 DEF LockWork, Read, Waited, ReadPointer, folders, store, TypeOK
<1>12. CASE OpenFolder
  <2>1. fin' \in Passes /\ session' \in Sessions
    BY <1>12, <1>b, <1>c, RestFacts DEF OpenFolder, Restarts
  <2>2. targets' \in [Ids -> 1..2]
    BY <1>12 DEF OpenFolder, TypeOK
  <2> QED BY <1>12, <2>1, <2>2 DEF OpenFolder, Restarts, store, TypeOK
<1>13. CASE UploadBacklog
  <2>1. fin.id \in Ids
    BY <1>13, <1>e DEF UploadBacklog
  <2>2. recent' \in [Ids -> Nat]
    BY <1>13, <2>1, TouchFacts DEF UploadBacklog
  <2>3. pos' \in [Ids -> [{0, 1} -> 0..Segs]]
    BY <1>13, <2>1 DEF UploadBacklog, TypeOK
  <2>4. man' \in [Ids -> {"none", "live", "ended"}]
    BY <1>13 DEF UploadBacklog, TypeOK
  <2> QED BY <1>13, <2>2, <2>3, <2>4 DEF UploadBacklog, TypeOK
<1>14. CASE PublishEnd
  <2>1. fin' \in Passes
    BY <1>14, <1>b, RestFacts DEF PublishEnd, GiveUp
  <2>2. man' \in [Ids -> {"none", "live", "ended"}] /\ workLock' \in {"free", "finisher", "operator"}
    BY <1>14 DEF PublishEnd, GiveUp, TypeOK
  <2> QED BY <1>14, <2>1, <2>2 DEF PublishEnd, folders, TypeOK
<1>15. CASE EndLivePointer
  <2>1. fin' \in Passes
    BY <1>15, <1>b, RestFacts DEF EndLivePointer, GiveUp
  <2>2. pointer' \in Pointers
    BY Zenon, <1>15, <1>c, <1>e, PointerFacts DEF EndLivePointer
  <2>3. workLock' \in {"free", "finisher", "operator"}
    BY <1>15 DEF EndLivePointer, GiveUp, TypeOK
  <2> QED BY <1>15, <2>1, <2>2, <2>3 DEF EndLivePointer, folders, TypeOK
<1>16. CASE Discard
  <2>1. fin' \in Passes
    BY <1>16, <1>b DEF Discard
  <2>2. folder' \in [Ids -> {"none", "open", "ended"}]
    BY Zenon, <1>16 DEF Discard, TypeOK
  <2> QED BY <1>16, <2>1, <2>2 DEF Discard, store, TypeOK
<1>17. CASE AbandonAsked \/ AbandonLocks
    BY <1>17 DEF AbandonAsked, AbandonLocks, folders, store, TypeOK
<1>18. CASE AbandonDiscards
  <2>1. folder' \in [Ids -> {"none", "open", "ended"}] /\ given' \in [Ids -> BOOLEAN]
    BY <1>18 DEF AbandonDiscards, Finishing, TypeOK
  <2> QED BY <1>18, <2>1 DEF AbandonDiscards, store, TypeOK
<1>19. CASE Crash \/ CrashInBegin \/ CrashInEnqueue
  <2>1. fin' \in Passes /\ session' \in Sessions
    BY <1>19, RestFacts DEF Crash, CrashInBegin, CrashInEnqueue, Dies, Restarts
  <2>2. folder' \in [Ids -> {"none", "open", "ended"}]
    BY <1>19 DEF Crash, CrashInBegin, CrashInEnqueue, EndPrevious, TypeOK
  <2>3. owed' \in [Ids -> BOOLEAN] /\ orphan' \in [Ids -> BOOLEAN]
    BY Zenon, <1>19 DEF Crash, CrashInBegin, CrashInEnqueue, EndPrevious, TypeOK
  <2> QED BY <1>19, <2>1, <2>2, <2>3 DEF Crash, CrashInBegin, CrashInEnqueue, Dies,
                                        Restarts, store, TypeOK
<1>20. CASE UNCHANGED vars
    BY <1>20 DEF vars, folders, store, TypeOK
<1> QED BY Zenon, StepCases, <1>1, <1>2, <1>3, <1>4, <1>5, <1>6, <1>7, <1>8, <1>9, <1>10,
           <1>11, <1>12, <1>13, <1>14, <1>15, <1>16, <1>17, <1>18, <1>19, <1>20
-----------------------------------------------------------------------------
\* Who may be broadcasting after a step.
LEMMA SessionSteps ==
    ASSUME Inv, [Next]_vars, session'.pc # "idle"
    PROVE  \/ \E n \in Ids : /\ Fresh(n) /\ BeginEvent(n)
                             /\ session' = [pc |-> "event", id |-> n, failed |-> FALSE]
           \/ \E e \in Open : /\ session' = [pc |-> "event", id |-> e, failed |-> FALSE]
                              /\ folder' = folder
           \/ session.pc # "idle" /\ session'.id = session.id
<1>0. session \in Sessions
    BY DEF Inv, TypeOK
<1>1. CASE StartNew
    BY Zenon, <1>1 DEF StartNew
<1>2. CASE Resume
    BY Zenon, <1>2 DEF Resume
<1>3. CASE PutEvent \/ PutManifest \/ PutPointer \/ EndBegins
    BY <1>0, <1>3, RestFacts DEF PutEvent, PutManifest, PutPointer, EndBegins, Sessions
<1>4. CASE EndManifest \/ EndPointer
    BY Zenon, <1>0, <1>4 DEF EndManifest, EndPointer, Sessions
<1>5. CASE EndSettles \/ Crash \/ CrashInBegin \/ CrashInEnqueue
    BY <1>5, RestFacts DEF EndSettles, Crash, CrashInBegin, CrashInEnqueue, Dies, Restarts
<1>6. CASE OpenFolder
    BY <1>6, RestFacts DEF OpenFolder, Restarts
<1>7. CASE \/ Capture \/ (\E t \in {0, 1} : Uploaded(t)) \/ Heartbeat
           \/ Scan \/ NextEvent \/ LockWork \/ Read \/ UploadBacklog \/ Waited
           \/ PublishEnd \/ ReadPointer \/ EndLivePointer \/ Discard
           \/ AbandonAsked \/ AbandonLocks \/ AbandonDiscards \/ UNCHANGED vars
  <2>1. session' = session
    BY Zenon, <1>7 DEF Capture, Uploaded, Heartbeat, Scan, NextEvent, LockWork, Read, UploadBacklog,
                Waited, PublishEnd, ReadPointer, EndLivePointer, Discard, AbandonAsked,
                AbandonLocks, AbandonDiscards, vars
  <2> QED BY SMTT(60), <2>1
<1> QED BY Zenon, StepCases, <1>1, <1>2, <1>3, <1>4, <1>5, <1>6, <1>7

\* What the finisher may be at work on after a step.
LEMMA PassSteps ==
    ASSUME Inv, [Next]_vars
    PROVE  /\ \A e \in fin'.todo : e \in fin.todo \/ (e \in Ids /\ folder[e] = "ended")
           /\ fin'.pc \notin {"sleep", "next"} =>
                \/ fin'.id \in fin.todo
                \/ fin.pc \notin {"sleep", "next"} /\ fin'.id = fin.id
           /\ fin'.pc \in {"publish", "pointer", "endPointer", "discard"} =>
                /\ fin'.id = fin.id
                /\ \/ Waited /\ fin.pc = "upload" /\ ~HasFiles(fin.id)
                   \/ fin.pc \in {"publish", "pointer", "endPointer", "discard"}
           /\ fin'.pc \in {"pointer", "endPointer", "discard"} =>
                \/ PublishEnd /\ man' = [man EXCEPT ![fin.id] = "ended"]
                \/ fin.pc \in {"pointer", "endPointer", "discard"}
           /\ fin'.pc = "discard" =>
                \/ fin.pc = "discard"
                \/ /\ fin.pc = "pointer" /\ pointer' = pointer
                   /\ ~(descr[fin.id] /\ pointer = LiveAt(fin.id))
                \/ pointer' = [id |-> fin.id, status |-> "ended"]
<1>0. fin \in Passes
    BY DEF Inv, TypeOK
<1>1. CASE Scan
    BY <1>1 DEF Scan, Sleeping, Finishing
<1>2. CASE NextEvent
    BY <1>2, RestFacts DEF NextEvent
<1>3. CASE LockWork \/ Read
    BY <1>0, <1>3, RestFacts DEF LockWork, Read, GiveUp, Passes
<1>4. CASE OpenFolder
    BY <1>0, <1>4, RestFacts DEF OpenFolder, Restarts, Passes
<1>5. CASE Waited
    BY <1>0, <1>5, RestFacts DEF Waited, GiveUp, Passes
<1>6. CASE PublishEnd
    BY <1>0, <1>6, RestFacts DEF PublishEnd, GiveUp, Passes
<1>7. CASE ReadPointer
    BY <1>0, <1>7, RestFacts DEF ReadPointer, GiveUp, Passes, store, LiveAt
<1>8. CASE EndLivePointer
    BY <1>0, <1>8, RestFacts DEF EndLivePointer, GiveUp, Passes
<1>9. CASE Discard
    BY <1>0, <1>9 DEF Discard, Passes
<1>10. CASE Crash \/ CrashInBegin \/ CrashInEnqueue
    BY <1>10, RestFacts DEF Crash, CrashInBegin, CrashInEnqueue, Dies, Restarts
<1>11. CASE \/ StartNew \/ Resume \/ PutEvent \/ PutManifest \/ PutPointer \/ Capture
            \/ (\E t \in {0, 1} : Uploaded(t)) \/ Heartbeat
            \/ EndBegins \/ EndManifest \/ EndPointer \/ EndSettles \/ UploadBacklog
            \/ AbandonAsked \/ AbandonLocks \/ AbandonDiscards \/ UNCHANGED vars
  <2>1. fin' = fin
    BY Zenon, <1>11 DEF StartNew, Resume, PutEvent, PutManifest, PutPointer, Capture, Uploaded,
                 Heartbeat, EndBegins, EndManifest, EndPointer, EndSettles, UploadBacklog,
                 AbandonAsked, AbandonLocks, AbandonDiscards, vars
  <2> QED BY SMTT(60), <2>1
<1> QED BY Zenon, StepCases, <1>1, <1>2, <1>3, <1>4, <1>5, <1>6, <1>7, <1>8, <1>9, <1>10,
           <1>11

\* Only Go Live with a new event opens a folder, and the folder on air stays.
LEMMA FolderSteps ==
    ASSUME Inv, [Next]_vars, NEW e \in Ids
    PROVE  \/ session.pc = "idle" /\ \E n \in Ids : Fresh(n) /\ BeginEvent(n)
           \/ /\ folder'[e] # "none" => folder[e] # "none"
              /\ folder'[e] = "open" => folder[e] = "open"
              /\ folder[e] = "open" /\ session.pc # "idle" /\ e = session.id =>
                    folder'[e] = "open" \/ session'.pc = "idle"
<1>0. TypeOK /\ Seats
    BY DEF Inv
<1>a. folder \in [Ids -> {"none", "open", "ended"}]
    BY <1>0 DEF TypeOK
<1>1. CASE StartNew
    BY <1>1 DEF StartNew
<1>2. CASE EndSettles
  <2> DEFINE v == IF session.failed \/ HasFiles(session.id) THEN "ended" ELSE "none"
  <2>1. session' = Idle /\ folder' = [folder EXCEPT ![session.id] = v]
    BY <1>2 DEF EndSettles
  <2>2. session'.pc = "idle"
    BY <2>1, RestFacts
  <2>3. folder'[e] = IF e = session.id THEN v ELSE folder[e]
    BY <1>a, <2>1
  <2>4. v \in {"ended", "none"}
    OBVIOUS
  <2>5. folder[session.id] # "none"
    BY <1>0, <1>2 DEF EndSettles, Seats
  <2> HIDE DEF v
  <2> QED BY <2>2, <2>3, <2>4, <2>5
<1>3. CASE Scan
    BY <1>a, <1>3 DEF Scan, Done
<1>4. CASE Discard
    BY <1>0, <1>a, <1>4 DEF Discard, Seats
<1>5. CASE AbandonDiscards
    BY <1>a, <1>5 DEF AbandonDiscards, Finishing
<1>6. CASE CrashInBegin
    BY <1>a, <1>6, RestFacts DEF CrashInBegin, EndPrevious, Dies, Restarts
<1>7. CASE \/ Resume \/ PutEvent \/ PutManifest \/ PutPointer \/ Capture
           \/ (\E t \in {0, 1} : Uploaded(t)) \/ Heartbeat
           \/ EndBegins \/ EndManifest \/ EndPointer
           \/ NextEvent \/ LockWork \/ Read \/ OpenFolder \/ UploadBacklog \/ Waited
           \/ PublishEnd \/ ReadPointer \/ EndLivePointer
           \/ AbandonAsked \/ AbandonLocks \/ Crash \/ CrashInEnqueue \/ UNCHANGED vars
  <2>1. folder' = folder
    BY Zenon, <1>7 DEF Resume, PutEvent, PutManifest, PutPointer, Capture, Uploaded, Heartbeat,
                EndBegins, EndManifest, EndPointer, NextEvent, LockWork, Read, OpenFolder,
                UploadBacklog, Waited, PublishEnd, ReadPointer, EndLivePointer,
                AbandonAsked, AbandonLocks, Crash, CrashInEnqueue, folders, vars
  <2> QED BY SMTT(60), <2>1
<1> QED BY Zenon, StepCases, <1>1, <1>2, <1>3, <1>4, <1>5, <1>6, <1>7

\* No event is forgotten, and only Go Live begins one.
LEMMA BegunSteps ==
    ASSUME Inv, [Next]_vars
    PROVE  /\ Begun \subseteq Begun'
           /\ \A e \in Begun' : e \in Begun \/ (Fresh(e) /\ BeginEvent(e))
<1>0. TypeOK /\ Seats
    BY DEF Inv
<1>a. \A e \in Ids : recent' = Touch(e) =>
         /\ Begun \subseteq Begun'
         /\ \A x \in Begun' : x \in Begun \/ x = e
    BY <1>0, TouchFacts DEF Begun
<1>1. CASE StartNew
    BY SMTT(60), <1>a, <1>1 DEF StartNew, BeginEvent
<1>2. CASE Resume
    BY <1>0, <1>a, <1>2 DEF Resume, Open, Seats, Begun
<1>3. CASE Capture
    BY <1>0, <1>a, <1>3 DEF Capture, Seats, Begun
<1>4. ASSUME NEW t \in {0, 1}, Uploaded(t)
      PROVE  Begun \subseteq Begun' /\ Begun' \subseteq Begun
    BY <1>0, <1>a, <1>4 DEF Uploaded, Seats, Begun
<1>5. CASE UploadBacklog
    BY <1>0, <1>a, <1>5 DEF UploadBacklog, Seats, Begun
<1>6. CASE \/ PutEvent \/ PutManifest \/ PutPointer \/ Heartbeat
           \/ EndBegins \/ EndManifest \/ EndPointer \/ EndSettles
           \/ Scan \/ NextEvent \/ LockWork \/ Read \/ OpenFolder \/ Waited
           \/ PublishEnd \/ ReadPointer \/ EndLivePointer \/ Discard
           \/ AbandonAsked \/ AbandonLocks \/ AbandonDiscards
           \/ Crash \/ CrashInBegin \/ CrashInEnqueue \/ UNCHANGED vars
  <2>1. recent' = recent
    BY Zenon, <1>6 DEF PutEvent, PutManifest, PutPointer, Heartbeat, EndBegins, EndManifest,
                EndPointer, EndSettles, Scan, NextEvent, LockWork, Read, OpenFolder, Waited,
                PublishEnd, ReadPointer, EndLivePointer, Discard, AbandonAsked,
                AbandonLocks, AbandonDiscards, Crash, CrashInBegin, CrashInEnqueue, Dies,
                folders, vars
  <2> QED BY SMTT(60), <2>1 DEF Begun
<1> QED BY Zenon, StepCases, <1>1, <1>2, <1>3, <1>4, <1>5, <1>6

\* An event that has begun and is not open is never opened again: no two events
\* share a folder, and Go Live resumes only the open one.
LEMMA NeverReopened ==
    ASSUME Inv, [Next]_vars, NEW e \in Begun, folder[e] # "open"
    PROVE  folder'[e] # "open"
<1>1. CASE \E n \in Ids : Fresh(n) /\ BeginEvent(n)
    BY <1>1 DEF BeginEvent, Fresh, Begun, Inv, TypeOK
<1>2. CASE folder'[e] = "open" => folder[e] = "open"
    BY <1>2
<1> QED BY <1>1, <1>2, FolderSteps DEF Begun

LEMMA SeatsHold == Inv /\ [Next]_vars => Seats'
<1> SUFFICES ASSUME Inv, [Next]_vars PROVE Seats'
    OBVIOUS
<1>0. TypeOK /\ Seats /\ TypeOK'
    BY TypeHolds DEF Inv
<1>1. (session.pc # "idle" => session.id \in Begun /\ folder[session.id] = "open")'
  <2> SUFFICES ASSUME session'.pc # "idle"
               PROVE  session'.id \in Begun' /\ folder'[session'.id] = "open"
    OBVIOUS
  <2>1. ASSUME NEW n \in Ids, Fresh(n), BeginEvent(n),
               session' = [pc |-> "event", id |-> n, failed |-> FALSE]
        PROVE  session'.id \in Begun' /\ folder'[session'.id] = "open"
    BY <1>0, <2>1, TouchFacts DEF BeginEvent, Begun
  <2>2. ASSUME NEW e \in Open, session' = [pc |-> "event", id |-> e, failed |-> FALSE],
               folder' = folder
        PROVE  session'.id \in Begun' /\ folder'[session'.id] = "open"
    BY <1>0, <2>2, BegunSteps DEF Seats, Open
  <2>3. CASE session.pc # "idle" /\ session'.id = session.id
    <3>1. session.id \in Begun /\ session.id \in Ids /\ folder[session.id] = "open"
      BY <1>0, <2>3 DEF Seats, Begun
    <3>2. session.id \in Begun'
      BY <3>1, BegunSteps
    <3>3. folder'[session.id] = "open"
      BY <2>3, <3>1, FolderSteps
    <3> QED BY <2>3, <3>2, <3>3
  <2> QED BY <2>1, <2>2, <2>3, SessionSteps
<1>2. \A e \in Ids : folder'[e] # "none" => e \in Begun'
  <2> TAKE e \in Ids
  <2>1. ASSUME NEW n \in Ids, Fresh(n), BeginEvent(n)
        PROVE  folder'[e] # "none" => e \in Begun'
    <3>1. folder'[e] # "none" => e = n \/ folder[e] # "none"
      BY <2>1 DEF BeginEvent
    <3>2. n \in Begun'
      BY <1>0, <2>1, TouchFacts DEF BeginEvent, Begun
    <3> QED BY <1>0, <3>1, <3>2, BegunSteps DEF Seats
  <2>2. CASE folder'[e] # "none" => folder[e] # "none"
    BY <1>0, <2>2, BegunSteps DEF Seats
  <2> QED BY <2>1, <2>2, FolderSteps
<1>3. \A e \in fin'.todo : e \in Begun' /\ folder'[e] # "open"
  <2> TAKE e \in fin'.todo
  <2>1. e \in Begun /\ folder[e] # "open"
    BY <1>0, PassSteps DEF Seats
  <2> QED BY <2>1, NeverReopened, BegunSteps
<1>4. (fin.pc \notin {"sleep", "next"} => fin.id \in Begun /\ folder[fin.id] # "open")'
  <2> SUFFICES ASSUME fin'.pc \notin {"sleep", "next"}
               PROVE  fin'.id \in Begun' /\ folder'[fin'.id] # "open"
    OBVIOUS
  <2>1. fin'.id \in Begun /\ folder[fin'.id] # "open"
    BY <1>0, PassSteps DEF Seats
  <2> QED BY <2>1, NeverReopened, BegunSteps
<1> QED BY <1>1, <1>2, <1>3, <1>4 DEF Seats
-----------------------------------------------------------------------------
\* What the folders hold changes only for the open one and the one the finisher
\* uploads, and never past what was captured.
LEMMA CountSteps ==
    ASSUME Inv, [Next]_vars, NEW e \in Ids
    PROVE  /\ pos'[e][0] <= cap'[e]
           /\ folder[e] # "open" /\ pos[e][0] = cap[e] => pos'[e][0] = cap'[e]
<1>0. TypeOK /\ Seats /\ Files
    BY DEF Inv
<1>a. /\ pos[e][0] \in Int /\ cap[e] \in Int /\ pos[e][0] <= cap[e]
      /\ cap \in [Ids -> 0..Segs] /\ pos \in [Ids -> [{0, 1} -> 0..Segs]]
    BY <1>0, FinisherAssumption DEF TypeOK, Files
<1>1. CASE Capture
  <2>1. session.id \in Ids /\ folder[session.id] = "open"
    BY <1>0, <1>1 DEF Capture, Seats, Begun
  <2> QED BY <1>a, <1>1, <2>1 DEF Capture
<1>2. ASSUME NEW t \in {0, 1}, Uploaded(t)
      PROVE  /\ pos'[e][0] <= cap'[e]
             /\ folder[e] # "open" /\ pos[e][0] = cap[e] => pos'[e][0] = cap'[e]
  <2>1. session.id \in Ids /\ folder[session.id] = "open"
    BY <1>0, <1>2 DEF Uploaded, Seats, Begun
  <2>2. /\ pos[session.id][t] < cap[session.id] /\ cap' = cap
        /\ pos' = [pos EXCEPT ![session.id][t] = @ + 1]
    BY <1>2 DEF Uploaded
  <2>3. CASE e # session.id
    BY <1>a, <2>1, <2>2, <2>3
  <2>4. CASE e = session.id
    BY <1>a, <2>1, <2>2, <2>4
  <2> QED BY <2>3, <2>4
<1>3. CASE UploadBacklog
  <2>1. fin.id \in Ids
    BY <1>0, <1>3 DEF UploadBacklog, Seats, Begun
  <2>2. /\ pos[fin.id][0] < cap[fin.id] /\ cap' = cap
        /\ pos' = [pos EXCEPT ![fin.id][0] = @ + 1]
    BY <1>3 DEF UploadBacklog
  <2> QED BY <1>a, <2>1, <2>2
<1>4. CASE \/ StartNew \/ Resume \/ PutEvent \/ PutManifest \/ PutPointer \/ Heartbeat
           \/ EndBegins \/ EndManifest \/ EndPointer \/ EndSettles
           \/ Scan \/ NextEvent \/ LockWork \/ Read \/ OpenFolder \/ Waited
           \/ PublishEnd \/ ReadPointer \/ EndLivePointer \/ Discard
           \/ AbandonAsked \/ AbandonLocks \/ AbandonDiscards
           \/ Crash \/ CrashInBegin \/ CrashInEnqueue \/ UNCHANGED vars
  <2>1. pos' = pos /\ cap' = cap
    BY Zenon, <1>4 DEF StartNew, BeginEvent, Resume, PutEvent, PutManifest, PutPointer, Heartbeat,
                EndBegins, EndManifest, EndPointer, EndSettles, Scan, NextEvent, LockWork,
                Read, OpenFolder, Waited, PublishEnd, ReadPointer, EndLivePointer, Discard,
                AbandonAsked, AbandonLocks, AbandonDiscards, Crash, CrashInBegin,
                CrashInEnqueue, Dies, folders, vars
  <2> QED BY SMTT(60), <1>a, <2>1
<1> QED BY Zenon, StepCases, <1>1, <1>2, <1>3, <1>4

\* The bucket is told of an event that is not open only that it has ended.
LEMMA StoreSteps ==
    ASSUME Inv, [Next]_vars, NEW e \in Ids, folder[e] # "open"
    PROVE  /\ man'[e] \in {man[e], "ended"}
           /\ pointer # LiveAt(e) => pointer' # LiveAt(e)
<1>0. TypeOK /\ Seats
    BY DEF Inv
<1>a. man \in [Ids -> {"none", "live", "ended"}]
    BY <1>0 DEF TypeOK
<1>b. session.pc # "idle" => session.id # e
    BY <1>0 DEF Seats
<1>c. \A x : [id |-> x, status |-> "ended"] # LiveAt(e)
    BY DEF LiveAt
<1>d. \A x : x # e => [id |-> x, status |-> "live"] # LiveAt(e)
    BY DEF LiveAt
<1>1. CASE PutManifest \/ EndManifest
    BY <1>a, <1>b, <1>1 DEF PutManifest, EndManifest
<1>2. CASE PutPointer \/ Heartbeat \/ EndPointer
    BY <1>b, <1>c, <1>d, <1>2 DEF PutPointer, Heartbeat, EndPointer
<1>3. ASSUME NEW t \in {0, 1}, Uploaded(t)
      PROVE  man'[e] = man[e] /\ (pointer # LiveAt(e) => pointer' # LiveAt(e))
    BY <1>a, <1>b, <1>d, <1>3 DEF Uploaded
<1>4. CASE UploadBacklog \/ PublishEnd
    BY <1>a, <1>4 DEF UploadBacklog, PublishEnd
<1>5. CASE EndLivePointer
    BY <1>c, <1>5 DEF EndLivePointer
<1>6. CASE \/ StartNew \/ Resume \/ PutEvent \/ Capture \/ EndBegins \/ EndSettles
           \/ Scan \/ NextEvent \/ LockWork \/ Read \/ OpenFolder \/ Waited
           \/ ReadPointer \/ Discard
           \/ AbandonAsked \/ AbandonLocks \/ AbandonDiscards
           \/ Crash \/ CrashInBegin \/ CrashInEnqueue \/ UNCHANGED vars
  <2>1. man' = man /\ pointer' = pointer
    BY Zenon, <1>6 DEF StartNew, Resume, PutEvent, Capture, EndBegins, EndSettles, Scan, NextEvent,
                LockWork, Read, OpenFolder, Waited, ReadPointer, Discard, AbandonAsked,
                AbandonLocks, AbandonDiscards, Crash, CrashInBegin, CrashInEnqueue, Dies,
                store, vars
  <2> QED BY SMTT(60), <2>1
<1> QED BY Zenon, StepCases, <1>1, <1>2, <1>3, <1>4, <1>5, <1>6

\* event.json stays, and what is captured into or points to an event has one.
LEMMA NamedHolds == Inv /\ [Next]_vars => Named'
<1> SUFFICES ASSUME Inv, [Next]_vars PROVE Named'
    OBVIOUS
<1>0. TypeOK /\ Seats /\ Named
    BY DEF Inv
<1>a. session \in Sessions /\ descr \in [Ids -> BOOLEAN]
    BY <1>0 DEF TypeOK
<1>1. CASE PutEvent
  <2>1. session.pc = "event" /\ session.id \in Ids
    BY <1>0, <1>1 DEF PutEvent, Seats, Begun
  <2>2. \A e \in Ids : descr[e] => descr'[e]
    BY <1>a, <1>1, <2>1 DEF PutEvent
  <2>3. session'.pc \in {"manifest", "pointer", "on"} => descr'[session'.id]
    <3>1. CASE /\ descr' = [descr EXCEPT ![session.id] = TRUE]
               /\ session' = [session EXCEPT !.pc = "manifest"]
      BY <1>a, <2>1, <3>1 DEF Sessions
    <3>2. CASE session' \in {Idle, [session EXCEPT !.pc = "drain"]}
      BY <1>a, <3>2, RestFacts DEF Sessions
    <3> QED BY <1>1, <3>1, <3>2 DEF PutEvent
  <2> QED BY <1>0, <1>1, <2>2, <2>3 DEF PutEvent, Named, folders
<1>2. CASE PutManifest \/ EndBegins
    BY <1>0, <1>a, <1>2 DEF PutManifest, EndBegins, Named, folders, store, Sessions
<1>3. CASE PutPointer
  <2>1. /\ descr[session.id] /\ session' = [session EXCEPT !.pc = "on"]
        /\ pointer' = pointer \/ pointer' = LiveAt(session.id)
        /\ UNCHANGED <<descr, cap>>
    BY <1>0, <1>3 DEF PutPointer, Named, folders, LiveAt
  <2>2. session'.id = session.id
    BY <1>a, <2>1 DEF Sessions
  <2>3. \A e : LiveAt(session.id) = LiveAt(e) => e = session.id
    BY DEF LiveAt
  <2> QED BY <1>0, <2>1, <2>2, <2>3 DEF Named
<1>4. CASE EndManifest
  <2>1. session'.pc = "endPointer" /\ UNCHANGED <<descr, cap, pointer>>
    BY Zenon, <1>a, <1>4 DEF EndManifest, folders, Sessions
  <2> QED BY <1>0, <2>1 DEF Named
<1>5. CASE EndPointer
  <2>1. session'.pc = "settle" /\ UNCHANGED <<descr, cap>>
    BY Zenon, <1>a, <1>5 DEF EndPointer, folders, Sessions
  <2>2. \A e : pointer' = LiveAt(e) => pointer = LiveAt(e)
    BY <1>5 DEF EndPointer, LiveAt
  <2> QED BY <1>0, <2>1, <2>2 DEF Named
<1>6. CASE Capture
  <2>1. /\ session.pc = "on" /\ session' = session /\ UNCHANGED <<descr, pointer>>
        /\ cap' = [cap EXCEPT ![session.id] = @ + 1]
    BY <1>6 DEF Capture, store
  <2>2. \A e \in Ids : e # session.id => cap'[e] = cap[e]
    BY SMTT(60), <1>0, <2>1 DEF TypeOK
  <2> QED BY <1>0, <2>1, <2>2 DEF Named
<1>7. ASSUME NEW t \in {0, 1}, Uploaded(t) PROVE Named'
  <2>1. session.id \in Ids
    BY <1>0, <1>7 DEF Uploaded, Seats, Begun
  <2>2. cap[session.id] > 0
    BY <1>0, <1>7, <2>1, FinisherAssumption DEF Uploaded, TypeOK
  <2>3. /\ pointer' \in {pointer, LiveAt(session.id)}
        /\ UNCHANGED <<session, cap, descr>>
    BY <1>7 DEF Uploaded, LiveAt
  <2>4. \A e : LiveAt(session.id) = LiveAt(e) => e = session.id
    BY DEF LiveAt
  <2> QED BY <1>0, <2>1, <2>2, <2>3, <2>4 DEF Named
<1>8. CASE Heartbeat
  <2>1. /\ pointer' = LiveAt(session.id) /\ session.pc = "on"
        /\ UNCHANGED <<session, cap, descr>>
    BY <1>8 DEF Heartbeat, LiveAt, folders
  <2>2. \A e : LiveAt(session.id) = LiveAt(e) => e = session.id
    BY DEF LiveAt
  <2> QED BY <1>0, <2>1, <2>2 DEF Named
<1>9. CASE EndLivePointer
  <2>1. \A e : pointer' = LiveAt(e) => pointer = LiveAt(e)
    BY <1>9 DEF EndLivePointer, LiveAt
  <2> QED BY <1>0, <1>9, <2>1 DEF EndLivePointer, Named, folders
<1>10. CASE \/ StartNew \/ Resume \/ EndSettles \/ OpenFolder
            \/ Crash \/ CrashInBegin \/ CrashInEnqueue
  <2>1. session' = session \/ session'.pc \notin {"manifest", "pointer", "on"}
    <3>1. CASE StartNew \/ Resume \/ EndSettles
      BY <3>1, RestFacts DEF StartNew, BeginEvent, Resume, EndSettles
    <3>2. CASE OpenFolder \/ Crash \/ CrashInBegin \/ CrashInEnqueue
      BY <3>2, RestFacts DEF OpenFolder, Crash, CrashInBegin, CrashInEnqueue, Dies, Restarts
    <3> QED BY Zenon, <1>10, <3>1, <3>2
  <2>2. UNCHANGED <<cap, store>>
    BY Zenon, <1>10 DEF StartNew, BeginEvent, Resume, EndSettles, OpenFolder, Crash,
            CrashInBegin, CrashInEnqueue, Dies, Restarts
  <2> QED BY <1>0, <2>1, <2>2 DEF Named, store
<1>11. CASE \/ Scan \/ NextEvent \/ LockWork \/ Read \/ UploadBacklog \/ Waited
            \/ PublishEnd \/ ReadPointer \/ Discard
            \/ AbandonAsked \/ AbandonLocks \/ AbandonDiscards \/ UNCHANGED vars
  <2>1. UNCHANGED <<session, cap, descr, pointer>>
    BY Zenon, <1>11 DEF Scan, NextEvent, LockWork, Read, UploadBacklog, Waited, PublishEnd,
            ReadPointer, Discard, AbandonAsked, AbandonLocks, AbandonDiscards, folders,
            store, vars
  <2> QED BY <1>0, <2>1 DEF Named
<1> QED BY Zenon, StepCases, <1>1, <1>2, <1>3, <1>4, <1>5, <1>6, <1>7, <1>8, <1>9, <1>10,
           <1>11

LEMMA UploadsHold == Inv /\ [Next]_vars => Uploads'
<1> SUFFICES ASSUME Inv, [Next]_vars,
                    fin'.pc \in {"publish", "pointer", "endPointer", "discard"}
             PROVE  pos'[fin'.id][0] = cap'[fin'.id]
    BY DEF Uploads
<1>0. TypeOK /\ Seats /\ Files /\ Uploads
    BY DEF Inv
<1>1. fin'.id = fin.id /\ fin.pc \notin {"sleep", "next"}
    BY PassSteps
<1>2. fin.id \in Ids /\ folder[fin.id] # "open"
    BY <1>0, <1>1 DEF Seats, Begun
<1>3. pos[fin.id][0] = cap[fin.id]
    BY <1>0, <1>2, PassSteps, NoFiles DEF Uploads
<1> QED BY <1>1, <1>2, <1>3, CountSteps
-----------------------------------------------------------------------------
\* An ending that is not owed was not owed before, or end() has just told it.
LEMMA OwedSteps ==
    ASSUME Inv, [Next]_vars, NEW e \in Ids, folder'[e] = "ended", ~owed'[e]
    PROVE  \/ folder[e] = "ended" /\ ~owed[e]
           \/ /\ session.pc = "settle" /\ e = session.id /\ ~session.failed
              /\ UNCHANGED <<man, pointer>>
<1>0. folder \in [Ids -> {"none", "open", "ended"}] /\ owed \in [Ids -> BOOLEAN]
    BY DEF Inv, TypeOK
<1>1. CASE StartNew
    BY Zenon, <1>0, <1>1 DEF StartNew, BeginEvent
<1>2. CASE EndSettles
    BY <1>0, <1>2 DEF EndSettles, store
<1>3. CASE Scan
    BY <1>0, <1>3 DEF Scan
<1>4. CASE Discard
    BY <1>0, <1>4 DEF Discard
<1>5. CASE AbandonDiscards
    BY <1>0, <1>5 DEF AbandonDiscards
<1>6. CASE CrashInBegin
    BY Zenon, <1>0, <1>6 DEF CrashInBegin, EndPrevious
<1>7. CASE \/ Resume \/ PutEvent \/ PutManifest \/ PutPointer \/ Capture
           \/ (\E t \in {0, 1} : Uploaded(t)) \/ Heartbeat
           \/ EndBegins \/ EndManifest \/ EndPointer
           \/ NextEvent \/ LockWork \/ Read \/ OpenFolder \/ UploadBacklog \/ Waited
           \/ PublishEnd \/ ReadPointer \/ EndLivePointer
           \/ AbandonAsked \/ AbandonLocks \/ Crash \/ CrashInEnqueue \/ UNCHANGED vars
  <2>1. folder' = folder /\ owed' = owed
    BY Zenon, <1>7 DEF Resume, PutEvent, PutManifest, PutPointer, Capture, Uploaded, Heartbeat,
                EndBegins, EndManifest, EndPointer, NextEvent, LockWork, Read, OpenFolder,
                UploadBacklog, Waited, PublishEnd, ReadPointer, EndLivePointer,
                AbandonAsked, AbandonLocks, Crash, CrashInEnqueue, folders, vars
  <2> QED BY SMTT(60), <2>1
<1> QED BY Zenon, StepCases, <1>1, <1>2, <1>3, <1>4, <1>5, <1>6, <1>7

\* A folder that goes was uploaded and its ending told, or was given up.
LEMMA RemovalSteps ==
    ASSUME Inv, [Next]_vars, NEW e \in Ids, folder[e] # "none", folder'[e] = "none",
           ~given'[e]
    PROVE  /\ pos[e][0] = cap[e] /\ man[e] = "ended" /\ pointer # LiveAt(e)
           /\ UNCHANGED <<pos, cap, man, pointer>>
<1>0. TypeOK /\ Files /\ Seats /\ Uploads /\ Endings
    BY DEF Inv
<1>a. folder \in [Ids -> {"none", "open", "ended"}] /\ given \in [Ids -> BOOLEAN]
    BY <1>0 DEF TypeOK
<1>1. CASE EndSettles
  <2>1. e = session.id /\ ~session.failed /\ ~HasFiles(e) /\ session.pc = "settle"
    BY <1>a, <1>1 DEF EndSettles
  <2>2. UNCHANGED <<pos, cap, man, pointer>>
    BY <1>1 DEF EndSettles, store
  <2> QED BY <1>0, <2>1, <2>2, NoFiles DEF Endings
<1>2. CASE Scan
  <2>1. Done(e) /\ UNCHANGED <<pos, cap, man, pointer>>
    BY <1>a, <1>2 DEF Scan, store
  <2> QED BY <1>0, <2>1, NoFiles DEF Done, Endings
<1>3. CASE Discard
  <2>1. e = fin.id /\ fin.pc = "discard" /\ UNCHANGED <<pos, cap, man, pointer>>
    BY <1>a, <1>3 DEF Discard, store
  <2> QED BY <1>0, <2>1 DEF Uploads, Endings
<1>4. CASE AbandonDiscards
    BY Zenon, <1>a, <1>4 DEF AbandonDiscards
<1>5. CASE StartNew
    BY SMTT(60), <1>a, <1>5 DEF StartNew, BeginEvent
<1>6. CASE CrashInBegin
    BY <1>a, <1>6 DEF CrashInBegin, EndPrevious
<1>7. CASE \/ Resume \/ PutEvent \/ PutManifest \/ PutPointer \/ Capture
           \/ (\E t \in {0, 1} : Uploaded(t)) \/ Heartbeat
           \/ EndBegins \/ EndManifest \/ EndPointer
           \/ NextEvent \/ LockWork \/ Read \/ OpenFolder \/ UploadBacklog \/ Waited
           \/ PublishEnd \/ ReadPointer \/ EndLivePointer
           \/ AbandonAsked \/ AbandonLocks \/ Crash \/ CrashInEnqueue \/ UNCHANGED vars
  <2>1. folder' = folder
    BY Zenon, <1>7 DEF Resume, PutEvent, PutManifest, PutPointer, Capture, Uploaded, Heartbeat,
                EndBegins, EndManifest, EndPointer, NextEvent, LockWork, Read, OpenFolder,
                UploadBacklog, Waited, PublishEnd, ReadPointer, EndLivePointer,
                AbandonAsked, AbandonLocks, Crash, CrashInEnqueue, folders, vars
  <2> QED BY SMTT(60), <2>1
<1> QED BY Zenon, StepCases, <1>1, <1>2, <1>3, <1>4, <1>5, <1>6, <1>7

\* Giving an event up is for good.
LEMMA GivenSteps ==
    ASSUME Inv, [Next]_vars, NEW e \in Ids, given[e]
    PROVE  given'[e]
<1>1. CASE AbandonDiscards
    BY Zenon, <1>1 DEF AbandonDiscards
<1>2. CASE \/ StartNew \/ Resume \/ PutEvent \/ PutManifest \/ PutPointer \/ Capture
           \/ (\E t \in {0, 1} : Uploaded(t)) \/ Heartbeat
           \/ EndBegins \/ EndManifest \/ EndPointer \/ EndSettles
           \/ Scan \/ NextEvent \/ LockWork \/ Read \/ OpenFolder \/ UploadBacklog \/ Waited
           \/ PublishEnd \/ ReadPointer \/ EndLivePointer \/ Discard
           \/ AbandonAsked \/ AbandonLocks
           \/ Crash \/ CrashInBegin \/ CrashInEnqueue \/ UNCHANGED vars
  <2>1. given' = given
    BY Zenon, <1>2 DEF StartNew, Resume, PutEvent, PutManifest, PutPointer, Capture, Uploaded,
                Heartbeat, EndBegins, EndManifest, EndPointer, EndSettles, Scan, NextEvent,
                LockWork, Read, OpenFolder, UploadBacklog, Waited, PublishEnd, ReadPointer,
                EndLivePointer, Discard, AbandonAsked, AbandonLocks, Crash, CrashInBegin,
                CrashInEnqueue, Dies, vars
  <2> QED BY SMTT(60), <2>1
<1> QED BY Zenon, StepCases, <1>1, <1>2

\* The session's half of Endings.
LEMMA SessionEndings ==
    ASSUME Inv, [Next]_vars, session'.pc \in {"endPointer", "settle"}, ~session'.failed
    PROVE  /\ man'[session'.id] = "ended"
           /\ session'.pc = "settle" => pointer' # LiveAt(session'.id)
<1>0. TypeOK /\ Seats /\ Endings
    BY DEF Inv
<1>a. session \in Sessions /\ man \in [Ids -> {"none", "live", "ended"}]
    BY <1>0 DEF TypeOK
<1>b. session.pc # "idle" => session.id \in Ids
    BY <1>0 DEF Seats, Begun
<1>1. CASE EndManifest
  <2>1. CASE /\ man' = [man EXCEPT ![session.id] = "ended"]
             /\ session' = [session EXCEPT !.pc = "endPointer"]
    BY <1>a, <1>b, <1>1, <2>1 DEF Sessions, EndManifest
  <2>2. CASE session' = [session EXCEPT !.pc = "endPointer", !.failed = TRUE]
    BY <1>a, <2>2 DEF Sessions
  <2> QED BY <1>1, <2>1, <2>2 DEF EndManifest
<1>2. CASE EndPointer
  <2>1. CASE /\ pointer' = [id |-> session.id, status |-> "ended"]
             /\ session' = [session EXCEPT !.pc = "settle"]
    <3>1. session'.id = session.id /\ ~session.failed
      BY <1>a, <2>1 DEF Sessions
    <3>2. man' = man /\ session.pc = "endPointer"
      BY <1>2 DEF EndPointer
    <3>3. pointer' # LiveAt(session.id)
      BY <2>1 DEF LiveAt
    <3> QED BY <1>0, <3>1, <3>2, <3>3 DEF Endings
  <2>2. CASE session' = [session EXCEPT !.pc = "settle", !.failed = TRUE]
    BY <1>a, <2>2 DEF Sessions
  <2> QED BY <1>2, <2>1, <2>2 DEF EndPointer
<1>3. CASE PutEvent \/ PutManifest \/ PutPointer \/ EndBegins
  <2>1. CASE PutEvent
    BY <1>a, <2>1, RestFacts DEF PutEvent, Sessions
  <2>2. CASE PutManifest
    BY <1>a, <2>2, RestFacts DEF PutManifest, Sessions
  <2>3. CASE PutPointer
    BY <1>a, <2>3, RestFacts DEF PutPointer, Sessions
  <2>4. CASE EndBegins
    BY <1>a, <2>4, RestFacts DEF EndBegins, Sessions
  <2> QED BY <1>3, <2>1, <2>2, <2>3, <2>4
<1>4. CASE StartNew \/ Resume \/ EndSettles \/ Crash \/ CrashInBegin \/ CrashInEnqueue
  <2>1. CASE StartNew
    BY <2>1, RestFacts DEF StartNew
  <2>2. CASE Resume
    BY <2>2, RestFacts DEF Resume
  <2>3. CASE EndSettles
    BY <2>3, RestFacts DEF EndSettles, Restarts
  <2>4. CASE Crash
    BY <2>4, RestFacts DEF Crash, Dies, Restarts
  <2>5. CASE CrashInBegin
    BY <2>5, RestFacts DEF CrashInBegin, Dies, Restarts
  <2>6. CASE CrashInEnqueue
    BY <2>6, RestFacts DEF CrashInEnqueue, Dies, Restarts
  <2> QED BY <1>4, <2>1, <2>2, <2>3, <2>4, <2>5, <2>6
<1>5. CASE OpenFolder
    BY SMTT(60), <1>0, <1>5, RestFacts DEF OpenFolder, Restarts, Endings, store
<1>6. CASE Capture \/ (\E t \in {0, 1} : Uploaded(t)) \/ Heartbeat
    BY <1>6 DEF Capture, Uploaded, Heartbeat
<1>7. CASE UploadBacklog \/ PublishEnd
  <2>1. \A x \in Ids : man[x] = "ended" => man'[x] = "ended"
    BY <1>a, <1>7 DEF UploadBacklog, PublishEnd
  <2>2. UNCHANGED <<session, pointer>>
    BY <1>7 DEF UploadBacklog, PublishEnd
  <2> QED BY <1>0, <1>b, <2>1, <2>2 DEF Endings
<1>8. CASE EndLivePointer
  <2>1. \A e : pointer' = LiveAt(e) => pointer = LiveAt(e)
    BY <1>8 DEF EndLivePointer, LiveAt
  <2>2. UNCHANGED <<session, man>>
    BY <1>8 DEF EndLivePointer
  <2> QED BY <1>0, <2>1, <2>2 DEF Endings
<1>9. CASE \/ Scan \/ NextEvent \/ LockWork \/ Read \/ Waited \/ ReadPointer \/ Discard
           \/ AbandonAsked \/ AbandonLocks \/ AbandonDiscards \/ UNCHANGED vars
  <2>1. UNCHANGED <<session, man, pointer>>
    BY Zenon, <1>9 DEF Scan, NextEvent, LockWork, Read, Waited, ReadPointer, Discard, AbandonAsked,
            AbandonLocks, AbandonDiscards, store, vars
  <2> QED BY <1>0, <2>1 DEF Endings
<1> QED BY Zenon, StepCases, <1>1, <1>2, <1>3, <1>4, <1>5, <1>6, <1>7, <1>8, <1>9

LEMMA EndingsHold == Inv /\ [Next]_vars => Endings'
<1> SUFFICES ASSUME Inv, [Next]_vars PROVE Endings'
    OBVIOUS
<1>0. TypeOK /\ Seats /\ Named /\ Endings
    BY DEF Inv
<1>a. fin.pc \notin {"sleep", "next"} => fin.id \in Ids /\ folder[fin.id] # "open"
    BY <1>0 DEF Seats, Begun
<1>1. (fin.pc \in {"pointer", "endPointer", "discard"} => man[fin.id] = "ended")'
  <2> SUFFICES ASSUME fin'.pc \in {"pointer", "endPointer", "discard"}
               PROVE  man'[fin'.id] = "ended"
    OBVIOUS
  <2>1. /\ fin'.id = fin.id /\ fin.pc \notin {"sleep", "next"}
        /\ \/ man' = [man EXCEPT ![fin.id] = "ended"]
           \/ fin.pc \in {"pointer", "endPointer", "discard"}
    BY PassSteps
  <2>2. CASE man' = [man EXCEPT ![fin.id] = "ended"]
    BY <1>0, <1>a, <2>1, <2>2 DEF TypeOK
  <2>3. CASE fin.pc \in {"pointer", "endPointer", "discard"}
    <3>1. man[fin.id] = "ended"
      BY <1>0, <2>3 DEF Endings
    <3> QED BY <1>a, <2>1, <3>1, StoreSteps
  <2> QED BY <2>1, <2>2, <2>3
<1>2. (fin.pc = "discard" => pointer # LiveAt(fin.id))'
  <2> SUFFICES ASSUME fin'.pc = "discard" PROVE pointer' # LiveAt(fin'.id)
    BY SMTT(60) DEF LiveAt
  <2>1. fin'.id = fin.id /\ fin.pc \notin {"sleep", "next"}
    BY PassSteps
  <2>2. CASE fin.pc = "discard"
    <3>1. pointer # LiveAt(fin.id)
      BY <1>0, <2>2 DEF Endings
    <3> QED BY <1>a, <2>1, <3>1, StoreSteps
  <2>3. CASE pointer' = pointer /\ ~(descr[fin.id] /\ pointer = LiveAt(fin.id))
    BY <1>0, <1>a, <2>1, <2>3 DEF Named
  <2>4. CASE pointer' = [id |-> fin.id, status |-> "ended"]
    BY <2>1, <2>4 DEF LiveAt
  <2> QED BY <2>2, <2>3, <2>4, PassSteps
<1>3. ASSUME NEW e \in Ids, folder'[e] = "ended", ~owed'[e]
      PROVE  man'[e] = "ended" /\ pointer' # LiveAt(e)
  <2>1. CASE folder[e] = "ended" /\ ~owed[e]
    <3>1. man[e] = "ended" /\ pointer # LiveAt(e)
      BY <1>0, <2>1 DEF Endings
    <3> QED BY <2>1, <3>1, StoreSteps
  <2>2. CASE /\ session.pc = "settle" /\ e = session.id /\ ~session.failed
             /\ UNCHANGED <<man, pointer>>
    BY <1>0, <2>2 DEF Endings
  <2> QED BY <1>3, <2>1, <2>2, OwedSteps
<1> QED BY <1>1, <1>2, <1>3, SessionEndings DEF Endings, LiveAt

\* What is gone was uploaded and told.
LEMMA GoneHolds == Inv /\ [Next]_vars => BacklogKept' /\ EndingIsTold'
<1> SUFFICES ASSUME Inv, [Next]_vars, NEW e \in Begun', folder'[e] = "none", ~given'[e]
             PROVE  /\ pos'[e][0] = cap'[e] /\ man'[e] = "ended"
                    /\ pointer' # LiveAt(e)
    BY DEF BacklogKept, EndingIsTold, LiveAt
<1>0. TypeOK /\ BacklogKept /\ EndingIsTold
    BY DEF Inv
<1>1. e \in Begun /\ e \in Ids
    BY SMTT(60), <1>0, BegunSteps DEF BeginEvent, Begun
<1>2. CASE folder[e] = "none"
  <2>1. ~given[e]
    BY <1>1, GivenSteps
  <2>2. pos[e][0] = cap[e] /\ man[e] = "ended" /\ pointer # LiveAt(e)
    BY <1>0, <1>1, <1>2, <2>1 DEF BacklogKept, EndingIsTold, LiveAt
  <2> QED BY <1>1, <1>2, <2>2, CountSteps, StoreSteps
<1>3. CASE folder[e] # "none"
    BY <1>1, <1>3, RemovalSteps
<1> QED BY <1>2, <1>3

LEMMA InvHolds == Spec => []Inv
<1>1. Inv /\ [Next]_vars => Inv'
  <2>1. Inv /\ [Next]_vars => Files'
    BY CountSteps DEF Files
  <2> QED BY <2>1, TypeHolds, SeatsHold, NamedHolds, UploadsHold, EndingsHold, GoneHolds
          DEF Inv
<1> QED BY <1>1, InitHolds, PTL DEF Spec
-----------------------------------------------------------------------------
\* "A new event never deletes an old one's backlog" (spool_queue.h): whoever
\* removes a folder (end(), a pass of the finisher, its sweep of finished ones),
\* and whatever was on air or crashed meanwhile, the primary bucket has every
\* segment captured into it, unless the operator gave it up.
THEOREM NoBacklogIsDeleted == Spec => []BacklogKept
BY InvHolds, PTL DEF Inv

\* The ending that end() could not write is owed until the finisher has written
\* it: when a folder is gone, neither the manifest nor live.json says "live" of
\* its event, though the two are written by different threads and may fail apart.
THEOREM EveryEndingIsTold == Spec => []EndingIsTold
BY InvHolds, PTL DEF Inv

\* An event whose folder is not open is never opened again, by any thread: what
\* the division of labour between the session and the finisher rests on.
THEOREM EventsEndForGood ==
    Spec => [][\A e \in Begun : folder[e] # "open" => folder'[e] # "open"]_vars
<1>1. Inv /\ [Next]_vars =>
        [\A e \in Begun : folder[e] # "open" => folder'[e] # "open"]_vars
    BY NeverReopened
<1> QED BY <1>1, InvHolds, PTL DEF Spec
=============================================================================
