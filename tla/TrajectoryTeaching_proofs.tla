---------------------- MODULE TrajectoryTeaching_proofs ----------------------
(***************************************************************************)
(* Proofs about TrajectoryTeaching, for every number of joints, every set  *)
(* of files, whatever the files that were written by hand contain, and     *)
(* recordings of any length.                                               *)
(***************************************************************************)
EXTENDS TrajectoryTeaching, SequenceTheorems, TLAPS

-----------------------------------------------------------------------------
(* Recordings. *)

\* A recording is a sequence of at most MaxPoints points.
LEMMA RecordingsAreSequences ==
    ASSUME NEW r \in Recordings
    PROVE  r \in Seq(0 .. Joints) /\ Len(r) \in 0 .. MaxPoints
<1>1. PICK n \in 0 .. MaxPoints : r \in [1 .. n -> 0 .. Joints]
  BY DEF Recordings
<1>2. n \in Nat
  BY MaxPointsAssumption
<1>3. r \in Seq(0 .. Joints)
  BY <1>1, <1>2, SeqDef
<1>4. Len(r) \in Nat /\ 1 .. Len(r) = 1 .. n
  BY <1>1, <1>3, LenProperties
<1>5. Len(r) = n
  BY <1>2, <1>4
<1> QED
  BY <1>3, <1>5

\* A recording starts without points.
LEMMA EmptyRecording == <<>> \in Recordings
<1>1. <<>> \in [1 .. 0 -> 0 .. Joints]
  OBVIOUS
<1>2. 0 \in 0 .. MaxPoints
  BY MaxPointsAssumption
<1> QED
  BY <1>1, <1>2 DEF Recordings

\* A point that is added to a recording leaves it one, a point longer.
LEMMA AppendedRecording ==
    ASSUME NEW r \in Recordings, Len(r) < MaxPoints, NEW p \in 0 .. Joints
    PROVE  /\ Append(r, p) \in Recordings
           /\ Len(Append(r, p)) = Len(r) + 1
           /\ \A i \in 1 .. Len(r) : Append(r, p)[i] = r[i]
           /\ Append(r, p)[Len(r) + 1] = p
<1>1. r \in Seq(0 .. Joints) /\ Len(r) \in 0 .. MaxPoints
  BY RecordingsAreSequences
<1>2. /\ Append(r, p) \in Seq(0 .. Joints)
      /\ Len(Append(r, p)) = Len(r) + 1
      /\ \A i \in 1 .. Len(r) : Append(r, p)[i] = r[i]
      /\ Append(r, p)[Len(r) + 1] = p
  BY <1>1, AppendProperties
<1>3. Len(r) + 1 \in 0 .. MaxPoints
  BY <1>1, MaxPointsAssumption
<1>4. Append(r, p) \in [1 .. Len(r) + 1 -> 0 .. Joints]
  BY <1>2, LenProperties
<1>5. Append(r, p) \in Recordings
  BY <1>3, <1>4 DEF Recordings
<1> QED
  BY <1>2, <1>5

\* Whatever a file contains is a sequence.
LEMMA ContentsAreSequences == Contents \subseteq Seq(0 .. Joints)
  BY RecordingsAreSequences, WrittenAssumption DEF Contents

\* A goal that names a file.
LEMMA GoalWithFile ==
    ASSUME NEW g \in Goals \cup {NoGoal}, g.command \in {"RECORD", "PLAYBACK"}
    PROVE  g \in Goals /\ g.file \in Files
  BY DEF Goals, NoGoal

-----------------------------------------------------------------------------
(* Types. *)

\* What is not a truth value.
Places ==
    /\ goal \in Goals \cup {NoGoal}
    /\ next \in Goals \cup {NoGoal}
    /\ exec \in {"wait", "record", "lookup", "check", "load", "play", "played",
                 "stop", "stopping", "sleep"}
    /\ taken \in 0 .. Joints
    /\ recorded \in Recordings
    /\ points \in Contents
    /\ at \in Nat /\ at <= Len(points) + 1
    /\ joints \in 0 .. Joints
    /\ state \in {"none", "arriving", "there"}
    /\ files \in [Files -> [there : BOOLEAN, points : Contents]]
    /\ cmd \in {"none", "point", "hold", "empty"}
    /\ count \in 0 .. MaxPoints

Flags ==
    /\ up \in BOOLEAN /\ ok \in BOOLEAN
    /\ preempt \in BOOLEAN /\ nextPreempt \in BOOLEAN
    /\ due \in BOOLEAN
    /\ hold \in BOOLEAN /\ thrown \in BOOLEAN
    /\ joining \in BOOLEAN
    /\ lost \in BOOLEAN /\ cut \in BOOLEAN /\ early \in BOOLEAN

Recording == exec \in {"record", "lookup", "check"}
Playing == exec \in {"load", "play", "played", "stop", "stopping", "sleep"}

\* What the goal at work has to do with the place of executeCB(), and what keeps
\* its counters within their ranges.
Work ==
    /\ Recording => /\ goal.command = "RECORD"
                    /\ count = Len(recorded)
                    /\ due => Len(recorded) < MaxPoints
    /\ Playing => goal.command = "PLAYBACK"
    /\ exec = "lookup" => due
    /\ at >= 1
    /\ exec = "play" => at <= Len(points)
    /\ joining => joints < Joints

\* The states that the constructor leaves are typed ...
LEMMA InitPlaces == Init => Places /\ Work
<1> SUFFICES ASSUME Init PROVE Places /\ Work
  OBVIOUS
<1> USE DEF Init
<1>1. /\ recorded \in Recordings /\ points \in Contents
      /\ at \in Nat /\ at >= 1 /\ at <= Len(points) + 1
  BY EmptyRecording DEF Contents
<1>2. files \in [Files -> [there : BOOLEAN, points : Contents]]
  <2>1. /\ NoFile \in [there : BOOLEAN, points : Contents]
        /\ [there : {TRUE}, points : Written] \subseteq [there : BOOLEAN, points : Contents]
    BY EmptyRecording DEF NoFile, Contents
  <2>2. files \in [Files -> {NoFile} \cup [there : {TRUE}, points : Written]]
    OBVIOUS
  <2> QED
    BY ONLY <2>1, <2>2
<1>3. taken \in 0 .. Joints /\ joints \in 0 .. Joints /\ count \in 0 .. MaxPoints
  BY JointsAssumption, MaxPointsAssumption
<1> QED
  BY <1>1, <1>2, <1>3 DEF Places, Work, Recording, Playing

\* A command that is published, or swallowed by the shutdown, is one.
LEMMA PublishType ==
    ASSUME cmd \in {"none", "point", "hold", "empty"},
           NEW what \in {"point", "hold", "empty"}, Publish(what)
    PROVE  cmd' \in {"none", "point", "hold", "empty"}
  BY DEF Publish

\* When executeCB() ends, nothing of what it had loaded is left.
LEMMA FinishType ==
    ASSUME Finish
    PROVE  /\ exec' = "wait" /\ points' \in Contents
           /\ at' \in Nat /\ at' >= 1 /\ at' <= Len(points') + 1
  BY EmptyRecording DEF Finish, Contents

\* A recording that is saved is a content of a file.
LEMMA RecordToYAMLType ==
    ASSUME Places, NEW file \in Files, RecordToYAML(file)
    PROVE  files' \in [Files -> [there : BOOLEAN, points : Contents]]
<1>1. recorded \in Contents
  BY DEF Places, Contents
<1>2. [there |-> TRUE, points |-> recorded] \in [there : BOOLEAN, points : Contents]
  BY <1>1
<1> QED
  BY <1>2 DEF Places, RecordToYAML

\* ... and every step leaves them so.
LEMMA NextPlaces == Places /\ Work /\ [Next]_vars => Places' /\ Work'
<1> SUFFICES ASSUME Places, Work, [Next]_vars PROVE Places' /\ Work'
  OBVIOUS
<1> DEFINE Goal == Places' /\ Work'
<1> USE DEF execVars, serverVars, callbackVars, histories
<1>1. ASSUME NEW g \in Goals, GoalCallback(g) PROVE Goal
  BY <1>1 DEF GoalCallback, Places, Work, Recording, Playing
<1>2. CASE CancelCallback \/ CancelNext \/ RosShutdown
  BY <1>2 DEF CancelCallback, CancelNext, RosShutdown, Places, Work, Recording, Playing
<1>3. CASE ExecuteRecord
  <2>1. recorded' \in Recordings /\ Len(recorded') = 0
    BY <1>3, EmptyRecording DEF ExecuteRecord
  <2>2. count' \in 0 .. MaxPoints /\ 0 < MaxPoints
    BY <1>3, MaxPointsAssumption DEF ExecuteRecord
  <2> QED
    BY <1>3, <2>1, <2>2 DEF ExecuteRecord, Places, Work, Recording, Playing
<1>4. CASE ExecutePlayback \/ ExecuteRefused
  <2>1. count' \in 0 .. MaxPoints
    BY <1>4, MaxPointsAssumption DEF ExecutePlayback, ExecuteRefused
  <2> QED
    BY <1>4, <2>1 DEF ExecutePlayback, ExecuteRefused, Places, Work, Recording, Playing
<1>5. CASE Record
  BY <1>5 DEF Record, Places, Work, Recording, Playing
<1>6. CASE LookUp \/ LookUpFails \/ LookUpCrashes
  <2>1. taken' \in 0 .. Joints
    BY <1>6, JointsAssumption DEF LookUp, LookUpFails, LookUpCrashes, Places
  <2> QED
    BY <1>6, <2>1 DEF LookUp, LookUpFails, LookUpCrashes, Places, Work, Recording, Playing
<1>7. CASE PushPoint
  <2>1. Len(recorded) < MaxPoints /\ count = Len(recorded)
    BY <1>7 DEF PushPoint, Work, Recording
  <2>2. recorded' \in Recordings /\ Len(recorded') = Len(recorded) + 1
    BY <1>7, <2>1, AppendedRecording DEF PushPoint, Places
  <2>3. count' = Len(recorded') /\ count' \in 0 .. MaxPoints
    BY <1>7, <2>1, <2>2, RecordingsAreSequences DEF PushPoint, Places
  <2>4. taken' \in 0 .. Joints
    BY <1>7, JointsAssumption DEF PushPoint
  <2> QED
    BY <1>7, <2>2, <2>3, <2>4 DEF PushPoint, Places, Work, Recording, Playing
<1>8. CASE RecordCheck
  <2>1. goal.file \in Files
    BY <1>8, GoalWithFile DEF RecordCheck, Places, Work, Recording
  <2>2. CASE StopRequested
    BY <1>8, <2>1, <2>2, RecordToYAMLType, FinishType
    DEF RecordCheck, Places, Work, Recording, Playing
  <2>3. CASE ~StopRequested
    BY <1>8, <2>3 DEF RecordCheck, Places, Work, Recording, Playing
  <2> QED
    BY <2>2, <2>3
<1>9. CASE Load
  <2>1. goal.file \in Files
    BY <1>9, GoalWithFile DEF Load, Places, Work, Playing
  <2>2. points' \in Contents /\ points' # <<>>
    BY <1>9, <2>1 DEF Load, Places
  <2>3. Len(points') \in Nat /\ Len(points') >= 1
    BY <2>2, ContentsAreSequences, EmptySeq
  <2>4. at' = 1 /\ exec' \in {"play", "stop"}
    BY <1>9 DEF Load, Catch
  <2> QED
    BY <1>9, <2>2, <2>3, <2>4 DEF Load, Places, Work, Recording, Playing
<1>10. CASE LoadFails
  <2>1. points' \in Contents /\ at' = 1 /\ Len(points') = 0
    BY <1>10, EmptyRecording DEF LoadFails, Contents
  <2>2. exec' \in {"load", "stop"}
    BY <1>10 DEF LoadFails, Catch
  <2> QED
    BY <1>10, <2>1, <2>2 DEF LoadFails, Places, Work, Recording, Playing
<1>11. CASE Playback
  <2>1. Len(points) \in Nat
    BY ContentsAreSequences, LenProperties DEF Places
  <2>2. at' \in Nat /\ at' >= 1 /\ at' <= Len(points) + 1
    BY <1>11, <2>1 DEF Playback, Places, Work
  <2> QED
    BY <1>11, <2>2, PublishType DEF Playback, Places, Work, Recording, Playing
<1>12. CASE PlaybackThrows
  BY <1>12, PublishType DEF PlaybackThrows, Catch, Places, Work, Recording, Playing
<1>13. CASE Played
  BY <1>13 DEF Played, LoopAgain, Places, Work, Recording, Playing
<1>14. CASE StopPlayback
  BY <1>14 DEF StopPlayback, Places, Work, Recording, Playing
<1>15. CASE StopPlaybackPublishes
  <2>1. cmd' \in {"none", "point", "hold", "empty"}
    BY <1>15, PublishType DEF StopPlaybackPublishes, Places
  <2>2. CASE ~thrown /\ at > Len(points)
    BY <1>15, <2>1, <2>2 DEF StopPlaybackPublishes, Places, Work, Recording, Playing
  <2>3. CASE Finish
    BY <1>15, <2>1, <2>3, FinishType
    DEF StopPlaybackPublishes, Places, Work, Recording, Playing
  <2> QED
    BY <1>15, <2>2, <2>3 DEF StopPlaybackPublishes
<1>16. CASE Slept
  BY <1>16, FinishType DEF Slept, Places, Work, Recording, Playing
<1>17. CASE TimePasses
  BY <1>17 DEF TimePasses, Places, Work, Recording, Playing
<1>18. CASE JointStateClear
  <2>1. joints' \in 0 .. Joints /\ joints' < Joints
    BY <1>18, JointsAssumption DEF JointStateClear
  <2> QED
    BY <1>18, <2>1 DEF JointStateClear, Places, Work, Recording, Playing
<1>19. CASE JointStateInsert
  <2>1. joints' \in 0 .. Joints
    BY <1>19, JointsAssumption DEF JointStateInsert, Places, Work
  <2>2. joining' => joints + 1 < Joints
    BY <1>19, Zenon DEF JointStateInsert
  <2>3. joining' => joints' < Joints
    BY <1>19, <2>2 DEF JointStateInsert
  <2> QED
    BY <1>19, <2>1, <2>3 DEF JointStateInsert, Places, Work, Recording, Playing
<1>20. CASE ControllerStateCallback
  BY <1>20 DEF ControllerStateCallback, Places, Work, Recording, Playing
<1>21. CASE UNCHANGED vars
  BY <1>21 DEF vars, Places, Work, Recording, Playing
<1> QED
  BY <1>1, <1>2, <1>3, <1>4, <1>5, <1>6, <1>7, <1>8, <1>9, <1>10, <1>11, <1>12, <1>13,
     <1>14, <1>15, <1>16, <1>17, <1>18, <1>19, <1>20, <1>21
  DEF Next, Execute

\* The truth values are such at first ...
LEMMA InitFlags == Init => Flags
  BY DEF Init, Flags

\* ... and in every step.
LEMMA NextFlags == Flags /\ [Next]_vars => Flags'
<1> SUFFICES ASSUME Flags, [Next]_vars PROVE Flags'
  OBVIOUS
<1> USE DEF Flags, execVars, serverVars, callbackVars, histories
<1>1. ASSUME NEW g \in Goals, GoalCallback(g) PROVE Flags'
  <2>1. preempt' \in BOOLEAN /\ cut' \in BOOLEAN
    BY <1>1, Zenon DEF GoalCallback
  <2> QED
    BY <1>1, <2>1, Zenon DEF GoalCallback
<1>2. CASE CancelCallback
  <2>1. cut' \in BOOLEAN
    BY <1>2, Zenon DEF CancelCallback
  <2> QED
    BY <1>2, <2>1, Zenon DEF CancelCallback
<1>3. CASE CancelNext \/ RosShutdown
  BY <1>3, Zenon DEF CancelNext, RosShutdown
<1>4. CASE ExecuteRecord
  BY <1>4, Zenon DEF ExecuteRecord
<1>5. CASE ExecutePlayback
  BY <1>5, Zenon DEF ExecutePlayback
<1>6. CASE ExecuteRefused \/ Record
  BY <1>6, Zenon DEF ExecuteRefused, Record
<1>7. CASE LookUp \/ LookUpFails
  BY <1>7, Zenon DEF LookUp, LookUpFails
<1>8. CASE LookUpCrashes \/ PushPoint
  BY <1>8, Zenon DEF LookUpCrashes, PushPoint
<1>9. CASE RecordCheck \/ Slept
  BY <1>9, Zenon DEF RecordCheck, Slept
<1>10. CASE Load
  BY <1>10, Zenon DEF Load, Catch
<1>11. CASE LoadFails
  BY <1>11, Zenon DEF LoadFails, Catch
<1>12. CASE Playback \/ PlaybackThrows
  BY <1>12, Zenon DEF Playback, PlaybackThrows, Catch
<1>13. CASE Played
  BY <1>13, Zenon DEF Played
<1>14. CASE StopPlayback
  <2>1. hold' \in BOOLEAN /\ early' \in BOOLEAN
    BY <1>14, Zenon DEF StopPlayback
  <2> QED
    BY <1>14, <2>1, Zenon DEF StopPlayback
<1>15. CASE StopPlaybackPublishes
  BY <1>15, Zenon DEF StopPlaybackPublishes
<1>16. CASE TimePasses \/ JointStateClear
  BY <1>16, Zenon DEF TimePasses, JointStateClear
<1>17. CASE JointStateInsert
  <2>1. joining' \in BOOLEAN
    BY <1>17 DEF JointStateInsert
  <2> QED
    BY <1>17, <2>1, Zenon DEF JointStateInsert
<1>18. CASE ControllerStateCallback
  BY <1>18, Zenon DEF ControllerStateCallback
<1>19. CASE UNCHANGED vars
  BY <1>19, Zenon DEF vars
<1> QED
  BY <1>1, <1>2, <1>3, <1>4, <1>5, <1>6, <1>7, <1>8, <1>9, <1>10, <1>11, <1>12, <1>13,
     <1>14, <1>15, <1>16, <1>17, <1>18, <1>19
  DEF Next, Execute

\* Type correctness: recordings and playbacks, cut short or not, and the callbacks
\* beside them keep every variable in its type; no more points are played than
\* were loaded, and no more joints are looked up than there are.
THEOREM TypeCorrect == Safety => []TypeOK
<1>1. Init => Places /\ Work /\ Flags
  BY InitPlaces, InitFlags
<1>2. Places /\ Work /\ Flags /\ [Next]_vars => Places' /\ Work' /\ Flags'
  BY NextPlaces, NextFlags
<1>3. Places /\ Flags => TypeOK
  BY Zenon DEF Places, Flags, TypeOK
<1> QED
  BY <1>1, <1>2, <1>3, PTL DEF Safety

-----------------------------------------------------------------------------
(* Recording. *)

\* The steps that end no recording, and change neither its points nor a file.
NoRecordStep ==
    /\ UNCHANGED <<goal, recorded, files, count, lost>>
    /\ exec' = "wait" => exec = "wait" \/ Playing
    /\ Recording' => exec' = exec /\ (due => due')

\* Whatever is not done by the steps of a recording leaves it alone.
LEMMA RecordingAlone ==
    ASSUME Places, [Next]_vars
    PROVE  \/ NoRecordStep
           \/ ExecuteRecord \/ ExecutePlayback \/ ExecuteRefused
           \/ Record \/ LookUpFails \/ PushPoint \/ RecordCheck
<1> USE DEF execVars, serverVars, callbackVars, histories, NoRecordStep, Recording, Playing
<1>1. ASSUME NEW g \in Goals, GoalCallback(g) PROVE NoRecordStep
  BY <1>1 DEF GoalCallback
<1>2. CASE CancelCallback \/ CancelNext \/ RosShutdown
  BY <1>2 DEF CancelCallback, CancelNext, RosShutdown
<1>3. CASE LookUp \/ LookUpCrashes
  BY <1>3 DEF LookUp, LookUpCrashes
<1>4. CASE Load \/ LoadFails
  BY <1>4 DEF Load, LoadFails, Catch
<1>5. CASE Playback \/ PlaybackThrows \/ Played
  BY <1>5 DEF Playback, PlaybackThrows, Played, LoopAgain, Catch
<1>6. CASE StopPlayback \/ StopPlaybackPublishes \/ Slept
  BY <1>6 DEF StopPlayback, StopPlaybackPublishes, Slept, Finish
<1>7. CASE TimePasses
  BY <1>7 DEF TimePasses
<1>8. CASE JointStateClear \/ JointStateInsert \/ ControllerStateCallback
  BY <1>8 DEF JointStateClear, JointStateInsert, ControllerStateCallback
<1>9. CASE UNCHANGED vars
  BY <1>9 DEF vars
<1> QED
  BY <1>1, <1>2, <1>3, <1>4, <1>5, <1>6, <1>7, <1>8, <1>9 DEF Next, Execute

\* The points of the recording at work have every joint.
Whole == Recording => \A i \in 1 .. Len(recorded) : recorded[i] = Joints

\* A step keeps the points of a recording whole, and what was saved as it was.
LEMMA NextSaved ==
    Places /\ Work /\ Whole /\ SavedRecording /\ [Next]_vars => Whole' /\ SavedRecording'
<1> SUFFICES ASSUME Places, Work, Whole, SavedRecording, [Next]_vars
             PROVE  Whole' /\ SavedRecording'
  OBVIOUS
<1> USE DEF execVars, serverVars, callbackVars, histories
<1>1. CASE NoRecordStep
  <2>1. Recording' => Recording
    BY <1>1 DEF NoRecordStep, Recording
  <2>2. exec' = "wait" /\ goal.command = "RECORD" => exec = "wait"
    BY <1>1 DEF NoRecordStep, Work
  <2> QED
    BY <1>1, <2>1, <2>2 DEF NoRecordStep, Whole, SavedRecording
<1>2. CASE ExecuteRecord
  BY <1>2 DEF ExecuteRecord, Whole, SavedRecording
<1>3. CASE ExecutePlayback \/ ExecuteRefused
  BY <1>3 DEF ExecutePlayback, ExecuteRefused, Whole, SavedRecording, Recording
<1>4. CASE Record \/ LookUpFails
  BY <1>4 DEF Record, LookUpFails, Whole, SavedRecording, Recording
<1>5. CASE PushPoint
  <2>1. Len(recorded) < MaxPoints /\ \A i \in 1 .. Len(recorded) : recorded[i] = Joints
    BY <1>5 DEF PushPoint, Work, Whole, Recording
  <2>2. /\ Len(recorded') = Len(recorded) + 1
        /\ \A i \in 1 .. Len(recorded) : recorded'[i] = recorded[i]
        /\ recorded'[Len(recorded) + 1] = Joints
    BY <1>5, <2>1, AppendedRecording DEF PushPoint, Places
  <2>3. Len(recorded) \in Nat
    BY RecordingsAreSequences, MaxPointsAssumption DEF Places
  <2> QED
    BY <1>5, <2>1, <2>2, <2>3 DEF PushPoint, Whole, SavedRecording
<1>6. CASE RecordCheck
  <2>1. /\ goal.file \in Files /\ count = Len(recorded)
        /\ \A i \in 1 .. count : recorded[i] = Joints
        /\ UNCHANGED <<goal, recorded, count>>
    BY <1>6, GoalWithFile DEF RecordCheck, Places, Work, Whole, Recording
  <2>2. CASE StopRequested
    <3>1. exec' = "wait" /\ RecordToYAML(goal.file)
      BY <1>6, <2>2 DEF RecordCheck, Finish
    <3>2. goal.file \notin Unwritable =>
              files'[goal.file] = [there |-> TRUE, points |-> recorded]
      BY <2>1, <3>1 DEF RecordToYAML, Places
    <3> QED
      BY <2>1, <3>1, <3>2 DEF Whole, SavedRecording, Recording
  <2>3. CASE ~StopRequested
    BY <1>6, <2>1, <2>3 DEF RecordCheck, Whole, SavedRecording, Recording
  <2> QED
    BY <2>2, <2>3
<1> QED
  BY <1>1, <1>2, <1>3, <1>4, <1>5, <1>6, RecordingAlone

\* SavedRecording: however a recording is cut short, the file that stopRecord()
\* writes has exactly the goal's own points, each with every joint.
THEOREM RecordingIsSaved == Safety => []SavedRecording
<1>1. Init => Places /\ Work /\ Whole /\ SavedRecording
  <2>1. Init => Whole /\ SavedRecording
    BY DEF Init, Whole, SavedRecording, Recording, NoGoal
  <2> QED
    BY <2>1, InitPlaces
<1>2. Places /\ Work /\ Whole /\ SavedRecording /\ [Next]_vars
        => (Places /\ Work /\ Whole /\ SavedRecording)'
  BY NextPlaces, NextSaved
<1> QED
  BY <1>1, <1>2, PTL DEF Safety

\* A recording has a point, has lost a joint, or its first point is due.
HasPoint ==
    /\ exec = "record" => count > 0 \/ lost \/ due
    /\ exec = "check" => count > 0 \/ lost
    /\ RecordingHasPoints

\* Each step of a recording keeps that, up to its end.
LEMMA NextHasPoint == Places /\ Work /\ HasPoint /\ [Next]_vars => HasPoint'
<1> SUFFICES ASSUME Places, Work, HasPoint, [Next]_vars PROVE HasPoint'
  OBVIOUS
<1> USE DEF execVars, serverVars, callbackVars, histories
<1>1. CASE NoRecordStep
  <2>1. exec' = "wait" /\ goal.command = "RECORD" => exec = "wait"
    BY <1>1 DEF NoRecordStep, Work
  <2> QED
    BY <1>1, <2>1 DEF NoRecordStep, HasPoint, RecordingHasPoints, Recording
<1>2. CASE ExecuteRecord \/ ExecutePlayback \/ ExecuteRefused
  BY <1>2 DEF ExecuteRecord, ExecutePlayback, ExecuteRefused, HasPoint, RecordingHasPoints
<1>3. CASE Record \/ LookUpFails
  BY <1>3 DEF Record, LookUpFails, HasPoint, RecordingHasPoints
<1>4. CASE PushPoint
  <2>1. exec' = "check" /\ count' > 0
    BY <1>4, MaxPointsAssumption DEF PushPoint, Places
  <2> QED
    BY <2>1 DEF HasPoint, RecordingHasPoints
<1>5. CASE RecordCheck
  BY <1>5 DEF RecordCheck, Finish, HasPoint, RecordingHasPoints
<1> QED
  BY <1>1, <1>2, <1>3, <1>4, <1>5, RecordingAlone

\* RecordingHasPoints: a recording that is preempted before its first look at the
\* joints still takes a point; only a joint that is missing leaves a file empty.
THEOREM RecordingIsNotEmpty == Safety => []RecordingHasPoints
<1>1. Init => Places /\ Work /\ HasPoint
  <2>1. Init => HasPoint
    BY DEF Init, HasPoint, RecordingHasPoints, NoGoal
  <2> QED
    BY <2>1, InitPlaces
<1>2. Places /\ Work /\ HasPoint /\ [Next]_vars => (Places /\ Work /\ HasPoint)'
  BY NextPlaces, NextHasPoint
<1>3. HasPoint => RecordingHasPoints
  BY DEF HasPoint
<1> QED
  BY <1>1, <1>2, <1>3, PTL DEF Safety

-----------------------------------------------------------------------------
(* Playback. *)

\* The arm is held, if it has to be.
Holds == (cut \/ thrown) /\ ok => cmd = "hold" \/ early

\* A playback that was cut will see the preemption; one that stops has copied the
\* controller's state, if that was there; and one that has come to its end holds.
Held ==
    /\ Playing /\ cut => preempt
    /\ exec \in {"load", "play", "played"} => ~thrown
    /\ exec = "stopping" /\ ~early => hold /\ state = "there"
    /\ exec = "sleep" => Holds
    /\ CancelledPlaybackHolds

\* A goal or a cancel that cuts a playback preempts it.
LEMMA CutPreempts ==
    ASSUME (\E g \in Goals : GoalCallback(g)) \/ CancelCallback
    PROVE  /\ cut' => cut \/ Unplayed
           /\ preempt => preempt'
           /\ exec # "wait" => preempt'
           /\ UNCHANGED <<ok, goal, exec, points, at, hold, thrown, state, cmd, early>>
<1>1. cut' => cut \/ Unplayed
  BY Zenon DEF GoalCallback, CancelCallback
<1>2. (preempt => preempt') /\ (exec # "wait" => preempt')
  BY Zenon DEF GoalCallback, CancelCallback
<1>3. UNCHANGED <<ok, goal, exec, points, at, hold, thrown, state, cmd, early>>
  BY DEF GoalCallback, CancelCallback, execVars, callbackVars
<1> QED
  BY <1>1, <1>2, <1>3

\* Every step of a playback, and of those that cut it, keeps this.
LEMMA NextHeld == Places /\ Work /\ Held /\ [Next]_vars => Held'
<1> SUFFICES ASSUME Places, Work, Held, [Next]_vars PROVE Held'
  OBVIOUS
<1> USE DEF execVars, serverVars, callbackVars, histories
<1>1. CASE (\E g \in Goals : GoalCallback(g)) \/ CancelCallback
  BY <1>1, CutPreempts DEF Held, Holds, CancelledPlaybackHolds, Playing, Unplayed
<1>2. CASE CancelNext
  BY <1>2 DEF CancelNext, Held, Holds, CancelledPlaybackHolds, Playing
<1>3. CASE RosShutdown
  BY <1>3 DEF RosShutdown, Held, Holds, CancelledPlaybackHolds, Playing
<1>4. CASE ExecuteRecord \/ ExecutePlayback \/ ExecuteRefused
  BY <1>4 DEF ExecuteRecord, ExecutePlayback, ExecuteRefused, Held, Holds,
              CancelledPlaybackHolds, Playing
<1>5. CASE Record \/ LookUp \/ LookUpFails \/ LookUpCrashes \/ PushPoint
  BY <1>5 DEF Record, LookUp, LookUpFails, LookUpCrashes, PushPoint, Held, Holds,
              CancelledPlaybackHolds, Playing
<1>6. CASE RecordCheck
  <2>1. goal'.command = "RECORD" /\ exec' \in {"wait", "record"}
    BY <1>6 DEF RecordCheck, Finish, Work, Recording
  <2> QED
    BY <2>1 DEF Held, Holds, CancelledPlaybackHolds, Playing
<1>7. CASE Load \/ LoadFails
  BY <1>7 DEF Load, LoadFails, Catch, Held, Holds, CancelledPlaybackHolds, Playing
<1>8. CASE Playback \/ PlaybackThrows
  BY <1>8 DEF Playback, PlaybackThrows, Catch, Held, Holds, CancelledPlaybackHolds, Playing
<1>9. CASE Played
  <2>1. exec' = "sleep" => ~preempt /\ exec = "played"
    BY <1>9 DEF Played, LoopAgain, StopRequested
  <2>2. exec' \in {"play", "stop", "sleep"} /\ exec \in {"play", "played"}
    BY <1>9 DEF Played, LoopAgain
  <2>3. UNCHANGED <<ok, goal, preempt, hold, thrown, state, cmd, cut, early>>
    BY <1>9 DEF Played
  <2> QED
    BY <2>1, <2>2, <2>3 DEF Held, Holds, CancelledPlaybackHolds, Playing
<1>10. CASE StopPlayback
  <2>1. ~early' => state = "there" /\ hold'
    BY <1>10, Zenon DEF StopPlayback
  <2> QED
    BY <1>10, <2>1 DEF StopPlayback, Held, Holds, CancelledPlaybackHolds, Playing
<1>11. CASE StopPlaybackPublishes
  <2>1. ok /\ ~early => cmd' = "hold"
    BY <1>11 DEF StopPlaybackPublishes, Publish, Held
  <2>2. exec' \in {"sleep", "wait"}
    BY <1>11 DEF StopPlaybackPublishes, Finish
  <2>3. UNCHANGED <<ok, goal, preempt, thrown, state, cut, early>> /\ exec = "stopping"
    BY <1>11 DEF StopPlaybackPublishes
  <2> QED
    BY <2>1, <2>2, <2>3 DEF Held, Holds, CancelledPlaybackHolds, Playing
<1>12. CASE Slept
  BY <1>12 DEF Slept, Finish, Held, Holds, CancelledPlaybackHolds, Playing
<1>13. CASE TimePasses \/ JointStateClear \/ JointStateInsert
  BY <1>13 DEF TimePasses, JointStateClear, JointStateInsert, Held, Holds,
               CancelledPlaybackHolds, Playing
<1>14. CASE ControllerStateCallback
  BY <1>14 DEF ControllerStateCallback, Held, Holds, CancelledPlaybackHolds, Playing
<1>15. CASE UNCHANGED vars
  BY <1>15 DEF vars, Held, Holds, CancelledPlaybackHolds, Playing
<1> QED
  BY <1>1, <1>2, <1>3, <1>4, <1>5, <1>6, <1>7, <1>8, <1>9, <1>10, <1>11, <1>12, <1>13,
     <1>14, <1>15
  DEF Next, Execute

\* CancelledPlaybackHolds: a playback that is cancelled, replaced or thrown out of
\* its loop ends with stopPlayback(), whose command holds the arm where it is -
\* whichever callbacks come between its steps, once the controller's state is there.
THEOREM CancelledPlaybackStops == Safety => []CancelledPlaybackHolds
<1>1. Init => Places /\ Work /\ Held
  <2>1. Init => Held
    BY DEF Init, Held, Holds, CancelledPlaybackHolds, Playing, NoGoal
  <2> QED
    BY <2>1, InitPlaces
<1>2. Places /\ Work /\ Held /\ [Next]_vars => (Places /\ Work /\ Held)'
  BY NextPlaces, NextHeld
<1>3. Held => CancelledPlaybackHolds
  BY DEF Held
<1> QED
  BY <1>1, <1>2, <1>3, PTL DEF Safety
==============================================================================
