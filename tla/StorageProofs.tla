---------------------------- MODULE StorageProofs ----------------------------
(***************************************************************************)
(* The two storages.                                                       *)
(*                                                                         *)
(* The JSON file, for any documents and any number of processes: it is an  *)
(* atomic register through failed calls, stops and power losses, a reader  *)
(* gets whole documents only, an acknowledged save is not lost, and the    *)
(* document only becomes what the holder of the lock was called with.      *)
(*                                                                         *)
(* Firestore, for any environments, any savers and any states: saves of    *)
(* one environment leave another's documents alone, and a save that nobody *)
(* overlapped makes the collections show the state document exactly,       *)
(* whatever saves before it left behind.                                   *)
(***************************************************************************)
EXTENDS AtomicFile, FirestoreSync, TLAPS

-----------------------------------------------------------------------------
(* The JSON file. *)

(* A file that may get the document's name. *)
Sound(file) ==
  \/ file = Missing
  \/ file \in File /\ file.whole /\ file.synced

(* Where a job has the lock. *)
InSection == {"make temp", "write", "sync", "replace", "sync directory", "cleanup", "unlink",
              "return", "raise"}

Quiet == {"idle", "open", "read"}

(* Every job's temporary file is whole and synced when it is to replace    *)
(* the document; nothing else ever has, or could have, the name.           *)
FilesInv ==
  /\ Sound(path)
  /\ path \in onDisk
  /\ \A file \in onDisk : Sound(file)
  /\ \A j \in Jobs : Sound(opened[j])

TempInv(j) ==
  /\ pc[j] = "make temp" => doc[j] \in Docs
  /\ pc[j] \in {"write", "sync", "replace"} => temp[j] \in File /\ temp[j].doc = doc[j]
  /\ pc[j] \in {"sync", "replace"} => temp[j].whole
  /\ pc[j] = "replace" => temp[j].synced

FileInv ==
  /\ TypeOK
  /\ FilesInv
  /\ \A j \in Jobs : TempInv(j)

(* What a job has made of the document stays until it gives the lock back, *)
(* because nobody else has the lock; and while a save is known as the      *)
(* last one nobody is about to change the document.                        *)
AckInv ==
  /\ \A j \in Jobs : pc[j] \in InSection => holder = j
  /\ \A j \in Jobs : pc[j] \in {"sync directory", "return"} => path.doc = doc[j]
  /\ \A j \in Jobs : pc[j] = "return" => onDisk = {path}
  /\ \A j \in Jobs : pc[j] = "unlink" => doc[j] = Absent
  /\ acked # Absent => /\ path.doc = acked
                       /\ onDisk = {path}
                       /\ \A j \in Jobs : pc[j] \in Quiet

LEMMA MissingIsNoFile ==
  /\ Missing.doc = Absent
  /\ Missing.whole
  /\ Missing.synced
  /\ Missing \notin File
BY AtomicFileAssumption DEF Missing, File

(* A sound file survives a power loss, and a reader gets its document. *)
LEMMA SoundSurvives ==
  ASSUME NEW file, Sound(file)
  PROVE  /\ Survivors(file) = {file}
         /\ Content(file) = file.doc
         /\ Content(file) \in Docs \cup {Absent}
BY MissingIsNoFile DEF Sound, Survivors, Content, File

LEMMA FileInvInitial == Init => FileInv
<1> SUFFICES ASSUME Init PROVE FileInv
  OBVIOUS
<1>1. path = Missing \/ \E d \in Docs : path = [doc |-> d, whole |-> TRUE, synced |-> TRUE]
  BY DEF Init
<1>2. Sound(path) /\ path \in File \cup {Missing}
  <2>1. \A d \in Docs : LET file == [doc |-> d, whole |-> TRUE, synced |-> TRUE]
                       IN  file \in File /\ file.whole /\ file.synced
    BY DEF File
  <2>. QED
    BY <1>1, <2>1 DEF Sound
<1>3. TypeOK
  BY <1>2 DEF Init, TypeOK
<1>. QED
  BY <1>2, <1>3 DEF Init, FileInv, FilesInv, TempInv, Sound

(* A step of one job leaves the temporary files of the others alone. *)
LEMMA OthersTemps ==
  ASSUME TypeOK, \A k \in Jobs : TempInv(k),
         NEW j \in Jobs,
         \A k \in Jobs \ {j} : pc'[k] = pc[k] /\ temp'[k] = temp[k] /\ doc'[k] = doc[k]
  PROVE  \A k \in Jobs \ {j} : TempInv(k)'
BY DEF TempInv

LEMMA FileInvStep == FileInv /\ [Next]_vars => FileInv'
<1> SUFFICES ASSUME FileInv, [Next]_vars PROVE FileInv'
  OBVIOUS
<1>0. TypeOK /\ FilesInv /\ \A j \in Jobs : TempInv(j)
  BY DEF FileInv
<1> USE DEF Goto, reader
<1>1. CASE UNCHANGED vars
  BY <1>1, <1>0 DEF vars, FileInv, FilesInv, TempInv, TypeOK
<1>2. ASSUME NEW j \in Jobs, Load(j) PROVE FileInv'
  <2>1. TypeOK'
    BY <1>2, <1>0 DEF TypeOK, Load
  <2>2. FilesInv'
    BY <1>2, <1>0 DEF TypeOK, FilesInv, Sound, Load
  <2>3. TempInv(j)'
    BY <1>2, <1>0, AtomicFileAssumption DEF TypeOK, TempInv, File, Load
  <2>4. \A k \in Jobs \ {j} : TempInv(k)'
    BY <1>2, <1>0, OthersTemps DEF TypeOK, Load
  <2>. QED
    BY <2>1, <2>2, <2>3, <2>4 DEF FileInv
<1>3. ASSUME NEW j \in Jobs, Open(j) PROVE FileInv'
  <2>1. TypeOK'
    BY <1>3, <1>0 DEF TypeOK, Open
  <2>2. FilesInv'
    BY <1>3, <1>0 DEF TypeOK, FilesInv, Sound, Open
  <2>3. TempInv(j)'
    BY <1>3, <1>0, AtomicFileAssumption DEF TypeOK, TempInv, File, Open
  <2>4. \A k \in Jobs \ {j} : TempInv(k)'
    BY <1>3, <1>0, OthersTemps DEF TypeOK, Open
  <2>. QED
    BY <2>1, <2>2, <2>3, <2>4 DEF FileInv
<1>4. ASSUME NEW j \in Jobs, Read(j) PROVE FileInv'
  <2>0. Content(opened[j]) \in Docs \cup {Absent}
    BY <1>0, SoundSurvives DEF FilesInv
  <2>1. TypeOK'
    BY <1>4, <1>0, <2>0 DEF TypeOK, Read
  <2>2. FilesInv'
    BY <1>4, <1>0 DEF TypeOK, FilesInv, Sound, Read
  <2>3. TempInv(j)'
    BY <1>4, <1>0 DEF TypeOK, TempInv, Read
  <2>4. \A k \in Jobs \ {j} : TempInv(k)'
    BY <1>4, <1>0, OthersTemps DEF TypeOK, Read
  <2>. QED
    BY <2>1, <2>2, <2>3, <2>4 DEF FileInv
<1>5. ASSUME NEW j \in Jobs, CallSave(j) \/ CallDelete(j) PROVE FileInv'
  <2>1. TypeOK'
    BY ZenonT(30), <1>5, <1>0 DEF TypeOK, CallSave, CallDelete
  <2>2. FilesInv'
    BY <1>5, <1>0 DEF TypeOK, FilesInv, Sound, CallSave, CallDelete
  <2>5. pc[j] = "idle" /\ pc' = [pc EXCEPT ![j] = "lock"] /\ temp' = temp
    BY <1>5 DEF CallSave, CallDelete
  <2>6. pc'[j] = "lock"
    BY <2>5, <1>0 DEF TypeOK
  <2>3. TempInv(j)'
    BY <2>5, <2>6, <1>0 DEF TempInv
  <2>4. \A k \in Jobs \ {j} : TempInv(k)'
    BY <1>5, <1>0, OthersTemps DEF TypeOK, CallSave, CallDelete
  <2>. QED
    BY <2>1, <2>2, <2>3, <2>4 DEF FileInv
<1>6. ASSUME NEW j \in Jobs, Lock(j) PROVE FileInv'
  <2>1. TypeOK'
    BY <1>6, <1>0 DEF TypeOK, Lock
  <2>2. FilesInv'
    BY <1>6, <1>0 DEF TypeOK, FilesInv, Sound, Lock
  <2>3. TempInv(j)'
    BY <1>6, <1>0, AtomicFileAssumption DEF TypeOK, TempInv, File, Lock
  <2>4. \A k \in Jobs \ {j} : TempInv(k)'
    BY <1>6, <1>0, OthersTemps DEF TypeOK, Lock
  <2>. QED
    BY <2>1, <2>2, <2>3, <2>4 DEF FileInv
<1>7. ASSUME NEW j \in Jobs, MakeTemp(j) PROVE FileInv'
  <2>. DEFINE new == [doc |-> doc[j], whole |-> FALSE, synced |-> FALSE]
  <2>0. new \in File /\ new.doc = doc[j]
    BY <1>7, <1>0 DEF MakeTemp, TempInv, File
  <2>5. \/ temp' = [temp EXCEPT ![j] = new] /\ pc' = [pc EXCEPT ![j] = "write"]
        \/ temp' = temp /\ pc' = [pc EXCEPT ![j] = "raise"]
    BY <1>7 DEF MakeTemp
  <2>6. UNCHANGED <<doc, holder, path, onDisk, opened, loaded, acked>> /\ pc[j] = "make temp"
    BY <1>7 DEF MakeTemp
  <2>. HIDE DEF new
  <2>1. TypeOK'
    BY ZenonT(30), <2>0, <2>5, <2>6, <1>0 DEF TypeOK
  <2>2. FilesInv'
    BY <1>7, <1>0 DEF TypeOK, FilesInv, Sound, MakeTemp
  <2>3. TempInv(j)'
    BY <2>0, <2>5, <2>6, <1>0 DEF TypeOK, TempInv
  <2>4. \A k \in Jobs \ {j} : TempInv(k)'
    BY <1>7, <1>0, OthersTemps DEF TypeOK, MakeTemp
  <2>. QED
    BY <2>1, <2>2, <2>3, <2>4 DEF FileInv
<1>8. ASSUME NEW j \in Jobs, WriteTemp(j) PROVE FileInv'
  <2>. DEFINE new == [temp[j] EXCEPT !.whole = TRUE]
  <2>0. /\ new \in File
        /\ new.doc = doc[j]
        /\ new.whole
    BY <1>8, <1>0 DEF WriteTemp, TempInv, File
  <2>5. \/ temp' = [temp EXCEPT ![j] = new] /\ pc' = [pc EXCEPT ![j] = "sync"]
        \/ temp' = temp /\ pc' = [pc EXCEPT ![j] = "cleanup"]
    BY <1>8 DEF WriteTemp, Try
  <2>6. UNCHANGED <<doc, holder, path, onDisk, opened, loaded, acked>> /\ pc[j] = "write"
    BY <1>8 DEF WriteTemp
  <2>. HIDE DEF new
  <2>1. TypeOK'
    <3>1. temp' \in [Jobs -> File \cup {Missing}]
      BY <2>0, <2>5, <1>0 DEF TypeOK
    <3>2. pc' \in [Jobs -> {"idle", "open", "read", "lock", "make temp", "write", "sync", "replace",
                           "sync directory", "cleanup", "unlink", "return", "raise"}]
      BY <2>5, <1>0 DEF TypeOK
    <3>. QED
      BY <3>1, <3>2, <2>6, <1>0 DEF TypeOK
  <2>2. FilesInv'
    BY <1>8, <1>0 DEF TypeOK, FilesInv, Sound, WriteTemp, Try, File
  <2>3. TempInv(j)'
    BY <2>0, <2>5, <2>6, <1>0 DEF TypeOK, TempInv
  <2>4. \A k \in Jobs \ {j} : TempInv(k)'
    BY <1>8, <1>0, OthersTemps DEF TypeOK, WriteTemp, Try, File
  <2>. QED
    BY <2>1, <2>2, <2>3, <2>4 DEF FileInv
<1>9. ASSUME NEW j \in Jobs, SyncTemp(j) PROVE FileInv'
  <2>. DEFINE new == [temp[j] EXCEPT !.synced = TRUE]
  <2>0. /\ new \in File
        /\ new.doc = doc[j]
        /\ new.whole
        /\ new.synced
    BY <1>9, <1>0 DEF SyncTemp, TempInv, File
  <2>5. \/ temp' = [temp EXCEPT ![j] = new] /\ pc' = [pc EXCEPT ![j] = "replace"]
        \/ temp' = temp /\ pc' = [pc EXCEPT ![j] = "cleanup"]
    BY <1>9 DEF SyncTemp, Try
  <2>6. UNCHANGED <<doc, holder, path, onDisk, opened, loaded, acked>> /\ pc[j] = "sync"
    BY <1>9 DEF SyncTemp
  <2>. HIDE DEF new
  <2>1. TypeOK'
    <3>1. temp' \in [Jobs -> File \cup {Missing}]
      BY <2>0, <2>5, <1>0 DEF TypeOK
    <3>2. pc' \in [Jobs -> {"idle", "open", "read", "lock", "make temp", "write", "sync", "replace",
                           "sync directory", "cleanup", "unlink", "return", "raise"}]
      BY <2>5, <1>0 DEF TypeOK
    <3>. QED
      BY <3>1, <3>2, <2>6, <1>0 DEF TypeOK
  <2>2. FilesInv'
    BY <1>9, <1>0 DEF TypeOK, FilesInv, Sound, SyncTemp, Try, File
  <2>3. TempInv(j)'
    BY <2>0, <2>5, <2>6, <1>0 DEF TypeOK, TempInv
  <2>4. \A k \in Jobs \ {j} : TempInv(k)'
    BY <1>9, <1>0, OthersTemps DEF TypeOK, SyncTemp, Try, File
  <2>. QED
    BY <2>1, <2>2, <2>3, <2>4 DEF FileInv
<1>10. ASSUME NEW j \in Jobs, Replace(j) PROVE FileInv'
  <2>1. TypeOK'
    BY ZenonT(30), <1>10, <1>0 DEF TypeOK, Replace, TempInv
  <2>2. FilesInv'
    BY <1>10, <1>0 DEF TypeOK, FilesInv, Sound, Replace, TempInv
  <2>3. TempInv(j)'
    BY ZenonT(30), <1>10, <1>0, AtomicFileAssumption DEF TypeOK, TempInv, File, Replace
  <2>4. \A k \in Jobs \ {j} : TempInv(k)'
    BY <1>10, <1>0, OthersTemps DEF TypeOK, Replace, TempInv
  <2>. QED
    BY <2>1, <2>2, <2>3, <2>4 DEF FileInv
<1>11. ASSUME NEW j \in Jobs, SyncDirectory(j) PROVE FileInv'
  <2>1. TypeOK'
    BY <1>11, <1>0 DEF TypeOK, SyncDirectory
  <2>2. FilesInv'
    BY <1>11, <1>0 DEF TypeOK, FilesInv, Sound, SyncDirectory
  <2>3. TempInv(j)'
    BY ZenonT(30), <1>11, <1>0, AtomicFileAssumption DEF TypeOK, TempInv, File, SyncDirectory
  <2>4. \A k \in Jobs \ {j} : TempInv(k)'
    BY <1>11, <1>0, OthersTemps DEF TypeOK, SyncDirectory
  <2>. QED
    BY <2>1, <2>2, <2>3, <2>4 DEF FileInv
<1>12. ASSUME NEW j \in Jobs, Cleanup(j) PROVE FileInv'
  <2>1. TypeOK'
    BY <1>12, <1>0 DEF TypeOK, Cleanup
  <2>2. FilesInv'
    BY <1>12, <1>0 DEF TypeOK, FilesInv, Sound, Cleanup
  <2>3. TempInv(j)'
    BY <1>12, <1>0, AtomicFileAssumption DEF TypeOK, TempInv, File, Cleanup
  <2>4. \A k \in Jobs \ {j} : TempInv(k)'
    BY <1>12, <1>0, OthersTemps DEF TypeOK, Cleanup
  <2>. QED
    BY <2>1, <2>2, <2>3, <2>4 DEF FileInv
<1>13. ASSUME NEW j \in Jobs, Unlink(j) PROVE FileInv'
  <2>1. TypeOK'
    BY <1>13, <1>0 DEF TypeOK, Unlink
  <2>2. FilesInv'
    BY <1>13, <1>0 DEF TypeOK, FilesInv, Sound, Unlink
  <2>3. TempInv(j)'
    BY <1>13, <1>0, AtomicFileAssumption DEF TypeOK, TempInv, File, Unlink
  <2>4. \A k \in Jobs \ {j} : TempInv(k)'
    BY <1>13, <1>0, OthersTemps DEF TypeOK, Unlink
  <2>. QED
    BY <2>1, <2>2, <2>3, <2>4 DEF FileInv
<1>14. ASSUME NEW j \in Jobs, Unlock(j) PROVE FileInv'
  <2>1. TypeOK'
    BY <1>14, <1>0 DEF TypeOK, Unlock
  <2>2. FilesInv'
    BY <1>14, <1>0 DEF TypeOK, FilesInv, Sound, Unlock
  <2>3. TempInv(j)'
    BY <1>14, <1>0, AtomicFileAssumption DEF TypeOK, TempInv, File, Unlock
  <2>4. \A k \in Jobs \ {j} : TempInv(k)'
    BY <1>14, <1>0, OthersTemps DEF TypeOK, Unlock
  <2>. QED
    BY <2>1, <2>2, <2>3, <2>4 DEF FileInv
<1>15. ASSUME NEW j \in Jobs, Stop(j) PROVE FileInv'
  <2>1. TypeOK'
    BY <1>15, <1>0 DEF TypeOK, Stop
  <2>2. FilesInv'
    BY <1>15, <1>0 DEF TypeOK, FilesInv, Sound, Stop
  <2>3. TempInv(j)'
    BY <1>15, <1>0, AtomicFileAssumption DEF TypeOK, TempInv, File, Stop
  <2>4. \A k \in Jobs \ {j} : TempInv(k)'
    BY <1>15, <1>0, OthersTemps DEF TypeOK, Stop
  <2>. QED
    BY <2>1, <2>2, <2>3, <2>4 DEF FileInv
<1>16. ASSUME PowerLoss PROVE FileInv'
  <2>1. path' \in onDisk
    BY <1>16, <1>0, SoundSurvives DEF PowerLoss, FilesInv
  <2>2. TypeOK'
    BY <1>16, <1>0, <2>1 DEF TypeOK, PowerLoss
  <2>3. FilesInv'
    BY <1>16, <1>0, <2>1 DEF FilesInv, PowerLoss, Sound
  <2>4. \A k \in Jobs : TempInv(k)'
    BY <1>16, <1>0 DEF TypeOK, TempInv, PowerLoss
  <2>. QED
    BY <2>2, <2>3, <2>4 DEF FileInv
<1>. QED
  BY <1>1, <1>2, <1>3, <1>4, <1>5, <1>6, <1>7, <1>8, <1>9, <1>10, <1>11, <1>12, <1>13, <1>14,
     <1>15, <1>16 DEF Next

THEOREM FileInvHolds == Spec => []FileInv
BY FileInvInitial, FileInvStep, PTL DEF Spec

(* The types are right; what a load returns is a whole document. *)
THEOREM AtomicFileTypeCorrect == Spec => []TypeOK
<1>1. FileInv => TypeOK
  BY DEF FileInv
<1>. QED
  BY <1>1, FileInvHolds, PTL

-----------------------------------------------------------------------------
(* The refinement: Replace and Unlink are the register's writes, the sync  *)
(* of the directory its flush, and everything else but a power loss is no  *)
(* step of it.                                                             *)
LEMMA RegisterStep ==
  FileInv /\ [Next]_vars => [Register!Next]_Register!vars
<1> SUFFICES ASSUME FileInv, [Next]_vars PROVE [Register!Next]_Register!vars
  OBVIOUS
<1>0. FilesInv /\ \A j \in Jobs : TempInv(j)
  BY DEF FileInv
<1>1. CASE UNCHANGED <<path, onDisk>>
  BY <1>1 DEF Register!vars
<1>2. ASSUME NEW j \in Jobs, Replace(j) PROVE [Register!Next]_Register!vars
  <2>1. CASE UNCHANGED <<path, onDisk>>
    BY <2>1, <1>1
  <2>2. CASE path' = temp[j] /\ onDisk' = onDisk \cup {temp[j]}
    <3>1. Sound(temp[j])
      BY <1>2, <1>0 DEF Replace, TempInv, Sound
    <3>2. Content(path)' = Content(temp[j])
      BY <2>2 DEF Content
    <3>3. {Content(file) : file \in onDisk'} = {Content(file) : file \in onDisk} \cup {Content(temp[j])}
      BY <2>2
    <3>4. Register!Write
      BY <3>1, <3>2, <3>3, SoundSurvives DEF Register!Write, Content
    <3>. QED
      BY <3>4 DEF Register!Next
  <2>. QED
    BY <1>2, <2>1, <2>2 DEF Replace
<1>3. ASSUME NEW j \in Jobs, Unlink(j) PROVE [Register!Next]_Register!vars
  <2>1. CASE UNCHANGED <<path, onDisk>>
    BY <2>1, <1>1
  <2>2. CASE path' = Missing /\ onDisk' = onDisk \cup {Missing}
    <3>1. Content(path)' = Content(Missing)
      BY <2>2 DEF Content
    <3>2. {Content(file) : file \in onDisk'} = {Content(file) : file \in onDisk} \cup {Content(Missing)}
      BY <2>2
    <3>3. Sound(Missing)
      BY DEF Sound
    <3>4. Register!Write
      BY <3>1, <3>2, <3>3, SoundSurvives DEF Register!Write, Content
    <3>. QED
      BY <3>4 DEF Register!Next
  <2>. QED
    BY <1>3, <2>1, <2>2 DEF Unlink
<1>4. ASSUME NEW j \in Jobs, SyncDirectory(j) PROVE [Register!Next]_Register!vars
  <2>1. CASE UNCHANGED <<path, onDisk>>
    BY <2>1, <1>1
  <2>2. CASE onDisk' = {path} /\ path' = path
    <3>1. Register!Flush
      BY <2>2 DEF Register!Flush, Content
    <3>. QED
      BY <3>1 DEF Register!Next
  <2>. QED
    BY <1>4, <2>1, <2>2 DEF SyncDirectory
<1>5. ASSUME PowerLoss PROVE [Register!Next]_Register!vars
  <2>1. path' \in onDisk /\ onDisk' = {path'}
    BY <1>5, <1>0, SoundSurvives DEF PowerLoss, FilesInv
  <2>2. Register!PowerLoss
    BY <2>1 DEF Register!PowerLoss, Content
  <2>. QED
    BY <2>2 DEF Register!Next
<1>6. CASE UNCHANGED vars
  BY <1>6, <1>1 DEF vars
<1>7. ASSUME NEW j \in Jobs,
             \/ Load(j) \/ Open(j) \/ Read(j) \/ CallSave(j) \/ CallDelete(j) \/ Lock(j)
             \/ MakeTemp(j) \/ WriteTemp(j) \/ SyncTemp(j) \/ Cleanup(j) \/ Unlock(j) \/ Stop(j)
      PROVE  [Register!Next]_Register!vars
  BY <1>7, <1>1 DEF Load, Open, Read, CallSave, CallDelete, Lock, MakeTemp, WriteTemp, SyncTemp,
                    Cleanup, Unlock, Stop
<1>. QED
  BY <1>2, <1>3, <1>4, <1>5, <1>6, <1>7 DEF Next

(* The file is an atomic register, for any documents and any processes. *)
THEOREM FileIsRegister == Spec => ImplementsRegister
<1>1. Init => Register!Init
  <2> SUFFICES ASSUME Init PROVE Register!Init
    OBVIOUS
  <2>1. FilesInv
    BY FileInvInitial DEF FileInv
  <2>2. Content(path) \in Docs \cup {Absent}
    BY <2>1, SoundSurvives DEF FilesInv
  <2>. QED
    BY <2>2 DEF Init, Register!Init
<1>. QED
  BY <1>1, RegisterStep, FileInvHolds, PTL DEF Spec, ImplementsRegister, Register!Spec

-----------------------------------------------------------------------------
LEMMA AckInvStep == FileInv /\ AckInv /\ [Next]_vars => AckInv'
<1> SUFFICES ASSUME FileInv, AckInv, [Next]_vars PROVE AckInv'
  OBVIOUS
<1>0. TypeOK /\ FilesInv /\ \A j \in Jobs : TempInv(j)
  BY DEF FileInv
<1> USE AtomicFileAssumption DEF AckInv, InSection, Quiet, Goto, TypeOK
<1>1. CASE UNCHANGED vars
  BY <1>1 DEF vars
<1>2. ASSUME NEW j \in Jobs, Load(j) \/ Open(j) \/ Read(j) PROVE AckInv'
  <2>1. UNCHANGED <<doc, holder, path, onDisk, acked>>
    BY <1>2 DEF Load, Open, Read
  <2>2. \A k \in Jobs : pc'[k] = pc[k] \/ (k = j /\ pc'[k] \in Quiet)
    BY ZenonT(30), <1>2, <1>0 DEF Load, Open, Read
  <2>. QED
    BY <2>1, <2>2, <1>0
<1>3. ASSUME NEW j \in Jobs, CallSave(j) \/ CallDelete(j) PROVE AckInv'
  BY ZenonT(30), <1>3, <1>0 DEF CallSave, CallDelete
<1>4. ASSUME NEW j \in Jobs, Lock(j) PROVE AckInv'
  <2>1. UNCHANGED <<path, onDisk, acked>> /\ pc[j] = "lock"
    BY <1>4 DEF Lock
  <2>2. CASE doc' = doc /\ holder = NoJob /\ holder' = j
    BY <1>4, <1>0, <2>1, <2>2 DEF Lock
  <2>3. CASE /\ pc' = [pc EXCEPT ![j] = "idle"]
             /\ doc' = [doc EXCEPT ![j] = Absent]
             /\ holder' = holder
    BY <1>0, <2>1, <2>3
  <2>. QED
    BY <1>4, <2>2, <2>3 DEF Lock
<1>5. ASSUME NEW j \in Jobs, MakeTemp(j) \/ WriteTemp(j) \/ SyncTemp(j) \/ Cleanup(j) PROVE AckInv'
  BY ZenonT(30), <1>5, <1>0 DEF MakeTemp, WriteTemp, SyncTemp, Cleanup, Try
<1>6. ASSUME NEW j \in Jobs, Replace(j) PROVE AckInv'
  <2>1. temp[j].doc = doc[j]
    BY <1>6, <1>0 DEF Replace, TempInv
  <2>2. UNCHANGED <<doc, holder, acked>> /\ holder = j /\ acked = Absent
    BY <1>6, <1>0 DEF Replace
  <2>3. \/ pc' = [pc EXCEPT ![j] = "sync directory"] /\ path' = temp[j]
        \/ pc' = [pc EXCEPT ![j] = "cleanup"] /\ UNCHANGED <<path, onDisk>>
    BY <1>6 DEF Replace
  <2>4. \A k \in Jobs \ {j} : pc'[k] = pc[k] /\ pc[k] \notin InSection
    BY <2>2, <2>3, <1>0
  <2>. QED
    BY <2>1, <2>2, <2>3, <2>4, <1>0
<1>7. ASSUME NEW j \in Jobs, SyncDirectory(j) PROVE AckInv'
  BY <1>7, <1>0 DEF SyncDirectory
<1>8. ASSUME NEW j \in Jobs, Unlink(j) PROVE AckInv'
  BY <1>8, <1>0 DEF Unlink
<1>9. ASSUME NEW j \in Jobs, Unlock(j) PROVE AckInv'
  BY <1>9, <1>0 DEF Unlock
<1>10. ASSUME NEW j \in Jobs, Stop(j) PROVE AckInv'
  BY <1>10, <1>0 DEF Stop
<1>11. ASSUME PowerLoss PROVE AckInv'
  <2>1. path' \in onDisk
    <3>1. PICK file \in onDisk : path' \in Survivors(file)
      BY <1>11 DEF PowerLoss
    <3>2. Survivors(file) = {file}
      BY <3>1, <1>0, SoundSurvives DEF FilesInv
    <3>. QED
      BY <3>1, <3>2
  <2>. QED
    BY <1>11, <2>1 DEF PowerLoss
<1>. QED
  BY <1>1, <1>2, <1>3, <1>4, <1>5, <1>6, <1>7, <1>8, <1>9, <1>10, <1>11 DEF Next

LEMMA AckInvHolds == Spec => []AckInv
<1>1. Init => AckInv
  BY DEF Init, AckInv, InSection, Quiet
<1>. QED
  BY <1>1, AckInvStep, FileInvHolds, PTL DEF Spec

(* A save that returned survives a power loss. *)
THEOREM AckedSavesSurvive == Spec => []AckedSurvives
<1>1. FileInv /\ AckInv => AckedSurvives
  BY SoundSurvives DEF FileInv, FilesInv, AckInv, AckedSurvives
<1>. QED
  BY <1>1, AckInvHolds, FileInvHolds, PTL

(* Whatever fails, stops or loses power, the document only becomes what    *)
(* the job that has the lock was called with: its temporary file has that, *)
(* whole and synced, when it gets the name.                                *)
THEOREM HolderAloneChanges == Spec => OnlyTheHolderChanges
<1> DEFINE Kept ==
      \A file \in onDisk' \cup {path'} :
        \/ file \in onDisk
        \/ holder \in Jobs /\ Content(file) = doc[holder]
<1>1. FileInv /\ AckInv /\ [Next]_vars => [Kept]_vars
  <2> SUFFICES ASSUME FileInv, AckInv, [Next]_vars PROVE Kept \/ UNCHANGED vars
    OBVIOUS
  <2>0. TypeOK /\ FilesInv /\ \A j \in Jobs : TempInv(j)
    BY DEF FileInv
  <2>2. ASSUME NEW j \in Jobs, Replace(j) PROVE Kept
    <3>1. CASE UNCHANGED <<path, onDisk>>
      BY <3>1, <2>0 DEF FilesInv
    <3>2. CASE path' = temp[j] /\ onDisk' = onDisk \cup {temp[j]}
      <4>1. holder = j
        BY <2>2 DEF AckInv, InSection, Replace
      <4>2. Content(temp[j]) = doc[j]
        BY <2>0, <2>2 DEF TempInv, Replace, Content
      <4>. QED
        BY <3>2, <4>1, <4>2
    <3>. QED
      BY <2>2, <3>1, <3>2 DEF Replace
  <2>3. ASSUME NEW j \in Jobs, Unlink(j) PROVE Kept
    <3>1. CASE UNCHANGED <<path, onDisk>>
      BY <3>1, <2>0 DEF FilesInv
    <3>2. CASE path' = Missing /\ onDisk' = onDisk \cup {Missing}
      <4>1. holder = j
        BY <2>3 DEF AckInv, InSection, Unlink
      <4>2. Content(Missing) = doc[j]
        BY <2>3, MissingIsNoFile DEF AckInv, Unlink, Content
      <4>. QED
        BY <3>2, <4>1, <4>2
    <3>. QED
      BY <2>3, <3>1, <3>2 DEF Unlink
  <2>4. ASSUME NEW j \in Jobs, SyncDirectory(j) PROVE Kept
    BY <2>0, <2>4 DEF SyncDirectory, FilesInv
  <2>5. ASSUME PowerLoss PROVE Kept
    <3>1. PICK file \in onDisk : path' \in Survivors(file)
      BY <2>5 DEF PowerLoss
    <3>2. Survivors(file) = {file}
      BY <2>0, <3>1, SoundSurvives DEF FilesInv
    <3>3. path' \in onDisk
      BY <3>1, <3>2
    <3>4. onDisk' = {path'}
      BY <2>5 DEF PowerLoss
    <3>. QED
      BY <3>3, <3>4
  <2>6. ASSUME NEW j \in Jobs,
               \/ Load(j) \/ Open(j) \/ Read(j) \/ CallSave(j) \/ CallDelete(j) \/ Lock(j)
               \/ MakeTemp(j) \/ WriteTemp(j) \/ SyncTemp(j) \/ Cleanup(j) \/ Unlock(j) \/ Stop(j)
        PROVE  Kept
    <3>1. path' = path /\ onDisk' = onDisk
      BY <2>6 DEF Load, Open, Read, CallSave, CallDelete, Lock, MakeTemp, WriteTemp, SyncTemp,
                  Cleanup, Unlock, Stop
    <3>. QED
      BY <2>0, <3>1 DEF FilesInv
  <2>. QED
    BY <2>2, <2>3, <2>4, <2>5, <2>6 DEF Next
<1>. QED
  BY <1>1, FileInvHolds, AckInvHolds, PTL DEF Spec, OnlyTheHolderChanges

-----------------------------------------------------------------------------
(* Firestore. *)

Syncing == {"sync dedupe", "sync backlog"}

(* The documents a saver wants in the collection it is at. *)
Wanted(j) == ShadowDocuments(CollectionOf(at[j]), env[j], want[j])

(* A document id that an item of environment e has, and by the assumption  *)
(* on ShadowId no item of another.                                         *)
OfEnvironment(id, e) == e \in Environments /\ \E item \in Items : id = ShadowId(e, item)

StoreTypes ==
  /\ env \in [Savers -> Environments]
  /\ DOMAIN document = Environments
  /\ DOMAIN shadows = Collections
  /\ at \in [Savers -> {"idle", "document"} \cup Collections \cup Syncing]
  /\ want \in [Savers -> States \cup {NoState}]
  /\ DOMAIN existing = Savers
  /\ DOMAIN toSet = Savers
  /\ alone \in [Savers -> BOOLEAN]
  /\ mirrored \subseteq Environments

(* A document's id begins with the environment it is of, and is its own. *)
WellNamed ==
  \A c \in Collections :
    /\ \A d \in shadows[c] : OfEnvironment(d.id, d.state_document_id)
    /\ \A d, other \in shadows[c] : d.id = other.id => d = other

(* A saver is about to touch documents of its environment only. *)
WithinOwn(j) ==
  /\ at[j] # "idle" => want[j] \in States
  /\ \A id \in existing[j] : OfEnvironment(id, env[j])
  /\ IF at[j] \in Syncing THEN toSet[j] \subseteq Wanted(j) ELSE toSet[j] = {}

(* A saver that is alone: nobody else saves the document, and what it has  *)
(* done so far is still there.                                             *)
Undisturbed(j) ==
  /\ at[j] # "idle"
  /\ \A k \in Savers \ {j} : env[k] = env[j] => at[k] = "idle"
  /\ at[j] # "document" => document[env[j]] = want[j]
  /\ at[j] \in Syncing =>
       LET own == Own(CollectionOf(at[j]), env[j])
       IN  /\ Wanted(j) \ toSet[j] \subseteq own
           /\ Ids(own) \subseteq existing[j] \cup Ids(Wanted(j))
  /\ at[j] \in {"delivery_backlog", "sync backlog"} =>
       Own("notification_dedupe", env[j])
         = ShadowDocuments("notification_dedupe", env[j], want[j])

(* What was mirrored stays so until a save of the document is called. *)
MirrorKept ==
  \A e \in mirrored :
    /\ \A j \in Savers : env[j] = e => at[j] = "idle"
    /\ \A c \in Collections : Own(c, e) = ShadowDocuments(c, e, document[e])

StoreInv ==
  /\ StoreTypes
  /\ WellNamed
  /\ \A j \in Savers : WithinOwn(j)
  /\ \A j \in Savers : alone[j] => Undisturbed(j)
  /\ MirrorKept

-----------------------------------------------------------------------------
(* What a state has to say bears the environment's name, each document its *)
(* own.                                                                    *)
LEMMA DocumentsNamed ==
  ASSUME NEW c \in Collections, NEW e \in Environments, NEW state \in States
  PROVE  LET docs == ShadowDocuments(c, e, state)
         IN  /\ \A d \in docs : OfEnvironment(d.id, e) /\ d.state_document_id = e
             /\ \A d, other \in docs : d.id = other.id => d = other
<1>1. ASSUME NEW said, DOMAIN said \subseteq Items
      PROVE  /\ \A d \in DocumentsOf(e, said) :
                  OfEnvironment(d.id, e) /\ d.state_document_id = e
             /\ \A d, other \in DocumentsOf(e, said) : d.id = other.id => d = other
  <2>1. \A d \in DocumentsOf(e, said) :
          \E item \in DOMAIN said :
            d = [id |-> ShadowId(e, item), state_document_id |-> e, payload |-> said[item]]
    BY DEF DocumentsOf
  <2>. QED
    BY <1>1, <2>1, ShadowIdAssumption DEF OfEnvironment
<1>2. /\ DOMAIN state.delivered \subseteq Items
      /\ DOMAIN state.outbox \subseteq Items
      /\ DOMAIN state.daily \subseteq Items
  BY DEF Items
<1>3. CASE c = "notification_dedupe"
  BY <1>1, <1>2, <1>3 DEF ShadowDocuments, NotificationDedupeDocuments
<1>4. CASE c = "delivery_backlog"
  <2>1. DOMAIN state.outbox \cap DOMAIN state.daily = {}
    BY StatesAssumption
  <2>2. ASSUME NEW d \in DocumentsOf(e, state.outbox), NEW other \in DocumentsOf(e, state.daily)
        PROVE  d.id # other.id
    <3>1. PICK item \in DOMAIN state.outbox : d.id = ShadowId(e, item)
      BY DEF DocumentsOf
    <3>2. PICK item2 \in DOMAIN state.daily : other.id = ShadowId(e, item2)
      BY DEF DocumentsOf
    <3>. QED
      BY <1>2, <2>1, <3>1, <3>2, ShadowIdAssumption
  <2>. QED
    BY <1>1, <1>2, <1>4, <2>2 DEF ShadowDocuments, DeliveryBacklogDocuments
<1>. QED
  BY <1>3, <1>4 DEF Collections

LEMMA CollectionOfSyncing == \A where : CollectionOf(where) \in Collections
BY DEF CollectionOf, Collections

(* What a step of saver j leaves to the others. *)
StepOf(j) ==
  /\ env' = env
  /\ \A k \in Savers \ {j} :
       /\ at'[k] = at[k]
       /\ want'[k] = want[k]
       /\ existing'[k] = existing[k]
       /\ toSet'[k] = toSet[k]
       /\ alone'[k] => alone[k] /\ env[k] # env[j]
  /\ \A e \in Environments \ {env[j]} :
       /\ document'[e] = document[e]
       /\ \A c \in Collections : Own(c, e)' = Own(c, e)
  /\ mirrored' \subseteq mirrored \cup {env[j]}

LEMMA OneEnvironmentPerId ==
  ASSUME NEW id, NEW e, NEW f, OfEnvironment(id, e), OfEnvironment(id, f)
  PROVE  e = f
BY ShadowIdAssumption DEF OfEnvironment

(* Setting a document, or deleting one, concerns its environment alone. *)
LEMMA SetOwn ==
  ASSUME WellNamed, env' = env, NEW j \in Savers, NEW c \in Collections, DOMAIN shadows = Collections,
         NEW d, OfEnvironment(d.id, env[j]), d.state_document_id = env[j],
         shadows' = [shadows EXCEPT ![c] = {other \in @ : other.id # d.id} \cup {d}]
  PROVE  /\ WellNamed'
         /\ \A x \in Collections : \A e : x # c \/ e # env[j] => Own(x, e)' = Own(x, e)
         /\ Own(c, env[j])' = {other \in Own(c, env[j]) : other.id # d.id} \cup {d}
<1>1. shadows'[c] = {other \in shadows[c] : other.id # d.id} \cup {d}
  OBVIOUS
<1>2. \A x \in Collections : x # c => shadows'[x] = shadows[x]
  OBVIOUS
<1>3. WellNamed'
  BY <1>1, <1>2 DEF WellNamed
<1>4. \A x \in Collections : \A e : x # c => Own(x, e)' = Own(x, e)
  BY <1>2 DEF Own
<1>5. \A e : e # env[j] => Own(c, e)' = Own(c, e)
  BY <1>1, OneEnvironmentPerId DEF Own, WellNamed
<1>6. Own(c, env[j])' = {other \in Own(c, env[j]) : other.id # d.id} \cup {d}
  <2>1. {other \in shadows'[c] : other.state_document_id = env[j]}
          = {other \in {x \in shadows[c] : x.state_document_id = env[j]} : other.id # d.id} \cup {d}
    BY <1>1
  <2>. QED
    BY <2>1 DEF Own
<1>. QED
  BY <1>3, <1>4, <1>5, <1>6

LEMMA DeleteOwn ==
  ASSUME WellNamed, env' = env, NEW j \in Savers, NEW c \in Collections, DOMAIN shadows = Collections,
         NEW id, OfEnvironment(id, env[j]),
         shadows' = [shadows EXCEPT ![c] = {d \in @ : d.id # id}]
  PROVE  /\ WellNamed'
         /\ \A x \in Collections : \A e : x # c \/ e # env[j] => Own(x, e)' = Own(x, e)
         /\ Own(c, env[j])' = {d \in Own(c, env[j]) : d.id # id}
<1>1. shadows'[c] = {d \in shadows[c] : d.id # id}
  OBVIOUS
<1>2. \A x \in Collections : x # c => shadows'[x] = shadows[x]
  OBVIOUS
<1>3. WellNamed'
  BY <1>1, <1>2 DEF WellNamed
<1>4. \A x \in Collections : \A e : x # c => Own(x, e)' = Own(x, e)
  BY <1>2 DEF Own
<1>5. \A e : e # env[j] => Own(c, e)' = Own(c, e)
  BY <1>1, OneEnvironmentPerId DEF Own, WellNamed
<1>6. Own(c, env[j])' = {d \in Own(c, env[j]) : d.id # id}
  BY <1>1 DEF Own
<1>. QED
  BY <1>3, <1>4, <1>5, <1>6

(* A document that is set, or an id that is stale, is of the saver's.      *)
LEMMA SaverWithinOwn ==
  ASSUME StoreInv, NEW j \in Savers, at[j] \in Syncing
  PROVE  /\ want[j] \in States /\ CollectionOf(at[j]) \in Collections
         /\ \A d \in Wanted(j) : OfEnvironment(d.id, env[j]) /\ d.state_document_id = env[j]
         /\ \A d, other \in Wanted(j) : d.id = other.id => d = other
         /\ toSet[j] \subseteq Wanted(j)
         /\ \A id \in Stale(j) : OfEnvironment(id, env[j]) /\ id \notin Ids(Wanted(j))
<1>1. WithinOwn(j)
  BY DEF StoreInv
<1>2. want[j] \in States /\ toSet[j] \subseteq Wanted(j) /\ \A id \in existing[j] : OfEnvironment(id, env[j])
  BY <1>1 DEF WithinOwn, Syncing
<1>3. CollectionOf(at[j]) \in Collections
  BY CollectionOfSyncing
<1>4. /\ \A d \in Wanted(j) : OfEnvironment(d.id, env[j]) /\ d.state_document_id = env[j]
      /\ \A d, other \in Wanted(j) : d.id = other.id => d = other
  <2>1. env[j] \in Environments
    BY DEF StoreInv, StoreTypes
  <2>. QED
    BY <1>2, <1>3, <2>1, DocumentsNamed DEF Wanted
<1>5. \A id \in Stale(j) : OfEnvironment(id, env[j]) /\ id \notin Ids(Wanted(j))
  BY <1>2 DEF Stale, Wanted
<1>. QED
  BY <1>2, <1>3, <1>4, <1>5

(* The others' part of the invariant survives a step that is not theirs.   *)
LEMMA OthersKept ==
  ASSUME StoreInv, NEW j \in Savers, StepOf(j),
         StoreTypes', WellNamed', WithinOwn(j)', alone'[j] => Undisturbed(j)',
         env[j] \in mirrored' =>
           /\ \A k \in Savers : env[k] = env[j] => at'[k] = "idle"
           /\ \A c \in Collections :
                Own(c, env[j])' = ShadowDocuments(c, env[j], document'[env[j]])
  PROVE  StoreInv'
<1>0. StoreTypes /\ env' = env
  BY DEF StoreInv, StepOf
<1>1. ASSUME NEW k \in Savers \ {j} PROVE WithinOwn(k)'
  <2>1. WithinOwn(k)
    BY DEF StoreInv
  <2>2. at'[k] = at[k] /\ want'[k] = want[k] /\ existing'[k] = existing[k] /\ toSet'[k] = toSet[k]
    BY DEF StepOf
  <2>. QED
    BY <1>0, <2>1, <2>2 DEF WithinOwn, Wanted
<1>2. ASSUME NEW k \in Savers \ {j}, alone'[k] PROVE Undisturbed(k)'
  <2>1. alone[k] /\ env[k] # env[j] /\ env[k] \in Environments
    BY <1>0, <1>2 DEF StepOf, StoreTypes
  <2>2. Undisturbed(k)
    BY <2>1 DEF StoreInv
  <2>3. at'[k] = at[k] /\ want'[k] = want[k] /\ existing'[k] = existing[k] /\ toSet'[k] = toSet[k]
    BY DEF StepOf
  <2>4. /\ document'[env[k]] = document[env[k]]
        /\ \A c \in Collections : Own(c, env[k])' = Own(c, env[k])
    BY <1>0, <2>1 DEF StepOf
  <2>5. Wanted(k)' = Wanted(k)
    BY <1>0, <2>3 DEF Wanted
  <2>6. Own(CollectionOf(at[k]), env[k])' = Own(CollectionOf(at[k]), env[k])
    BY <1>0, <2>3, <2>4, CollectionOfSyncing
  <2>7. \A x \in Savers \ {k} : env'[x] = env'[k] => at'[x] = "idle"
    BY <1>0, <2>1, <2>2 DEF StepOf, Undisturbed
  <2>8. Own("notification_dedupe", env[k])' = Own("notification_dedupe", env[k])
    BY <1>0, <2>4 DEF Collections
  <2>. QED
    BY <1>0, <2>2, <2>3, <2>4, <2>5, <2>6, <2>7, <2>8 DEF Undisturbed
<1>3. ASSUME NEW e \in mirrored' 
      PROVE  /\ \A k \in Savers : env'[k] = e => at'[k] = "idle"
             /\ \A c \in Collections : Own(c, e)' = ShadowDocuments(c, e, document'[e])
  <2>1. CASE e = env[j]
    BY <1>0, <2>1
  <2>2. CASE e # env[j]
    <3>1. e \in mirrored /\ e \in Environments
      BY <2>2, <1>0 DEF StepOf, StoreTypes
    <3>2. /\ \A k \in Savers : env[k] = e => at[k] = "idle"
          /\ \A c \in Collections : Own(c, e) = ShadowDocuments(c, e, document[e])
      BY <3>1 DEF StoreInv, MirrorKept
    <3>. QED
      BY <1>0, <2>2, <3>1, <3>2 DEF StepOf
  <2>. QED
    BY <2>1, <2>2
<1>4. MirrorKept'
  BY <1>3 DEF MirrorKept
<1>. QED
  BY <1>1, <1>2, <1>4 DEF StoreInv

-----------------------------------------------------------------------------
StoreStep(j) ==
  \/ SaveState(j) \/ SaveDocument(j)
  \/ ListShadows(j) \/ SetShadow(j) \/ DeleteStale(j) \/ SyncNext(j)
  \/ SaveReturns(j) \/ SaveRaises(j)

LEMMA NextIsStep == StoreNext <=> \E j \in Savers : StoreStep(j)
BY DEF StoreNext, StoreStep

(* Each step is within the saver's environment. *)
LEMMA StepsWithinOwn ==
  ASSUME StoreInv, NEW j \in Savers, StoreStep(j)
  PROVE  StepOf(j)
<1>0. StoreTypes /\ WellNamed
  BY DEF StoreInv
<1> USE <1>0 DEF StoreTypes
<1>1. CASE SaveState(j)
  <2>1. \A k \in Savers \ {j} : alone'[k] => alone[k] /\ (env[k] = env[j] => at[k] = "idle")
    BY <1>1 DEF SaveState
  <2>2. \A k \in Savers : alone[k] => at[k] # "idle"
    BY DEF StoreInv, Undisturbed
  <2>3. \A k \in Savers \ {j} : alone'[k] => alone[k] /\ env[k] # env[j]
    BY <2>1, <2>2
  <2>. QED
    BY <1>1, <2>3 DEF SaveState, StepOf, Own
<1>2. ASSUME at[j] # "idle", alone' = alone \/ alone' = [alone EXCEPT ![j] = FALSE]
      PROVE  \A k \in Savers \ {j} : alone'[k] => alone[k] /\ env[k] # env[j]
  BY <1>2 DEF StoreInv, Undisturbed
<1>3. CASE SaveDocument(j)
  BY <1>2, <1>3 DEF SaveDocument, StepOf, Own
<1>4. CASE ListShadows(j)
  BY <1>2, <1>4 DEF ListShadows, StepOf, Own, Collections
<1>5. CASE SetShadow(j)
  <2>1. at[j] \in Syncing
    BY <1>5 DEF SetShadow, Syncing
  <2>2. PICK d \in toSet[j] :
          shadows' = [shadows EXCEPT ![CollectionOf(at[j])] =
                        {other \in @ : other.id # d.id} \cup {d}]
    BY <1>5 DEF SetShadow
  <2>3. /\ CollectionOf(at[j]) \in Collections
        /\ OfEnvironment(d.id, env[j]) /\ d.state_document_id = env[j]
    BY <2>1, SaverWithinOwn
  <2>4. env' = env
    BY <1>5 DEF SetShadow
  <2>5. \A x \in Collections : \A e : e # env[j] => Own(x, e)' = Own(x, e)
    BY SMTT(30), <2>2, <2>3, <2>4, SetOwn
  <2>. QED
    BY <1>2, <1>5, <2>5 DEF SetShadow, StepOf
<1>6. CASE DeleteStale(j)
  <2>1. at[j] \in Syncing
    BY <1>6 DEF DeleteStale, Syncing
  <2>2. PICK id \in Stale(j) :
          shadows' = [shadows EXCEPT ![CollectionOf(at[j])] = {d \in @ : d.id # id}]
    BY <1>6 DEF DeleteStale
  <2>3. CollectionOf(at[j]) \in Collections /\ OfEnvironment(id, env[j])
    BY <2>1, SaverWithinOwn
  <2>4. env' = env
    BY <1>6 DEF DeleteStale
  <2>5. \A x \in Collections : \A e : e # env[j] => Own(x, e)' = Own(x, e)
    BY <2>2, <2>3, <2>4, DeleteOwn
  <2>6. \A k \in Savers \ {j} : existing'[k] = existing[k]
    BY <1>6 DEF DeleteStale
  <2>. QED
    BY <1>2, <1>6, <2>5, <2>6 DEF DeleteStale, StepOf
<1>7. CASE SyncNext(j)
  BY <1>2, <1>7 DEF SyncNext, StepOf, Own
<1>8. CASE SaveReturns(j)
  BY <1>2, <1>8 DEF SaveReturns, Forget, StepOf, Own
<1>9. CASE SaveRaises(j)
  BY <1>2, <1>9 DEF SaveRaises, Forget, StepOf, Own
<1>. QED
  BY <1>1, <1>3, <1>4, <1>5, <1>6, <1>7, <1>8, <1>9 DEF StoreStep

-----------------------------------------------------------------------------
LEMMA StoreInvInitial == StoreInit => StoreInv
<1> SUFFICES ASSUME StoreInit PROVE StoreInv
  OBVIOUS
<1>1. StoreTypes
  BY DEF StoreInit, StoreTypes
<1>2. WellNamed /\ MirrorKept
  BY DEF StoreInit, WellNamed, MirrorKept
<1>3. \A j \in Savers : WithinOwn(j) /\ ~alone[j]
  BY DEF StoreInit, WithinOwn, Syncing
<1>. QED
  BY <1>1, <1>2, <1>3 DEF StoreInv

(* A saver that is alone, has set all its documents and deleted the stale  *)
(* ones has brought the collection in line.                                *)
LEMMA BroughtInLine ==
  ASSUME StoreInv, NEW j \in Savers, at[j] \in Syncing, alone[j], toSet[j] = {}, Stale(j) = {}
  PROVE  Own(CollectionOf(at[j]), env[j]) = Wanted(j)
<1> DEFINE own == Own(CollectionOf(at[j]), env[j])
<1>1. Wanted(j) \subseteq own /\ Ids(own) \subseteq existing[j] \cup Ids(Wanted(j))
  BY DEF StoreInv, Undisturbed
<1>2. existing[j] \subseteq Ids(Wanted(j))
  BY DEF Stale, Wanted
<1>3. \A d, other \in own : d.id = other.id => d = other
  BY CollectionOfSyncing DEF StoreInv, WellNamed, Own
<1>4. \A d \in own : \E w \in Wanted(j) : w.id = d.id
  BY <1>1, <1>2 DEF Ids
<1>. HIDE DEF own
<1>5. own = Wanted(j)
  BY <1>1, <1>3, <1>4
<1>. QED
  BY <1>5 DEF own

(* A saver that calls, fails or returns disturbs no mirror. *)
LEMMA StoreInvStep == StoreInv /\ [StoreNext]_storeVars => StoreInv'
<1> SUFFICES ASSUME StoreInv, [StoreNext]_storeVars PROVE StoreInv'
  OBVIOUS
<1>0. StoreTypes /\ WellNamed /\ MirrorKept
  BY DEF StoreInv
<1>1. CASE UNCHANGED storeVars
  <2>1. /\ env' = env /\ document' = document /\ shadows' = shadows /\ at' = at
        /\ want' = want /\ existing' = existing /\ toSet' = toSet
        /\ alone' = alone /\ mirrored' = mirrored
    BY <1>1 DEF storeVars, saver
  <2>2. StoreTypes' /\ WellNamed' /\ MirrorKept'
    BY <1>0, <2>1 DEF StoreTypes, WellNamed, MirrorKept, Own
  <2>3. \A j \in Savers : Wanted(j)' = Wanted(j)
    BY <2>1 DEF Wanted
  <2>4. \A c, j : Own(c, env[j])' = Own(c, env[j])
    BY <2>1 DEF Own
  <2>5. \A j \in Savers : WithinOwn(j)'
    BY <2>1, <2>3 DEF StoreInv, WithinOwn
  <2>6. ASSUME NEW j \in Savers, alone'[j] PROVE Undisturbed(j)'
    <3>1. Undisturbed(j)
      BY <2>1, <2>6 DEF StoreInv
    <3>2. Own(CollectionOf(at[j]), env[j])' = Own(CollectionOf(at[j]), env[j])
      BY <2>1 DEF Own
    <3>. QED
      BY <2>1, <2>3, <2>4, <2>6, <3>1, <3>2 DEF Undisturbed
  <2>. QED
    BY <2>2, <2>5, <2>6 DEF StoreInv
<1>2. SUFFICES ASSUME NEW j \in Savers, StoreStep(j) PROVE StoreInv'
  BY <1>1, NextIsStep
<1>3. StepOf(j)
  BY <1>2, StepsWithinOwn
<1>4. WithinOwn(j) /\ (alone[j] => Undisturbed(j))
  BY DEF StoreInv
<1>5. env[j] \in mirrored => at[j] = "idle"
  BY <1>0 DEF MirrorKept
<1>6. CASE SaveState(j)
  <2>1. StoreTypes'
    BY <1>0, <1>6 DEF StoreTypes, SaveState
  <2>2. WellNamed'
    BY <1>0, <1>6 DEF WellNamed, SaveState
  <2>3. WithinOwn(j)'
    BY <1>0, <1>4, <1>6 DEF StoreTypes, WithinOwn, SaveState, Syncing
  <2>4. ASSUME alone'[j] PROVE Undisturbed(j)'
    <3>1. at'[j] = "document"
      BY <1>0, <1>6 DEF StoreTypes, SaveState
    <3>2. \A k \in Savers \ {j} : env[k] = env[j] => at[k] = "idle"
      BY <1>0, <1>6, <2>4 DEF StoreTypes, SaveState
    <3>3. \A k \in Savers \ {j} : env'[k] = env'[j] => at'[k] = "idle"
      BY <1>3, <3>2 DEF StepOf
    <3>. QED
      BY <3>1, <3>3 DEF Undisturbed, Syncing
  <2>5. env[j] \notin mirrored'
    BY <1>6 DEF SaveState
  <2>. QED
    BY <1>3, <2>1, <2>2, <2>3, <2>4, <2>5, OthersKept
<1>7. CASE SaveDocument(j)
  <2>1. StoreTypes'
    BY <1>0, <1>7 DEF StoreTypes, SaveDocument, Collections
  <2>2. WellNamed'
    BY <1>0, <1>7 DEF WellNamed, SaveDocument
  <2>3. WithinOwn(j)'
    BY <1>0, <1>4, <1>7 DEF StoreTypes, WithinOwn, SaveDocument, Syncing
  <2>4. ASSUME alone'[j] PROVE Undisturbed(j)'
    <3>1. at'[j] = "notification_dedupe" /\ document'[env[j]] = want[j]
      BY <1>0, <1>7 DEF StoreTypes, SaveDocument
    <3>2. Undisturbed(j)
      BY <1>4, <1>7, <2>4 DEF SaveDocument
    <3>3. \A k \in Savers \ {j} : env'[k] = env'[j] => at'[k] = "idle"
      BY <1>3, <3>2 DEF StepOf, Undisturbed
    <3>. QED
      BY <1>7, <3>1, <3>3 DEF Undisturbed, Syncing, SaveDocument
  <2>5. env[j] \notin mirrored'
    BY <1>5, <1>7 DEF SaveDocument
  <2>. QED
    BY <1>3, <2>1, <2>2, <2>3, <2>4, <2>5, OthersKept
<1>8. CASE ListShadows(j)
  <2>0. /\ at[j] \in Collections /\ at'[j] \in Syncing
        /\ CollectionOf(at'[j]) = at[j]
        /\ toSet'[j] = ShadowDocuments(at[j], env[j], want[j])
        /\ existing'[j] = Ids(Own(at[j], env[j]))
        /\ UNCHANGED <<env, document, shadows, want, alone, mirrored>>
    BY <1>0, <1>8 DEF StoreTypes, ListShadows, ToSet, Own, Collections, Syncing, CollectionOf
  <2>1. StoreTypes'
    BY <1>0, <1>8 DEF StoreTypes, ListShadows, Syncing
  <2>2. WellNamed'
    BY <1>0, <2>0 DEF WellNamed
  <2>6. Wanted(j)' = toSet'[j]
    BY <2>0 DEF Wanted
  <2>7. at[j] # "idle"
    BY <2>0 DEF Collections
  <2>3. WithinOwn(j)'
    <3>1. \A id \in existing'[j] : OfEnvironment(id, env[j])
      BY <1>0, <2>0 DEF WellNamed, Own, Ids
    <3>. QED
      BY <1>4, <2>0, <2>6, <2>7, <3>1 DEF WithinOwn
  <2>4. ASSUME alone'[j] PROVE Undisturbed(j)'
    <3>1. Undisturbed(j)
      BY <1>4, <2>0, <2>4
    <3>2. \A k \in Savers \ {j} : env'[k] = env'[j] => at'[k] = "idle"
      BY <1>3, <3>1 DEF StepOf, Undisturbed
    <3>3. \A c, e : Own(c, e)' = Own(c, e)
      BY <2>0 DEF Own
    <3>4. at[j] # "document" /\ at'[j] # "idle" /\ at'[j] # "delivery_backlog"
          /\ (at'[j] = "sync backlog" => at[j] = "delivery_backlog")
      BY <2>0 DEF Collections, Syncing, CollectionOf
    <3>5. Own(CollectionOf(at[j]), env[j])' = Own(at[j], env[j])
      BY <2>0 DEF Own
    <3>6. /\ Wanted(j)' \ toSet'[j] = {}
          /\ Ids(Own(CollectionOf(at[j]), env[j]))' = existing'[j]
      BY <2>0, <2>6, <3>5 DEF Ids
    <3>. QED
      BY <2>0, <2>6, <3>1, <3>2, <3>3, <3>4, <3>5, <3>6 DEF Undisturbed
  <2>5. env[j] \notin mirrored'
    BY <1>5, <2>0, <2>7
  <2>. QED
    BY <1>3, <2>1, <2>2, <2>3, <2>4, <2>5, OthersKept
<1>9. CASE SetShadow(j)
  <2>0. at[j] \in Syncing /\ at[j] # "idle" /\ UNCHANGED <<env, document, at, want, existing, alone, mirrored>>
    BY <1>9 DEF SetShadow, Syncing
  <2>c. PICK c \in Collections : c = CollectionOf(at[j])
    BY CollectionOfSyncing
  <2> DEFINE Before == Own(c, env[j])
  <2>6. PICK d \in toSet[j] :
          /\ shadows' = [shadows EXCEPT ![c] = {other \in @ : other.id # d.id} \cup {d}]
          /\ toSet' = [toSet EXCEPT ![j] = @ \ {d}]
    BY <1>9, <2>c DEF SetShadow
  <2>a. d \in Wanted(j) /\ OfEnvironment(d.id, env[j]) /\ d.state_document_id = env[j]
    BY <2>0, SaverWithinOwn
  <2>7. \A x \in Wanted(j) : x.id = d.id => x = d
    BY <2>0, <2>a, SaverWithinOwn
  <2>8. /\ WellNamed'
        /\ \A x \in Collections : \A e : x # c \/ e # env[j] => Own(x, e)' = Own(x, e)
        /\ Own(c, env[j])' = {other \in Before : other.id # d.id} \cup {d}
    <3>1. /\ DOMAIN shadows = Collections
          /\ shadows' = [shadows EXCEPT ![c] = {other \in @ : other.id # d.id} \cup {d}]
          /\ env' = env
      BY <1>0, <2>0, <2>6 DEF StoreTypes
    <3>. QED
      BY <1>0, <2>a, <3>1, SetOwn
  <2>9. Wanted(j)' = Wanted(j) /\ toSet'[j] = toSet[j] \ {d}
    BY <1>0, <2>0, <2>6 DEF Wanted, StoreTypes
  <2>1. StoreTypes'
    BY <1>0, <2>0, <2>6 DEF StoreTypes
  <2>3. WithinOwn(j)'
    BY <1>4, <2>0, <2>9 DEF WithinOwn
  <2>4. ASSUME alone'[j] PROVE Undisturbed(j)'
    <3>1. Undisturbed(j)
      BY <1>4, <2>0, <2>4
    <3>2. Own(CollectionOf(at[j]), env[j])' = {other \in Before : other.id # d.id} \cup {d}
      BY <2>0, <2>8, <2>c
    <3>3. Wanted(j) \ toSet[j] \subseteq Before /\ Ids(Before) \subseteq existing[j] \cup Ids(Wanted(j))
      BY <2>0, <2>c, <3>1 DEF Undisturbed
    <3>4. (Wanted(j) \ toSet[j]) \cup {d} \subseteq {other \in Before : other.id # d.id} \cup {d}
      BY <2>7, <2>a, <3>3
    <3>5. Ids({other \in Before : other.id # d.id} \cup {d}) \subseteq existing[j] \cup Ids(Wanted(j))
      BY <2>7, <2>a, <3>3 DEF Ids
    <3>6. /\ Wanted(j)' \ toSet'[j] \subseteq Own(CollectionOf(at[j]), env[j])'
          /\ Ids(Own(CollectionOf(at[j]), env[j]))' \subseteq existing'[j] \cup Ids(Wanted(j))'
      <4>1. Ids(Own(CollectionOf(at[j]), env[j]))' = Ids({other \in Before : other.id # d.id} \cup {d})
        BY <3>2 DEF Ids
      <4>2. Ids(Wanted(j))' = Ids(Wanted(j))
        BY <2>9 DEF Ids
      <4>. HIDE DEF Before
      <4>. QED
        BY <2>0, <2>9, <3>2, <3>4, <3>5, <4>1, <4>2
    <3>7. at[j] = "sync backlog" => Own("notification_dedupe", env[j])' = Own("notification_dedupe", env[j])
      <4>1. at[j] = "sync backlog" => c = "delivery_backlog"
        BY <2>c DEF CollectionOf
      <4>2. \A e : c = "delivery_backlog" => Own("notification_dedupe", e)' = Own("notification_dedupe", e)
        BY <2>8 DEF Collections
      <4>. QED
        BY <2>0, <4>1, <4>2 DEF Own
    <3>. QED
      BY <2>0, <3>1, <3>6, <3>7 DEF Undisturbed, Syncing
  <2>5. env[j] \notin mirrored'
    BY <1>5, <2>0
  <2>. QED
    BY <1>3, <2>1, <2>3, <2>4, <2>5, <2>8, OthersKept
<1>10. CASE DeleteStale(j)
  <2>0. at[j] \in Syncing /\ at[j] # "idle" /\ UNCHANGED <<env, document, at, want, toSet, alone, mirrored>>
    BY <1>10 DEF DeleteStale, Syncing
  <2>c. PICK c \in Collections : c = CollectionOf(at[j])
    BY CollectionOfSyncing
  <2> DEFINE Before == Own(c, env[j])
  <2>6. PICK id \in Stale(j) :
          /\ shadows' = [shadows EXCEPT ![c] = {d \in @ : d.id # id}]
          /\ existing' = [existing EXCEPT ![j] = @ \ {id}]
    BY <1>10, <2>c DEF DeleteStale
  <2>7. c \in Collections /\ OfEnvironment(id, env[j]) /\ id \notin Ids(Wanted(j))
    BY <2>0, SaverWithinOwn
  <2>8. /\ WellNamed'
        /\ \A x \in Collections : \A e : x # c \/ e # env[j] => Own(x, e)' = Own(x, e)
        /\ Own(c, env[j])' = {d \in Before : d.id # id}
    BY <1>0, <2>0, <2>6, <2>7, DeleteOwn DEF StoreTypes
  <2>9. Wanted(j)' = Wanted(j) /\ existing'[j] = existing[j] \ {id}
    BY <1>0, <2>0, <2>6 DEF Wanted, StoreTypes
  <2>1. StoreTypes'
    BY <1>0, <2>0, <2>6 DEF StoreTypes
  <2>3. WithinOwn(j)'
    BY <1>4, <2>0, <2>9 DEF WithinOwn
  <2>4. ASSUME alone'[j] PROVE Undisturbed(j)'
    <3>1. Undisturbed(j)
      BY <1>4, <2>0, <2>4
    <3>2. Own(CollectionOf(at[j]), env[j])' = {d \in Before : d.id # id}
      BY <2>0, <2>8, <2>c
    <3>3. Wanted(j) \ toSet[j] \subseteq Before /\ Ids(Before) \subseteq existing[j] \cup Ids(Wanted(j))
      BY <2>0, <2>c, <3>1 DEF Undisturbed
    <3>4. Wanted(j) \ toSet[j] \subseteq {d \in Before : d.id # id}
      BY <2>7, <3>3 DEF Ids
    <3>5. Ids({d \in Before : d.id # id}) \subseteq (existing[j] \ {id}) \cup Ids(Wanted(j))
      BY <2>7, <3>3 DEF Ids
    <3>6. /\ Wanted(j)' \ toSet'[j] \subseteq Own(CollectionOf(at[j]), env[j])'
          /\ Ids(Own(CollectionOf(at[j]), env[j]))' \subseteq existing'[j] \cup Ids(Wanted(j))'
      <4>1. Ids(Own(CollectionOf(at[j]), env[j]))' = Ids({d \in Before : d.id # id})
        BY <3>2 DEF Ids
      <4>2. Ids(Wanted(j))' = Ids(Wanted(j))
        BY <2>9 DEF Ids
      <4>. HIDE DEF Before
      <4>. QED
        BY <2>0, <2>9, <3>2, <3>4, <3>5, <4>1, <4>2
    <3>7. at[j] = "sync backlog" => Own("notification_dedupe", env[j])' = Own("notification_dedupe", env[j])
      <4>1. at[j] = "sync backlog" => c = "delivery_backlog"
        BY <2>c DEF CollectionOf
      <4>2. \A e : c = "delivery_backlog" => Own("notification_dedupe", e)' = Own("notification_dedupe", e)
        BY <2>8 DEF Collections
      <4>. QED
        BY <2>0, <4>1, <4>2 DEF Own
    <3>. QED
      BY <2>0, <3>1, <3>6, <3>7 DEF Undisturbed, Syncing
  <2>5. env[j] \notin mirrored'
    BY <1>5, <2>0
  <2>. QED
    BY <1>3, <2>1, <2>3, <2>4, <2>5, <2>8, OthersKept
<1>11. CASE SyncNext(j)
  <2>0. /\ at[j] = "sync dedupe" /\ at'[j] = "delivery_backlog" /\ toSet[j] = {} /\ Stale(j) = {}
        /\ existing'[j] = {}
        /\ UNCHANGED <<env, document, shadows, want, toSet, alone, mirrored>>
    BY <1>0, <1>11 DEF SyncNext, StoreTypes
  <2>1. StoreTypes'
    BY <1>0, <1>11 DEF StoreTypes, SyncNext, Collections
  <2>2. WellNamed'
    BY <1>0, <2>0 DEF WellNamed
  <2>3. WithinOwn(j)'
    BY <1>4, <2>0 DEF WithinOwn, Syncing
  <2>4. ASSUME alone'[j] PROVE Undisturbed(j)'
    <3>1. Undisturbed(j)
      BY <1>4, <2>0, <2>4
    <3>2. \A k \in Savers \ {j} : env'[k] = env'[j] => at'[k] = "idle"
      BY <1>3, <3>1 DEF StepOf, Undisturbed
    <3>3. Own("notification_dedupe", env[j])
            = ShadowDocuments("notification_dedupe", env[j], want[j])
      BY <2>0, <2>4, BroughtInLine DEF Syncing, CollectionOf, Wanted
    <3>. QED
      BY <2>0, <3>1, <3>2, <3>3 DEF Undisturbed, Syncing, Own
  <2>5. env[j] \notin mirrored'
    BY <1>5, <2>0
  <2>. QED
    BY <1>3, <2>1, <2>2, <2>3, <2>4, <2>5, OthersKept
<1>12. CASE SaveReturns(j)
  <2>0. /\ at[j] = "sync backlog" /\ at'[j] = "idle" /\ toSet[j] = {} /\ Stale(j) = {}
        /\ existing'[j] = {} /\ toSet'[j] = {} /\ ~alone'[j]
        /\ mirrored' = IF alone[j] THEN mirrored \cup {env[j]} ELSE mirrored
        /\ UNCHANGED <<env, document, shadows>>
    BY <1>0, <1>12 DEF SaveReturns, Forget, StoreTypes
  <2>1. StoreTypes'
    BY <1>0, <1>12 DEF StoreTypes, SaveReturns, Forget
  <2>2. WellNamed'
    BY <1>0, <2>0 DEF WellNamed
  <2>3. WithinOwn(j)'
    BY <2>0 DEF WithinOwn, Syncing
  <2>5. ASSUME env[j] \in mirrored'
        PROVE  /\ \A k \in Savers : env[k] = env[j] => at'[k] = "idle"
               /\ \A c \in Collections :
                    Own(c, env[j])' = ShadowDocuments(c, env[j], document'[env[j]])
    <3>0. alone[j]
      BY <1>5, <2>0, <2>5
    <3>1. Undisturbed(j)
      BY <1>4, <3>0
    <3>2. \A k \in Savers : env[k] = env[j] => at'[k] = "idle"
      BY <1>3, <2>0, <3>1 DEF StepOf, Undisturbed
    <3>3. Own("delivery_backlog", env[j]) = ShadowDocuments("delivery_backlog", env[j], want[j])
      BY <2>0, <3>0, BroughtInLine DEF Syncing, CollectionOf, Wanted
    <3>4. /\ document[env[j]] = want[j]
          /\ Own("notification_dedupe", env[j])
               = ShadowDocuments("notification_dedupe", env[j], want[j])
      BY <2>0, <3>1 DEF Undisturbed
    <3>5. \A c \in Collections : Own(c, env[j]) = ShadowDocuments(c, env[j], document[env[j]])
      BY <3>3, <3>4 DEF Collections
    <3>6. \A c : Own(c, env[j])' = Own(c, env[j])
      BY <2>0 DEF Own
    <3>. QED
      BY <2>0, <3>2, <3>5, <3>6
  <2>. QED
    BY <1>3, <2>0, <2>1, <2>2, <2>3, <2>5, OthersKept
<1>13. CASE SaveRaises(j)
  <2>0. /\ at[j] # "idle" /\ at'[j] = "idle" /\ existing'[j] = {} /\ toSet'[j] = {} /\ ~alone'[j]
        /\ UNCHANGED <<env, document, shadows, mirrored>>
    BY <1>0, <1>13 DEF SaveRaises, Forget, StoreTypes
  <2>1. StoreTypes'
    BY <1>0, <1>13 DEF StoreTypes, SaveRaises, Forget
  <2>2. WellNamed'
    BY <1>0, <2>0 DEF WellNamed
  <2>3. WithinOwn(j)'
    BY <2>0 DEF WithinOwn, Syncing
  <2>. QED
    BY <1>3, <1>5, <2>0, <2>1, <2>2, <2>3, OthersKept
<1>. QED
  BY <1>2, <1>6, <1>7, <1>8, <1>9, <1>10, <1>11, <1>12, <1>13 DEF StoreStep

LEMMA StoreInvariant == StoreSpec => []StoreInv
<1>. QED
  BY StoreInvInitial, StoreInvStep, PTL DEF StoreSpec

(* After a save_state that no other save of the document overlapped, both  *)
(* collections show the saved document exactly, whatever failed or         *)
(* overlapping saves left in them.                                         *)
THEOREM CollectionsMirror == StoreSpec => []MirrorsState
<1>1. StoreInv => MirrorsState
  BY DEF StoreInv, MirrorKept, MirrorsState
<1>. QED
  BY <1>1, StoreInvariant, PTL

(* _sync_named_documents, which lists and deletes in collections that      *)
(* environments share, changes documents of its own environment only.      *)
THEOREM SavesKeepToTheirOwn == StoreSpec => OthersUntouched
<1> DEFINE Kept ==
      \A e \in Environments :
        (\A j \in Savers : env[j] = e => UNCHANGED <<at[j], toSet[j], existing[j]>>)
          => \A c \in Collections : Own(c, e)' = Own(c, e)
<1>1. StoreInv /\ [StoreNext]_storeVars => [Kept]_storeVars
  <2> SUFFICES ASSUME StoreInv, NEW j \in Savers, StoreStep(j) PROVE Kept
    BY NextIsStep
  <2>0. StoreTypes
    BY DEF StoreInv
  <2>1. \A e \in Environments : e # env[j] => \A c \in Collections : Own(c, e)' = Own(c, e)
    BY StepsWithinOwn DEF StepOf
  <2>2. ASSUME UNCHANGED <<at[j], toSet[j], existing[j]>>
        PROVE  \A c, e : Own(c, e)' = Own(c, e)
    <3>1. ~SetShadow(j)
      BY <2>0, <2>2 DEF SetShadow, StoreTypes
    <3>2. ~DeleteStale(j)
      BY <2>0, <2>2 DEF DeleteStale, StoreTypes, Stale
    <3>3. shadows' = shadows
      BY <3>1, <3>2 DEF StoreStep, SaveState, SaveDocument, ListShadows, SyncNext, SaveReturns,
                        SaveRaises
    <3>. QED
      BY <3>3 DEF Own
  <2>. QED
    BY <2>1, <2>2
<1>. QED
  BY <1>1, StoreInvariant, PTL DEF StoreSpec, OthersUntouched
=============================================================================
