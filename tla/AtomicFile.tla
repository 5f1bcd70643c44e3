----------------------------- MODULE AtomicFile -----------------------------
(***************************************************************************)
(* One JSON file of storage.py: the watchlist, the state or a session,     *)
(* written by atomic_write_json under an advisory lock, deleted under the  *)
(* same lock, and read without it.  Between any two system calls a process *)
(* may stop or the power may fail.  Any of the calls up to the release of  *)
(* the lock may fail, the handler's own unlink included; then it has had   *)
(* no effect and the exception goes up.                                    *)
(*                                                                         *)
(* A file has what was written to it, and may have lost it after a power   *)
(* loss if it was not synced.  What the directory says on disk is one of   *)
(* the things it said since it was synced last.                            *)
(***************************************************************************)
EXTENDS FiniteSets

CONSTANTS
  Docs,          \* the documents that are saved
  Absent, Torn,  \* no document, and one that is cut off
  Jobs, NoJob    \* what loads, saves and deletes: threads and processes

ASSUME AtomicFileAssumption ==
  /\ Absent \notin Docs
  /\ Torn \notin Docs \cup {Absent}
  /\ NoJob \notin Jobs

File == [doc : Docs, whole : BOOLEAN, synced : BOOLEAN]

(* No file of that name. *)
Missing == [doc |-> Absent, whole |-> TRUE, synced |-> TRUE]

(* What a reader gets from a file. *)
Content(file) == IF file.whole THEN file.doc ELSE Torn

VARIABLES
  pc,       \* which call each job makes next
  doc,      \* what it saves, or Absent if it deletes or loads
  holder,   \* who has the advisory lock
  temp,     \* the temporary file each job made last
  path,     \* the file under the document's name,
  onDisk,   \* and those that could be under it after a power loss
  opened,   \* the file each reader has open
  loaded,   \* what it got
  acked     \* history: the document of an acknowledged save, while no later
            \* save or delete has been called

reader == <<opened, loaded>>
vars == <<pc, doc, holder, temp, path, onDisk, reader, acked>>

Init ==
  /\ pc = [j \in Jobs |-> "idle"]
  /\ doc = [j \in Jobs |-> Absent]
  /\ holder = NoJob
  /\ temp = [j \in Jobs |-> Missing]
  /\ \E d \in Docs : path \in {Missing, [doc |-> d, whole |-> TRUE, synced |-> TRUE]}
  /\ onDisk = {path}
  /\ opened = [j \in Jobs |-> Missing]
  /\ loaded = [j \in Jobs |-> Absent]
  /\ acked = Absent

Goto(j, to) == pc' = [pc EXCEPT ![j] = to]

(* A call that may fail: then the exception handler takes over. *)
Try(j, next, file) ==
  \/ Goto(j, next) /\ temp' = [temp EXCEPT ![j] = file]
  \/ Goto(j, "cleanup") /\ UNCHANGED temp

-----------------------------------------------------------------------------
(* Faulty variants of the definitions below, each a mistake one could make *)
(* in the code: substituted for the definition, a property has to fail.    *)

(* flush without fsync *)
SyncNothing(j) ==
  /\ pc[j] = "sync"
  /\ Try(j, "replace", temp[j])
  /\ UNCHANGED <<doc, holder, path, onDisk, reader, acked>>

(* the rename is not synced *)
SyncNoDirectory(j) ==
  /\ pc[j] = "sync directory"
  /\ Goto(j, "return")
  /\ UNCHANGED <<doc, holder, temp, path, onDisk, reader, acked>>

(* the document is removed before the rename *)
RemoveThenReplace(j) ==
  /\ pc[j] = "replace"
  /\ \/ /\ path' = temp[j]
        /\ onDisk' = onDisk \cup {Missing, temp[j]}
        /\ temp' = [temp EXCEPT ![j] = Missing]
        /\ Goto(j, "sync directory")
     \/ /\ path' = Missing
        /\ onDisk' = onDisk \cup {Missing}
        /\ Goto(j, "cleanup") /\ UNCHANGED temp
  /\ UNCHANGED <<doc, holder, reader, acked>>

(* a full disk is taken for success *)
WriteShort(j) ==
  /\ pc[j] = "write"
  /\ \E w \in BOOLEAN : Try(j, "sync", [temp[j] EXCEPT !.whole = w])
  /\ UNCHANGED <<doc, holder, path, onDisk, reader, acked>>

-----------------------------------------------------------------------------
(* load_state, load_watchlist, load_where_session: no lock. *)

(* os.path.exists: default_state() or FileNotFoundError if there is none,  *)
(* or if the file cannot be looked up                                      *)
Load(j) ==
  /\ pc[j] = "idle"
  /\ \/ loaded' = [loaded EXCEPT ![j] = Absent] /\ UNCHANGED pc
     \/ path # Missing /\ Goto(j, "open") /\ UNCHANGED loaded
  /\ UNCHANGED <<doc, holder, temp, path, onDisk, opened, acked>>

(* open: the file can be gone again by now, and the load raises *)
Open(j) ==
  /\ pc[j] = "open"
  /\ \/ path # Missing /\ opened' = [opened EXCEPT ![j] = path] /\ Goto(j, "read")
     \/ Goto(j, "idle") /\ UNCHANGED opened
  /\ UNCHANGED <<doc, holder, temp, path, onDisk, loaded, acked>>

(* json.load: the file that was opened, whatever has the name meanwhile *)
Read(j) ==
  /\ pc[j] = "read"
  /\ \/ loaded' = [loaded EXCEPT ![j] = Content(opened[j])]
     \/ UNCHANGED loaded
  /\ opened' = [opened EXCEPT ![j] = Missing]
  /\ Goto(j, "idle")
  /\ UNCHANGED <<doc, holder, temp, path, onDisk, acked>>

-----------------------------------------------------------------------------
(* atomic_write_json and delete_where_session *)

CallSave(j) ==
  /\ pc[j] = "idle"
  /\ \E d \in Docs : doc' = [doc EXCEPT ![j] = d]
  /\ Goto(j, "lock")
  /\ acked' = Absent
  /\ UNCHANGED <<holder, temp, path, onDisk, reader>>

CallDelete(j) ==
  /\ pc[j] = "idle"
  /\ doc' = [doc EXCEPT ![j] = Absent]
  /\ Goto(j, "lock")
  /\ acked' = Absent
  /\ UNCHANGED <<holder, temp, path, onDisk, reader>>

(* flock(LOCK_EX) on a lock file that is never removed; without the lock,  *)
(* if the directory or the lock file cannot be made, nothing is done       *)
Lock(j) ==
  /\ pc[j] = "lock"
  /\ \/ /\ holder = NoJob
        /\ holder' = j
        /\ Goto(j, IF doc[j] = Absent THEN "unlink" ELSE "make temp")
        /\ UNCHANGED doc
     \/ /\ Goto(j, "idle")
        /\ doc' = [doc EXCEPT ![j] = Absent]
        /\ UNCHANGED holder
  /\ UNCHANGED <<temp, path, onDisk, reader, acked>>

(* mkstemp: a name of its own in each call; it raises outside of the try *)
MakeTemp(j) ==
  /\ pc[j] = "make temp"
  /\ \/ /\ temp' = [temp EXCEPT ![j] = [doc |-> doc[j], whole |-> FALSE, synced |-> FALSE]]
        /\ Goto(j, "write")
     \/ UNCHANGED temp /\ Goto(j, "raise")
  /\ UNCHANGED <<doc, holder, path, onDisk, reader, acked>>

(* json.dump and flush *)
WriteTemp(j) ==
  /\ pc[j] = "write"
  /\ Try(j, "sync", [temp[j] EXCEPT !.whole = TRUE])
  /\ UNCHANGED <<doc, holder, path, onDisk, reader, acked>>

(* os.fsync of the file *)
SyncTemp(j) ==
  /\ pc[j] = "sync"
  /\ Try(j, "replace", [temp[j] EXCEPT !.synced = TRUE])
  /\ UNCHANGED <<doc, holder, path, onDisk, reader, acked>>

(* os.replace *)
Replace(j) ==
  /\ pc[j] = "replace"
  /\ \/ /\ path' = temp[j]
        /\ onDisk' = onDisk \cup {temp[j]}
        /\ temp' = [temp EXCEPT ![j] = Missing]
        /\ Goto(j, "sync directory")
     \/ Goto(j, "cleanup") /\ UNCHANGED <<path, onDisk, temp>>
  /\ UNCHANGED <<doc, holder, reader, acked>>

(* os.fsync of the directory; if it fails, the document has changed anyway *)
SyncDirectory(j) ==
  /\ pc[j] = "sync directory"
  /\ \/ onDisk' = {path} /\ Goto(j, "return")
     \/ UNCHANGED onDisk /\ Goto(j, "cleanup")
  /\ UNCHANGED <<doc, holder, temp, path, reader, acked>>

(* except: unlink the temporary file if it is still there, and raise; only *)
(* FileNotFoundError is passed over, so the file may well stay behind      *)
Cleanup(j) ==
  /\ pc[j] = "cleanup"
  /\ temp' \in {temp, [temp EXCEPT ![j] = Missing]}
  /\ Goto(j, "raise")
  /\ UNCHANGED <<doc, holder, path, onDisk, reader, acked>>

(* os.unlink of the document, which need not be there; nothing is synced *)
Unlink(j) ==
  /\ pc[j] = "unlink"
  /\ \/ path' = Missing /\ onDisk' = onDisk \cup {Missing}
     \/ UNCHANGED <<path, onDisk>>
  /\ Goto(j, "raise")
  /\ UNCHANGED <<doc, holder, temp, reader, acked>>

(* The lock is given back, on every way out.  The save is acknowledged;    *)
(* only the document of one that nobody competes with is known.            *)
Unlock(j) ==
  /\ pc[j] \in {"return", "raise"}
  /\ holder' = NoJob
  /\ acked' = IF pc[j] = "return" /\ \A k \in Jobs \ {j} : pc[k] \in {"idle", "open", "read"}
                THEN doc[j] ELSE acked
  /\ doc' = [doc EXCEPT ![j] = Absent]
  /\ Goto(j, "idle")
  /\ UNCHANGED <<temp, path, onDisk, reader>>

-----------------------------------------------------------------------------
(* The process of a job is gone: its lock with it, its temporary file not. *)
Stop(j) ==
  /\ pc[j] # "idle"
  /\ Goto(j, "idle")
  /\ holder' = IF holder = j THEN NoJob ELSE holder
  /\ doc' = [doc EXCEPT ![j] = Absent]
  /\ opened' = [opened EXCEPT ![j] = Missing]
  /\ UNCHANGED <<temp, path, onDisk, loaded, acked>>

(* What a power loss leaves of a file. *)
Survivors(file) ==
  IF file.synced THEN {file}
  ELSE {[file EXCEPT !.whole = w, !.synced = TRUE] : w \in {FALSE, file.whole}}

PowerLoss ==
  /\ path' \in UNION {Survivors(file) : file \in onDisk}
  /\ onDisk' = {path'}
  /\ pc' = [j \in Jobs |-> "idle"]
  /\ doc' = [j \in Jobs |-> Absent]
  /\ holder' = NoJob
  /\ opened' = [j \in Jobs |-> Missing]
  /\ loaded' = [j \in Jobs |-> Absent]
  /\ UNCHANGED <<temp, acked>>

Next ==
  \/ \E j \in Jobs :
       \/ Load(j) \/ Open(j) \/ Read(j)
       \/ CallSave(j) \/ CallDelete(j) \/ Lock(j)
       \/ MakeTemp(j) \/ WriteTemp(j) \/ SyncTemp(j) \/ Replace(j) \/ SyncDirectory(j)
       \/ Cleanup(j) \/ Unlink(j) \/ Unlock(j)
       \/ Stop(j)
  \/ PowerLoss

Spec == Init /\ [][Next]_vars

-----------------------------------------------------------------------------
(* Types, and what a reader gets is a whole document. *)
TypeOK ==
  /\ pc \in [Jobs -> {"idle", "open", "read", "lock", "make temp", "write", "sync", "replace",
                      "sync directory", "cleanup", "unlink", "return", "raise"}]
  /\ doc \in [Jobs -> Docs \cup {Absent}]
  /\ holder \in Jobs \cup {NoJob}
  /\ temp \in [Jobs -> File \cup {Missing}]
  /\ path \in File \cup {Missing}
  /\ onDisk \in SUBSET (File \cup {Missing})
  /\ opened \in [Jobs -> File \cup {Missing}]
  /\ loaded \in [Jobs -> Docs \cup {Absent}]
  /\ acked \in Docs \cup {Absent}

(* The file is a register that is read and written whole, through failed   *)
(* calls, stops and power losses: what load_state relies on when it parses *)
(* whatever has the name.                                                  *)
Register == INSTANCE AtomicRegister WITH
  Values <- Docs \cup {Absent},
  value <- Content(path),
  safe <- {Content(file) : file \in onDisk}
ImplementsRegister == Register!Spec

(* A save that returned is not lost, also if the power fails later, until  *)
(* somebody saves or deletes again.                                        *)
AckedSurvives ==
  acked # Absent => \A file \in onDisk \cup {path} : Survivors(file) = {file} /\ file.doc = acked

(* What has the document's name changes only while a job has the lock, and *)
(* then to the document that job was called with, whole: no save that      *)
(* fails half way, stops or meets another job's makes the document go      *)
(* missing, torn or another job's.  A power loss brings back nothing that  *)
(* has not had the name.                                                   *)
OnlyTheHolderChanges ==
  [][\A file \in onDisk' \cup {path'} :
       \/ file \in onDisk
       \/ holder \in Jobs /\ Content(file) = doc[holder]]_vars
=============================================================================
