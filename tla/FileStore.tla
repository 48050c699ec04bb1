----------------------------- MODULE FileStore -----------------------------
(***************************************************************************)
(* The file manager of internal/file/manager.go: files received in chunks  *)
(* under a session, and files saved at once, in one directory, with two    *)
(* JSON files that a restart reads back.  The cache of chunk data is only  *)
(* in memory.                                                              *)
(*                                                                         *)
(* Every session is for a file of the same name, the first of Names; the   *)
(* others are the names that generateUniqueName makes of it.               *)
(***************************************************************************)
EXTENDS Naturals, FiniteSets, FiniteSetsExt

CONSTANTS Session,   \* the session identifiers
          Total,     \* the chunks of a file
          NameCount, \* bound: names
          MaxExtra,  \* bound: chunks received beyond the Total of a session
          MaxCrashes \* bound: restarts

ASSUME FileStoreAssumption ==
  /\ Total \in Nat \ {0} /\ NameCount \in Nat \ {0}
  /\ MaxExtra \in Nat /\ MaxCrashes \in Nat
  /\ Session \cap {"user", "nobody"} = {}

Part == 0..Total - 1
Names == 1..NameCount
OriginalName == 1

VARIABLES sessions, \* sessions: state, chunks seen, chunks counted
          cache,    \* chunkCache: the data of each chunk
          files,    \* files: what each name is believed to hold
          onDisk,   \* what it does hold
          savedSessions, savedFiles, \* sessions.json and files.json
          crashes

fileStoreVars == <<sessions, cache, files, onDisk, savedSessions, savedFiles, crashes>>

NoSession == [status |-> "none", seen |-> {}, received |-> 0]
NoFile == [from |-> "nobody", data |-> "none"]
Saved == [from |-> "user", data |-> "right"]

EmptyCache == [s \in Session |-> [i \in Part |-> "none"]]

FileStoreInit ==
  /\ sessions = [s \in Session |-> NoSession] /\ savedSessions = sessions
  /\ files = [n \in Names |-> NoFile] /\ savedFiles = files /\ onDisk = files
  /\ cache = EmptyCache
  /\ crashes = 0

(* Mutant: a file is written over the one of the same name. *)
SameName == OriginalName

(* generateUniqueName: the first name that is not in the table *)
UniqueName == Min({n \in Names : files[n] = NoFile} \cup {NameCount + 1})

SaveFile ==
  /\ UniqueName \in Names
  /\ onDisk' = [onDisk EXCEPT ![UniqueName] = Saved]
  /\ files' = [files EXCEPT ![UniqueName] = Saved] /\ savedFiles' = files'
  /\ UNCHANGED <<sessions, cache, savedSessions, crashes>>

(* a session of the same identifier is replaced; its cached chunks are not *)
CreateSession(s) ==
  /\ sessions' = [sessions EXCEPT ![s] = [NoSession EXCEPT !.status = "active"]]
  /\ savedSessions' = sessions'
  /\ UNCHANGED <<cache, files, onDisk, savedFiles, crashes>>

(* assembleFile: the chunks in order into a temporary file, its checksum, and
   a rename over whatever has the name; files.json is not written *)
Assembly(s, data) ==
  [from |-> s, data |-> IF \A i \in Part : data[i] = "right" THEN "right" ELSE "wrong"]

Assemble(s, data) ==
  /\ onDisk' = [onDisk EXCEPT ![OriginalName] = Assembly(s, data)]
  /\ files' = [files EXCEPT ![OriginalName] = Assembly(s, data)]
  /\ cache' = [cache EXCEPT ![s] = [i \in Part |-> "none"]]

(* no chunk is missing, and the checksum is the announced one *)
Assembles(s, seen, data) ==
  /\ \A i \in Part : i \in seen /\ data[i] # "none"
  /\ Assembly(s, data).data = "right"

(* SaveFileChunk: every chunk counts, a repeated one too; when the count is
   reached the file is assembled, and the sessions are saved unless that
   failed.  The data is right or not: only its own checksum is verified. *)
SaveFileChunk(s, i, d) ==
  LET session == sessions[s]
      seen == session.seen \cup {i}
      data == [cache[s] EXCEPT ![i] = d]
      count == session.received + 1
      full == count >= Total
  IN  /\ session.status # "none" /\ count <= Total + MaxExtra
      /\ sessions' = [sessions EXCEPT ![s] = [status |-> IF full THEN "completed" ELSE session.status,
                                              seen |-> seen, received |-> count]]
      /\ IF full /\ Assembles(s, seen, data)
           THEN Assemble(s, data)
           ELSE cache' = [cache EXCEPT ![s] = data] /\ UNCHANGED <<files, onDisk>>
      /\ savedSessions' = IF full /\ ~Assembles(s, seen, data) THEN savedSessions ELSE sessions'
      /\ UNCHANGED <<savedFiles, crashes>>

DeleteFile(n) ==
  /\ onDisk[n] # NoFile
  /\ onDisk' = [onDisk EXCEPT ![n] = NoFile]
  /\ files' = [files EXCEPT ![n] = NoFile] /\ savedFiles' = files'
  /\ UNCHANGED <<sessions, cache, savedSessions, crashes>>

(* NewManager after the process ended, perhaps while SaveFile was writing:
   loadFileInfo, loadSessions *)
Restart ==
  /\ crashes < MaxCrashes /\ crashes' = crashes + 1
  /\ \/ UNCHANGED onDisk
     \/ UniqueName \in Names /\ onDisk' = [onDisk EXCEPT ![UniqueName] = [Saved EXCEPT !.data = "wrong"]]
  /\ files' = savedFiles /\ sessions' = savedSessions
  /\ cache' = EmptyCache
  /\ UNCHANGED <<savedSessions, savedFiles>>

FileStoreNext ==
  \/ SaveFile \/ Restart
  \/ \E s \in Session : \/ CreateSession(s)
                        \/ \E i \in Part, d \in {"right", "wrong"} : SaveFileChunk(s, i, d)
  \/ \E n \in Names : DeleteFile(n)

FileStoreSpec == FileStoreInit /\ [][FileStoreNext]_fileStoreVars

-----------------------------------------------------------------------------
Table == [status : {"none", "active", "completed"}, seen : SUBSET Part,
          received : 0..Total + MaxExtra]
FileContent == [from : Session \cup {"user", "nobody"}, data : {"none", "right", "wrong"}]

FileStoreTypeOK ==
  /\ sessions \in [Session -> Table] /\ savedSessions \in [Session -> Table]
  /\ cache \in [Session -> [Part -> {"none", "right", "wrong"}]]
  /\ files \in [Names -> FileContent] /\ onDisk \in [Names -> FileContent]
  /\ savedFiles \in [Names -> FileContent]
  /\ crashes \in 0..MaxCrashes

(* Every file that the table lists, and every assembled file, is whole: neither
   repeated chunks that count twice, a reused session, wrong data, nor a restart
   that forgets the cached chunks, leaves a file with a hole under its final
   name, and a write that a crash cuts short never hits a listed file, although
   names are chosen by the table and not by the directory (SaveFileChunk,
   assembleFile, SaveFile, loadFileInfo). *)
FilesAreWhole ==
  \A n \in Names : files[n] # NoFile \/ onDisk[n].from \in Session => onDisk[n].data = "right"

(* A name that SaveFile gives is "unique": it does not replace a stored file.
   After a restart it may, for an assembled file is not in files.json. *)
UniqueNameIsFree ==
  [][\A n \in Names : onDisk[n].from \in Session => onDisk'[n].from # "user"]_fileStoreVars
=============================================================================
