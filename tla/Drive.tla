------------------------------- MODULE Drive --------------------------------
(***************************************************************************)
(* services/google-drive: the store is locked by each of its operations, but *)
(* handlers that read a file take it, read its content and write the answer  *)
(* in three steps, on an object that updates go on changing.  Contents are   *)
(* abstracted to their sizes.                                               *)
(***************************************************************************)
EXTENDS Integers, Sequences, SequencesExt

CONSTANTS
    Readers, Sizes, Friends, Permissions,
    MaxNodes, MaxVersions       \* bounds: ids given, versions of a file

ASSUME DriveAssumption == Sizes \subseteq Nat /\ MaxNodes \in Nat /\ MaxVersions \in Nat

Ids1 == 1 .. MaxNodes

VARIABLES
    driveSeq,
    files, folders,         \* ids that the maps hold
    file,                   \* file[i]: the object of file i, also after its deletion
    fileData,               \* fileData[i]: the versions of file i
    children,               \* folderChildren, of ids that need not be there
    reader,                 \* reader[r]: a call that reads a file
    changed                 \* history: readers whose file was updated or deleted meanwhile

driveVars == <<driveSeq, files, folders, file, fileData, children, reader, changed>>

NoFile == [size |-> 0, parent |-> 0, shared |-> {}]

DriveInit ==
    /\ driveSeq = 0 /\ files = {} /\ folders = {} /\ changed = {}
    /\ file = [i \in Ids1 |-> NoFile] /\ fileData = [i \in Ids1 |-> <<>>]
    /\ children = [i \in Ids1 |-> <<>>]
    /\ reader = [r \in Readers |-> [pc |-> "get", id |-> 0, content |-> 0, answer |-> <<>>]]

Adopt(parent, i) ==
    children' = IF parent = 0 THEN children ELSE [children EXCEPT ![parent] = Append(@, i)]

\* Nothing looks whether the parent exists; 0 stands for none.
CreateFile(parent, size) ==
    LET i == driveSeq + 1 IN
    /\ driveSeq < MaxNodes /\ driveSeq' = i
    /\ files' = files \cup {i} /\ Adopt(parent, i)
    /\ file' = [file EXCEPT ![i] = [size |-> size, parent |-> parent, shared |-> {}]]
    /\ fileData' = [fileData EXCEPT ![i] = <<[version |-> 1, size |-> size]>>]
    /\ UNCHANGED <<folders, reader, changed>>

CreateFolder(parent) ==
    /\ driveSeq < MaxNodes /\ driveSeq' = driveSeq + 1
    /\ folders' = folders \cup {driveSeq + 1} /\ Adopt(parent, driveSeq + 1)
    /\ UNCHANGED <<files, file, fileData, reader, changed>>

Disturb(i) == changed' = changed \cup {r \in Readers : reader[r].id = i /\ reader[r].pc \in {"content", "answer"}}

UpdateFile_SizeKept(i, size) ==
    /\ i \in files /\ Len(fileData[i]) < MaxVersions
    /\ fileData' = [fileData EXCEPT ![i] = Append(@, [version |-> Len(@) + 1, size |-> size])]
    /\ Disturb(i)
    /\ UNCHANGED <<driveSeq, files, folders, file, children, reader>>

UpdateFile(i, size) ==
    /\ i \in files /\ Len(fileData[i]) < MaxVersions
    /\ fileData' = [fileData EXCEPT ![i] = Append(@, [version |-> Len(@) + 1, size |-> size])]
    /\ file' = [file EXCEPT ![i].size = size]
    /\ Disturb(i)
    /\ UNCHANGED <<driveSeq, files, folders, children, reader>>

\* The id stays among the children of its folder.
DeleteFile(i) ==
    /\ i \in files /\ files' = files \ {i}
    /\ fileData' = [fileData EXCEPT ![i] = <<>>]
    /\ Disturb(i)
    /\ UNCHANGED <<driveSeq, folders, file, children, reader>>

ShareFile(i, friend, permission) ==
    /\ i \in files
    /\ file' = [file EXCEPT ![i].shared = {s \in @ : s[1] # friend} \cup {<<friend, permission>>}]
    /\ UNCHANGED <<driveSeq, files, folders, fileData, children, reader, changed>>

-----------------------------------------------------------------------------
(* GetFile and DownloadFile of the handler.                                  *)
GetFile(r, i) ==
    /\ reader[r].pc = "get" /\ i \in files
    /\ reader' = [reader EXCEPT ![r].pc = "content", ![r].id = i]
    /\ UNCHANGED <<driveSeq, files, folders, file, fileData, children, changed>>

\* A file that is gone by now has no content: the error is ignored, and the size is 0.
GetFileContent(r) ==
    LET versions == fileData[reader[r].id] IN
    /\ reader[r].pc = "content"
    /\ reader' = [reader EXCEPT ![r].pc = "answer",
                     ![r].content = IF versions = <<>> THEN 0 ELSE Last(versions).size]
    /\ UNCHANGED <<driveSeq, files, folders, file, fileData, children, changed>>

\* The object is read while the answer is written, without the lock.
AnswerFile(r) ==
    /\ reader[r].pc = "answer"
    /\ reader' = [reader EXCEPT ![r].pc = "answered",
                     ![r].answer = <<file[reader[r].id].size, reader[r].content>>]
    /\ UNCHANGED <<driveSeq, files, folders, file, fileData, children, changed>>

DriveNext ==
    \/ \E p \in {0} \cup Ids1 : CreateFolder(p) \/ \E s \in Sizes : CreateFile(p, s)
    \/ \E i \in Ids1 :
          \/ DeleteFile(i) \/ \E s \in Sizes : UpdateFile(i, s)
          \/ \E u \in Friends, p \in Permissions : ShareFile(i, u, p)
    \/ \E r \in Readers : GetFileContent(r) \/ AnswerFile(r) \/ \E i \in Ids1 : GetFile(r, i)

DriveSpec == DriveInit /\ [][DriveNext]_driveVars

\* Ids that are not there any more are passed over; the order is left out.
GetFolderChildren(i) == Range(children[i]) \cap (files \cup folders)

-----------------------------------------------------------------------------
DriveTypeOK ==
    /\ driveSeq \in 0 .. MaxNodes /\ files \subseteq 1 .. driveSeq /\ folders \subseteq 1 .. driveSeq
    /\ \A i \in Ids1 : /\ file[i].size \in Sizes \cup {0} /\ file[i].parent \in {0} \cup Ids1
                      /\ file[i].shared \subseteq Friends \X Permissions
                      /\ Range(children[i]) \subseteq Ids1
    /\ \A r \in Readers : /\ reader[r].pc \in {"get", "content", "answer", "answered"}
                         /\ reader[r].id \in {0} \cup Ids1
                         /\ reader[r].content \in Sizes \cup {0}
    /\ changed \subseteq Readers

\* The four maps tell one story: every file that is there has its versions, numbered in
\* order, the size of the last, and is listed by the folder it names; the two sizes a
\* reader is told differ only when the file was changed while it read.
DriveConsistent ==
    /\ files \cap folders = {}
    /\ \A i \in Ids1 : i \in files <=> fileData[i] # <<>>
    /\ \A i \in files :
          /\ \A v \in DOMAIN fileData[i] : fileData[i][v].version = v
          /\ file[i].size = Last(fileData[i]).size
          /\ file[i].parent # 0 => i \in GetFolderChildren(file[i].parent)
    /\ \A r \in Readers : reader[r].pc = "answered" /\ r \notin changed =>
          reader[r].answer[1] = reader[r].answer[2]
=============================================================================
